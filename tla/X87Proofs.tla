----------------------------- MODULE X87Proofs -----------------------------
(* Theorems about X87 for every number of registers, and so for eight: the   *)
(* state is well formed, and except for FYL2X's operand the translated       *)
(* instructions implement the stack of FpuStack.                             *)
EXTENDS X87, TLAPS

----------------------------------------------------------------------------
(* Where registers are.                                                      *)

LEMMA WrapIdx == ASSUME NEW k \in Nat, k < 2 * N PROVE Wrap(k) \in Idx
BY X87Assumption DEF Wrap, Idx

LEMMA RegIdx == ASSUME NEW s \in States, NEW i \in Idx PROVE Reg(s, i) \in Idx
<1>1. s.top \in Idx
  BY DEF States
<1>2. s.top + i \in Nat /\ s.top + i < 2 * N
  BY <1>1, X87Assumption DEF Idx
<1> QED
  BY <1>2, WrapIdx DEF Reg

\* ST(i) and ST(j) are different registers.
LEMMA RegApart ==
  ASSUME NEW s \in States, NEW i \in Idx, NEW j \in Idx, Reg(s, i) = Reg(s, j)
  PROVE  i = j
<1>1. s.top \in Idx
  BY DEF States
<1> QED
  BY <1>1, X87Assumption DEF Idx, Reg, Wrap

\* Moving TOP by one up or down renames the registers.
LEMMA MoveUp ==
  ASSUME NEW s \in States
  PROVE  /\ Move(s, 1) \in States
         /\ \A i \in Idx : Reg(Move(s, 1), i) = Reg(s, IF i = N - 1 THEN 0 ELSE i + 1)
         /\ Move(s, 1).used = s.used /\ Move(s, 1).slot = s.slot
<1>1. s.top \in Idx
  BY DEF States
<1>2. Wrap(s.top + 1) \in Idx
  BY <1>1, X87Assumption DEF Idx, Wrap
<1>3. Move(s, 1) \in States /\ Move(s, 1).top = Wrap(s.top + 1)
  BY <1>2 DEF Move, States
<1>4. ASSUME NEW i \in Idx
      PROVE  Wrap(Wrap(s.top + 1) + i) = Wrap(s.top + (IF i = N - 1 THEN 0 ELSE i + 1))
  BY <1>1, X87Assumption DEF Idx, Wrap
<1> QED
  BY <1>3, <1>4 DEF Move, Reg, States

LEMMA MoveDown ==
  ASSUME NEW s \in States
  PROVE  /\ Move(s, N - 1) \in States
         /\ \A i \in Idx : Reg(Move(s, N - 1), i) = Reg(s, IF i = 0 THEN N - 1 ELSE i - 1)
         /\ Move(s, N - 1).used = s.used /\ Move(s, N - 1).slot = s.slot
<1>1. s.top \in Idx
  BY DEF States
<1>2. Wrap(s.top + (N - 1)) \in Idx
  BY <1>1, X87Assumption DEF Idx, Wrap
<1>3. Move(s, N - 1) \in States /\ Move(s, N - 1).top = Wrap(s.top + (N - 1))
  BY <1>2 DEF Move, States
<1>4. ASSUME NEW i \in Idx
      PROVE  Wrap(Wrap(s.top + (N - 1)) + i) = Wrap(s.top + (IF i = 0 THEN N - 1 ELSE i - 1))
  BY <1>1, X87Assumption DEF Idx, Wrap
<1> QED
  BY <1>3, <1>4 DEF Move, Reg, States

----------------------------------------------------------------------------
(* What the guest sees of each change.                                       *)

LEMMA SeenAt ==
  ASSUME NEW s \in States, NEW i \in Idx
  PROVE  /\ Seen(s)[i] = IF Tag(s, i) THEN Get(s, i) ELSE Empty
         /\ Tag(s, i) \in BOOLEAN /\ Get(s, i) \in Values
         /\ Tag(s, i) <=> Seen(s)[i] # Empty
         /\ Tag(s, i) => Seen(s)[i] = Get(s, i)
<1>1. Tag(s, i) \in BOOLEAN /\ Get(s, i) \in Values
  BY RegIdx DEF Tag, Get, States
<1>2. Seen(s)[i] = IF Tag(s, i) THEN Get(s, i) ELSE Empty
  BY DEF Seen
<1> QED
  BY <1>1, <1>2, X87Assumption

LEMMA SeenSet ==
  ASSUME NEW s \in States, NEW i \in Idx, NEW v \in Values
  PROVE  /\ Set(s, i, v) \in States
         /\ \A j \in Idx : Tag(Set(s, i, v), j) = Tag(s, j)
         /\ \A j \in Idx : Get(Set(s, i, v), j) = IF j = i THEN v ELSE Get(s, j)
         /\ Tag(s, i) => Seen(Set(s, i, v)) = [Seen(s) EXCEPT ![i] = v]
<1> DEFINE t == Set(s, i, v)
<1>1. Reg(s, i) \in Idx
  BY RegIdx
<1>2. t \in States /\ t.top = s.top /\ t.used = s.used
      /\ t.slot = [s.slot EXCEPT ![Reg(s, i)] = v]
  BY <1>1 DEF Set, States
<1>3. \A j \in Idx : Reg(t, j) = Reg(s, j)
  BY <1>2 DEF Reg
<1>4. \A j \in Idx : Tag(t, j) = Tag(s, j)
  BY <1>2, <1>3 DEF Tag
<1>5. ASSUME NEW j \in Idx PROVE Get(t, j) = IF j = i THEN v ELSE Get(s, j)
  <2>1. s.slot \in [Idx -> Values] /\ Reg(s, j) \in Idx
    BY RegIdx DEF States
  <2>2. j # i => Reg(s, j) # Reg(s, i)
    BY RegApart
  <2> QED
    BY <1>1, <1>2, <1>3, <2>1, <2>2 DEF Get
<1>6. Tag(s, i) => Seen(t) = [Seen(s) EXCEPT ![i] = v]
  BY <1>4, <1>5 DEF Seen
<1> QED
  BY <1>2, <1>4, <1>5, <1>6

LEMMA SeenSetTag ==
  ASSUME NEW s \in States, NEW i \in Idx, NEW u \in BOOLEAN
  PROVE  /\ SetTag(s, i, u) \in States
         /\ \A j \in Idx : Get(SetTag(s, i, u), j) = Get(s, j)
         /\ \A j \in Idx : Tag(SetTag(s, i, u), j) = IF j = i THEN u ELSE Tag(s, j)
<1> DEFINE t == SetTag(s, i, u)
<1>1. Reg(s, i) \in Idx
  BY RegIdx
<1>2. t \in States /\ t.top = s.top /\ t.slot = s.slot
      /\ t.used = [s.used EXCEPT ![Reg(s, i)] = u]
  BY <1>1 DEF SetTag, States
<1>3. \A j \in Idx : Reg(t, j) = Reg(s, j)
  BY <1>2 DEF Reg
<1>4. \A j \in Idx : Get(t, j) = Get(s, j)
  BY <1>2, <1>3 DEF Get
<1>5. ASSUME NEW j \in Idx PROVE Tag(t, j) = IF j = i THEN u ELSE Tag(s, j)
  <2>1. s.used \in [Idx -> BOOLEAN] /\ Reg(s, j) \in Idx
    BY RegIdx DEF States
  <2>2. j # i => Reg(s, j) # Reg(s, i)
    BY RegApart
  <2> QED
    BY <1>1, <1>2, <1>3, <2>1, <2>2 DEF Tag
<1> QED
  BY <1>2, <1>4, <1>5

LEMMA SeenPop ==
  ASSUME NEW s \in States
  PROVE  /\ Pop(s) \in States
         /\ Seen(Pop(s)) = Promised!Pop(Seen(s))
         /\ \A i \in Idx : Get(Pop(s), i) = Get(s, IF i = N - 1 THEN 0 ELSE i + 1)
<1> DEFINE t == SetTag(s, 0, FALSE)
           up(i) == IF i = N - 1 THEN 0 ELSE i + 1
<1>1. 0 \in Idx /\ \A i \in Idx : up(i) \in Idx /\ (i # N - 1 => up(i) # 0)
  BY X87Assumption DEF Idx
<1>2. /\ t \in States
      /\ \A j \in Idx : Get(t, j) = Get(s, j)
      /\ \A j \in Idx : Tag(t, j) = IF j = 0 THEN FALSE ELSE Tag(s, j)
  BY <1>1, SeenSetTag
<1>3. /\ Move(t, 1) \in States
      /\ \A i \in Idx : Reg(Move(t, 1), i) = Reg(t, up(i))
      /\ Move(t, 1).used = t.used /\ Move(t, 1).slot = t.slot
  BY <1>2, MoveUp
<1>4. Pop(s) = Move(t, 1)
  BY DEF Pop
<1>5. ASSUME NEW i \in Idx
      PROVE  Get(Pop(s), i) = Get(t, up(i)) /\ Tag(Pop(s), i) = Tag(t, up(i))
  BY <1>3, <1>4 DEF Get, Tag
<1>6. ASSUME NEW i \in Idx PROVE Seen(Pop(s))[i] = Promised!Pop(Seen(s))[i]
  <2>1. Promised!Pop(Seen(s))[i] = IF i = N - 1 THEN Empty ELSE Seen(s)[i + 1]
    BY DEF Promised!Pop, Promised!Idx, Idx
  <2>2. Seen(Pop(s))[i] = IF Tag(t, up(i)) THEN Get(t, up(i)) ELSE Empty
    BY <1>5 DEF Seen
  <2>3. CASE i = N - 1
    BY <1>1, <1>2, <2>1, <2>2, <2>3
  <2>4. CASE i # N - 1
    <3>1. up(i) \in Idx /\ up(i) # 0 /\ up(i) = i + 1
      BY <1>1, <2>4
    <3>2. Tag(t, up(i)) = Tag(s, up(i)) /\ Get(t, up(i)) = Get(s, up(i))
      BY <1>2, <3>1
    <3>3. Seen(s)[up(i)] = IF Tag(s, up(i)) THEN Get(s, up(i)) ELSE Empty
      BY <3>1 DEF Seen
    <3> QED
      BY <2>1, <2>2, <2>4, <3>1, <3>2, <3>3
  <2> QED
    BY <2>3, <2>4
<1>7. Seen(Pop(s)) = [i \in Idx |-> Seen(Pop(s))[i]]
      /\ Promised!Pop(Seen(s)) = [i \in Idx |-> Promised!Pop(Seen(s))[i]]
  BY DEF Seen, Promised!Pop, Promised!Idx, Idx
<1> QED
  BY <1>1, <1>2, <1>3, <1>4, <1>5, <1>6, <1>7

LEMMA SeenPush ==
  ASSUME NEW s \in States, NEW v \in Values
  PROVE  /\ Push(s, v) \in States
         /\ Overflow(s) = Promised!Overflow(Seen(s))
         /\ Overflow(s) \in BOOLEAN
         /\ Seen(Push(s, v)) = Promised!Push(Seen(s), v)
<1> DEFINE w == IF Overflow(s) THEN Indefinite ELSE v
           t == SetTag(s, N - 1, TRUE)
           r == Set(t, N - 1, w)
           down(i) == IF i = 0 THEN N - 1 ELSE i - 1
<1>1. N - 1 \in Idx /\ \A i \in Idx : down(i) \in Idx /\ (i # 0 => down(i) # N - 1)
  BY X87Assumption DEF Idx
<1>2. w \in Values
  BY DEF Values
<1>3. /\ t \in States
      /\ \A j \in Idx : Get(t, j) = Get(s, j)
      /\ \A j \in Idx : Tag(t, j) = IF j = N - 1 THEN TRUE ELSE Tag(s, j)
  BY <1>1, SeenSetTag
<1>4. /\ r \in States
      /\ \A j \in Idx : Tag(r, j) = Tag(t, j)
      /\ \A j \in Idx : Get(r, j) = IF j = N - 1 THEN w ELSE Get(t, j)
  <2> HIDE DEF t, w
  <2> QED
    BY <1>1, <1>2, <1>3, SeenSet
<1>5. /\ Move(r, N - 1) \in States
      /\ \A i \in Idx : Reg(Move(r, N - 1), i) = Reg(r, down(i))
      /\ Move(r, N - 1).used = r.used /\ Move(r, N - 1).slot = r.slot
  <2> HIDE DEF r
  <2> QED
    BY <1>4, MoveDown
<1>6. Push(s, v) = Move(r, N - 1)
  BY DEF Push
<1>7. ASSUME NEW i \in Idx
      PROVE  Get(Push(s, v), i) = Get(r, down(i)) /\ Tag(Push(s, v), i) = Tag(r, down(i))
  <2> HIDE DEF r
  <2> QED
    BY <1>5, <1>6 DEF Get, Tag
<1>8. Overflow(s) = (Seen(s)[N - 1] # Empty) /\ Overflow(s) \in BOOLEAN
  BY <1>1, SeenAt DEF Overflow
<1>9. Overflow(s) = Promised!Overflow(Seen(s))
  BY <1>8 DEF Promised!Overflow
<1>10. ASSUME NEW i \in Idx PROVE Seen(Push(s, v))[i] = Promised!Push(Seen(s), v)[i]
  <2>1. Promised!Push(Seen(s), v)[i] =
          IF i # 0 THEN Seen(s)[i - 1] ELSE w
    BY <1>9 DEF Promised!Push, Promised!Idx, Idx
  <2>2. Seen(Push(s, v))[i] = IF Tag(r, down(i)) THEN Get(r, down(i)) ELSE Empty
    BY <1>7 DEF Seen
  <2>3. CASE i = 0
    <3>1. down(i) = N - 1 /\ Tag(r, N - 1) /\ Get(r, N - 1) = w
      BY <1>1, <1>3, <1>4, <2>3
    <3> QED
      BY <2>1, <2>2, <2>3, <3>1
  <2>4. CASE i # 0
    <3>1. down(i) \in Idx /\ down(i) # N - 1 /\ down(i) = i - 1
      BY <1>1, <2>4
    <3>2. Tag(r, down(i)) = Tag(s, down(i)) /\ Get(r, down(i)) = Get(s, down(i))
      BY <1>3, <1>4, <3>1
    <3>3. Seen(s)[down(i)] = IF Tag(s, down(i)) THEN Get(s, down(i)) ELSE Empty
      BY <3>1 DEF Seen
    <3> QED
      BY <2>1, <2>2, <2>4, <3>1, <3>2, <3>3
  <2> QED
    BY <2>3, <2>4
<1>11. Seen(Push(s, v)) = [i \in Idx |-> Seen(Push(s, v))[i]]
       /\ Promised!Push(Seen(s), v) = [i \in Idx |-> Promised!Push(Seen(s), v)[i]]
  BY DEF Seen, Promised!Push, Promised!Idx, Idx
<1> QED
  BY <1>5, <1>6, <1>8, <1>9, <1>10, <1>11

----------------------------------------------------------------------------
(* One lemma for each instruction, or for instructions that differ in where  *)
(* their operands come from: the step is one that FpuStack allows.           *)

LEMMA SeenNow == st = Seen(x) /\ st' = Seen(x')
BY DEF st

LEMMA Functions ==
  /\ \A f \in Unary, a \in Values : f[a] \in Values
  /\ \A f \in Binary, a, b \in Values : f[<<a, b>>] \in Values
BY X87Assumption

LEMMA Loaded ==
  ASSUME NEW v \in Values, x \in States, Load(v)
  PROVE  x' \in States /\ Promised!Load(v)
<1>1. /\ x' \in States
      /\ c1' = Promised!Overflow(st)
      /\ st' = Promised!Push(st, v)
  BY SeenPush, SeenNow DEF Load
<1> QED
  BY <1>1 DEF Load, Keep, Promised!Load, Promised!Keep

LEMMA FldStep == ASSUME x \in States, Fld PROVE x' \in States /\ Promised!Fld
BY Loaded DEF Fld, Is, Promised!Fld, Promised!Is, Promised!Values, Values

LEMMA FldRegStep == ASSUME x \in States, FldReg PROVE x' \in States /\ Promised!FldReg
<1>1. PICK i \in Idx : Is(<<"fld st", i>>) /\ Tag(x, i) /\ Load(Get(x, i))
  BY DEF FldReg, Reads
<1>2. Get(x, i) \in Values /\ st[i] = Get(x, i) /\ Promised!Full(i)
  BY <1>1, SeenAt, SeenNow DEF Promised!Full
<1>3. x' \in States /\ Promised!Load(st[i])
  BY <1>1, <1>2, Loaded
<1> QED
  BY <1>1, <1>2, <1>3 DEF Is, Promised!FldReg, Promised!Is, Promised!Idx, Idx

LEMMA SeenPopIf ==
  ASSUME NEW s \in States, NEW pop \in BOOLEAN
  PROVE  PopIf(s, pop) \in States /\ Seen(PopIf(s, pop)) = Promised!PopIf(Seen(s), pop)
BY SeenPop DEF PopIf, Promised!PopIf

\* Arithmetic marks a register as used that is used.
LEMMA SeenComputed ==
  ASSUME NEW s \in States, NEW i \in Idx, NEW v \in Values, Tag(s, i)
  PROVE  /\ SetTag(Set(s, i, v), i, TRUE) \in States
         /\ Seen(SetTag(Set(s, i, v), i, TRUE)) = [Seen(s) EXCEPT ![i] = v]
<1> DEFINE t == Set(s, i, v)
<1>1. /\ t \in States
      /\ \A j \in Idx : Tag(t, j) = Tag(s, j)
      /\ Seen(t) = [Seen(s) EXCEPT ![i] = v]
  BY SeenSet
<1> HIDE DEF t
<1>2. /\ SetTag(t, i, TRUE) \in States
      /\ \A j \in Idx : Get(SetTag(t, i, TRUE), j) = Get(t, j)
      /\ \A j \in Idx : Tag(SetTag(t, i, TRUE), j) = IF j = i THEN TRUE ELSE Tag(t, j)
  BY <1>1, SeenSetTag
<1>3. Tag(t, i) = TRUE
  BY <1>1, SeenAt
<1>4. Seen(SetTag(t, i, TRUE)) = Seen(t)
  BY <1>2, <1>3 DEF Seen
<1> QED
  BY <1>1, <1>2, <1>4 DEF t

\* What a step that reads ST(i) finds there.
LEMMA ReadsOne ==
  ASSUME x \in States, NEW i \in Idx, Tag(x, i)
  PROVE  Get(x, i) \in Values /\ st[i] = Get(x, i) /\ Promised!Full(i)
BY SeenAt, SeenNow DEF Promised!Full

LEMMA First == 0 \in Idx /\ 1 \in Idx /\ N - 1 \in Idx /\ N # 1 /\ N - 1 # 0
BY X87Assumption DEF Idx

LEMMA FstStep ==
  ASSUME x \in States, c1 \in BOOLEAN, Fst
  PROVE  x' \in States /\ out' \in Values /\ Promised!Fst
<1>1. PICK pop \in BOOLEAN, f \in Unary :
         /\ Is(<<"fst", pop, f>>) /\ Tag(x, 0)
         /\ out' = f[Get(x, 0)] /\ x' = PopIf(x, pop)
         /\ c1' \in {c1, FALSE} /\ cc' = cc
  BY DEF Fst, Reads
<1>2. Get(x, 0) \in Values /\ st[0] = Get(x, 0) /\ Promised!Full(0)
  BY <1>1, First, ReadsOne
<1>3. x' \in States /\ st' = Promised!PopIf(st, pop)
  BY <1>1, SeenPopIf, SeenNow
<1> QED
  BY <1>1, <1>2, <1>3, Functions DEF Is, Promised!Fst, Promised!Is

LEMMA FstRegStep == ASSUME x \in States, c1 \in BOOLEAN, FstReg PROVE x' \in States /\ Promised!FstReg
<1>1. PICK pop \in BOOLEAN, i \in Idx :
         /\ Is(<<"fst st", pop, i>>) /\ Tag(x, 0) /\ Tag(x, i)
         /\ x' = PopIf(Set(x, i, Get(x, 0)), pop)
         /\ c1' = c1 /\ Keep
  BY DEF FstReg, Reads
<1>2. Get(x, 0) \in Values /\ st[0] = Get(x, 0) /\ Promised!Full(0) /\ Promised!Full(i)
  BY <1>1, First, ReadsOne
<1>3. Set(x, i, Get(x, 0)) \in States /\ Seen(Set(x, i, Get(x, 0))) = [st EXCEPT ![i] = st[0]]
  <2>0. Tag(x, i) = TRUE
    BY <1>1, SeenAt
  <2>1. Set(x, i, Get(x, 0)) \in States
        /\ Seen(Set(x, i, Get(x, 0))) = [Seen(x) EXCEPT ![i] = Get(x, 0)]
    BY <1>2, <2>0, SeenSet
  <2> QED
    BY <1>2, <2>1, SeenNow
<1>4. x' \in States /\ st' = Promised!PopIf([st EXCEPT ![i] = st[0]], pop)
  BY <1>1, <1>3, SeenPopIf, SeenNow
<1> QED
  BY <1>1, <1>2, <1>4 DEF Is, Keep, Promised!FstReg, Promised!Is, Promised!Keep, Promised!Idx, Idx

LEMMA FxchStep == ASSUME x \in States, Fxch PROVE x' \in States /\ Promised!Fxch
<1>1. PICK i \in Idx :
         /\ Is(<<"fxch", i>>) /\ Tag(x, 0) /\ Tag(x, i)
         /\ x' = SetTag(SetTag(Set(Set(x, 0, Get(x, i)), i, Get(x, 0)), 0, Tag(x, i)), i, Tag(x, 0))
         /\ c1' = FALSE /\ Keep
  BY DEF Fxch, Reads
<1> DEFINE a == Get(x, 0)
           b == Get(x, i)
           s == Set(x, 0, b)
           t == Set(s, i, a)
           u == SetTag(t, 0, TRUE)
           v == SetTag(u, i, TRUE)
<1>2. /\ a \in Values /\ st[0] = a /\ Promised!Full(0)
      /\ b \in Values /\ st[i] = b /\ Promised!Full(i)
  BY <1>1, First, ReadsOne
<1>3. Tag(x, 0) = TRUE /\ Tag(x, i) = TRUE
  BY <1>1, First, SeenAt
<1>4. x' = v
  BY <1>1, <1>3
<1>5. s \in States /\ Seen(s) = [st EXCEPT ![0] = b] /\ Tag(s, 0) /\ Tag(s, i)
  <2> HIDE DEF b
  <2>1. s \in States /\ Seen(s) = [Seen(x) EXCEPT ![0] = b]
    BY <1>2, <1>3, First, SeenSet
  <2>2. Tag(s, 0) = Tag(x, 0) /\ Tag(s, i) = Tag(x, i)
    BY <1>2, First, SeenSet
  <2> QED
    BY <1>3, <2>1, <2>2, SeenNow
<1>6. t \in States /\ Seen(t) = [Seen(s) EXCEPT ![i] = a] /\ Tag(t, 0) = TRUE /\ Tag(t, i) = TRUE
  <2> HIDE DEF s, a, b
  <2>1. /\ t \in States /\ \A j \in Idx : Tag(t, j) = Tag(s, j)
        /\ Seen(t) = [Seen(s) EXCEPT ![i] = a]
    BY <1>2, <1>5, SeenSet
  <2>2. Tag(t, 0) \in BOOLEAN /\ Tag(t, i) \in BOOLEAN
    BY <2>1, First, SeenAt
  <2> QED
    BY <1>5, <2>1, <2>2, First
<1>7. v \in States /\ Seen(v) = Seen(t)
  <2> HIDE DEF t
  <2>1. /\ u \in States
        /\ \A j \in Idx : Get(u, j) = Get(t, j)
        /\ \A j \in Idx : Tag(u, j) = IF j = 0 THEN TRUE ELSE Tag(t, j)
    BY <1>6, First, SeenSetTag
  <2> HIDE DEF u
  <2>2. /\ v \in States
        /\ \A j \in Idx : Get(v, j) = Get(u, j)
        /\ \A j \in Idx : Tag(v, j) = IF j = i THEN TRUE ELSE Tag(u, j)
    BY <2>1, SeenSetTag
  <2> HIDE DEF v
  <2> QED
    BY <1>6, <2>1, <2>2 DEF Seen
<1> HIDE DEF a, b, s, t, u, v
<1>8. x' \in States /\ st' = [st EXCEPT ![0] = st[i], ![i] = st[0]]
  BY <1>2, <1>4, <1>5, <1>6, <1>7, SeenNow
<1> QED
  BY <1>1, <1>2, <1>8 DEF Is, Keep, Promised!Fxch, Promised!Is, Promised!Keep, Promised!Idx, Idx

LEMMA FcmovStep == ASSUME x \in States, c1 \in BOOLEAN, Fcmov PROVE x' \in States /\ Promised!Fcmov
<1> DEFINE moved(i, cond) == Set(x, 0, IF cond THEN Get(x, i) ELSE Get(x, 0))
<1>1. PICK i \in Idx, cond \in BOOLEAN :
         /\ Is(<<"fcmov", i, cond>>) /\ Tag(x, 0) /\ Tag(x, i)
         /\ x' = SetTag(moved(i, cond), 0,
                        IF cond THEN Tag(moved(i, cond), i) ELSE Tag(moved(i, cond), 0))
         /\ c1' = c1 /\ Keep
  BY DEF Fcmov, Reads
<1> DEFINE v == IF cond THEN Get(x, i) ELSE Get(x, 0)
<1>2. /\ Get(x, 0) \in Values /\ st[0] = Get(x, 0) /\ Promised!Full(0)
      /\ Get(x, i) \in Values /\ st[i] = Get(x, i) /\ Promised!Full(i)
  BY <1>1, First, ReadsOne
<1>3. v \in Values /\ v = IF cond THEN st[i] ELSE st[0]
  BY <1>2
<1>4. Tag(moved(i, cond), i) = TRUE /\ Tag(moved(i, cond), 0) = TRUE
  <2>1. \A j \in Idx : Tag(Set(x, 0, v), j) = Tag(x, j)
    BY <1>3, First, SeenSet
  <2> QED
    BY <1>1, <2>1, First, SeenAt
<1>5. x' = SetTag(Set(x, 0, v), 0, TRUE)
  BY <1>1, <1>4
<1> HIDE DEF v
<1>6. x' \in States /\ Seen(x') = [Seen(x) EXCEPT ![0] = v]
  <2>1. Tag(x, 0) = TRUE
    BY <1>1, First, SeenAt
  <2> QED
    BY <1>3, <1>5, <2>1, First, SeenComputed
<1>7. st' = [st EXCEPT ![0] = v]
  BY <1>6, SeenNow
<1> QED
  BY <1>1, <1>2, <1>3, <1>6, <1>7
  DEF Is, Keep, Promised!Fcmov, Promised!Is, Promised!Keep, Promised!Idx, Idx

LEMMA ArithStep == ASSUME x \in States, c1 \in BOOLEAN, Arith PROVE x' \in States /\ Promised!Arith
<1>1. PICK f \in Binary, v \in Values :
         /\ Is(<<"arith", f, v>>) /\ Tag(x, 0)
         /\ x' = Computed(0, f[<<Get(x, 0), v>>]) /\ c1' = c1 /\ Keep
  BY DEF Arith, Reads
<1>2. Get(x, 0) \in Values /\ st[0] = Get(x, 0) /\ Promised!Full(0) /\ Tag(x, 0) = TRUE
  BY <1>1, First, ReadsOne, SeenAt
<1> DEFINE res == f[<<Get(x, 0), v>>]
<1>3. res \in Values /\ res = f[<<st[0], v>>]
  BY <1>2, Functions
<1>4. x' = SetTag(Set(x, 0, res), 0, TRUE)
  BY <1>1 DEF Computed
<1> HIDE DEF res
<1>5. x' \in States /\ Seen(x') = [Seen(x) EXCEPT ![0] = res]
  BY <1>2, <1>3, <1>4, First, SeenComputed
<1>6. st' = [st EXCEPT ![0] = f[<<st[0], v>>]]
  BY <1>3, <1>5, SeenNow
<1> QED
  BY <1>1, <1>2, <1>5, <1>6
  DEF Is, Keep, Promised!Arith, Promised!Is, Promised!Keep, Promised!Values, Values

LEMMA ArithRegStep ==
  ASSUME x \in States, c1 \in BOOLEAN, ArithReg
  PROVE  x' \in States /\ Promised!ArithReg
<1>1. PICK f \in Binary, i \in Idx, j \in Idx, pop \in BOOLEAN :
         /\ Is(<<"arith st", f, i, j, pop>>) /\ 0 \in {i, j} /\ Tag(x, i) /\ Tag(x, j)
         /\ x' = PopIf(Computed(i, f[<<Get(x, i), Get(x, j)>>]), pop)
         /\ c1' = c1 /\ Keep
  BY DEF ArithReg, Reads
<1>2. /\ Get(x, i) \in Values /\ st[i] = Get(x, i) /\ Promised!Full(i) /\ Tag(x, i) = TRUE
      /\ Get(x, j) \in Values /\ st[j] = Get(x, j) /\ Promised!Full(j)
  BY <1>1, ReadsOne, SeenAt
<1> DEFINE res == f[<<Get(x, i), Get(x, j)>>]
           s == Computed(i, res)
<1>3. res \in Values /\ res = f[<<st[i], st[j]>>]
  BY <1>2, Functions
<1>4. x' = PopIf(s, pop)
  BY <1>1
<1> HIDE DEF res
<1>5. s \in States /\ Seen(s) = [Seen(x) EXCEPT ![i] = res]
  <2>1. s = SetTag(Set(x, i, res), i, TRUE)
    BY DEF Computed
  <2>2. res \in Values /\ Tag(x, i)
    BY <1>2, <1>3
  <2> HIDE DEF s
  <2> QED
    BY <2>1, <2>2, SeenComputed
<1> HIDE DEF s
<1>6. x' \in States /\ Seen(x') = Promised!PopIf(Seen(s), pop)
  BY <1>4, <1>5, SeenPopIf
<1>7. st' = Promised!PopIf([st EXCEPT ![i] = f[<<st[i], st[j]>>]], pop)
  BY <1>3, <1>5, <1>6, SeenNow
<1> QED
  BY <1>1, <1>2, <1>6, <1>7
  DEF Is, Keep, Promised!ArithReg, Promised!Is, Promised!Keep, Promised!Idx, Idx

\* ST(0) replaced by a value.
LEMMA Replaced ==
  ASSUME x \in States, NEW v \in Values, Tag(x, 0) = TRUE, x' = Set(x, 0, v)
  PROVE  x' \in States /\ st' = [st EXCEPT ![0] = v]
<1>1. x' \in States /\ Seen(x') = [Seen(x) EXCEPT ![0] = v]
  BY First, SeenSet
<1> QED
  BY <1>1, SeenNow

LEMMA Fun1Step == ASSUME x \in States, c1 \in BOOLEAN, Fun1 PROVE x' \in States /\ Promised!Fun1
<1>1. PICK f \in Unary : /\ Is(<<"fun1", f>>) /\ Tag(x, 0)
                         /\ x' = Set(x, 0, f[Get(x, 0)])
                         /\ c1' \in {c1, FALSE} /\ Keep
  BY DEF Fun1, Reads
<1>2. Get(x, 0) \in Values /\ st[0] = Get(x, 0) /\ Promised!Full(0) /\ Tag(x, 0) = TRUE
  BY <1>1, First, ReadsOne, SeenAt
<1>3. f[Get(x, 0)] \in Values
  BY <1>2, Functions
<1>4. x' \in States /\ st' = [st EXCEPT ![0] = f[st[0]]]
  BY <1>1, <1>2, <1>3, Replaced
<1> QED
  BY <1>1, <1>2, <1>4 DEF Is, Keep, Promised!Fun1, Promised!Is, Promised!Keep

LEMMA Fun2Step == ASSUME x \in States, c1 \in BOOLEAN, Fun2 PROVE x' \in States /\ Promised!Fun2
<1>1. PICK f \in Binary : /\ Is(<<"fun2", f>>) /\ Tag(x, 0) /\ Tag(x, 1)
                          /\ x' = Set(x, 0, f[<<Get(x, 0), Get(x, 1)>>])
                          /\ c1' = c1 /\ Keep
  BY DEF Fun2, Reads
<1>2. /\ Get(x, 0) \in Values /\ st[0] = Get(x, 0) /\ Promised!Full(0) /\ Tag(x, 0) = TRUE
      /\ Get(x, 1) \in Values /\ st[1] = Get(x, 1) /\ Promised!Full(1)
  BY <1>1, First, ReadsOne, SeenAt
<1>3. f[<<Get(x, 0), Get(x, 1)>>] \in Values
  BY <1>2, Functions
<1>4. x' \in States /\ st' = [st EXCEPT ![0] = f[<<st[0], st[1]>>]]
  BY <1>1, <1>2, <1>3, Replaced
<1> QED
  BY <1>1, <1>2, <1>4 DEF Is, Keep, Promised!Fun2, Promised!Is, Promised!Keep

LEMMA FxtractStep == ASSUME x \in States, Fxtract PROVE x' \in States /\ Promised!Fxtract
<1>1. PICK f \in Unary, g \in Unary :
         /\ Is(<<"fxtract", f, g>>) /\ Tag(x, 0)
         /\ x' = Push(Set(x, 0, f[Get(x, 0)]), g[Get(x, 0)])
         /\ c1' = Overflow(Set(x, 0, f[Get(x, 0)])) /\ Keep
  BY DEF Fxtract, Reads
<1>2. Get(x, 0) \in Values /\ st[0] = Get(x, 0) /\ Promised!Full(0) /\ Tag(x, 0) = TRUE
  BY <1>1, First, ReadsOne, SeenAt
<1> DEFINE a == f[Get(x, 0)]
           b == g[Get(x, 0)]
           s == Set(x, 0, a)
<1>3. a \in Values /\ a = f[st[0]] /\ b \in Values /\ b = g[st[0]]
  BY <1>2, Functions
<1>4. x' = Push(s, b) /\ c1' = Overflow(s)
  BY <1>1
<1> HIDE DEF a, b
<1>5. s \in States /\ Seen(s) = [Seen(x) EXCEPT ![0] = a] /\ Overflow(s) = Overflow(x)
  <2>0. a \in Values /\ Tag(x, 0)
    BY <1>2, <1>3
  <2>1. s \in States /\ Seen(s) = [Seen(x) EXCEPT ![0] = a]
    BY <2>0, First, SeenSet
  <2>2. Tag(s, N - 1) = Tag(x, N - 1)
    BY <1>3, First, SeenSet
  <2> QED
    BY <2>1, <2>2 DEF Overflow
<1> HIDE DEF s
<1>6. x' \in States /\ Seen(x') = Promised!Push(Seen(s), b)
  BY <1>3, <1>4, <1>5, SeenPush
<1>7. c1' = Promised!Overflow(Seen(x))
  BY <1>4, <1>5, <1>3, SeenPush
<1>8. st' = Promised!Push([st EXCEPT ![0] = f[st[0]]], g[st[0]])
  BY <1>3, <1>5, <1>6, SeenNow
<1> QED
  BY <1>1, <1>2, <1>6, <1>7, <1>8, SeenNow
  DEF Is, Keep, Promised!Fxtract, Promised!Is, Promised!Keep

LEMMA ComparedOK ==
  ASSUME NEW a \in Values, NEW b \in Values
  PROVE  /\ Compared(a, b) \in Codes
         /\ Promised!Compared(a, b, Compared(a, b))
<1>1. Greater(b, a) \in BOOLEAN /\ Equal(b, a) \in BOOLEAN
  BY X87Assumption DEF Greater, Equal, Ordered
<1>2. Compared(a, b) \in Codes
  BY <1>1 DEF Compared, Code, Codes
<1>3. ASSUME Indefinite \notin {a, b}
      PROVE  Greater(b, a) = Less(a, b) /\ Equal(b, a) = (a = b)
  BY <1>3, X87Assumption DEF Greater, Equal, Ordered
<1>4. Promised!Compared(a, b, Compared(a, b))
  BY <1>3 DEF Compared, Code, Promised!Compared, Promised!Code
<1> QED
  BY <1>2, <1>4

LEMMA FcomStep ==
  ASSUME x \in States, Fcom PROVE x' \in States /\ cc' \in Codes /\ Promised!Fcom
<1>1. PICK v \in Values, pop \in BOOLEAN :
         /\ Is(<<"fcom", v, pop>>) /\ Tag(x, 0)
         /\ cc' = Compared(Get(x, 0), v) /\ c1' = FALSE
         /\ x' = PopIf(x, pop) /\ out' = out
  BY DEF Fcom, Reads
<1>2. Get(x, 0) \in Values /\ st[0] = Get(x, 0) /\ Promised!Full(0)
  BY <1>1, First, ReadsOne
<1>3. cc' \in Codes /\ Promised!Compared(st[0], v, cc')
  BY <1>1, <1>2, ComparedOK
<1>4. x' \in States /\ st' = Promised!PopIf(st, pop)
  BY <1>1, SeenPopIf, SeenNow
<1> QED
  BY <1>1, <1>2, <1>3, <1>4
  DEF Is, Promised!Fcom, Promised!Is, Promised!Values, Values, Promised!Codes, Codes

LEMMA FcomRegStep ==
  ASSUME x \in States, FcomReg PROVE x' \in States /\ cc' \in Codes /\ Promised!FcomReg
<1>1. PICK i \in Idx, pops \in 0 .. 2 :
         /\ Is(<<"fcom st", i, pops>>) /\ Tag(x, 0) /\ Tag(x, i)
         /\ cc' = Compared(Get(x, 0), Get(x, i)) /\ c1' = FALSE
         /\ x' = PopIf(PopIf(x, pops >= 1), pops = 2) /\ out' = out
  BY DEF FcomReg, Reads
<1>2. /\ Get(x, 0) \in Values /\ st[0] = Get(x, 0) /\ Promised!Full(0)
      /\ Get(x, i) \in Values /\ st[i] = Get(x, i) /\ Promised!Full(i)
  BY <1>1, First, ReadsOne
<1>3. cc' \in Codes /\ Promised!Compared(st[0], st[i], cc')
  BY <1>1, <1>2, ComparedOK
<1> DEFINE once == pops >= 1
           twice == pops = 2
           s == PopIf(x, once)
<1>4. once \in BOOLEAN /\ twice \in BOOLEAN
  OBVIOUS
<1>5. x' = PopIf(s, twice)
  BY <1>1
<1> HIDE DEF once, twice
<1>6. s \in States /\ Seen(s) = Promised!PopIf(Seen(x), once)
  BY <1>4, SeenPopIf
<1> HIDE DEF s
<1>7. x' \in States /\ Seen(x') = Promised!PopIf(Seen(s), twice)
  BY <1>4, <1>5, <1>6, SeenPopIf
<1>8. st' = Promised!PopIf(Promised!PopIf(st, pops >= 1), pops = 2)
  BY <1>6, <1>7, SeenNow DEF once, twice
<1> QED
  BY <1>1, <1>2, <1>3, <1>7, <1>8
  DEF Is, Promised!FcomReg, Promised!Is, Promised!Idx, Idx, Promised!Codes, Codes

LEMMA FcomiStep ==
  ASSUME x \in States, c1 \in BOOLEAN, Fcomi
  PROVE  x' \in States /\ out' \in Codes /\ Promised!Fcomi
<1>1. PICK i \in Idx, pop \in BOOLEAN :
         /\ Is(<<"fcomi", i, pop>>) /\ Tag(x, 0) /\ Tag(x, i)
         /\ out' = Compared(Get(x, 0), Get(x, i))
         /\ x' = PopIf(x, pop) /\ c1' = c1 /\ cc' = cc
  BY DEF Fcomi, Reads
<1>2. /\ Get(x, 0) \in Values /\ st[0] = Get(x, 0) /\ Promised!Full(0)
      /\ Get(x, i) \in Values /\ st[i] = Get(x, i) /\ Promised!Full(i)
  BY <1>1, First, ReadsOne
<1>3. out' \in Codes /\ Promised!Compared(st[0], st[i], out')
  BY <1>1, <1>2, ComparedOK
<1>4. x' \in States /\ st' = Promised!PopIf(st, pop)
  BY <1>1, SeenPopIf, SeenNow
<1> QED
  BY <1>1, <1>2, <1>3, <1>4
  DEF Is, Promised!Fcomi, Promised!Is, Promised!Idx, Idx, Promised!Codes, Codes

LEMMA FxamStep == ASSUME x \in States, Fxam PROVE x' \in States /\ c1' \in BOOLEAN /\ cc' \in Codes /\ Promised!Fxam
<1>1. /\ Is(<<"fxam">>) /\ x' = x /\ out' = out
      /\ c1' = (Get(x, 0) \in Negative)
      /\ cc' = IF ~Tag(x, 0) THEN Code(TRUE, FALSE, TRUE)
               ELSE IF Get(x, 0) = Indefinite THEN Code(TRUE, FALSE, FALSE)
               ELSE IF Get(x, 0) = Zero THEN Code(FALSE, FALSE, TRUE)
               ELSE Code(FALSE, TRUE, FALSE)
  BY DEF Fxam
<1>2. /\ Tag(x, 0) <=> st[0] # Empty
      /\ Tag(x, 0) => st[0] = Get(x, 0)
  BY First, SeenAt, SeenNow
<1>3. st' = st
  BY <1>1, SeenNow
<1>4. cc' = CASE st[0] = Empty -> Code(TRUE, FALSE, TRUE)
              [] st[0] = Indefinite -> Code(TRUE, FALSE, FALSE)
              [] st[0] = Zero -> Code(FALSE, FALSE, TRUE)
              [] OTHER -> Code(FALSE, TRUE, FALSE)
  <2>1. CASE ~Tag(x, 0)
    <3>1. st[0] = Empty /\ Empty # Indefinite /\ Empty # Zero
      BY <1>2, <2>1, X87Assumption DEF Values
    <3> QED
      BY <1>1, <2>1, <3>1
  <2>2. CASE Tag(x, 0)
    <3>1. st[0] # Empty /\ st[0] = Get(x, 0) /\ Zero # Indefinite
      BY <1>2, <2>2, X87Assumption
    <3> QED
      BY <1>1, <2>2, <3>1
  <2> QED
    BY <2>1, <2>2
<1>5. c1' \in BOOLEAN /\ (st[0] # Empty => c1' = (st[0] \in Negative))
  BY <1>1, <1>2
<1>6. cc' \in Codes
  BY <1>1 DEF Code, Codes
<1> QED
  BY <1>1, <1>3, <1>4, <1>5, <1>6
  DEF Is, Promised!Fxam, Promised!Is, Promised!Full, Code, Promised!Code

\* A pop and a push replace ST(0), and nothing overflows.
LEMMA Repushed ==
  ASSUME NEW s \in States, NEW v \in Values
  PROVE  /\ Push(Pop(s), v) \in States
         /\ Overflow(Pop(s)) = FALSE
         /\ Seen(Push(Pop(s), v)) = [Seen(s) EXCEPT ![0] = v]
<1> DEFINE t == Pop(s)
<1>1. t \in States /\ Seen(t) = Promised!Pop(Seen(s))
  BY SeenPop
<1>2. Seen(t)[N - 1] = Empty
  BY <1>1, First DEF Promised!Pop, Promised!Idx, Idx
<1> HIDE DEF t
<1>3. /\ Push(t, v) \in States
      /\ Overflow(t) = Promised!Overflow(Seen(t))
      /\ Seen(Push(t, v)) = Promised!Push(Seen(t), v)
  BY <1>1, SeenPush
<1>4. Promised!Overflow(Seen(t)) = FALSE
  BY <1>2 DEF Promised!Overflow
<1>5. Seen(Push(t, v)) = [i \in Idx |-> IF i # 0 THEN Promised!Pop(Seen(s))[i - 1] ELSE v]
  BY <1>1, <1>3, <1>4 DEF Promised!Push, Promised!Idx, Idx
<1>6. ASSUME NEW i \in Idx, i # 0 PROVE Promised!Pop(Seen(s))[i - 1] = Seen(s)[i]
  <2>1. i - 1 \in Idx /\ i - 1 # N - 1 /\ (i - 1) + 1 = i
    BY <1>6, X87Assumption DEF Idx
  <2> QED
    BY <2>1 DEF Promised!Pop, Promised!Idx, Idx
<1>7. Seen(Push(t, v)) = [i \in Idx |-> IF i # 0 THEN Seen(s)[i] ELSE v]
  BY <1>5, <1>6
<1>8. Seen(s) = [i \in Idx |-> Seen(s)[i]]
  BY DEF Seen
<1>9. Seen(Push(t, v)) = [Seen(s) EXCEPT ![0] = v]
  BY <1>7, <1>8
<1> QED
  BY <1>3, <1>4, <1>9 DEF t

LEMMA FsinStep == ASSUME x \in States, cc \in Codes, Fsin PROVE x' \in States /\ cc' \in Codes /\ Promised!Fsin
<1>1. PICK f \in Unary :
         /\ Is(<<"fsin", f>>) /\ Tag(x, 0)
         /\ x' = Push(Pop(x), f[Get(x, 0)])
         /\ c1' = Overflow(Pop(x)) /\ ClearC2 /\ out' = out
  BY DEF Fsin, Reads
<1>2. Get(x, 0) \in Values /\ st[0] = Get(x, 0) /\ Promised!Full(0)
  BY <1>1, First, ReadsOne
<1>3. f[Get(x, 0)] \in Values
  BY <1>2, Functions
<1>4. x' \in States /\ c1' = FALSE /\ Seen(x') = [Seen(x) EXCEPT ![0] = f[Get(x, 0)]]
  BY <1>1, <1>3, Repushed
<1>5. st' = [st EXCEPT ![0] = f[st[0]]]
  BY <1>2, <1>4, SeenNow
<1>6. cc' = [cc EXCEPT !.c2 = FALSE] /\ cc' \in Codes
  BY <1>1 DEF ClearC2, Codes
<1> QED
  BY <1>1, <1>2, <1>4, <1>5, <1>6 DEF Is, Promised!Fsin, Promised!Is

LEMMA F2xm1Step == ASSUME x \in States, F2xm1 PROVE x' \in States /\ Promised!F2xm1
<1>1. PICK f \in Unary :
         /\ Is(<<"f2xm1", f>>) /\ Tag(x, 0)
         /\ x' = Push(Pop(x), f[Get(x, 0)])
         /\ c1' = Overflow(Pop(x)) /\ Keep
  BY DEF F2xm1, Reads
<1>2. Get(x, 0) \in Values /\ st[0] = Get(x, 0) /\ Promised!Full(0)
  BY <1>1, First, ReadsOne
<1>3. f[Get(x, 0)] \in Values
  BY <1>2, Functions
<1>4. x' \in States /\ c1' = FALSE /\ Seen(x') = [Seen(x) EXCEPT ![0] = f[Get(x, 0)]]
  BY <1>1, <1>3, Repushed
<1>5. st' = [st EXCEPT ![0] = f[st[0]]]
  BY <1>2, <1>4, SeenNow
<1> QED
  BY <1>1, <1>2, <1>4, <1>5 DEF Is, Keep, Promised!F2xm1, Promised!Is, Promised!Keep

LEMMA FsincosStep == ASSUME x \in States, cc \in Codes, Fsincos PROVE x' \in States /\ cc' \in Codes /\ Promised!Fsincos
<1>1. PICK f \in Unary, g \in Unary :
         /\ Is(<<"fsincos", f, g>>) /\ Tag(x, 0)
         /\ x' = Push(Push(Pop(x), f[Get(x, 0)]), g[Get(x, 0)])
         /\ c1' = Overflow(Push(Pop(x), f[Get(x, 0)])) /\ ClearC2 /\ out' = out
  BY DEF Fsincos, Reads
<1>2. Get(x, 0) \in Values /\ st[0] = Get(x, 0) /\ Promised!Full(0)
  BY <1>1, First, ReadsOne
<1> DEFINE a == f[Get(x, 0)]
           b == g[Get(x, 0)]
           t == Push(Pop(x), a)
<1>3. a \in Values /\ a = f[st[0]] /\ b \in Values /\ b = g[st[0]]
  BY <1>2, Functions
<1>4. x' = Push(t, b) /\ c1' = Overflow(t)
  BY <1>1
<1> HIDE DEF a, b
<1>5. t \in States /\ Seen(t) = [Seen(x) EXCEPT ![0] = a]
  <2>1. a \in Values
    BY <1>3
  <2> QED
    BY <2>1, Repushed
<1> HIDE DEF t
<1>6. x' \in States /\ Seen(x') = Promised!Push(Seen(t), b) /\ c1' = Promised!Overflow(Seen(t))
  <2>1. b \in Values
    BY <1>3
  <2> QED
    BY <1>4, <1>5, <2>1, SeenPush
<1>7. Promised!Overflow(Seen(t)) = Promised!Overflow(Seen(x))
  <2>1. Seen(t)[N - 1] = Seen(x)[N - 1]
    BY <1>5, First DEF Seen
  <2> QED
    BY <2>1 DEF Promised!Overflow
<1>8. st' = Promised!Push([st EXCEPT ![0] = f[st[0]]], g[st[0]])
  BY <1>3, <1>5, <1>6, SeenNow
<1>9. cc' = [cc EXCEPT !.c2 = FALSE] /\ cc' \in Codes
  BY <1>1 DEF ClearC2, Codes
<1> QED
  BY <1>1, <1>2, <1>6, <1>7, <1>8, <1>9, SeenNow DEF Is, Promised!Fsincos, Promised!Is

\* Both pops done, a push fills the register that was ST(1).
LEMMA PoppedTwice ==
  ASSUME NEW v \in Values, x \in States,
         x' = Push(Pop(Pop(x)), v), c1' = Overflow(Pop(Pop(x)))
  PROVE  x' \in States /\ c1' = FALSE /\ st' = [Promised!Pop(st) EXCEPT ![0] = v]
<1>1. Pop(x) \in States /\ Seen(Pop(x)) = Promised!Pop(Seen(x))
  BY SeenPop
<1>2. /\ x' \in States /\ c1' = FALSE
      /\ Seen(x') = [Seen(Pop(x)) EXCEPT ![0] = v]
  BY <1>1, Repushed
<1> QED
  BY <1>1, <1>2, SeenNow

LEMMA FpatanStep == ASSUME x \in States, Fpatan PROVE x' \in States /\ Promised!Fpatan
<1>1. PICK f \in Binary :
         /\ Is(<<"fpatan", f>>) /\ Tag(x, 0) /\ Tag(x, 1)
         /\ x' = Push(Pop(Pop(x)), f[<<Get(Pop(x), 0), Get(Pop(x), N - 1)>>])
         /\ c1' = Overflow(Pop(Pop(x))) /\ Keep
  BY DEF Fpatan, Reads
<1>2. /\ Get(x, 0) \in Values /\ st[0] = Get(x, 0) /\ Promised!Full(0)
      /\ Get(x, 1) \in Values /\ st[1] = Get(x, 1) /\ Promised!Full(1)
  BY <1>1, First, ReadsOne
<1>3. Get(Pop(x), 0) = Get(x, 1) /\ Get(Pop(x), N - 1) = Get(x, 0)
  <2>1. \A i \in Idx : Get(Pop(x), i) = Get(x, IF i = N - 1 THEN 0 ELSE i + 1)
    BY SeenPop
  <2>2. Get(Pop(x), 0) = Get(x, 0 + 1)
    BY <2>1, First
  <2>3. Get(Pop(x), N - 1) = Get(x, 0)
    BY <2>1, First
  <2>4. 0 + 1 = 1
    OBVIOUS
  <2> QED
    BY <2>2, <2>3, <2>4
<1>4. x' = Push(Pop(Pop(x)), f[<<st[1], st[0]>>]) /\ f[<<st[1], st[0]>>] \in Values
  BY <1>1, <1>2, <1>3, Functions
<1>5. x' \in States /\ c1' = FALSE
      /\ st' = [Promised!Pop(st) EXCEPT ![0] = f[<<st[1], st[0]>>]]
  BY <1>1, <1>4, PoppedTwice
<1> QED
  BY <1>1, <1>2, <1>5 DEF Is, Keep, Promised!Fpatan, Promised!Is, Promised!Keep

LEMMA Fyl2xStep ==
  ASSUME x \in States, Fyl2x PROVE x' \in States /\ c1' = FALSE /\ (~LogExact => Promised!Fyl2x)
<1>1. PICK f \in Binary :
         /\ Is(<<"fyl2x", f>>) /\ Tag(x, 0) /\ Tag(x, 1)
         /\ x' = Push(Pop(Pop(x)), f[<<Get(Pop(Pop(x)), 0), Get(Pop(x), N - 1)>>])
         /\ c1' = Overflow(Pop(Pop(x))) /\ Keep
  BY DEF Fyl2x, Reads
<1>2. Promised!Full(0) /\ Promised!Full(1)
  BY <1>1, First, ReadsOne
<1> DEFINE v == f[<<Get(Pop(Pop(x)), 0), Get(Pop(x), N - 1)>>]
<1>3. v \in Values
  <2>1. Pop(x) \in States /\ Pop(Pop(x)) \in States
    BY SeenPop
  <2>2. Get(Pop(Pop(x)), 0) \in Values /\ Get(Pop(x), N - 1) \in Values
    BY <2>1, First, SeenAt
  <2> QED
    BY <2>2, Functions
<1>4. x' = Push(Pop(Pop(x)), v)
  BY <1>1
<1> HIDE DEF v
<1>5. x' \in States /\ c1' = FALSE /\ st' = [Promised!Pop(st) EXCEPT ![0] = v]
  BY <1>1, <1>3, <1>4, PoppedTwice
<1> QED
  BY <1>1, <1>2, <1>3, <1>5
  DEF Is, Keep, Promised!Fyl2x, Promised!Is, Promised!Keep, Promised!Values, Values

LEMMA FincstpStep == ASSUME x \in States, Fincstp PROVE x' \in States /\ Promised!Fincstp
<1>1. Is(<<"fincstp">>) /\ x' = Move(x, 1) /\ c1' = FALSE /\ Keep
  BY DEF Fincstp
<1>2. /\ x' \in States
      /\ \A i \in Idx : Reg(x', i) = Reg(x, IF i = N - 1 THEN 0 ELSE i + 1)
      /\ x'.used = x.used /\ x'.slot = x.slot
  BY <1>1, MoveUp
<1>3. \A i \in Idx : (IF i = N - 1 THEN 0 ELSE i + 1) \in Idx
  BY X87Assumption DEF Idx
<1>4. Seen(x') = [i \in Idx |-> IF i = N - 1 THEN Seen(x)[0] ELSE Seen(x)[i + 1]]
  BY <1>2, <1>3 DEF Seen, Tag, Get
<1>5. st' = [i \in Idx |-> IF i = N - 1 THEN st[0] ELSE st[i + 1]]
  BY <1>4, SeenNow
<1> QED
  BY <1>1, <1>2, <1>5
  DEF Is, Keep, Promised!Fincstp, Promised!Is, Promised!Keep, Promised!Idx, Idx

LEMMA FdecstpStep == ASSUME x \in States, Fdecstp PROVE x' \in States /\ Promised!Fdecstp
<1>1. Is(<<"fdecstp">>) /\ x' = Move(x, N - 1) /\ c1' = FALSE /\ Keep
  BY DEF Fdecstp
<1>2. /\ x' \in States
      /\ \A i \in Idx : Reg(x', i) = Reg(x, IF i = 0 THEN N - 1 ELSE i - 1)
      /\ x'.used = x.used /\ x'.slot = x.slot
  BY <1>1, MoveDown
<1>3. \A i \in Idx : (IF i = 0 THEN N - 1 ELSE i - 1) \in Idx
  BY X87Assumption DEF Idx
<1>4. Seen(x') = [i \in Idx |-> IF i = 0 THEN Seen(x)[N - 1] ELSE Seen(x)[i - 1]]
  BY <1>2, <1>3 DEF Seen, Tag, Get
<1>5. st' = [i \in Idx |-> IF i = 0 THEN st[N - 1] ELSE st[i - 1]]
  BY <1>4, SeenNow
<1> QED
  BY <1>1, <1>2, <1>5
  DEF Is, Keep, Promised!Fdecstp, Promised!Is, Promised!Keep, Promised!Idx, Idx

LEMMA FfreeStep == ASSUME x \in States, c1 \in BOOLEAN, Ffree PROVE x' \in States /\ Promised!Ffree
<1>1. PICK i \in Idx : Is(<<"ffree", i>>) /\ x' = SetTag(x, i, FALSE) /\ c1' = c1 /\ Keep
  BY DEF Ffree
<1> DEFINE s == SetTag(x, i, FALSE)
<1>2. /\ s \in States
      /\ \A j \in Idx : Get(s, j) = Get(x, j)
      /\ \A j \in Idx : Tag(s, j) = IF j = i THEN FALSE ELSE Tag(x, j)
  BY SeenSetTag
<1> HIDE DEF s
<1>3. Seen(s) = [Seen(x) EXCEPT ![i] = Empty]
  BY <1>2 DEF Seen
<1>4. st' = [st EXCEPT ![i] = Empty]
  BY <1>1, <1>3, SeenNow DEF s
<1>5. x' \in States
  BY <1>1, <1>2 DEF s
<1> QED
  BY <1>1, <1>4, <1>5
  DEF Is, Keep, Promised!Ffree, Promised!Is, Promised!Keep, Promised!Idx, Idx

LEMMA FninitStep == ASSUME x \in States, Fninit PROVE x' \in States /\ cc' \in Codes /\ Promised!Fninit
<1>1. /\ Is(<<"fninit">>) /\ x' = [x EXCEPT !.top = 0, !.used = [r \in Idx |-> FALSE]]
      /\ c1' = FALSE /\ cc' = Clear /\ out' = out
  BY DEF Fninit
<1>2. x' \in States /\ x'.used = [r \in Idx |-> FALSE]
  BY <1>1, First DEF States
<1>3. \A i \in Idx : Tag(x', i) = FALSE
  BY <1>2, RegIdx DEF Tag
<1>4. Seen(x') = [i \in Idx |-> Empty]
  BY <1>3 DEF Seen
<1>5. st' = [i \in Idx |-> Empty]
  BY <1>4, SeenNow
<1>6. Clear \in Codes
  BY DEF Clear, Code, Codes
<1> QED
  BY <1>1, <1>2, <1>5, <1>6
  DEF Is, Clear, Code, Promised!Fninit, Promised!Is, Promised!Idx, Idx, Promised!Clear, Promised!Code

----------------------------------------------------------------------------

LEMMA OverflowType == ASSUME NEW s \in States PROVE Overflow(s) \in BOOLEAN
BY First, SeenAt DEF Overflow

\* TypeOK is an invariant: every instruction leaves TOP within the registers and
\* numbers in them (fpu_stack_index_move, fpu_compute_stack_index).
LEMMA TypeStep == TypeOK /\ [Next]_vars => TypeOK'
<1> SUFFICES ASSUME TypeOK, [Next]_vars PROVE TypeOK'
  OBVIOUS
<1> USE DEF TypeOK
<1>1. CASE Fld
  BY <1>1, FldStep, OverflowType DEF Fld, Load, Keep
<1>2. CASE FldReg
  BY <1>2, FldRegStep, OverflowType DEF FldReg, Load, Keep
<1>3. CASE Fst
  BY <1>3, FstStep DEF Promised!Fst, Promised!Keep
<1>4. CASE FstReg
  BY <1>4, FstRegStep DEF Promised!FstReg, Promised!Keep
<1>5. CASE Fxch
  BY <1>5, FxchStep DEF Promised!Fxch, Promised!Keep
<1>6. CASE Fcmov
  BY <1>6, FcmovStep DEF Promised!Fcmov, Promised!Keep
<1>7. CASE Arith
  BY <1>7, ArithStep DEF Promised!Arith, Promised!Keep
<1>8. CASE ArithReg
  BY <1>8, ArithRegStep DEF Promised!ArithReg, Promised!Keep
<1>9. CASE Fun1
  BY <1>9, Fun1Step DEF Promised!Fun1, Promised!Keep
<1>10. CASE Fun2
  BY <1>10, Fun2Step DEF Promised!Fun2, Promised!Keep
<1>11. CASE Fxtract
  <2>1. c1' = Promised!Overflow(st)
    BY <1>11, FxtractStep DEF Promised!Fxtract
  <2>2. c1' \in BOOLEAN
    BY <2>1 DEF Promised!Overflow
  <2> QED
    BY <1>11, <2>2, FxtractStep DEF Fxtract, Keep
<1>12. CASE Fcom
  BY <1>12, FcomStep DEF Promised!Fcom, Promised!Keep
<1>13. CASE FcomReg
  BY <1>13, FcomRegStep DEF Promised!FcomReg, Promised!Keep
<1>14. CASE Fcomi
  BY <1>14, FcomiStep DEF Promised!Fcomi, Promised!Keep
<1>15. CASE Fxam
  BY <1>15, FxamStep DEF Promised!Fxam, Promised!Keep
<1>16. CASE Fsin
  BY <1>16, FsinStep DEF Promised!Fsin, Promised!Keep
<1>17. CASE Fsincos
  <2>1. c1' = Promised!Overflow(st)
    BY <1>17, FsincosStep DEF Promised!Fsincos
  <2>2. c1' \in BOOLEAN
    BY <2>1 DEF Promised!Overflow
  <2> QED
    BY <1>17, <2>2, FsincosStep DEF Fsincos, Keep
<1>18. CASE F2xm1
  BY <1>18, F2xm1Step DEF Promised!F2xm1, Promised!Keep
<1>19. CASE Fpatan
  BY <1>19, FpatanStep DEF Promised!Fpatan, Promised!Keep
<1>20. CASE Fyl2x
  BY <1>20, Fyl2xStep DEF Fyl2x, Keep
<1>21. CASE Fincstp
  BY <1>21, FincstpStep DEF Promised!Fincstp, Promised!Keep
<1>22. CASE Fdecstp
  BY <1>22, FdecstpStep DEF Promised!Fdecstp, Promised!Keep
<1>23. CASE Ffree
  BY <1>23, FfreeStep DEF Promised!Ffree, Promised!Keep
<1>24. CASE Fninit
  BY <1>24, FninitStep DEF Promised!Fninit, Promised!Keep
<1>25. CASE UNCHANGED vars
  BY <1>25 DEF vars
<1> QED
  BY <1>1, <1>2, <1>3, <1>4, <1>5, <1>6, <1>7, <1>8, <1>9, <1>10, <1>11, <1>12, <1>13, <1>14, <1>15, <1>16, <1>17, <1>18, <1>19, <1>20, <1>21, <1>22, <1>23, <1>24, <1>25 DEF Next

\* Every reachable state of the unit is well formed (fpu_push, fpu_pop, fpu_tag_set).
THEOREM UnitTyped == Spec => []TypeOK
<1>1. Init => TypeOK
  <2> SUFFICES ASSUME Init PROVE TypeOK
    OBVIOUS
  <2>1. x \in States
    BY X87Assumption DEF Init, States, Values
  <2> QED
    BY <2>1, X87Assumption DEF Init, TypeOK, Values
<1> QED
  BY <1>1, TypeStep, PTL DEF Spec

----------------------------------------------------------------------------

LEMMA InitRefined == Init => Promised!Init
<1> SUFFICES ASSUME Init PROVE Promised!Init
  OBVIOUS
<1>1. x \in States /\ x.used = [r \in Idx |-> FALSE]
  BY X87Assumption DEF Init, States, Values
<1>2. \A i \in Idx : Tag(x, i) = FALSE
  BY <1>1, RegIdx DEF Tag
<1>3. st = [i \in Idx |-> Empty]
  BY <1>2 DEF st, Seen
<1> QED
  BY <1>3 DEF Init, Promised!Init, Promised!Idx, Idx, Promised!Codes, Codes

LEMMA StepRefined ==
  ASSUME ~LogExact, TypeOK, [Next]_vars
  PROVE  [Promised!Next]_(Promised!vars)
<1> USE DEF TypeOK
<1>1. CASE Fld
  BY <1>1, FldStep DEF Promised!Next
<1>2. CASE FldReg
  BY <1>2, FldRegStep DEF Promised!Next
<1>3. CASE Fst
  BY <1>3, FstStep DEF Promised!Next
<1>4. CASE FstReg
  BY <1>4, FstRegStep DEF Promised!Next
<1>5. CASE Fxch
  BY <1>5, FxchStep DEF Promised!Next
<1>6. CASE Fcmov
  BY <1>6, FcmovStep DEF Promised!Next
<1>7. CASE Arith
  BY <1>7, ArithStep DEF Promised!Next
<1>8. CASE ArithReg
  BY <1>8, ArithRegStep DEF Promised!Next
<1>9. CASE Fun1
  BY <1>9, Fun1Step DEF Promised!Next
<1>10. CASE Fun2
  BY <1>10, Fun2Step DEF Promised!Next
<1>11. CASE Fxtract
  BY <1>11, FxtractStep DEF Promised!Next
<1>12. CASE Fcom
  BY <1>12, FcomStep DEF Promised!Next
<1>13. CASE FcomReg
  BY <1>13, FcomRegStep DEF Promised!Next
<1>14. CASE Fcomi
  BY <1>14, FcomiStep DEF Promised!Next
<1>15. CASE Fxam
  BY <1>15, FxamStep DEF Promised!Next
<1>16. CASE Fsin
  BY <1>16, FsinStep DEF Promised!Next
<1>17. CASE Fsincos
  BY <1>17, FsincosStep DEF Promised!Next
<1>18. CASE F2xm1
  BY <1>18, F2xm1Step DEF Promised!Next
<1>19. CASE Fpatan
  BY <1>19, FpatanStep DEF Promised!Next
<1>20. CASE Fyl2x
  BY <1>20, Fyl2xStep DEF Promised!Next
<1>21. CASE Fincstp
  BY <1>21, FincstpStep DEF Promised!Next
<1>22. CASE Fdecstp
  BY <1>22, FdecstpStep DEF Promised!Next
<1>23. CASE Ffree
  BY <1>23, FfreeStep DEF Promised!Next
<1>24. CASE Fninit
  BY <1>24, FninitStep DEF Promised!Next
<1>25. CASE UNCHANGED vars
  BY <1>25, SeenNow DEF vars, Promised!vars
<1> QED
  BY <1>1, <1>2, <1>3, <1>4, <1>5, <1>6, <1>7, <1>8, <1>9, <1>10, <1>11, <1>12, <1>13, <1>14, <1>15, <1>16, <1>17, <1>18, <1>19, <1>20, <1>21, <1>22, <1>23, <1>24, <1>25 DEF Next

\* The translated instructions implement the promised stack, for eight registers
\* as for any number, wherever TOP starts and whatever functions the arithmetic
\* instructions compute.  Only FYL2X and FYL2XP1 are promised no more than some
\* result: they read ST(1) after it has been popped (fpu.cpp:904-948).
THEOREM UnitImplementsStack == ASSUME ~LogExact PROVE Spec => StackRefined
<1>1. Init => Promised!Init
  BY InitRefined
<1>2. TypeOK /\ [Next]_vars => [Promised!Next]_(Promised!vars)
  BY StepRefined
<1> QED
  BY <1>1, <1>2, UnitTyped, PTL DEF Spec, StackRefined, Promised!Spec
=============================================================================
