--------------------------- MODULE RegAllocProofs ---------------------------
(***************************************************************************)
(* The register allocator, for all code that it may be given: it never     *)
(* gives one register to two values that are alive together, the code that *)
(* it leaves follows the code that it was given, values are in the same    *)
(* places at a jump and at its label, and nothing stays allocated.         *)
(***************************************************************************)
EXTENDS RegAlloc, SequenceTheorems, WellFoundedInduction, TLAPS

(* vreg_to_preg: some registers that are not the machine's, each with one of
   the machine's. *)
Maps == UNION {[S -> 3 .. 31] : S \in SUBSET Nat}

States == [code : Seq(Instructions), avail : SUBSET Nat, map : Maps,
           linked : Nat, link : Nat, thrown : BOOLEAN]

Given == Available \cup {A0, A1}

(* Registers come from the pool P, but for those that mapped registers have
   all the time. *)
Pooled(a, P) ==
  /\ a.avail \subseteq P
  /\ \A v \in DOMAIN a.map : ~ is_physical(v)
  /\ \A v \in Mapped : v \in DOMAIN a.map /\ a.map[v] = Home(v)
  /\ \A v \in DOMAIN a.map \ Mapped : a.map[v] \in P

Distinct(a) ==
  /\ \A u, v \in DOMAIN a.map : u # v => a.map[u] # a.map[v]
  /\ \A v \in DOMAIN a.map : a.map[v] \notin a.avail

(* The linked copy is not before instruction i. *)
LinkedFrom(a, i) ==
  a.linked # 0 => /\ a.linked \in DOMAIN a.code
                  /\ a.linked >= i
                  /\ is_mv(a.code[a.linked])
                  /\ ~ is_physical(a.code[a.linked].rd)
                  /\ is_virtual(a.link)

Good(a, i, P) ==
  a \in States /\ Pooled(a, P) /\ Distinct(a) /\ LinkedFrom(a, i)

(* Of the code only the instructions in K have changed. *)
Changes(c, d, K) ==
  /\ DOMAIN d = DOMAIN c
  /\ \A j \in DOMAIN c \ K : d[j] = c[j]

-----------------------------------------------------------------------------

LEMMA GivenAre ==
  /\ Given \subseteq 3 .. 31
  /\ Mapped \subseteq Nat
  /\ \A v \in Mapped : Home(v) \in 16 .. 23 /\ ~ is_physical(v) /\ ~ is_virtual(v)
  /\ \A v \in Mapped : Home(v) \notin Given
  /\ \A u, v \in Mapped : u # v => Home(u) # Home(v)
<1>1. Given \subseteq 3 .. 31
  <2>1. \A p \in {3, 5, 6, 7, 9, 12, 13, 14, 15} : p \in 3 .. 31
    OBVIOUS
  <2>2. \A p \in 24 .. 31 : p \in 3 .. 31
    OBVIOUS
  <2> QED
    BY <2>1, <2>2 DEF Given, Available, A0, A1
<1>2. Mapped = 32 .. 39
  BY DEF Mapped, FUNCTIONAL_BASE
<1>3. \A v \in Mapped : Home(v) \in 16 .. 23 /\ ~ is_physical(v) /\ ~ is_virtual(v)
  BY <1>2 DEF Home, FUNCTIONAL_BASE, is_physical, is_virtual, VIRTUAL_BASE
<1>4. \A p \in 16 .. 23 : p \notin Given
  BY DEF Given, Available, A0, A1
<1>5. \A u, v \in Mapped : u # v => Home(u) # Home(v)
  BY <1>2 DEF Home, FUNCTIONAL_BASE
<1> QED
  BY <1>1, <1>2, <1>3, <1>4, <1>5

LEMMA LowestExists ==
  ASSUME NEW S \in SUBSET (3 .. 31), S # {}
  PROVE  \E p \in S : \A q \in S : p =< q
<1>1. SUFFICES ASSUME \A p \in S : \E q \in S : ~ (p =< q)
               PROVE  FALSE
  OBVIOUS
<1>2. \A p \in 3 .. 12 : p \notin S
  BY <1>1
<1>3. \A p \in 13 .. 22 : p \notin S
  BY <1>1, <1>2
<1>4. \A p \in 23 .. 31 : p \notin S
  BY <1>1, <1>2, <1>3
<1>5. \A p \in 3 .. 31 : p \in 3 .. 12 \/ p \in 13 .. 22 \/ p \in 23 .. 31
  OBVIOUS
<1>6. PICK p \in S : TRUE
  OBVIOUS
<1>7. p \in 3 .. 31
  OBVIOUS
<1> QED
  BY <1>2, <1>3, <1>4, <1>5, <1>6, <1>7

(* allocate gives away only what is free. *)
LEMMA ChoiceIsFree ==
  ASSUME NEW free \in SUBSET (3 .. 31), free # {}, NEW preference
  PROVE  Choice(free, preference) \in free
<1> DEFINE High == {p \in free : p > 7}
<1>1. CASE preference \in free
  BY <1>1 DEF Choice
<1>2. CASE preference \notin free /\ High # {}
  <2>1. High \in SUBSET (3 .. 31) /\ High # {}
    BY <1>2
  <2>2. Min(High) \in High
    BY <2>1, LowestExists DEF Min
  <2> QED
    BY <1>2, <2>2 DEF Choice
<1>3. CASE preference \notin free /\ High = {}
  <2>1. Min(free) \in free
    BY LowestExists DEF Min
  <2> QED
    BY <1>3, <2>1 DEF Choice
<1> QED
  BY <1>1, <1>2, <1>3

LEMMA MapsAre ==
  ASSUME NEW m \in Maps
  PROVE  /\ DOMAIN m \subseteq Nat
         /\ m \in [DOMAIN m -> 3 .. 31]
         /\ \A v \in DOMAIN m : m[v] \in 3 .. 31 /\ m[v] \in Nat
<1>1. DOMAIN m \subseteq Nat /\ m \in [DOMAIN m -> 3 .. 31]
  BY DEF Maps
<1> QED
  BY <1>1

LEMMA AreMaps ==
  ASSUME NEW S \in SUBSET Nat, NEW m \in [S -> 3 .. 31]
  PROVE  m \in Maps
  BY DEF Maps

(* A new value gets a register of its own. *)
LEMMA AllocateGood ==
  ASSUME NEW P \in SUBSET Given, NEW i \in Nat, NEW a, Good(a, i, P),
         NEW v \in Nat, ~ is_physical(v), v \notin DOMAIN a.map, NEW preference
  PROVE  /\ Good(allocate(a, v, preference), i, P)
         /\ allocate(a, v, preference).code = a.code
         /\ allocate(a, v, preference).linked = a.linked
         /\ ~ allocate(a, v, preference).thrown => v \in DOMAIN allocate(a, v, preference).map
<1> DEFINE b == allocate(a, v, preference)
           p == Choice(a.avail, preference)
<1>1. CASE a.avail = {}
  <2>1. b = [a EXCEPT !.thrown = TRUE]
    BY <1>1 DEF allocate
  <2>2. /\ b \in States /\ b.code = a.code /\ b.linked = a.linked /\ b.link = a.link
        /\ b.map = a.map /\ b.avail = a.avail /\ b.thrown
    BY <2>1 DEF Good, States
  <2> HIDE DEF b
  <2>3. Good(b, i, P)
    BY <2>2 DEF Good, Pooled, Distinct, LinkedFrom
  <2> QED
    BY <2>2, <2>3 DEF b
<1>2. CASE a.avail # {}
  <2>1. P \subseteq 3 .. 31 /\ a.avail \in SUBSET (3 .. 31)
    BY GivenAre DEF Good, Pooled
  <2>2. p \in a.avail /\ p \in 3 .. 31 /\ p \in P
    BY <1>2, <2>1, ChoiceIsFree DEF Good, Pooled
  <2> HIDE DEF p
  <2>3. b = [a EXCEPT !.avail = @ \ {p}, !.map = Extended(@, v, p)]
    BY <1>2 DEF allocate, p
  <2> DEFINE m == Extended(a.map, v, p)
  <2>4. a.map \in Maps /\ DOMAIN a.map \subseteq Nat /\ \A u \in DOMAIN a.map : a.map[u] \in 3 .. 31
    <3>1. a.map \in Maps
      BY DEF Good, States
    <3> QED
      BY <3>1, MapsAre
  <2>5. /\ DOMAIN m = DOMAIN a.map \cup {v}
        /\ m[v] = p
        /\ \A u \in DOMAIN a.map : m[u] = a.map[u]
        /\ m \in [DOMAIN a.map \cup {v} -> 3 .. 31]
    BY <2>2, <2>4 DEF Extended
  <2>6. m \in Maps
    BY <2>4, <2>5, AreMaps
  <2> HIDE DEF m
  <2>7. /\ b \in States /\ b.code = a.code /\ b.linked = a.linked /\ b.link = a.link
        /\ b.map = m /\ b.avail = a.avail \ {p}
    BY <2>3, <2>6 DEF Good, States, m
  <2> HIDE DEF b
  <2>8. Pooled(b, P)
    BY <2>2, <2>5, <2>7 DEF Good, Pooled
  <2>9. Distinct(b)
    BY <2>2, <2>5, <2>7 DEF Good, Distinct
  <2>10. LinkedFrom(b, i)
    BY <2>7 DEF Good, LinkedFrom
  <2> QED
    BY <2>5, <2>7, <2>8, <2>9, <2>10 DEF Good, b
<1> QED
  BY <1>1, <1>2

-----------------------------------------------------------------------------

LEMMA CodeUpdate ==
  ASSUME NEW c \in Seq(Instructions), NEW k \in DOMAIN c, NEW x \in Instructions
  PROVE  /\ [c EXCEPT ![k] = x] \in Seq(Instructions)
         /\ [c EXCEPT ![k] = x][k] = x
         /\ Changes(c, [c EXCEPT ![k] = x], {k})
<1>1. c \in [1 .. Len(c) -> Instructions] /\ Len(c) \in Nat /\ k \in 1 .. Len(c)
  OBVIOUS
<1>2. [c EXCEPT ![k] = x] \in [1 .. Len(c) -> Instructions]
  BY <1>1
<1>3. [c EXCEPT ![k] = x] \in Seq(Instructions)
  BY <1>1, <1>2, SeqDef
<1> QED
  BY <1>1, <1>3 DEF Changes

LEMMA InstructionUpdate ==
  ASSUME NEW x \in Instructions, NEW r \in Nat
  PROVE  /\ kill(x) \in Instructions
         /\ [x EXCEPT !.rd = r] \in Instructions
         /\ [x EXCEPT !.rd = r].rd = r
         /\ [x EXCEPT !.rs1 = r] \in Instructions
         /\ [x EXCEPT !.rs1 = r].rd = x.rd
         /\ [x EXCEPT !.rs2 = r] \in Instructions
         /\ [x EXCEPT !.rs2 = r].rd = x.rd
         /\ is_mv(x) => is_mv([x EXCEPT !.rd = r])
         /\ is_mv(x) /\ ~ is_physical(x.rs1) => is_mv([x EXCEPT !.rs1 = r])
         /\ is_mv(x) /\ ~ is_physical(x.rs2) => is_mv([x EXCEPT !.rs2 = r])
<1>1. /\ kill(x) \in Instructions
      /\ [x EXCEPT !.rd = r] \in Instructions /\ [x EXCEPT !.rd = r].rd = r
      /\ [x EXCEPT !.rs1 = r] \in Instructions /\ [x EXCEPT !.rs1 = r].rd = x.rd
      /\ [x EXCEPT !.rs2 = r] \in Instructions /\ [x EXCEPT !.rs2 = r].rd = x.rd
  BY DEF Instructions, kill
<1>2. is_mv(x) => is_mv([x EXCEPT !.rd = r])
  BY DEF Instructions, is_mv
<1>3. is_mv(x) /\ ~ is_physical(x.rs1) => is_mv([x EXCEPT !.rs1 = r])
  BY DEF Instructions, is_mv, is_physical, ZERO, FUNCTIONAL_BASE
<1>4. is_mv(x) /\ ~ is_physical(x.rs2) => is_mv([x EXCEPT !.rs2 = r])
  BY DEF Instructions, is_mv, is_physical, ZERO, FUNCTIONAL_BASE
<1> QED
  BY <1>1, <1>2, <1>3, <1>4

LEMMA CodeIs ==
  ASSUME NEW a \in States, NEW k \in DOMAIN a.code
  PROVE  /\ a.code \in Seq(Instructions)
         /\ a.code[k] \in Instructions
         /\ a.code[k].rd \in Nat /\ a.code[k].rs1 \in Nat /\ a.code[k].rs2 \in Nat
         /\ a.map \in Maps
<1>1. a.code \in Seq(Instructions) /\ a.map \in Maps
  BY DEF States
<1>2. a.code[k] \in Instructions
  BY <1>1
<1> QED
  BY <1>1, <1>2 DEF Instructions

LEMMA EraseIs ==
  ASSUME NEW m \in Maps, NEW v
  PROVE  /\ Erase(m, v) \in Maps
         /\ DOMAIN Erase(m, v) = DOMAIN m \ {v}
         /\ \A u \in DOMAIN m \ {v} : Erase(m, v)[u] = m[u]
<1>1. DOMAIN m \subseteq Nat /\ m \in [DOMAIN m -> 3 .. 31]
  BY MapsAre
<1>2. Erase(m, v) \in [DOMAIN m \ {v} -> 3 .. 31]
  BY <1>1 DEF Erase
<1>3. Erase(m, v) \in Maps
  BY <1>1, <1>2, AreMaps
<1> QED
  BY <1>3 DEF Erase

(* The register of a value that dies may be given back. *)
LEMMA FreeKeeps ==
  ASSUME NEW P, NEW a, a.map \in Maps, Pooled(a, P), Distinct(a),
         NEW v, is_virtual(v), NEW b, b.map = Erase(a.map, v),
         v \in DOMAIN a.map => b.avail = a.avail \cup {a.map[v]},
         v \notin DOMAIN a.map => b.avail = a.avail
  PROVE  Pooled(b, P) /\ Distinct(b)
<1>1. /\ DOMAIN b.map = DOMAIN a.map \ {v}
      /\ \A u \in DOMAIN a.map \ {v} : b.map[u] = a.map[u]
  <2> DEFINE m == Erase(a.map, v)
  <2>1. DOMAIN m = DOMAIN a.map \ {v} /\ \A u \in DOMAIN a.map \ {v} : m[u] = a.map[u]
    BY EraseIs
  <2>2. b.map = m
    OBVIOUS
  <2> HIDE DEF m
  <2> QED
    BY <2>1, <2>2
<1>2. v \notin Mapped
  BY GivenAre
<1>3. Pooled(b, P)
  BY <1>1, <1>2 DEF Pooled
<1>4. Distinct(b)
  BY <1>1, <1>2 DEF Distinct
<1> QED
  BY <1>3, <1>4

LEMMA CodeGood ==
  ASSUME NEW P \in SUBSET Given, NEW i \in Nat, NEW a, Good(a, i, P),
         NEW k, k # a.linked,
         NEW b \in States, Changes(a.code, b.code, {k}),
         b.linked = a.linked, b.link = a.link,
         b.avail = a.avail, b.map = a.map
  PROVE  Good(b, i, P)
  BY DEF Good, Pooled, Distinct, LinkedFrom, Changes

(* The end of a life frees one register, which no other value has. *)
LEMMA DefineGood ==
  ASSUME NEW P \in SUBSET Given, NEW i \in Nat, NEW a, Good(a, i, P),
         NEW k \in DOMAIN a.code, k # a.linked, ~ is_physical(a.code[k].rd)
  PROVE  /\ Good(Define(a, k), i, P)
         /\ Changes(a.code, Define(a, k).code, {k})
         /\ Define(a, k).linked = a.linked
         /\ Define(a, k).thrown = a.thrown
<1> DEFINE b == Define(a, k)
           x == a.code[k]
<1>1. a.code \in Seq(Instructions) /\ x \in Instructions /\ x.rd \in Nat
      /\ a \in States /\ a.map \in Maps
  BY CodeIs DEF Good
<1>2. CASE ~ Allocated(a, x.rd)
  <2>1. b = [a EXCEPT !.code = [@ EXCEPT ![k] = kill(x)]]
    BY <1>2 DEF Define
  <2>2. kill(x) \in Instructions
    BY <1>1, InstructionUpdate
  <2> DEFINE c == [a.code EXCEPT ![k] = kill(x)]
  <2>3. c \in Seq(Instructions) /\ Changes(a.code, c, {k})
    BY <1>1, <2>2, CodeUpdate
  <2>4. b = [a EXCEPT !.code = c]
    BY <2>1
  <2> HIDE DEF c, b
  <2>5. /\ b \in States /\ b.code = c /\ b.linked = a.linked /\ b.link = a.link
        /\ b.map = a.map /\ b.avail = a.avail /\ b.thrown = a.thrown
    BY <1>1, <2>3, <2>4 DEF States
  <2>6. Good(b, i, P)
    BY <2>3, <2>5, CodeGood
  <2> QED
    BY <2>3, <2>5, <2>6 DEF b
<1>3. CASE Allocated(a, x.rd)
  <2> DEFINE p == a.map[x.rd]
             c == [a.code EXCEPT ![k] = [x EXCEPT !.rd = p]]
  <2>1. p \in 3 .. 31 /\ p \in Nat
    BY <1>1, <1>3, MapsAre DEF Allocated
  <2>2. [x EXCEPT !.rd = p] \in Instructions
    BY <1>1, <2>1, InstructionUpdate
  <2>3. c \in Seq(Instructions) /\ Changes(a.code, c, {k})
    BY <1>1, <2>2, CodeUpdate
  <2>4. CASE is_rd_use(x) \/ is_functional(x.rd)
    <3>1. b = [a EXCEPT !.code = c]
      BY <1>3, <2>4 DEF Define
    <3> HIDE DEF c, b, p
    <3>2. /\ b \in States /\ b.code = c /\ b.linked = a.linked /\ b.link = a.link
          /\ b.map = a.map /\ b.avail = a.avail /\ b.thrown = a.thrown
      BY <1>1, <2>3, <3>1 DEF States
    <3>3. Good(b, i, P)
      BY <2>3, <3>2, CodeGood
    <3> QED
      BY <2>3, <3>2, <3>3 DEF b
  <2>5. CASE ~ (is_rd_use(x) \/ is_functional(x.rd))
    <3>1. b = [a EXCEPT !.code = c, !.avail = @ \cup {p}, !.map = Erase(@, x.rd)]
      BY <1>3, <2>5 DEF Define
    <3>2. Erase(a.map, x.rd) \in Maps
      BY <1>1, EraseIs
    <3>3. is_virtual(x.rd)
      BY <1>1, <2>5 DEF is_virtual, is_functional, is_physical, VIRTUAL_BASE, FUNCTIONAL_BASE
    <3> HIDE DEF c, b, p
    <3>4. /\ b \in States /\ b.code = c /\ b.linked = a.linked /\ b.link = a.link
          /\ b.map = Erase(a.map, x.rd) /\ b.avail = a.avail \cup {p} /\ b.thrown = a.thrown
      BY <1>1, <2>1, <2>3, <3>1, <3>2 DEF States
    <3>5. Pooled(b, P) /\ Distinct(b)
      BY <1>1, <1>3, <3>3, <3>4, FreeKeeps DEF Good, Allocated, p
    <3>6. LinkedFrom(b, i)
      BY <2>3, <3>4 DEF Good, LinkedFrom, Changes
    <3> QED
      BY <2>3, <3>4, <3>5, <3>6 DEF Good, b
  <2> QED
    BY <2>4, <2>5
<1> QED
  BY <1>2, <1>3

(* A copy stays a copy when its operand gets its register. *)
LEMMA UseGood ==
  ASSUME NEW P \in SUBSET Given, NEW i \in Nat, NEW a, Good(a, i, P),
         NEW k \in DOMAIN a.code, NEW f \in {"rs1", "rs2"}, IsUse(a, k, f)
  PROVE  /\ Good(Use(a, k, f), i, P)
         /\ Changes(a.code, Use(a, k, f).code, {k})
         /\ Use(a, k, f).linked = a.linked
<1> DEFINE x == a.code[k]
           v == x[f]
           preference == IF is_physical(x.rd) THEN x.rd ELSE none_reg
           b == IF Allocated(a, v) THEN a ELSE allocate(a, v, preference)
           u == Use(a, k, f)
<1>1. /\ a \in States /\ a.code \in Seq(Instructions) /\ x \in Instructions
      /\ x.rs1 \in Nat /\ x.rs2 \in Nat
  BY CodeIs DEF Good
<1>2. v \in Nat /\ ~ is_physical(v)
  <2>1. f = "rs1" \/ f = "rs2"
    OBVIOUS
  <2>2. v \in Nat
    BY <1>1, <2>1
  <2> QED
    BY <2>2 DEF IsUse
<1>3. /\ Good(b, i, P) /\ b.code = a.code /\ b.linked = a.linked
      /\ ~ b.thrown => v \in DOMAIN b.map
  <2>1. CASE Allocated(a, v)
    BY <2>1 DEF Allocated
  <2>2. CASE ~ Allocated(a, v)
    <3>1. v \notin DOMAIN a.map
      BY <2>2 DEF Allocated
    <3>2. b = allocate(a, v, preference)
      BY <2>2
    <3> HIDE DEF v, preference, b
    <3> QED
      BY <1>2, <3>1, <3>2, AllocateGood
  <2> QED
    BY <2>1, <2>2
<1>a. b.code = a.code /\ LinkedFrom(b, i)
  BY <1>3 DEF Good
<1>4. CASE b.thrown
  <2>1. u = b
    BY <1>4 DEF Use
  <2> HIDE DEF b, u
  <2> QED
    BY <1>3, <2>1 DEF Changes, u
<1>5. CASE ~ b.thrown
  <2> DEFINE p == b.map[v]
             y == [x EXCEPT ![f] = p]
             c == [b.code EXCEPT ![k] = y]
  <2>1. u = [b EXCEPT !.code = [@ EXCEPT ![k] = [b.code[k] EXCEPT ![f] = p]]]
    BY <1>5 DEF Use
  <2>2. u = [b EXCEPT !.code = c]
    BY <1>3, <2>1
  <2>3. b \in States /\ b.map \in Maps
    BY <1>3 DEF Good, States
  <2> HIDE DEF b, u
  <2>4. p \in Nat
    BY <1>3, <1>5, <2>3, MapsAre
  <2>5. /\ y \in Instructions
        /\ y.rd = x.rd
        /\ is_mv(x) => is_mv(y)
    <3> HIDE DEF p
    <3>1. CASE f = "rs1"
      <4>1. y = [x EXCEPT !.rs1 = p] /\ ~ is_physical(x.rs1)
        BY <1>2, <3>1
      <4> HIDE DEF y, x
      <4> QED
        BY <1>1, <2>4, <4>1, InstructionUpdate
    <3>2. CASE f = "rs2"
      <4>1. y = [x EXCEPT !.rs2 = p] /\ ~ is_physical(x.rs2)
        BY <1>2, <3>2
      <4> HIDE DEF y, x
      <4> QED
        BY <1>1, <2>4, <4>1, InstructionUpdate
    <3> QED
      BY <3>1, <3>2
  <2> HIDE DEF p, y
  <2>6. c \in Seq(Instructions) /\ c[k] = y /\ Changes(b.code, c, {k})
    <3>1. b.code \in Seq(Instructions) /\ k \in DOMAIN b.code
      BY <1>1, <1>a
    <3> QED
      BY <2>5, <3>1, CodeUpdate
  <2> HIDE DEF c
  <2>7. /\ u \in States /\ u.code = c /\ u.linked = b.linked /\ u.link = b.link
        /\ u.map = b.map /\ u.avail = b.avail
    BY <2>2, <2>3, <2>6 DEF States
  <2>8. LinkedFrom(u, i)
    <3>1. LinkedFrom(b, i) /\ DOMAIN c = DOMAIN b.code /\ b.code[k] = x
      BY <1>a, <2>6 DEF Changes
    <3> HIDE DEF x
    <3>2. CASE b.linked = k
      <4>1. b.linked # 0 => is_mv(c[k]) /\ ~ is_physical(c[k].rd)
        BY <2>5, <2>6, <3>1, <3>2 DEF LinkedFrom
      <4> QED
        BY <2>7, <3>1, <3>2, <4>1 DEF LinkedFrom
    <3>3. CASE b.linked # k
      BY <2>6, <2>7, <3>1, <3>3 DEF LinkedFrom, Changes
    <3> QED
      BY <3>2, <3>3
  <2>9. Good(u, i, P)
    BY <1>3, <2>7, <2>8 DEF Good, Pooled, Distinct
  <2> QED
    BY <1>3, <2>6, <2>7, <2>9 DEF u
<1> QED
  BY <1>4, <1>5

LEMMA KillCopyGood ==
  ASSUME NEW P \in SUBSET Given, NEW i \in Nat, NEW a, Good(a, i, P),
         NEW k \in DOMAIN a.code
  PROVE  /\ Good(KillCopy(a, k), i, P)
         /\ Changes(a.code, KillCopy(a, k).code, {k})
         /\ KillCopy(a, k).linked = a.linked
<1> DEFINE x == a.code[k]
           c == [a.code EXCEPT ![k] = kill(x)]
           b == KillCopy(a, k)
<1>1. a \in States /\ a.code \in Seq(Instructions) /\ x \in Instructions
  BY CodeIs DEF Good
<1>2. CASE b = a
  <2> HIDE DEF b
  <2> QED
    BY <1>2 DEF Changes, b
<1>3. CASE b # a
  <2>1. b = [a EXCEPT !.code = c] /\ is_physical(x.rd)
    BY <1>3 DEF KillCopy
  <2>2. k # a.linked
    <3>1. a.linked # 0 => ~ is_physical(a.code[a.linked].rd)
      BY DEF Good, LinkedFrom
    <3>2. k # 0
      BY <1>1
    <3> QED
      BY <2>1, <3>1, <3>2
  <2>3. kill(x) \in Instructions
    BY <1>1, InstructionUpdate
  <2>4. c \in Seq(Instructions) /\ Changes(a.code, c, {k})
    BY <1>1, <2>3, CodeUpdate
  <2> HIDE DEF c, b
  <2>5. /\ b \in States /\ b.code = c /\ b.linked = a.linked /\ b.link = a.link
        /\ b.map = a.map /\ b.avail = a.avail
    BY <1>1, <2>1, <2>4 DEF States
  <2>6. Good(b, i, P)
    BY <2>2, <2>4, <2>5, CodeGood
  <2> QED
    BY <2>4, <2>5, <2>6 DEF b
<1> QED
  BY <1>2, <1>3

LEMMA ChangesTwice ==
  ASSUME NEW c, NEW d, NEW e, NEW K, NEW L, Changes(c, d, K), Changes(d, e, L)
  PROVE  Changes(c, e, K \cup L)
  BY DEF Changes

(* The end of a wait keeps registers apart. *)
LEMMA AllocateLinkedGood ==
  ASSUME NEW P \in SUBSET Given, NEW i \in Nat, NEW a, Good(a, i, P), ~ a.thrown
  PROVE  /\ Good(AllocateLinked(a), i, P)
         /\ Changes(a.code, AllocateLinked(a).code, {a.linked})
         /\ AllocateLinked(a).linked = 0
<1> DEFINE r == AllocateLinked(a)
<1>1. CASE a.linked = 0
  <2>1. r = a
    BY <1>1 DEF AllocateLinked
  <2> HIDE DEF r
  <2> QED
    BY <1>1, <2>1 DEF Changes, r
<1>2. CASE a.linked # 0
  <2> DEFINE k == a.linked
             z == [a EXCEPT !.linked = 0]
             b == Define(z, k)
             c == IF IsUse(b, k, "rs1") THEN Use(b, k, "rs1") ELSE b
             d == IF IsUse(c, k, "rs2") THEN Use(c, k, "rs2") ELSE c
  <2>1. r = KillCopy(d, k)
    BY <1>2 DEF AllocateLinked
  <2>2. k \in DOMAIN a.code /\ ~ is_physical(a.code[k].rd)
    BY <1>2 DEF Good, LinkedFrom
  <2>3. /\ z \in States /\ z.linked = 0 /\ z.code = a.code /\ z.map = a.map
        /\ z.avail = a.avail
    BY DEF Good, States
  <2> HIDE DEF z, r
  <2>4. Good(z, i, P)
    BY <2>3 DEF Good, Pooled, Distinct, LinkedFrom
  <2>5. Good(b, i, P) /\ Changes(a.code, b.code, {k}) /\ b.linked = 0
    <3> HIDE DEF k
    <3> QED
      BY <1>2, <2>2, <2>3, <2>4, DefineGood DEF k
  <2> HIDE DEF b
  <2>6. Good(c, i, P) /\ Changes(a.code, c.code, {k}) /\ c.linked = 0
    <3>1. CASE IsUse(b, k, "rs1")
      <4>1. k \in DOMAIN b.code
        BY <2>2, <2>5 DEF Changes
      <4>2. /\ Good(Use(b, k, "rs1"), i, P) /\ Use(b, k, "rs1").linked = 0
            /\ Changes(b.code, Use(b, k, "rs1").code, {k})
        BY <2>5, <3>1, <4>1, UseGood
      <4> QED
        BY <2>5, <3>1, <4>2, ChangesTwice
    <3>2. CASE ~ IsUse(b, k, "rs1")
      BY <2>5, <3>2
    <3> QED
      BY <3>1, <3>2
  <2> HIDE DEF c
  <2>7. Good(d, i, P) /\ Changes(a.code, d.code, {k}) /\ d.linked = 0
    <3>1. CASE IsUse(c, k, "rs2")
      <4>1. k \in DOMAIN c.code
        BY <2>2, <2>6 DEF Changes
      <4>2. /\ Good(Use(c, k, "rs2"), i, P) /\ Use(c, k, "rs2").linked = 0
            /\ Changes(c.code, Use(c, k, "rs2").code, {k})
        BY <2>6, <3>1, <4>1, UseGood
      <4> QED
        BY <2>6, <3>1, <4>2, ChangesTwice
    <3>2. CASE ~ IsUse(c, k, "rs2")
      BY <2>6, <3>2
    <3> QED
      BY <3>1, <3>2
  <2> HIDE DEF d
  <2>8. k \in DOMAIN d.code
    BY <2>2, <2>7 DEF Changes
  <2>9. Good(r, i, P) /\ Changes(d.code, r.code, {k}) /\ r.linked = 0
    BY <2>1, <2>7, <2>8, KillCopyGood
  <2> QED
    BY <2>7, <2>9, ChangesTwice DEF r
<1> QED
  BY <1>1, <1>2

(* So does killing the copy. *)
LEMMA InlineGood ==
  ASSUME NEW P \in SUBSET Given, NEW i \in Nat, NEW a, Good(a, i, P),
         NEW k \in DOMAIN a.code, k # a.linked, ~ is_physical(a.code[k].rd)
  PROVE  /\ Good(Inline(a, k), i, P)
         /\ Changes(a.code, Inline(a, k).code, {k, a.linked})
         /\ Inline(a, k).linked \in {0, a.linked}
         /\ Inline(a, k).thrown = a.thrown
         /\ ~ is_physical(Inline(a, k).code[k].rd)
<1> DEFINE b == Inline(a, k)
           l == a.linked
           x == a.code[k]
           r == a.code[l].rd
<1>1. CASE l = 0 \/ a.link # x.rd
  <2>1. b = a
    BY <1>1 DEF Inline
  <2> HIDE DEF b
  <2> QED
    BY <2>1 DEF Changes, b
<1>2. CASE l # 0 /\ a.link = x.rd
  <2>1. /\ l \in DOMAIN a.code /\ ~ is_physical(r) /\ is_virtual(a.link)
    BY <1>2 DEF Good, LinkedFrom
  <2>2. /\ a \in States /\ a.code \in Seq(Instructions) /\ x \in Instructions
        /\ a.map \in Maps
    BY CodeIs DEF Good
  <2>3. a.code[l] \in Instructions /\ r \in Nat
    BY <2>1, CodeIs DEF Good
  <2> DEFINE y == [x EXCEPT !.rd = r]
             c == [a.code EXCEPT ![k] = y]
             d == [c EXCEPT ![l] = kill(a.code[l])]
             m == Erase(a.map, a.link)
             f == IF Allocated(a, a.link) THEN a.avail \cup {a.map[a.link]} ELSE a.avail
  <2>4. b = [a EXCEPT !.avail = f, !.map = m, !.code = d, !.linked = 0]
    BY <1>2 DEF Inline
  <2>5. y \in Instructions /\ y.rd = r
    BY <2>2, <2>3, InstructionUpdate
  <2> HIDE DEF y, r
  <2>6. c \in Seq(Instructions) /\ c[k] = y /\ Changes(a.code, c, {k})
    BY <2>2, <2>5, CodeUpdate
  <2> HIDE DEF c
  <2>7. l \in DOMAIN c /\ a.code[l] \in Instructions
    BY <2>1, <2>6 DEF Changes
  <2>8. kill(a.code[l]) \in Instructions
    BY <2>7, InstructionUpdate
  <2>9. d \in Seq(Instructions) /\ Changes(c, d, {l})
    BY <2>6, <2>7, <2>8, CodeUpdate
  <2> HIDE DEF d
  <2>10. d[k] = y /\ Changes(a.code, d, {k, l})
    BY <2>1, <2>6, <2>9 DEF Changes
  <2>11. m \in Maps
    BY <2>2, EraseIs
  <2>12. f \in SUBSET Nat
    <3>1. a.avail \in SUBSET Nat
      BY <2>2 DEF States
    <3>2. CASE Allocated(a, a.link)
      <4>1. a.map[a.link] \in Nat
        BY <2>2, <3>2, MapsAre DEF Allocated
      <4> QED
        BY <3>1, <3>2, <4>1
    <3>3. CASE ~ Allocated(a, a.link)
      BY <3>1, <3>3
    <3> QED
      BY <3>2, <3>3
  <2> HIDE DEF b, m, f
  <2>13. /\ b \in States /\ b.code = d /\ b.linked = 0 /\ b.thrown = a.thrown
         /\ b.map = m /\ b.avail = f
    BY <2>2, <2>4, <2>9, <2>11, <2>12 DEF States
  <2>14. Pooled(b, P) /\ Distinct(b)
    <3>1. b.map = Erase(a.map, a.link)
      BY <2>13 DEF m
    <3>2. /\ a.link \in DOMAIN a.map => b.avail = a.avail \cup {a.map[a.link]}
          /\ a.link \notin DOMAIN a.map => b.avail = a.avail
      BY <2>13 DEF f, Allocated
    <3>3. Pooled(a, P) /\ Distinct(a)
      BY DEF Good
    <3> QED
      BY <2>1, <2>2, <3>1, <3>2, <3>3, FreeKeeps
  <2>15. Good(b, i, P)
    BY <2>13, <2>14 DEF Good, LinkedFrom
  <2> QED
    BY <2>1, <2>5, <2>10, <2>13, <2>15 DEF b, r
<1> QED
  BY <1>1, <1>2

(* The scan changes what it has passed and the instruction it is at. *)
Beyond(i) == {j \in Nat : j >= i}

LEMMA ChangesBeyond ==
  ASSUME NEW c, NEW d, NEW e, NEW i, NEW K, K \subseteq Beyond(i),
         Changes(c, d, Beyond(i)), Changes(d, e, K)
  PROVE  Changes(c, e, Beyond(i))
  BY DEF Changes

(* So does a use, whether it ends a wait or not. *)
LEMMA OperandGood ==
  ASSUME NEW P \in SUBSET Given, NEW i \in Nat \ {0}, NEW a, Good(a, i, P),
         i \in DOMAIN a.code, NEW f \in {"rs1", "rs2"}
  PROVE  /\ Good(Operand(a, i, f), i, P)
         /\ Changes(a.code, Operand(a, i, f).code, Beyond(i))
         /\ Operand(a, i, f).linked \in {0, a.linked}
<1> DEFINE r == Operand(a, i, f)
           b == AllocateLinked(a)
<1>0. /\ i \in Beyond(i)
      /\ a.linked # 0 => a.linked \in Beyond(i)
      /\ Changes(a.code, a.code, Beyond(i))
  BY DEF Good, States, LinkedFrom, Beyond, Changes
<1>1. CASE ~ IsUse(a, i, f)
  BY <1>0, <1>1 DEF Operand
<1>2. CASE /\ IsUse(a, i, f)
           /\ a.linked \notin {0, i}
           /\ a.code[i][f] \in {a.link, a.code[a.linked].rd}
  <2>1. Good(b, i, P) /\ Changes(a.code, b.code, {a.linked}) /\ b.linked = 0
    BY <1>2, AllocateLinkedGood DEF IsUse
  <2>2. i \in DOMAIN b.code /\ b.code[i] = a.code[i]
    BY <1>2, <2>1 DEF Changes
  <2>3. Changes(a.code, b.code, Beyond(i))
    BY <1>0, <1>2, <2>1, ChangesBeyond
  <2>4. CASE b.thrown
    BY <1>2, <2>1, <2>3, <2>4 DEF Operand
  <2>5. CASE ~ b.thrown
    <3> HIDE DEF b
    <3>1. r = Use(b, i, f)
      BY <1>2, <2>5 DEF Operand, b
    <3>2. CASE IsUse(b, i, f)
      <4>1. Good(Use(b, i, f), i, P) /\ Changes(b.code, Use(b, i, f).code, {i})
            /\ Use(b, i, f).linked = b.linked
        BY <2>1, <2>2, <3>2, UseGood
      <4> QED
        BY <1>0, <2>1, <2>3, <3>1, <4>1, ChangesBeyond
    <3>3. IsUse(b, i, f)
      BY <1>2, <2>2, <2>5 DEF IsUse
    <3> QED
      BY <3>2, <3>3
  <2> QED
    BY <2>4, <2>5
<1>3. CASE /\ IsUse(a, i, f)
           /\ ~ (/\ a.linked \notin {0, i}
                 /\ a.code[i][f] \in {a.link, a.code[a.linked].rd})
  <2>1. r = Use(a, i, f)
    BY <1>3 DEF Operand
  <2>2. Good(Use(a, i, f), i, P) /\ Changes(a.code, Use(a, i, f).code, {i})
        /\ Use(a, i, f).linked = a.linked
    BY <1>3, UseGood
  <2> QED
    BY <1>0, <2>1, <2>2, ChangesBeyond
<1> QED
  BY <1>1, <1>2, <1>3

(* The pool after instruction x: a return register joins it where it is set. *)
Returned(x) == {r \in {A0, A1} : Sets(x, r)}

(* A0 or A1 joins the pool. *)
LEMMA ReturnGood ==
  ASSUME NEW P \in SUBSET Given, NEW i \in Nat, NEW a, Good(a, i, P),
         NEW r \in {A0, A1}, r \notin P
  PROVE  Good([a EXCEPT !.avail = @ \cup {r}], i, P \cup {r})
<1> DEFINE b == [a EXCEPT !.avail = @ \cup {r}]
<1>1. r \in Nat /\ r \notin 16 .. 23
  BY DEF A0, A1
<1>2. /\ b \in States /\ b.avail = a.avail \cup {r} /\ b.map = a.map /\ b.code = a.code
      /\ b.linked = a.linked /\ b.link = a.link
  BY <1>1 DEF Good, States
<1> HIDE DEF b
<1>3. Pooled(b, P \cup {r})
  BY <1>2 DEF Good, Pooled
<1>4. ASSUME NEW v \in DOMAIN a.map
      PROVE  a.map[v] # r
  <2>1. CASE v \in Mapped
    <3>1. a.map[v] = Home(v) /\ Home(v) \in 16 .. 23
      BY <2>1, GivenAre DEF Good, Pooled
    <3> QED
      BY <1>1, <3>1
  <2>2. CASE v \notin Mapped
    BY <2>2 DEF Good, Pooled
  <2> QED
    BY <2>1, <2>2
<1>5. Distinct(b)
  BY <1>2, <1>4 DEF Good, Distinct
<1> QED
  BY <1>2, <1>3, <1>5 DEF Good, LinkedFrom, b

(* So does the destination, but that A0 or A1 may join the pool. *)
LEMMA DestinationGood ==
  ASSUME NEW P \in SUBSET Given, NEW i \in Nat \ {0}, NEW a, Good(a, i, P),
         i \in DOMAIN a.code, i # a.linked,
         P \cap Returned(a.code[i]) = {}
  PROVE  /\ \E Q \in SUBSET (P \cup Returned(a.code[i])) : Good(Destination(a, i), i, Q)
         /\ Changes(a.code, Destination(a, i).code, Beyond(i))
         /\ Destination(a, i).linked \in {0, i, a.linked}
<1> DEFINE x == a.code[i]
           b == Inline(a, i)
           c == AllocateLinked(b)
           t == Destination(a, i)
<1>0. /\ i \in Beyond(i)
      /\ a.linked # 0 => a.linked \in Beyond(i)
      /\ Changes(a.code, a.code, Beyond(i))
      /\ a.linked = 0 => a.linked \notin DOMAIN a.code
  BY DEF Good, States, LinkedFrom, Beyond, Changes
<1>1. CASE x.rd = none_reg \/ a.thrown
  <2>1. t = a
    BY <1>1 DEF Destination
  <2> HIDE DEF t
  <2> QED
    BY <1>0, <2>1 DEF t
<1>2. CASE ~ (x.rd = none_reg \/ a.thrown) /\ is_physical(x.rd)
  <2>1. CASE x.rd \in {A0, A1} /\ ~ is_rd_use(x)
    <3>1. t = [a EXCEPT !.avail = @ \cup {x.rd}]
      BY <1>2, <2>1 DEF Destination
    <3>2. x.rd \in Returned(x) /\ x.rd \notin P
      BY <2>1 DEF Returned, Sets
    <3>3. Good(t, i, P \cup {x.rd})
      <4> HIDE DEF x, t
      <4> QED
        BY <2>1, <3>1, <3>2, ReturnGood
    <3>4. t.code = a.code /\ t.linked = a.linked
      BY <3>1 DEF Good, States
    <3> HIDE DEF t, x
    <3> QED
      BY <1>0, <3>2, <3>3, <3>4 DEF t, x
  <2>2. CASE ~ (x.rd \in {A0, A1} /\ ~ is_rd_use(x))
    <3>1. t = a
      BY <1>2, <2>2 DEF Destination
    <3> HIDE DEF t
    <3> QED
      BY <1>0, <3>1 DEF t
  <2> QED
    BY <2>1, <2>2
<1>3. CASE ~ (x.rd = none_reg \/ a.thrown) /\ ~ is_physical(x.rd)
  <2>1. /\ Good(b, i, P)
        /\ Changes(a.code, b.code, {i, a.linked})
        /\ b.linked \in {0, a.linked}
        /\ ~ b.thrown
        /\ ~ is_physical(b.code[i].rd)
    <3>1. i \in Nat /\ ~ is_physical(a.code[i].rd)
      BY <1>3
    <3>2. /\ Good(Inline(a, i), i, P)
          /\ Changes(a.code, Inline(a, i).code, {i, a.linked})
          /\ Inline(a, i).linked \in {0, a.linked}
          /\ Inline(a, i).thrown = a.thrown
          /\ ~ is_physical(Inline(a, i).code[i].rd)
      BY <3>1, InlineGood
    <3> QED
      BY <1>3, <3>2
  <2>2. i \in DOMAIN b.code /\ b.linked # i
    BY <2>1 DEF Changes
  <2>3. Changes(a.code, b.code, Beyond(i))
    BY <1>0, <2>1 DEF Changes
  <2> HIDE DEF b
  <2>4. /\ Good(c, i, P)
        /\ Changes(b.code, c.code, {b.linked})
        /\ c.linked = 0
    BY <2>1, AllocateLinkedGood
  <2>5. c.code[i] = b.code[i] /\ i \in DOMAIN c.code
    BY <2>2, <2>4 DEF Changes
  <2>6. Changes(a.code, c.code, Beyond(i))
    <3>1. b.linked = 0 => Changes(b.code, c.code, {})
      <4>1. b.code \in Seq(Instructions)
        BY <2>1 DEF Good, States
      <4> QED
        BY <2>4, <4>1 DEF Changes
    <3>2. b.linked # 0 => b.linked \in Beyond(i)
      BY <2>1 DEF Good, LinkedFrom, States, Beyond
    <3>3. CASE b.linked = 0
      BY <2>3, <3>1, <3>3, ChangesBeyond
    <3>4. CASE b.linked # 0
      BY <2>3, <2>4, <3>2, <3>4, ChangesBeyond
    <3> QED
      BY <3>3, <3>4
  <2> HIDE DEF c
  <2>7. CASE Links(b, i)
    <3> DEFINE v == in_reg(b.code[i])
    <3>1. t = [c EXCEPT !.link = v, !.linked = i]
      BY <1>3, <2>7 DEF Destination, b, c
    <3>2. is_mv(b.code[i]) /\ is_virtual(v)
      BY <2>7 DEF Links
    <3>3. v \in Nat
      BY <2>1, <2>2, CodeIs DEF Good, in_reg
    <3> HIDE DEF v, t
    <3>4. /\ t \in States /\ t.code = c.code /\ t.map = c.map /\ t.avail = c.avail
          /\ t.linked = i /\ t.link = v
      BY <2>4, <3>1, <3>3 DEF Good, States
    <3>5. Good(t, i, P)
      BY <2>1, <2>4, <2>5, <3>2, <3>4 DEF Good, Pooled, Distinct, LinkedFrom
    <3> QED
      BY <2>6, <3>4, <3>5 DEF t
  <2>8. CASE ~ Links(b, i) /\ b.linked # 0 /\ b.code[i].rd = b.code[b.linked].rd
    <3>1. t = Define(c, i)
      BY <1>3, <2>8 DEF Destination, b, c
    <3>2. Good(Define(c, i), i, P) /\ Changes(c.code, Define(c, i).code, {i})
          /\ Define(c, i).linked = 0
      BY <2>1, <2>4, <2>5, DefineGood
    <3> HIDE DEF t
    <3> QED
      BY <1>0, <2>6, <3>1, <3>2, ChangesBeyond DEF t
  <2>9. CASE ~ Links(b, i) /\ ~ (b.linked # 0 /\ b.code[i].rd = b.code[b.linked].rd)
    <3>1. t = Define(b, i)
      BY <1>3, <2>9 DEF Destination, b
    <3>2. Good(Define(b, i), i, P) /\ Changes(b.code, Define(b, i).code, {i})
          /\ Define(b, i).linked = b.linked
      BY <2>1, <2>2, DefineGood
    <3> HIDE DEF t
    <3> QED
      BY <1>0, <2>1, <2>3, <3>1, <3>2, ChangesBeyond DEF t
  <2> QED
    BY <2>7, <2>8, <2>9
<1> QED
  BY <1>1, <1>2, <1>3

(* So does a whole instruction. *)
LEMMA InstructionGood ==
  ASSUME NEW P \in SUBSET Given, NEW i \in Nat \ {0}, NEW a, Good(a, i + 1, P),
         ~ a.thrown, i \in DOMAIN a.code,
         P \cap Returned(a.code[i]) = {}
  PROVE  /\ \E Q \in SUBSET (P \cup Returned(a.code[i])) :
              Good(allocate_instruction(a, i), i, Q)
         /\ Changes(a.code, allocate_instruction(a, i).code, Beyond(i))
         /\ allocate_instruction(a, i).linked \in {0, i, a.linked}
         /\ is_control_flow(a.code[i]) => allocate_instruction(a, i).linked \in {0, i}
<1> DEFINE x == a.code[i]
           b == IF is_control_flow(x) THEN AllocateLinked(a) ELSE a
           c == Destination(b, i)
           d == Operand(c, i, "rs1")
           e == Operand(d, i, "rs2")
           t == allocate_instruction(a, i)
<1>1. Good(a, i, P) /\ a.linked # i
  BY DEF Good, LinkedFrom, States
<1>2. a.linked = 0 => a.linked \notin DOMAIN a.code
  BY DEF Good, States
<1>3. /\ Good(b, i, P) /\ b.linked # i
      /\ Changes(a.code, b.code, Beyond(i)) /\ b.code[i] = x /\ i \in DOMAIN b.code
      /\ b.linked \in {0, a.linked} /\ (is_control_flow(x) => b.linked = 0)
  <2>1. CASE is_control_flow(x)
    <3>1. b = AllocateLinked(a)
      BY <2>1
    <3>2. /\ Good(AllocateLinked(a), i, P) /\ AllocateLinked(a).linked = 0
          /\ Changes(a.code, AllocateLinked(a).code, {a.linked})
      BY <1>1, AllocateLinkedGood
    <3>3. a.linked # 0 => a.linked \in Beyond(i)
      BY <1>1 DEF Good, LinkedFrom, States, Beyond
    <3> HIDE DEF b
    <3> QED
      BY <1>1, <1>2, <3>1, <3>2, <3>3 DEF Changes
  <2>2. CASE ~ is_control_flow(x)
    BY <1>1, <2>2 DEF Changes
  <2> QED
    BY <2>1, <2>2
<1> HIDE DEF b
<1>4. /\ \E Q \in SUBSET (P \cup Returned(x)) : Good(c, i, Q)
      /\ Changes(b.code, c.code, Beyond(i)) /\ c.linked \in {0, i, b.linked}
  BY <1>3, DestinationGood
<1> HIDE DEF c
<1>5. PICK Q \in SUBSET (P \cup Returned(x)) : Good(c, i, Q)
  BY <1>4
<1>6. Q \in SUBSET Given
  BY DEF Returned, Given
<1>7. i \in DOMAIN c.code
  BY <1>3, <1>4 DEF Changes
<1>8. Good(d, i, Q) /\ Changes(c.code, d.code, Beyond(i))
      /\ d.linked \in {0, c.linked}
  BY <1>5, <1>6, <1>7, OperandGood
<1> HIDE DEF d
<1>9. i \in DOMAIN d.code
  BY <1>7, <1>8 DEF Changes
<1>10. Good(e, i, Q) /\ Changes(d.code, e.code, Beyond(i))
       /\ e.linked \in {0, d.linked}
  BY <1>6, <1>8, <1>9, OperandGood
<1> HIDE DEF e
<1>11. i \in DOMAIN e.code
  BY <1>9, <1>10 DEF Changes
<1>12. Good(KillCopy(e, i), i, Q) /\ Changes(e.code, KillCopy(e, i).code, {i})
       /\ KillCopy(e, i).linked = e.linked
  BY <1>6, <1>10, <1>11, KillCopyGood
<1>13. t = KillCopy(e, i)
  BY DEF allocate_instruction, b, c, d, e
<1>14. {i} \subseteq Beyond(i)
  BY DEF Beyond
<1>15. Changes(a.code, t.code, Beyond(i))
  BY <1>3, <1>4, <1>8, <1>10, <1>12, <1>13, <1>14 DEF Changes
<1>16. t.linked \in {0, i, b.linked}
  BY <1>4, <1>8, <1>10, <1>12, <1>13
<1> QED
  BY <1>3, <1>5, <1>12, <1>13, <1>15, <1>16

-----------------------------------------------------------------------------

(* What holds between two instructions: A0 and A1 are in the pool only when
   the scan has passed the one instruction that sets them. *)
SetOnce(c, n) ==
  \A j, k \in 1 .. n, r \in {A0, A1} : Sets(c[j], r) /\ Sets(c[k], r) => j = k

PoolInv(a, n, P) ==
  /\ Good(a, n + 1, P)
  /\ \A j \in 1 .. n, r \in {A0, A1} : Sets(a.code[j], r) => r \notin P

AllocInv ==
  /\ pos \in 0 .. Len(code)
  /\ SetOnce(code, pos)
  /\ \E P \in SUBSET Given : PoolInv(State, pos, P)

(* The invariant implies both properties. *)
LEMMA AllocInvImplies ==
  ASSUME AllocInv
  PROVE  TypeOK /\ RegistersDistinct
<1>1. PICK P \in SUBSET Given : PoolInv(State, pos, P)
  BY DEF AllocInv
<1>2. /\ Good(State, pos + 1, P) /\ State.code = code /\ State.avail = avail
      /\ State.map = map /\ State.linked = linked /\ State.link = link
      /\ State.thrown = thrown
  BY <1>1 DEF PoolInv, State
<1> HIDE DEF State
<1>3. RegistersDistinct
  BY <1>2 DEF Good, Distinct, RegistersDistinct
<1>4. map \in Maps /\ code \in Seq(Instructions) /\ thrown \in BOOLEAN /\ linked \in Nat
  BY <1>2 DEF Good, States
<1>5. /\ avail \subseteq Available \cup {A0, A1}
      /\ \A v \in DOMAIN map : ~ is_physical(v) /\ map[v] \in 3 .. 31
      /\ Mapped \subseteq DOMAIN map
  BY <1>2, <1>4, MapsAre DEF Good, Pooled, Given
<1>6. pos \in 0 .. Len(code)
  BY DEF AllocInv
<1>7. linked # 0 => /\ linked \in DOMAIN code /\ linked > pos
                    /\ is_mv(code[linked]) /\ ~ is_dead(code[linked])
                    /\ ~ is_physical(code[linked].rd) /\ is_virtual(link)
  <2>1. linked # 0 => /\ linked \in DOMAIN code /\ linked >= pos + 1
                      /\ is_mv(code[linked])
                      /\ ~ is_physical(code[linked].rd) /\ is_virtual(link)
    BY <1>2 DEF Good, LinkedFrom
  <2>2. linked # 0 => ~ is_dead(code[linked])
    BY <2>1 DEF is_mv, is_dead
  <2> QED
    BY <1>4, <1>6, <2>1, <2>2
<1>8. linked \in 0 .. Len(code)
  BY <1>4, <1>7
<1> QED
  BY <1>3, <1>4, <1>5, <1>6, <1>7, <1>8 DEF TypeOK

(* A block begins with all that may be used free, and the mapped registers in
   their places. *)
LEMMA BeginGood ==
  ASSUME NEW a, NEW c \in Seq(Instructions), NEW n \in Nat,
         a = [code |-> c, avail |-> Available, map |-> [f \in Mapped |-> Home(f)],
              linked |-> 0, link |-> none_reg, thrown |-> FALSE]
  PROVE  PoolInv(a, n, Available)
<1> DEFINE m == [f \in Mapped |-> Home(f)]
<1>1. m \in [Mapped -> 3 .. 31]
  BY GivenAre
<1>2. m \in Maps
  BY <1>1, GivenAre, AreMaps
<1>3. Available \subseteq 3 .. 31 /\ Available \subseteq Given
  BY GivenAre DEF Given
<1>4. a \in States
  BY <1>2, <1>3 DEF States, none_reg, VIRTUAL_BASE
<1>5. a.map = m /\ a.avail = Available /\ a.linked = 0
  OBVIOUS
<1>6. Pooled(a, Available)
  BY <1>5, GivenAre DEF Pooled
<1>7. Distinct(a)
  BY <1>3, <1>5, GivenAre DEF Distinct
<1>8. A0 \notin Available /\ A1 \notin Available
  BY DEF Available, A0, A1
<1> QED
  BY <1>4, <1>5, <1>6, <1>7, <1>8 DEF PoolInv, Good, LinkedFrom

LEMMA InitInv ==
  ASSUME Init
  PROVE  AllocInv
<1>1. pos = 0 /\ code = <<>> /\ pos \in 0 .. Len(code)
  BY DEF Init
<1>2. SetOnce(code, pos)
  BY <1>1 DEF SetOnce
<1>3. State = [code |-> <<>>, avail |-> Available, map |-> [f \in Mapped |-> Home(f)],
               linked |-> 0, link |-> none_reg, thrown |-> FALSE]
  BY DEF Init, State
<1>4. PoolInv(State, 0, Available)
  <2>1. <<>> \in Seq(Instructions)
    OBVIOUS
  <2> HIDE DEF State
  <2> QED
    BY <1>3, <2>1, BeginGood
<1> QED
  BY <1>1, <1>2, <1>4 DEF AllocInv, Given

LEMMA BeginInv ==
  ASSUME NEW c \in Codes, Begin(c)
  PROVE  AllocInv'
<1>1. c \in Seq(Instructions) /\ Len(c) \in Nat
  BY CodeAssumption DEF CodeAssumption, Allocatable
<1>2. code' = c /\ pos' = Len(c) /\ (pos \in 0 .. Len(code))'
  BY <1>1 DEF Begin
<1>3. SetOnce(c, Len(c))
  BY CodeAssumption, <1>1 DEF CodeAssumption, Allocatable, SetOnce
<1>4. State' = [code |-> c, avail |-> Available, map |-> [f \in Mapped |-> Home(f)],
                linked |-> 0, link |-> none_reg, thrown |-> FALSE]
  BY DEF Begin, State
<1>5. PoolInv(State', Len(c), Available)
  BY <1>1, <1>4, BeginGood
<1> QED
  BY <1>2, <1>3, <1>5 DEF AllocInv, Given

LEMMA AllocateInstructionInv ==
  ASSUME AllocInv, AllocateInstruction
  PROVE  AllocInv'
<1> DEFINE a == State
           b == allocate_instruction(State, pos)
<1>1. PICK P \in SUBSET Given : PoolInv(a, pos, P)
  BY DEF AllocInv
<1>2. /\ Good(a, pos + 1, P) /\ a.code = code /\ a.thrown = thrown
      /\ \A j \in 1 .. pos, r \in {A0, A1} : Sets(code[j], r) => r \notin P
  BY <1>1 DEF PoolInv, State
<1>3. code \in Seq(Instructions) /\ pos \in Nat \ {0} /\ pos \in DOMAIN code
  BY <1>2 DEF Good, States, AllocInv, AllocateInstruction
<1>4. ~ a.thrown /\ P \cap Returned(code[pos]) = {}
  BY <1>2, <1>3 DEF AllocateInstruction, Returned
<1> HIDE DEF a
<1>5. /\ \E Q \in SUBSET (P \cup Returned(code[pos])) :
           Good(allocate_instruction(a, pos), pos, Q)
      /\ Changes(code, allocate_instruction(a, pos).code, Beyond(pos))
  BY <1>2, <1>3, <1>4, InstructionGood
<1>6. b = allocate_instruction(a, pos)
  BY DEF a
<1> HIDE DEF b
<1>7. PICK Q \in SUBSET (P \cup Returned(code[pos])) : Good(b, pos, Q)
  BY <1>5, <1>6
<1>8. Q \in SUBSET Given
  BY DEF Returned, Given
<1>9. b \in States
  BY <1>7 DEF Good
<1>10. State' = b /\ code' = b.code /\ pos' = pos - 1
  <2>1. State' = [code |-> b.code, avail |-> b.avail, map |-> b.map,
                  linked |-> b.linked, link |-> b.link, thrown |-> b.thrown]
    BY DEF AllocateInstruction, State, b
  <2>2. b = [code |-> b.code, avail |-> b.avail, map |-> b.map,
             linked |-> b.linked, link |-> b.link, thrown |-> b.thrown]
    BY <1>9 DEF States
  <2>3. code' = b.code /\ pos' = pos - 1
    BY DEF AllocateInstruction, b
  <2> QED
    BY <2>1, <2>2, <2>3
<1>11. \A j \in 1 .. pos - 1 : b.code[j] = code[j]
  BY <1>3, <1>5, <1>6 DEF Changes, Beyond
<1>12. DOMAIN b.code = DOMAIN code /\ b.code \in Seq(Instructions)
  BY <1>5, <1>6, <1>9 DEF Changes, States
<1>13. (pos \in 0 .. Len(code))'
  BY <1>3, <1>10, <1>12
<1>14. SetOnce(code', pos')
  BY <1>3, <1>10, <1>11 DEF AllocInv, SetOnce
<1>15. \A j \in 1 .. pos', r \in {A0, A1} : Sets(b.code[j], r) => r \notin Q
  <2> SUFFICES ASSUME NEW j \in 1 .. pos - 1, NEW r \in {A0, A1}, Sets(code[j], r)
               PROVE  r \notin Q
    BY <1>3, <1>10, <1>11
  <2>1. r \notin P
    BY <1>2, <1>3
  <2>2. ~ Sets(code[pos], r)
    BY <1>3 DEF AllocInv, SetOnce
  <2> QED
    BY <2>1, <2>2 DEF Returned
<1>16. PoolInv(State', pos', Q)
  <2>1. pos' + 1 = pos
    BY <1>3, <1>10
  <2> QED
    BY <1>7, <1>10, <1>15, <2>1 DEF PoolInv
<1> QED
  BY <1>8, <1>13, <1>14, <1>16 DEF AllocInv

LEMMA NextInv ==
  ASSUME AllocInv, [Next]_vars
  PROVE  AllocInv'
<1>1. CASE AllocateInstruction
  BY <1>1, AllocateInstructionInv
<1>2. CASE NextBlock
  BY <1>2, BeginInv DEF NextBlock
<1>3. CASE UNCHANGED vars
  <2>1. State' = State /\ pos' = pos /\ code' = code
    BY <1>3 DEF vars, State
  <2> QED
    BY <2>1 DEF AllocInv
<1> QED
  BY <1>1, <1>2, <1>3 DEF Next

LEMMA SpecAllocInv == Spec => []AllocInv
<1> QED
  BY InitInv, NextInv, PTL DEF Spec

(* InstructionBuilder::allocate keeps to the registers it may use, and the
   copy it has linked is a live one that it has passed. *)
THEOREM AllocatorTypeCorrect == Spec => []TypeOK
<1>1. AllocInv => TypeOK
  BY AllocInvImplies
<1> QED
  BY <1>1, SpecAllocInv, PTL

(* For all code that sets A0 and A1 once at most: two values that are alive
   together are never in one register, and no free register holds one. *)
THEOREM RegistersStayDistinct == Spec => []RegistersDistinct
<1>1. AllocInv => RegistersDistinct
  BY AllocInvImplies
<1> QED
  BY <1>1, SpecAllocInv, PTL

-----------------------------------------------------------------------------
(***************************************************************************)
(* The code that is allocated.  A history of places comes with the         *)
(* allocator: pl[q] is where values are behind instruction q.  Each step   *)
(* of the scan is followed through its parts: the end of a wait            *)
(* (Resolves), the destination (Written, Linking), the operands, and the   *)
(* removal of copies (Finished).                                           *)
(***************************************************************************)

(* f has all that m has. *)
SubMap(m, f) == \A v \in DOMAIN m : v \in DOMAIN f /\ f[v] = m[v]

(* Instruction c, which was s, has nothing to do with v and x. *)
Avoids(s, c, after, v, x) ==
  /\ s.rd \notin {v, x}
  /\ \/ is_dead(c) /\ Unread(s, after)
     \/ s.rs1 \notin {v, x} /\ s.rs2 \notin {v, x}

(* s is a copy out of v that waits as c: v has a register in m by now. *)
Copies(s, c, v, m) ==
  /\ is_mv(s) /\ s.type \in {"RdRs1Imm", "RdRs1Rs2"}
  /\ Copied(s) = v /\ is_virtual(v) /\ v # s.rd
  /\ ~ is_physical(s.rd) /\ s.rd # none_reg
  /\ ~ is_physical(c.rd) /\ c.rd # none_reg
  /\ s.rs1 = v \/ is_physical(s.rs1) \/ s.rs1 = none_reg
  /\ s.rs2 = v \/ is_physical(s.rs2) \/ s.rs2 = none_reg
  /\ c.type = s.type /\ c.insn = s.insn /\ c.imm = s.imm
  /\ InPlace(m, s.rs1, c.rs1) /\ InPlace(m, s.rs2, c.rs2)

(* The copy's result, if something needs it, is to be in the place of x, which
   no other value has. *)
Target(s, x, v, m, after) ==
  /\ v \notin DOMAIN after
  /\ s.rd \in DOMAIN after => x # v /\ x \in DOMAIN m /\ after[s.rd] = m[x]
  /\ x \notin DOMAIN after \ {s.rd}
  /\ x \in DOMAIN m => \A u \in DOMAIN after \ {s.rd} : after[u] # m[x]

(* No instruction of the window needs the two registers. *)
Untouched(src, c, pl, i, k, v, x) ==
  \A j \in i + 1 .. k - 1 : Avoids(src[j], c[j], pl[j], v, x)

(* What is so from instruction i up to the copy that waits, k: v and the
   target x have their places all the way, and nothing else is done with them. *)
Waits(a, pl, i, src) ==
  LET k == a.linked
      v == a.link
      x == a.code[k].rd
  IN  /\ k \in DOMAIN src /\ k > i
      /\ v \in DOMAIN a.map
      /\ Copies(src[k], a.code[k], v, a.map)
      /\ Target(src[k], x, v, a.map, pl[k])
      /\ \A q \in i .. k - 1 :
           /\ v \in DOMAIN pl[q] /\ pl[q][v] = a.map[v]
           /\ src[k].rd \in DOMAIN pl[k] => x \in DOMAIN pl[q] /\ pl[q][x] = a.map[x]
      /\ Untouched(src, a.code, pl, i, k, v, x)

(* Reserved, of any code. *)
Held(src, q, r) == r \in {A0, A1} /\ \E j \in 1 .. q : Sets(src[j], r)

(* CodeFollows, of any code, history and waiting copy. *)
Follow(src, c, pl, i, k) ==
  /\ \A j \in i + 1 .. Len(src) : Keeps(src[j], pl[j - 1], pl[j])
  /\ \A j \in i + 1 .. Len(src) : j # k => Computes(src[j], c[j], pl[j - 1], pl[j])
  /\ \A q \in i .. Len(src) : \A v \in DOMAIN pl[q] : ~ Held(src, q, pl[q][v])

Histories(src) == [0 .. Len(src) -> Maps]

(* What holds of the instructions behind i. *)
Passed(a, pl, i, src) ==
  /\ pl \in Histories(src)
  /\ DOMAIN a.code = DOMAIN src
  /\ Follow(src, a.code, pl, i, a.linked)
  /\ a.linked # 0 => Waits(a, pl, i, src)

(* A0 and A1 are in the pool only when the instruction that sets them has been
   passed. *)
PoolSet(P, n, src) ==
  \A r \in P \cap {A0, A1} : \E j \in n + 1 .. Len(src) : Sets(src[j], r)

(* m becomes n: neither v nor x is alive, but for v in p if it is kept. *)
Edit(m, n, v, x, kept, p) ==
  /\ DOMAIN n = (DOMAIN m \ {v, x}) \cup kept
  /\ kept \subseteq {v}
  /\ \A u \in DOMAIN m \ {v, x} : n[u] = m[u]
  /\ \A u \in kept : n[u] = p

(* So become the places of a window. *)
Edited(pl, ql, i, k, n, v, x, kept, p) ==
  /\ \A q \in i .. k - 1 : Edit(pl[q], ql[q], v, x, kept, p)
  /\ kept # {} => \A q \in i .. k - 1 : \E w \in {v, x} : w \in DOMAIN pl[q] /\ pl[q][w] = p
  /\ \A q \in 0 .. n : q \notin i .. k - 1 => ql[q] = pl[q]

LEMMA CopiedIs ==
  ASSUME NEW s
  PROVE  Copied(s) \in {s.rs1, s.rs2}
  BY DEF Copied, in_reg

LEMMA EditInPlace ==
  ASSUME NEW m, NEW n, NEW v, NEW x, NEW kept, NEW p, Edit(m, n, v, x, kept, p),
         NEW r, r \notin {v, x}, NEW o
  PROVE  InPlace(m, r, o) => InPlace(n, r, o)
  BY DEF Edit, InPlace

LEMMA EditKeeps ==
  ASSUME NEW m1, NEW n1, NEW m2, NEW n2, NEW v, NEW x, NEW kept, NEW p,
         Edit(m1, n1, v, x, kept, p), Edit(m2, n2, v, x, kept, p),
         NEW s, s.rd \notin {v, x}, Keeps(s, m1, m2)
  PROVE  Keeps(s, n1, n2)
  BY DEF Edit, Keeps

(* An instruction that has nothing to do with v and x computes the same
   without them. *)
LEMMA EditComputes ==
  ASSUME NEW m1, NEW n1, NEW m2, NEW n2, NEW v, NEW x, NEW kept, NEW p,
         Edit(m1, n1, v, x, kept, p), Edit(m2, n2, v, x, kept, p),
         kept # {} => \E w \in {v, x} : w \in DOMAIN m2 /\ m2[w] = p,
         NEW s, NEW c, Avoids(s, c, m2, v, x), Computes(s, c, m1, m2)
  PROVE  Computes(s, c, n1, n2) /\ Avoids(s, c, n2, v, x)
<1>1. s.rd \notin {v, x}
  BY DEF Avoids
<1>2. CASE is_dead(c) /\ Unread(s, m2)
  <2>1. Unread(s, n2)
    BY <1>1, <1>2 DEF Unread, Edit
  <2> QED
    BY <1>1, <1>2, <2>1 DEF Computes, Avoids
<1>3. CASE ~ (is_dead(c) /\ Unread(s, m2)) /\ s.rs1 \notin {v, x} /\ s.rs2 \notin {v, x}
  <2>0. Avoids(s, c, n2, v, x)
    BY <1>1, <1>3 DEF Avoids
  <2>1. CASE is_dead(c)
    <3>1. is_mv(s)
      BY <1>3, <2>1 DEF Computes
    <3>2. PICK o \in 0 .. 31 : InPlace(m1, Copied(s), o) /\ (s.rd = ZERO \/ InPlace(m2, s.rd, o))
      BY <1>3, <2>1 DEF Computes
    <3>3. Copied(s) \notin {v, x}
      BY <1>3, <3>1, CopiedIs
    <3>4. InPlace(n1, Copied(s), o)
      BY <3>2, <3>3, EditInPlace
    <3>5. s.rd = ZERO \/ InPlace(n2, s.rd, o)
      BY <1>1, <3>2, EditInPlace
    <3> QED
      BY <2>0, <2>1, <3>1, <3>4, <3>5 DEF Computes
  <2>2. CASE ~ is_dead(c)
    <3>1. /\ c.type = s.type /\ c.insn = s.insn /\ c.imm = s.imm
          /\ InPlace(m1, s.rs1, c.rs1)
          /\ InPlace(m1, s.rs2, c.rs2)
          /\ Lands(m2, s.rd, c.rd)
          /\ \A u \in DOMAIN m2 \ {s.rd} : m2[u] # c.rd
      BY <2>2 DEF Computes
    <3>2. InPlace(n1, s.rs1, c.rs1)
      BY <1>3, <3>1, EditInPlace
    <3>3. InPlace(n1, s.rs2, c.rs2)
      BY <1>3, <3>1, EditInPlace
    <3>4. Lands(n2, s.rd, c.rd)
      BY <1>1, <3>1 DEF Edit, Lands
    <3>5. \A u \in DOMAIN n2 \ {s.rd} : n2[u] # c.rd
      BY <1>1, <3>1 DEF Edit
    <3> QED
      BY <2>0, <2>2, <3>1, <3>2, <3>3, <3>4, <3>5 DEF Computes
  <2> QED
    BY <2>1, <2>2
<1> QED
  BY <1>1, <1>2, <1>3 DEF Avoids

(* The places in the window between instruction i and the copy at k are
   changed, for good. *)
LEMMA EditFollow ==
  ASSUME NEW src \in Seq(Instructions), NEW pl \in Histories(src), NEW ql \in Histories(src),
         NEW i \in Nat, NEW k \in DOMAIN src, k > i,
         NEW c, NEW d, NEW v, NEW x, NEW kept, NEW p,
         DOMAIN c = DOMAIN src, Changes(c, d, {i, k}),
         Follow(src, c, pl, i, k), Edited(pl, ql, i, k, Len(src), v, x, kept, p),
         Untouched(src, c, pl, i, k, v, x),
         v \notin DOMAIN pl[k] \ {src[k].rd}, x \notin DOMAIN pl[k] \ {src[k].rd},
         src[k].type # "RdRs1ImmKeepRs2", Computes(src[k], d[k], ql[k - 1], pl[k])
  PROVE  Follow(src, d, ql, i, 0)
<1>0. Len(src) \in Nat /\ DOMAIN src = 1 .. Len(src) /\ k \in 1 .. Len(src)
  OBVIOUS
<1>a. \A j \in i + 1 .. Len(src) : j # k => d[j] = c[j]
  BY <1>0 DEF Changes
<1>b. \A q \in k .. Len(src) : ql[q] = pl[q]
  BY <1>0 DEF Edited
<1>1. ASSUME NEW j \in i + 1 .. Len(src)
      PROVE  Keeps(src[j], ql[j - 1], ql[j]) /\ Computes(src[j], d[j], ql[j - 1], ql[j])
  <2>0. Keeps(src[j], pl[j - 1], pl[j])
    BY DEF Follow
  <2>1. CASE j < k
    <3>1. j \in i + 1 .. k - 1 /\ j - 1 \in i .. k - 1 /\ j \in i .. k - 1
      BY <1>0, <2>1
    <3>2. /\ Edit(pl[j - 1], ql[j - 1], v, x, kept, p) /\ Edit(pl[j], ql[j], v, x, kept, p)
          /\ Avoids(src[j], c[j], pl[j], v, x)
          /\ kept # {} => \E w \in {v, x} : w \in DOMAIN pl[j] /\ pl[j][w] = p
      BY <3>1 DEF Edited, Untouched
    <3>3. Computes(src[j], c[j], pl[j - 1], pl[j]) /\ d[j] = c[j]
      BY <1>0, <1>a, <2>1 DEF Follow
    <3>4. src[j].rd \notin {v, x}
      BY <3>2 DEF Avoids
    <3>5. Keeps(src[j], ql[j - 1], ql[j])
      BY <2>0, <3>2, <3>4, EditKeeps
    <3>6. Computes(src[j], c[j], ql[j - 1], ql[j])
      BY <3>2, <3>3, EditComputes
    <3> QED
      BY <3>3, <3>5, <3>6
  <2>2. CASE j = k
    <3>1. Edit(pl[k - 1], ql[k - 1], v, x, kept, p) /\ ql[k] = pl[k]
      BY <1>0, <1>b DEF Edited
    <3>2. Keeps(src[k], ql[k - 1], pl[k])
      BY <2>0, <2>2, <3>1 DEF Keeps, Overwrites, Edit
    <3> QED
      BY <2>2, <3>1, <3>2
  <2>3. CASE j > k
    <3>1. j - 1 \in k .. Len(src) /\ j \in k .. Len(src)
      BY <1>0, <2>3
    <3>2. ql[j - 1] = pl[j - 1] /\ ql[j] = pl[j]
      BY <1>b, <3>1
    <3>3. Computes(src[j], c[j], pl[j - 1], pl[j]) /\ d[j] = c[j]
      BY <1>0, <1>a, <2>3 DEF Follow
    <3> QED
      BY <2>0, <3>2, <3>3
  <2> QED
    BY <1>0, <2>1, <2>2, <2>3
<1>2. ASSUME NEW q \in i .. Len(src), NEW u \in DOMAIN ql[q]
      PROVE  ~ Held(src, q, ql[q][u])
  <2>0. \A w \in DOMAIN pl[q] : ~ Held(src, q, pl[q][w])
    BY DEF Follow
  <2>1. CASE q < k
    <3>1. q \in i .. k - 1
      BY <1>0, <2>1
    <3>2. Edit(pl[q], ql[q], v, x, kept, p) /\ (kept # {} => \E w \in {v, x} : w \in DOMAIN pl[q] /\ pl[q][w] = p)
      BY <3>1 DEF Edited
    <3>3. \E w \in DOMAIN pl[q] : ql[q][u] = pl[q][w]
      BY <3>2 DEF Edit
    <3> QED
      BY <2>0, <3>3
  <2>2. CASE ~ (q < k)
    <3>1. q \in k .. Len(src)
      BY <1>0, <2>2
    <3>2. ql[q] = pl[q]
      BY <1>b, <3>1
    <3> QED
      BY <2>0, <3>2
  <2> QED
    BY <2>1, <2>2
<1> QED
  BY <1>1, <1>2 DEF Follow

LEMMA CopyReads ==
  ASSUME NEW m \in Maps, NEW s \in Instructions, NEW c \in Instructions, NEW v,
         Copies(s, c, v, m)
  PROVE  /\ v \in DOMAIN m /\ in_reg(c) = m[v]
         /\ c.rs1 = none_reg \/ is_physical(c.rs1)
         /\ c.rs2 = none_reg \/ is_physical(c.rs2)
         /\ is_mv(c) <=> is_mv(s)
<1>1. \A u \in DOMAIN m : m[u] \in 3 .. 31
  BY MapsAre
<1>2. /\ ~ is_physical(v) /\ v # none_reg
      /\ \A p \in 3 .. 31 : is_physical(p) /\ p # none_reg /\ p # ZERO
      /\ is_physical(ZERO)
  <2>1. v \in Nat /\ v >= 64
    <3>1. v \in {s.rs1, s.rs2} /\ is_virtual(v)
      BY CopiedIs DEF Copies
    <3>2. v \in Nat
      BY <3>1 DEF Instructions
    <3> QED
      BY <3>1, <3>2 DEF is_virtual, VIRTUAL_BASE
  <2> QED
    BY <2>1 DEF is_physical, none_reg, VIRTUAL_BASE, FUNCTIONAL_BASE, ZERO
<1>3. \A r, p : InPlace(m, r, p) =>
         /\ p = none_reg \/ is_physical(p)
         /\ r = v => v \in DOMAIN m /\ p = m[v]
         /\ p = ZERO <=> r = ZERO
         /\ p = none_reg <=> r = none_reg
  BY <1>1, <1>2 DEF InPlace
<1>4. InPlace(m, s.rs1, c.rs1) /\ InPlace(m, s.rs2, c.rs2)
  BY DEF Copies
<1>5. Copied(s) = v /\ s.type \in {"RdRs1Imm", "RdRs1Rs2"} /\ is_mv(s)
      /\ c.type = s.type /\ c.insn = s.insn /\ c.imm = s.imm
  BY DEF Copies
<1>6. is_mv(c) <=> is_mv(s)
  BY <1>3, <1>4, <1>5 DEF is_mv
<1>7. v \in DOMAIN m /\ in_reg(c) = m[v]
  <2>1. CASE s.type = "RdRs1Imm"
    <3>1. s.rs1 = v
      BY <1>5, <2>1 DEF Copied
    <3> QED
      BY <1>1, <1>2, <1>3, <1>4, <3>1 DEF in_reg
  <2>2. CASE s.type = "RdRs1Rs2"
    <3>1. in_reg(s) = v
      BY <1>5, <2>2 DEF Copied
    <3>2. CASE s.rs1 # ZERO
      <4>1. s.rs1 = v
        BY <3>1, <3>2 DEF in_reg
      <4> QED
        BY <1>1, <1>2, <1>3, <1>4, <4>1 DEF in_reg
    <3>3. CASE s.rs1 = ZERO
      <4>1. s.rs2 # none_reg /\ s.rs2 = v
        BY <1>2, <3>1, <3>3 DEF in_reg
      <4> QED
        BY <1>1, <1>2, <1>3, <1>4, <3>3, <4>1 DEF in_reg
    <3> QED
      BY <3>2, <3>3
  <2> QED
    BY <1>5, <2>1, <2>2
<1> QED
  BY <1>3, <1>4, <1>6, <1>7

(* The copy at k, out of v into x, waits no longer. *)
Decided(a, r, k, x, v) ==
  /\ SubMap(r.map, a.map) /\ DOMAIN a.map \ {x} \subseteq DOMAIN r.map
  /\ IF x \in DOMAIN a.map
     THEN /\ is_physical(r.code[k].rd)
          /\ IF x = v THEN is_dead(r.code[k])
             ELSE r.code[k] = [a.code[k] EXCEPT !.rd = a.map[x]]
     ELSE /\ x \notin DOMAIN r.map
          /\ is_dead(r.code[k]) /\ ~ is_physical(r.code[k].rd)

(* What happens to the copy that waits when it must wait no longer. *)
LEMMA AllocateLinkedIs ==
  ASSUME NEW a \in States, ~ a.thrown, NEW k \in DOMAIN a.code, a.linked = k, k # 0,
         Distinct(a),
         NEW s \in Instructions, NEW v, Copies(s, a.code[k], v, a.map),
         NEW x, x = a.code[k].rd, NEW r, r = AllocateLinked(a)
  PROVE      /\ r \in States /\ ~ r.thrown /\ r.linked = 0
             /\ Changes(a.code, r.code, {k})
             /\ Decided(a, r, k, x, v)
<1> DEFINE c == a.code[k]
           z == [a EXCEPT !.linked = 0]
           b == Define(z, k)
           b1 == IF IsUse(b, k, "rs1") THEN Use(b, k, "rs1") ELSE b
           b2 == IF IsUse(b1, k, "rs2") THEN Use(b1, k, "rs2") ELSE b1
<1>0. r = KillCopy(b2, k)
  BY DEF AllocateLinked
<1>1. /\ a.code \in Seq(Instructions) /\ c \in Instructions /\ a.map \in Maps
      /\ x \in Nat /\ c.rd = x /\ ~ is_physical(x) /\ x # none_reg
  BY CodeIs DEF Copies
<1>2. /\ z \in States /\ z.linked = 0 /\ z.code = a.code /\ z.map = a.map
      /\ z.avail = a.avail /\ ~ z.thrown /\ z.link = a.link
  BY DEF States
<1>3. /\ v \in DOMAIN a.map /\ in_reg(c) = a.map[v]
      /\ c.rs1 = none_reg \/ is_physical(c.rs1)
      /\ c.rs2 = none_reg \/ is_physical(c.rs2)
      /\ is_mv(c)
  <2>1. is_mv(s)
    BY DEF Copies
  <2> QED
    BY <1>1, <2>1, CopyReads
<1> HIDE DEF z
<1>4. CASE x \notin DOMAIN a.map
  <2> DEFINE cc == [a.code EXCEPT ![k] = kill(c)]
  <2>1. b = [z EXCEPT !.code = cc]
    BY <1>1, <1>2, <1>4 DEF Define, Allocated
  <2>2. kill(c) \in Instructions /\ is_dead(kill(c)) /\ kill(c).rd = x
    <3>1. kill(c) \in Instructions
      BY <1>1, InstructionUpdate
    <3> QED
      BY <1>1, <3>1 DEF kill, is_dead, Instructions
  <2>3. cc \in Seq(Instructions) /\ Changes(a.code, cc, {k}) /\ cc[k] = kill(c)
    BY <1>1, <2>2, CodeUpdate
  <2> HIDE DEF cc, b
  <2>4. /\ b \in States /\ b.code = cc /\ b.linked = 0 /\ b.map = a.map /\ ~ b.thrown
    BY <1>2, <2>1, <2>3 DEF States
  <2>5. b2 = b
    BY <2>2, <2>3, <2>4 DEF IsUse
  <2>6. r = b
    BY <1>0, <2>2, <2>3, <2>4, <2>5 DEF KillCopy, is_mv, is_dead
  <2> QED
    BY <1>1, <1>4, <2>2, <2>3, <2>4, <2>6 DEF Decided, SubMap
<1>5. CASE x \in DOMAIN a.map
  <2> DEFINE p == a.map[x]
             y == [c EXCEPT !.rd = p]
             cc == [a.code EXCEPT ![k] = y]
  <2>1. p \in 3 .. 31 /\ p \in Nat /\ is_physical(p) /\ p # ZERO
    <3>1. p \in 3 .. 31
      BY <1>1, <1>5, MapsAre
    <3> QED
      BY <3>1 DEF is_physical, FUNCTIONAL_BASE, ZERO
  <2>2. y \in Instructions /\ y.rd = p /\ is_mv(y) /\ y.rs1 = c.rs1 /\ y.rs2 = c.rs2
    <3>1. y \in Instructions /\ y.rd = p /\ is_mv(y)
      BY <1>1, <1>3, <2>1, InstructionUpdate
    <3> QED
      BY <1>1, <3>1 DEF Instructions
  <2>3. cc \in Seq(Instructions) /\ Changes(a.code, cc, {k}) /\ cc[k] = y
    BY <1>1, <2>2, CodeUpdate
  <2>4. ~ is_rd_use(c)
    BY <1>1, <1>3 DEF is_rd_use
  <2>5. b = IF is_functional(x) THEN [z EXCEPT !.code = cc]
            ELSE [z EXCEPT !.code = cc, !.avail = @ \cup {p}, !.map = Erase(@, x)]
    BY <1>1, <1>2, <1>5, <2>4 DEF Define, Allocated
  <2>6. /\ Erase(a.map, x) \in Maps
        /\ DOMAIN Erase(a.map, x) = DOMAIN a.map \ {x}
        /\ \A u \in DOMAIN a.map \ {x} : Erase(a.map, x)[u] = a.map[u]
    BY <1>1, EraseIs
  <2> HIDE DEF p, y, cc, b
  <2>7. /\ b \in States /\ b.code = cc /\ b.linked = 0 /\ ~ b.thrown
        /\ b.map = IF is_functional(x) THEN a.map ELSE Erase(a.map, x)
    <3>1. CASE is_functional(x)
      BY <1>2, <2>3, <2>5, <3>1 DEF States
    <3>2. CASE ~ is_functional(x)
      BY <1>2, <2>1, <2>3, <2>5, <2>6, <3>2 DEF States
    <3> QED
      BY <3>1, <3>2
  <2>8. b2 = b
    BY <1>3, <2>2, <2>3, <2>7 DEF IsUse
  <2>9. r = KillCopy(b, k)
    BY <1>0, <2>8
  <2>10. /\ DOMAIN b.map \subseteq DOMAIN a.map
         /\ DOMAIN a.map \ {x} \subseteq DOMAIN b.map
         /\ \A u \in DOMAIN b.map : b.map[u] = a.map[u]
    BY <2>6, <2>7
  <2>11. CASE x # v
    <3>1. p # in_reg(c)
      BY <1>3, <1>5, <2>11 DEF Distinct, p
    <3>2. in_reg(y) = in_reg(c)
      BY <2>2 DEF in_reg
    <3>3. r = b
      BY <2>1, <2>2, <2>3, <2>7, <2>9, <3>1, <3>2 DEF KillCopy
    <3> QED
      BY <1>5, <2>1, <2>2, <2>3, <2>7, <2>10, <2>11, <3>3 DEF y, p, Decided, SubMap
  <2>12. CASE x = v
    <3>1. in_reg(y) = p
      BY <1>3, <2>2, <2>12 DEF in_reg, p
    <3> DEFINE d == [cc EXCEPT ![k] = kill(y)]
    <3>2. r = [b EXCEPT !.code = d]
      BY <2>1, <2>2, <2>3, <2>7, <2>9, <3>1 DEF KillCopy
    <3>3. kill(y) \in Instructions /\ is_dead(kill(y)) /\ kill(y).rd = p
      <4>1. kill(y) \in Instructions
        BY <2>2, InstructionUpdate
      <4> QED
        BY <2>2, <4>1 DEF kill, is_dead, Instructions
    <3>4. k \in DOMAIN cc
      BY <2>3 DEF Changes
    <3>5. d \in Seq(Instructions) /\ Changes(cc, d, {k}) /\ d[k] = kill(y)
      BY <2>3, <3>3, <3>4, CodeUpdate
    <3>6. Changes(a.code, d, {k})
      BY <2>3, <3>5 DEF Changes
    <3> HIDE DEF d
    <3>7. r \in States /\ r.code = d /\ r.linked = 0 /\ ~ r.thrown /\ r.map = b.map
      BY <2>7, <3>2, <3>5 DEF States
    <3> QED
      BY <1>5, <2>1, <2>10, <2>12, <3>3, <3>5, <3>6, <3>7 DEF Decided, SubMap
  <2> QED
    BY <2>11, <2>12
<1> QED
  BY <1>4, <1>5

(* The history once the copy that waits is decided. *)
Resolved(pl, a, b, i, src) ==
  [q \in DOMAIN pl |->
     IF q \in i .. a.linked - 1
     THEN Settled(pl[q], a, b, src[a.linked], pl[a.linked])
     ELSE pl[q]]

LEMMA WaitsAre ==
  ASSUME NEW a, NEW pl, NEW i \in Nat, NEW src \in Seq(Instructions), pl \in Histories(src),
         Waits(a, pl, i, src)
  PROVE  /\ a.linked \in DOMAIN src /\ a.linked \in Nat /\ a.linked > i
         /\ a.linked \in 1 .. Len(src) /\ i .. a.linked - 1 \subseteq 0 .. Len(src)
         /\ src[a.linked] \in Instructions
         /\ a.link \in DOMAIN a.map
         /\ Copies(src[a.linked], a.code[a.linked], a.link, a.map)
         /\ Target(src[a.linked], a.code[a.linked].rd, a.link, a.map, pl[a.linked])
         /\ \A q \in i .. a.linked - 1 :
              /\ pl[q] \in Maps
              /\ a.link \in DOMAIN pl[q] /\ pl[q][a.link] = a.map[a.link]
              /\ src[a.linked].rd \in DOMAIN pl[a.linked]
                   => /\ a.code[a.linked].rd \in DOMAIN pl[q]
                      /\ pl[q][a.code[a.linked].rd] = a.map[a.code[a.linked].rd]
         /\ Untouched(src, a.code, pl, i, a.linked, a.link, a.code[a.linked].rd)
<1>1. a.linked \in DOMAIN src /\ a.linked \in 1 .. Len(src) /\ a.linked > i
  BY DEF Waits
<1>2. i .. a.linked - 1 \subseteq 0 .. Len(src)
  BY <1>1
<1>3. \A q \in 0 .. Len(src) : pl[q] \in Maps
  BY DEF Histories
<1> QED
  BY <1>1, <1>2, <1>3 DEF Waits

(* The end of a wait takes v and x out of the window, or leaves v in the place
   of both. *)
LEMMA ResolvedIs ==
  ASSUME NEW src \in Seq(Instructions), NEW pl \in Histories(src), NEW i \in Nat, NEW a, NEW b,
         NEW k, k = a.linked, k \in DOMAIN src, k > i,
         NEW v, v = a.link, v \in Nat, NEW x, x = a.code[k].rd,
         NEW kept, NEW p \in 3 .. 31,
         \A q \in i .. k - 1 : Edit(pl[q], Settled(pl[q], a, b, src[k], pl[k]), v, x, kept, p),
         kept # {} => \A q \in i .. k - 1 : \E w \in {v, x} : w \in DOMAIN pl[q] /\ pl[q][w] = p,
         NEW ql, ql = Resolved(pl, a, b, i, src)
  PROVE      /\ ql \in Histories(src)
             /\ Edited(pl, ql, i, k, Len(src), v, x, kept, p)
<1>1. DOMAIN pl = 0 .. Len(src) /\ \A q \in 0 .. Len(src) : pl[q] \in Maps
  BY DEF Histories
<1>2. i .. k - 1 \subseteq 0 .. Len(src)
  OBVIOUS
<1>3. /\ DOMAIN ql = 0 .. Len(src)
      /\ \A q \in i .. k - 1 : ql[q] = Settled(pl[q], a, b, src[k], pl[k])
      /\ \A q \in 0 .. Len(src) \ i .. k - 1 : ql[q] = pl[q]
      /\ ql = [q \in 0 .. Len(src) |-> ql[q]]
  BY <1>1, <1>2 DEF Resolved
<1>4. ASSUME NEW q \in i .. k - 1
      PROVE  ql[q] \in Maps
  <2>1. Edit(pl[q], ql[q], v, x, kept, p) /\ pl[q] \in Maps
    BY <1>1, <1>2, <1>3
  <2> DEFINE m == pl[q]
             n == ql[q]
             S == (DOMAIN m \ {v, x}) \cup kept
  <2>2. S \subseteq Nat /\ \A u \in DOMAIN m : m[u] \in 3 .. 31
    <3>1. kept \subseteq {v}
      BY <2>1 DEF Edit
    <3>2. DOMAIN m \subseteq Nat /\ \A u \in DOMAIN m : m[u] \in 3 .. 31
      BY <2>1, MapsAre
    <3> QED
      BY <3>1, <3>2
  <2>3. DOMAIN n = S /\ \A u \in S : n[u] \in 3 .. 31
    BY <2>1, <2>2 DEF Edit
  <2>4. n = [u \in S |-> n[u]]
    <3>1. n = Settled(m, a, b, src[k], pl[k])
      BY <1>3
    <3>2. Settled(m, a, b, src[k], pl[k])
          = [u \in DOMAIN Settled(m, a, b, src[k], pl[k]) |->
               Settled(m, a, b, src[k], pl[k])[u]]
      BY DEF Settled, Erase, Extended
    <3> HIDE DEF S
    <3> QED
      BY <2>3, <3>1, <3>2
  <2>5. n \in [S -> 3 .. 31]
    <3> HIDE DEF n, S
    <3> QED
      BY <2>3, <2>4
  <2> QED
    <3> HIDE DEF n, S
    <3>1. n \in Maps
      BY <2>2, <2>5, AreMaps
    <3> QED
      BY <3>1 DEF n
<1>5. \A q \in 0 .. Len(src) : ql[q] \in Maps
  BY <1>1, <1>3, <1>4
<1>6. ql \in Histories(src)
  BY <1>3, <1>5 DEF Histories
<1> QED
  BY <1>3, <1>6 DEF Edited

LEMMA SettledIs ==
  ASSUME NEW m \in Maps, NEW a, NEW b, NEW s, NEW after,
         NEW x, x = a.code[a.linked].rd, NEW v, v = a.link, v \in DOMAIN m
  PROVE  /\ is_physical(b.code[a.linked].rd) =>
              Edit(m, Settled(m, a, b, s, after), v, x, {v} \ {x}, m[v])
         /\ ~ is_physical(b.code[a.linked].rd) /\ s.rd \in DOMAIN after =>
              Edit(m, Settled(m, a, b, s, after), v, x, {v}, a.map[x])
         /\ ~ is_physical(b.code[a.linked].rd) /\ s.rd \notin DOMAIN after =>
              \A p : Edit(m, Settled(m, a, b, s, after), v, x, {}, p)
<1> DEFINE n == Settled(m, a, b, s, after)
           rest == Erase(m, x)
<1>1. DOMAIN rest = DOMAIN m \ {x} /\ \A u \in DOMAIN m \ {x} : rest[u] = m[u]
  BY EraseIs
<1>2. CASE is_physical(b.code[a.linked].rd)
  <2>1. n = rest
    BY <1>2 DEF Settled
  <2> HIDE DEF n, rest
  <2>2. Edit(m, n, v, x, {v} \ {x}, m[v])
    BY <1>1, <2>1 DEF Edit
  <2> QED
    BY <1>2, <2>2 DEF n
<1>3. CASE ~ is_physical(b.code[a.linked].rd) /\ s.rd \in DOMAIN after
  <2>1. n = Extended(rest, v, a.map[x])
    BY <1>3 DEF Settled
  <2> HIDE DEF n, rest
  <2>2. /\ DOMAIN n = DOMAIN rest \cup {v}
        /\ n[v] = a.map[x]
        /\ \A u \in DOMAIN rest \ {v} : n[u] = rest[u]
    BY <2>1 DEF Extended
  <2>3. Edit(m, n, v, x, {v}, a.map[x])
    BY <1>1, <2>2 DEF Edit
  <2> QED
    BY <1>3, <2>3 DEF n
<1>4. CASE ~ is_physical(b.code[a.linked].rd) /\ s.rd \notin DOMAIN after
  <2>1. n = Erase(rest, v)
    BY <1>4 DEF Settled
  <2> HIDE DEF n, rest
  <2>2. DOMAIN n = DOMAIN rest \ {v} /\ \A u \in DOMAIN rest \ {v} : n[u] = rest[u]
    BY <2>1 DEF Erase
  <2>3. \A p : Edit(m, n, v, x, {}, p)
    BY <1>1, <2>2 DEF Edit
  <2> QED
    BY <1>4, <2>3 DEF n
<1> QED
  BY <1>2, <1>3, <1>4

LEMMA SubMapEdit ==
  ASSUME NEW m, NEW n, NEW v, NEW x, NEW kept, NEW p,
         Edit(m, n, v, x, kept, p), v \in DOMAIN m,
         kept # {} => v # x /\ p = m[v]
  PROVE  x \notin DOMAIN n /\ SubMap(n, m)
  BY DEF SubMap, Edit

(* So do the allocator and the history go on when a wait ends. *)
Resolves(a, r, pl, ql, i, src, k, x) ==
  /\ r.linked = 0 /\ ~ r.thrown
  /\ Passed(r, ql, i, src)
  /\ Changes(a.code, r.code, {k})
  /\ SubMap(ql[i], pl[i]) /\ x \notin DOMAIN ql[i]
  /\ SubMap(r.map, a.map)
  /\ DOMAIN a.map \ {x} \subseteq DOMAIN r.map
  /\ is_physical(r.code[k].rd) \/ src[k].rd \notin DOMAIN pl[k]

(* The copy that waits is written out or is not needed. *)
LEMMA AllocateLinkedPasses ==
  ASSUME NEW P \in SUBSET Given, NEW i \in Nat, NEW a, Good(a, i, P), ~ a.thrown,
         NEW src \in Seq(Instructions), NEW pl, Passed(a, pl, i, src),
         NEW k, k = a.linked, k # 0, NEW v, v = a.link, NEW x, x = a.code[k].rd,
         NEW r, r = AllocateLinked(a), NEW ql, ql = Resolved(pl, a, r, i, src)
  PROVE  Resolves(a, r, pl, ql, i, src, k, x)
<1>a. PICK s : s = src[k]
  OBVIOUS
<1>b. PICK p : p = a.map[v]
  OBVIOUS
<1>c. PICK kept : kept = IF x \in DOMAIN a.map THEN {v} \ {x} ELSE {}
  OBVIOUS
<1>0. /\ Waits(a, pl, i, src) /\ pl \in Histories(src) /\ DOMAIN a.code = DOMAIN src
      /\ Follow(src, a.code, pl, i, k)
  BY DEF Passed
<1>1. /\ k \in DOMAIN src /\ k \in Nat /\ k > i
      /\ k \in 1 .. Len(src) /\ i .. k - 1 \subseteq 0 .. Len(src)
      /\ s \in Instructions
      /\ v \in DOMAIN a.map
      /\ Copies(s, a.code[k], v, a.map)
      /\ Target(s, x, v, a.map, pl[k])
      /\ \A q \in i .. k - 1 :
           /\ pl[q] \in Maps
           /\ v \in DOMAIN pl[q] /\ pl[q][v] = p
           /\ s.rd \in DOMAIN pl[k] => x \in DOMAIN pl[q] /\ pl[q][x] = a.map[x]
      /\ Untouched(src, a.code, pl, i, k, v, x)
  BY <1>0, <1>a, <1>b, WaitsAre
<1>2. a \in States /\ a.map \in Maps /\ Distinct(a) /\ k \in DOMAIN a.code
      /\ v \in Nat /\ p \in 3 .. 31 /\ a.code[k] \in Instructions
  <2>1. a \in States /\ Distinct(a)
    BY DEF Good
  <2>2. a.map \in Maps /\ k \in DOMAIN a.code
    BY <1>0, <1>1, <2>1 DEF States
  <2>3. a.code[k] \in Instructions
    BY <2>1, <2>2, CodeIs
  <2> QED
    BY <1>1, <1>b, <2>1, <2>2, <2>3, MapsAre
<1>3. /\ r \in States /\ ~ r.thrown /\ r.linked = 0
      /\ Changes(a.code, r.code, {k})
      /\ Decided(a, r, k, x, v)
  <2>1. /\ a \in States /\ ~ a.thrown /\ k \in DOMAIN a.code /\ a.linked = k /\ k # 0
        /\ Distinct(a) /\ s \in Instructions /\ Copies(s, a.code[k], v, a.map)
    BY <1>1, <1>2
  <2> QED
    BY <2>1, AllocateLinkedIs
<1>4. s.rd \in DOMAIN pl[k] => x \in DOMAIN a.map /\ x # v /\ pl[k][s.rd] = a.map[x]
  BY <1>1 DEF Target
<1>5. ASSUME NEW q \in i .. k - 1
      PROVE  Edit(pl[q], Settled(pl[q], a, r, s, pl[k]), v, x, kept, p)
  <2>1. pl[q] \in Maps /\ v \in DOMAIN pl[q] /\ pl[q][v] = p
    BY <1>1
  <2>2. CASE x \in DOMAIN a.map
    <3>1. kept = {v} \ {x} /\ is_physical(r.code[k].rd)
      BY <1>3, <1>c, <2>2 DEF Decided
    <3> QED
      BY <2>1, <3>1, SettledIs
  <2>3. CASE x \notin DOMAIN a.map
    <3>1. ~ is_physical(r.code[k].rd) /\ s.rd \notin DOMAIN pl[k] /\ kept = {}
      BY <1>3, <1>4, <1>c, <2>3 DEF Decided
    <3> QED
      BY <2>1, <3>1, SettledIs
  <2> QED
    BY <2>2, <2>3
<1>6. kept # {} => \A q \in i .. k - 1 : \E w \in {v, x} : w \in DOMAIN pl[q] /\ pl[q][w] = p
  BY <1>1
<1>7. ql \in Histories(src) /\ Edited(pl, ql, i, k, Len(src), v, x, kept, p)
  <2>1. /\ pl \in Histories(src) /\ k \in DOMAIN src /\ k > i /\ v \in Nat /\ p \in 3 .. 31
        /\ \A q \in i .. k - 1 : Edit(pl[q], Settled(pl[q], a, r, src[k], pl[k]), v, x, kept, p)
    BY <1>0, <1>1, <1>2, <1>5, <1>a
  <2> QED
    BY <1>6, <2>1, ResolvedIs
<1>8. Computes(s, r.code[k], ql[k - 1], pl[k])
  <2>1. CASE s.rd \notin DOMAIN pl[k] /\ is_dead(r.code[k])
    BY <1>1, <2>1 DEF Computes, Unread, Copies
  <2>2. CASE x \in DOMAIN a.map /\ x # v
    <3>a. PICK c : c = a.code[k]
      OBVIOUS
    <3>b. PICK d : d = r.code[k]
      OBVIOUS
    <3>c. PICK n : n = ql[k - 1]
      OBVIOUS
    <3>1. d = [c EXCEPT !.rd = a.map[x]] /\ c \in Instructions
      BY <1>2, <1>3, <2>2, <3>a, <3>b DEF Decided
    <3>2. /\ d.type = s.type /\ d.insn = s.insn /\ d.imm = s.imm
          /\ d.rs1 = c.rs1 /\ d.rs2 = c.rs2 /\ d.rd = a.map[x]
      BY <1>1, <3>1, <3>a DEF Copies, Instructions
    <3>3. v \in DOMAIN n /\ n[v] = a.map[v]
      <4>1. k - 1 \in i .. k - 1
        BY <1>1
      <4>2. kept = {v}
        BY <1>c, <2>2
      <4> QED
        BY <1>7, <1>b, <3>c, <4>1, <4>2 DEF Edit, Edited
    <3>4. InPlace(n, s.rs1, d.rs1) /\ InPlace(n, s.rs2, d.rs2)
      BY <1>1, <3>2, <3>3, <3>a DEF Copies, InPlace
    <3>5. is_physical(a.map[x])
      BY <1>3, <2>2, <3>2, <3>b DEF Decided
    <3>6. Lands(pl[k], s.rd, d.rd)
      BY <1>1, <1>4, <3>2, <3>5 DEF Copies, Lands
    <3>7. \A u \in DOMAIN pl[k] \ {s.rd} : pl[k][u] # d.rd
      BY <1>1, <2>2, <3>2 DEF Target
    <3>8. ~ is_dead(d)
      BY <1>1, <3>2 DEF Copies, is_dead
    <3> QED
      BY <3>2, <3>4, <3>6, <3>7, <3>8, <3>b, <3>c DEF Computes
  <2> QED
    BY <1>3, <1>4, <2>1, <2>2 DEF Decided
<1>9. Follow(src, r.code, ql, i, 0)
  <2>1. v \notin DOMAIN pl[k] \ {s.rd} /\ x \notin DOMAIN pl[k] \ {s.rd}
    BY <1>1 DEF Target
  <2>2. DOMAIN a.code = DOMAIN src /\ Changes(a.code, r.code, {i, k})
    BY <1>0, <1>3 DEF Changes
  <2>3. Computes(src[k], r.code[k], ql[k - 1], pl[k])
    BY <1>8, <1>a
  <2>4. pl \in Histories(src) /\ k \in DOMAIN src /\ k > i /\ Untouched(src, a.code, pl, i, k, v, x)
        /\ v \notin DOMAIN pl[k] \ {src[k].rd} /\ x \notin DOMAIN pl[k] \ {src[k].rd}
    BY <1>0, <1>1, <1>a, <2>1
  <2>5. src[k].type # "RdRs1ImmKeepRs2"
    BY <1>1, <1>a DEF Copies
  <2> QED
    BY <1>0, <1>7, <2>2, <2>3, <2>4, <2>5, EditFollow
<1>10. Passed(r, ql, i, src)
  BY <1>0, <1>3, <1>7, <1>9 DEF Passed, Changes
<1>11. i \in i .. k - 1
  BY <1>1
<1>12. /\ SubMap(ql[i], pl[i]) /\ x \notin DOMAIN ql[i]
  <2>1. Edit(pl[i], ql[i], v, x, kept, p) /\ v \in DOMAIN pl[i] /\ pl[i][v] = p
    BY <1>1, <1>7, <1>11 DEF Edited
  <2>2. kept # {} => v # x /\ p = pl[i][v]
    BY <1>c, <2>1
  <2> QED
    BY <2>1, <2>2, SubMapEdit
<1> QED
  BY <1>3, <1>4, <1>10, <1>12, <1>a DEF Decided, Resolves

(* What register x is for, from the place behind on. *)
Ready(m, after, s, x) ==
  /\ ~ is_physical(x) /\ x # none_reg
  /\ x \notin DOMAIN after \ {s.rd}
  /\ \A u \in DOMAIN after \ {s.rd} : u \in DOMAIN m /\ m[u] = after[u]
  /\ s.rd \in DOMAIN after => x \in DOMAIN m /\ m[x] = after[s.rd]

(* What Inline does when the copy is killed. *)
Inlined(a, r, i, k, x) ==
  /\ r.linked = 0 /\ ~ r.thrown /\ r.link = a.link
  /\ r.map = Erase(a.map, a.link)
  /\ r.code[i] = [a.code[i] EXCEPT !.rd = x]
  /\ r.code[k] = kill(a.code[k])
  /\ Changes(a.code, r.code, {i, k})

(* Inline, when it applies. *)
LEMMA InlineIs ==
  ASSUME NEW a \in States, ~ a.thrown, NEW k \in DOMAIN a.code, a.linked = k, k # 0,
         NEW i \in DOMAIN a.code, i # k, a.link = a.code[i].rd,
         NEW x, x = a.code[k].rd,
         NEW r, r = Inline(a, i)
  PROVE  Inlined(a, r, i, k, x)
<1> DEFINE y == [a.code[i] EXCEPT !.rd = x]
           c == [a.code EXCEPT ![i] = y]
           d == [c EXCEPT ![k] = kill(a.code[k])]
           f == IF Allocated(a, a.link) THEN a.avail \cup {a.map[a.link]} ELSE a.avail
<1>1. /\ a.code \in Seq(Instructions) /\ a.code[i] \in Instructions
      /\ a.code[k] \in Instructions /\ x \in Nat
  BY CodeIs
<1>2. r = [a EXCEPT !.avail = f, !.map = Erase(@, a.link), !.code = d, !.linked = 0]
  BY DEF Inline
<1>3. y \in Instructions /\ kill(a.code[k]) \in Instructions
  BY <1>1, InstructionUpdate
<1> HIDE DEF y
<1>4. c \in Seq(Instructions) /\ c[i] = y /\ Changes(a.code, c, {i})
  BY <1>1, <1>3, CodeUpdate
<1> HIDE DEF c
<1>5. k \in DOMAIN c
  BY <1>4 DEF Changes
<1>6. d[k] = kill(a.code[k]) /\ Changes(c, d, {k})
  BY <1>3, <1>4, <1>5, CodeUpdate
<1> HIDE DEF d
<1>7. d[i] = y /\ Changes(a.code, d, {i, k})
  BY <1>4, <1>6 DEF Changes
<1> HIDE DEF f
<1>8. r.linked = 0 /\ ~ r.thrown /\ r.link = a.link /\ r.map = Erase(a.map, a.link) /\ r.code = d
  BY <1>2 DEF States
<1> QED
  BY <1>6, <1>7, <1>8 DEF y, Inlined

(* Waits, with names for its parts and the types of them. *)
WaitsFor(a, pl, i, src, k, v, x, s) ==
  /\ k \in DOMAIN src /\ k \in Nat /\ k > i
  /\ k \in 1 .. Len(src) /\ i .. k - 1 \subseteq 0 .. Len(src)
  /\ s \in Instructions
  /\ v \in DOMAIN a.map
  /\ Copies(s, a.code[k], v, a.map)
  /\ Target(s, x, v, a.map, pl[k])
  /\ \A q \in i .. k - 1 :
       /\ pl[q] \in Maps
       /\ v \in DOMAIN pl[q] /\ pl[q][v] = a.map[v]
       /\ s.rd \in DOMAIN pl[k] => x \in DOMAIN pl[q] /\ pl[q][x] = a.map[x]
  /\ Untouched(src, a.code, pl, i, k, v, x)

LEMMA WaitsNamed ==
  ASSUME NEW a, NEW pl, NEW i \in Nat, NEW src \in Seq(Instructions), pl \in Histories(src),
         Waits(a, pl, i, src),
         NEW k, k = a.linked, NEW v, v = a.link, NEW x, x = a.code[k].rd, NEW s, s = src[k]
  PROVE  WaitsFor(a, pl, i, src, k, v, x, s)
  BY WaitsAre DEF WaitsFor

(* So do they go on when the copy is inlined. *)
Inlines(a, r, ql, i, src, k, x) ==
  /\ r.linked = 0 /\ ~ r.thrown
  /\ Passed(r, ql, i, src)
  /\ Changes(a.code, r.code, {i, k})
  /\ r.code[i] = [src[i] EXCEPT !.rd = x]
  /\ Ready(r.map, ql[i], src[i], x)

(* The instruction that produces the copied value writes the copy's target. *)
LEMMA InlinePasses ==
  ASSUME NEW P \in SUBSET Given, NEW i \in Nat, NEW a, Good(a, i, P), ~ a.thrown,
         NEW src \in Seq(Instructions), NEW pl, Passed(a, pl, i, src),
         SubMap(pl[i], a.map), i \in DOMAIN src, a.code[i] = src[i],
         NEW k, k = a.linked, k # 0, NEW v, v = a.link, v = src[i].rd,
         NEW x, x = a.code[k].rd,
         NEW r, r = Inline(a, i), NEW ql, ql = Resolved(pl, a, r, i, src)
  PROVE  Inlines(a, r, ql, i, src, k, x)
<1>a. PICK s : s = src[k]
  OBVIOUS
<1>b. PICK p : p = a.map[x]
  OBVIOUS
<1>c. PICK kept : kept = IF s.rd \in DOMAIN pl[k] THEN {v} ELSE {}
  OBVIOUS
<1>0. /\ Waits(a, pl, i, src) /\ pl \in Histories(src) /\ DOMAIN a.code = DOMAIN src
      /\ Follow(src, a.code, pl, i, k)
  BY DEF Passed
<1>1. /\ k \in DOMAIN src /\ k \in Nat /\ k > i
      /\ k \in 1 .. Len(src) /\ i .. k - 1 \subseteq 0 .. Len(src)
      /\ s \in Instructions
      /\ v \in DOMAIN a.map
      /\ Copies(s, a.code[k], v, a.map)
      /\ Target(s, x, v, a.map, pl[k])
      /\ \A q \in i .. k - 1 :
           /\ pl[q] \in Maps
           /\ v \in DOMAIN pl[q] /\ pl[q][v] = a.map[v]
           /\ s.rd \in DOMAIN pl[k] => x \in DOMAIN pl[q] /\ pl[q][x] = a.map[x]
      /\ Untouched(src, a.code, pl, i, k, v, x)
  <2>1. WaitsFor(a, pl, i, src, k, v, x, s)
    BY <1>0, <1>a, WaitsNamed
  <2> QED
    BY <2>1 DEF WaitsFor
<1>2. a \in States /\ a.map \in Maps /\ Distinct(a) /\ k \in DOMAIN a.code
      /\ v \in Nat /\ a.code[k] \in Instructions /\ x \in Nat
      /\ ~ is_physical(x) /\ x # none_reg
  <2>1. a \in States /\ Distinct(a)
    BY DEF Good
  <2>2. a.map \in Maps /\ k \in DOMAIN a.code
    BY <1>0, <1>1, <2>1 DEF States
  <2>3. a.code[k] \in Instructions /\ x \in Nat
    BY <2>1, <2>2, CodeIs
  <2>4. ~ is_physical(x) /\ x # none_reg
    BY <1>1 DEF Copies
  <2> QED
    BY <1>1, <1>b, <2>1, <2>2, <2>3, <2>4, MapsAre
<1>3. /\ r.linked = 0 /\ ~ r.thrown /\ r.link = a.link
      /\ r.map = Erase(a.map, a.link)
      /\ r.code[i] = [a.code[i] EXCEPT !.rd = x]
      /\ r.code[k] = kill(a.code[k])
      /\ Changes(a.code, r.code, {i, k})
  <2>1. /\ a \in States /\ ~ a.thrown /\ k \in DOMAIN a.code /\ a.linked = k /\ k # 0
        /\ i \in DOMAIN a.code /\ i # k /\ a.link = a.code[i].rd
    BY <1>0, <1>1, <1>2
  <2>2. Inlined(a, r, i, k, x)
    BY <2>1, InlineIs
  <2> QED
    BY <2>2 DEF Inlined
<1>4. s.rd \in DOMAIN pl[k] => x \in DOMAIN a.map /\ x # v /\ pl[k][s.rd] = p
  BY <1>1, <1>b DEF Target
<1>d. /\ DOMAIN r.map = DOMAIN a.map \ {v}
      /\ \A u \in DOMAIN a.map \ {v} : r.map[u] = a.map[u]
  <2>1. PICK m : m = Erase(a.map, v)
    OBVIOUS
  <2>2. DOMAIN m = DOMAIN a.map \ {v} /\ \A u \in DOMAIN a.map \ {v} : m[u] = a.map[u]
    BY <1>2, <2>1, EraseIs
  <2>3. r.map = m
    BY <1>3, <2>1
  <2> QED
    BY <2>2, <2>3
<1>e. is_dead(r.code[k]) /\ r.code[k].rd = x
  BY <1>2, <1>3 DEF kill, is_dead, Instructions
<1>f. PICK o \in 3 .. 31 : s.rd \in DOMAIN pl[k] => o = p
  <2>1. s.rd \in DOMAIN pl[k] => p \in 3 .. 31
    BY <1>2, <1>4, <1>b, MapsAre
  <2> QED
    BY <2>1
<1>5. ASSUME NEW q \in i .. k - 1
      PROVE  Edit(pl[q], Settled(pl[q], a, r, s, pl[k]), v, x, kept, o)
  <2>1. pl[q] \in Maps /\ v \in DOMAIN pl[q]
    BY <1>1
  <2>2. ~ is_physical(r.code[k].rd)
    BY <1>2, <1>e
  <2>3. CASE s.rd \in DOMAIN pl[k]
    <3>1. kept = {v} /\ o = a.map[x]
      BY <1>b, <1>c, <1>f, <2>3
    <3> QED
      BY <2>1, <2>2, <2>3, <3>1, SettledIs
  <2>4. CASE s.rd \notin DOMAIN pl[k]
    <3>1. kept = {}
      BY <1>c, <2>4
    <3> QED
      BY <2>1, <2>2, <2>4, <3>1, SettledIs
  <2> QED
    BY <2>3, <2>4
<1>6. kept # {} => \A q \in i .. k - 1 : \E w \in {v, x} : w \in DOMAIN pl[q] /\ pl[q][w] = o
  BY <1>1, <1>b, <1>c, <1>f
<1>7. ql \in Histories(src) /\ Edited(pl, ql, i, k, Len(src), v, x, kept, o)
  <2>1. /\ pl \in Histories(src) /\ k \in DOMAIN src /\ k > i /\ v \in Nat
        /\ \A q \in i .. k - 1 : Edit(pl[q], Settled(pl[q], a, r, src[k], pl[k]), v, x, kept, o)
    BY <1>0, <1>1, <1>2, <1>5, <1>a
  <2> QED
    BY <1>6, <2>1, ResolvedIs
<1>8. Computes(s, r.code[k], ql[k - 1], pl[k])
  <2>1. CASE s.rd \notin DOMAIN pl[k]
    BY <1>1, <1>e, <2>1 DEF Computes, Unread, Copies
  <2>2. CASE s.rd \in DOMAIN pl[k]
    <3>1. k - 1 \in i .. k - 1 /\ kept = {v} /\ o = p
      BY <1>1, <1>c, <1>f, <2>2
    <3>2. v \in DOMAIN ql[k - 1] /\ ql[k - 1][v] = o
      BY <1>7, <3>1 DEF Edit, Edited
    <3>3. InPlace(ql[k - 1], Copied(s), o)
      <4>1. Copied(s) = v /\ is_virtual(v)
        BY <1>1 DEF Copies
      <4>2. ~ is_physical(v) /\ v # none_reg
        BY <1>2, <4>1 DEF is_virtual, is_physical, VIRTUAL_BASE, FUNCTIONAL_BASE, none_reg
      <4> QED
        BY <3>2, <4>1, <4>2 DEF InPlace
    <3>4. InPlace(pl[k], s.rd, o)
      BY <1>1, <1>4, <2>2, <3>1 DEF InPlace, Copies
    <3>5. o \in 0 .. 31 /\ is_mv(s)
      BY <1>1 DEF Copies
    <3> QED
      BY <1>e, <3>3, <3>4, <3>5 DEF Computes
  <2> QED
    BY <2>1, <2>2
<1>9. Follow(src, r.code, ql, i, 0)
  <2>1. v \notin DOMAIN pl[k] \ {s.rd} /\ x \notin DOMAIN pl[k] \ {s.rd}
    BY <1>1 DEF Target
  <2>3. Computes(src[k], r.code[k], ql[k - 1], pl[k])
    BY <1>8, <1>a
  <2>4. pl \in Histories(src) /\ k \in DOMAIN src /\ k > i /\ Untouched(src, a.code, pl, i, k, v, x)
        /\ v \notin DOMAIN pl[k] \ {src[k].rd} /\ x \notin DOMAIN pl[k] \ {src[k].rd}
    BY <1>0, <1>1, <1>a, <2>1
  <2>5. src[k].type # "RdRs1ImmKeepRs2"
    BY <1>1, <1>a DEF Copies
  <2> QED
    BY <1>0, <1>3, <1>7, <2>3, <2>4, <2>5, EditFollow
<1>10. Passed(r, ql, i, src)
  BY <1>0, <1>3, <1>7, <1>9 DEF Passed, Changes
<1>11. i \in i .. k - 1
  BY <1>1
<1>12. Ready(r.map, ql[i], src[i], x)
  <2>1. Edit(pl[i], ql[i], v, x, kept, o)
    BY <1>7, <1>11 DEF Edited
  <2>2. x \notin DOMAIN ql[i] \ {v}
    BY <2>1 DEF Edit
  <2>3. \A u \in DOMAIN ql[i] \ {v} : u \in DOMAIN r.map /\ r.map[u] = ql[i][u]
    BY <1>d, <2>1 DEF Edit, SubMap
  <2>4. v \in DOMAIN ql[i] => x \in DOMAIN r.map /\ r.map[x] = ql[i][v]
    <3>1. v \in DOMAIN ql[i] => kept = {v} /\ ql[i][v] = o
      BY <1>c, <2>1 DEF Edit
    <3>2. kept = {v} => s.rd \in DOMAIN pl[k]
      BY <1>c
    <3> QED
      BY <1>4, <1>b, <1>d, <1>f, <3>1, <3>2
  <2> QED
    BY <1>2, <2>2, <2>3, <2>4 DEF Ready
<1> QED
  BY <1>3, <1>10, <1>12 DEF Inlines

(* Passed, within the step for instruction i, which may wait itself. *)
Behind(t, ql, i, src) ==
  /\ ql \in Histories(src)
  /\ DOMAIN t.code = DOMAIN src
  /\ Follow(src, t.code, ql, i, t.linked)
  /\ t.linked \notin {0, i} => Waits(t, ql, i, src)

(* w has the same place in m and in n, or none. *)
Agree(m, n, w) ==
  /\ w \in DOMAIN m <=> w \in DOMAIN n
  /\ w \in DOMAIN m => m[w] = n[w]

LEMMA AgreeInPlace ==
  ASSUME NEW m, NEW n, NEW v, Agree(m, n, v), NEW r, r = v \/ is_physical(r) \/ r = none_reg, NEW p,
         InPlace(m, r, p)
  PROVE  InPlace(n, r, p)
  BY DEF Agree, InPlace

LEMMA AgreeTarget ==
  ASSUME NEW m, NEW n, NEW s, NEW x, NEW v, NEW after, Agree(m, n, x), Target(s, x, v, m, after)
  PROVE  Target(s, x, v, n, after)
  BY DEF Agree, Target

LEMMA AgreeCopies ==
  ASSUME NEW m, NEW n, NEW s, NEW c, NEW v, Agree(m, n, v), Copies(s, c, v, m)
  PROVE  Copies(s, c, v, n)
<1>1. InPlace(n, s.rs1, c.rs1)
  BY AgreeInPlace DEF Copies
<1>2. InPlace(n, s.rs2, c.rs2)
  BY AgreeInPlace DEF Copies
<1> QED
  BY <1>1, <1>2 DEF Copies

(* A copy goes on waiting when the instruction needs neither of its registers. *)
LEMMA WaitsAgree ==
  ASSUME NEW src \in Seq(Instructions), NEW ql, NEW i \in Nat,
         NEW t, NEW r, Waits(t, ql, i, src),
         NEW k, k = t.linked, NEW v, v = t.link, NEW x, x = t.code[k].rd,
         r.linked = k, r.link = v, DOMAIN t.code = DOMAIN src, Changes(t.code, r.code, {i}),
         Agree(t.map, r.map, v), Agree(t.map, r.map, x)
  PROVE  Waits(r, ql, i, src)
<1>1. k \in DOMAIN src /\ k > i /\ k \in Nat /\ k \in 1 .. Len(src)
  BY DEF Waits
<1>2. r.code[k] = t.code[k] /\ r.code[k].rd = x
  BY <1>1 DEF Changes
<1>3. \A j \in i + 1 .. k - 1 : r.code[j] = t.code[j]
  <2>1. \A j \in i + 1 .. k - 1 : j \in DOMAIN src /\ j # i
    BY <1>1
  <2> QED
    BY <2>1 DEF Changes
<1>4. /\ v \in DOMAIN t.map
      /\ Copies(src[k], t.code[k], v, t.map)
      /\ Target(src[k], x, v, t.map, ql[k])
      /\ Untouched(src, t.code, ql, i, k, v, x)
  BY DEF Waits
<1>5. Copies(src[k], r.code[k], v, r.map)
  BY <1>2, <1>4, AgreeCopies
<1>6. Target(src[k], x, v, r.map, ql[k])
  BY <1>4, AgreeTarget
<1>7. Untouched(src, r.code, ql, i, k, v, x)
  BY <1>3, <1>4 DEF Untouched
<1>8. v \in DOMAIN r.map /\ r.map[v] = t.map[v]
  BY <1>4 DEF Agree
<1>9. \A q \in i .. k - 1 :
           /\ v \in DOMAIN ql[q] /\ ql[q][v] = r.map[v]
           /\ src[k].rd \in DOMAIN ql[k] => x \in DOMAIN ql[q] /\ ql[q][x] = r.map[x]
  <2>1. \A q \in i .. k - 1 :
           /\ v \in DOMAIN ql[q] /\ ql[q][v] = t.map[v]
           /\ src[k].rd \in DOMAIN ql[k] => x \in DOMAIN ql[q] /\ ql[q][x] = t.map[x]
    BY DEF Waits
  <2>2. src[k].rd \in DOMAIN ql[k] => r.map[x] = t.map[x]
    BY <1>4 DEF Target, Agree
  <2> QED
    BY <1>8, <2>1, <2>2
<1> QED
  BY <1>1, <1>2, <1>5, <1>6, <1>7, <1>8, <1>9 DEF Waits

LEMMA BehindStays ==
  ASSUME NEW src \in Seq(Instructions), NEW ql, NEW i \in Nat,
         NEW t, NEW r, Behind(t, ql, i, src),
         r.linked = t.linked, Changes(t.code, r.code, {i}),
         t.linked \notin {0, i} =>
           /\ r.link = t.link
           /\ Agree(t.map, r.map, t.link) /\ Agree(t.map, r.map, t.code[t.linked].rd)
  PROVE  Behind(r, ql, i, src)
<1>1. DOMAIN r.code = DOMAIN src
  BY DEF Behind, Changes
<1>2. Follow(src, r.code, ql, i, r.linked)
  <2>1. \A j \in i + 1 .. Len(src) : r.code[j] = t.code[j]
    BY DEF Behind, Changes
  <2> QED
    BY <2>1 DEF Behind, Follow
<1>3. r.linked \notin {0, i} => Waits(r, ql, i, src)
  BY WaitsAgree DEF Behind
<1> QED
  BY <1>1, <1>2, <1>3 DEF Behind

Same(s, c) == c.type = s.type /\ c.insn = s.insn /\ c.imm = s.imm

(* Of the operands of i those in F have their registers. *)
Operands(t, i, s, F) ==
  \A f \in {"rs1", "rs2"} :
     IF f \in F
     THEN /\ InPlace(t.map, s[f], t.code[i][f])
          /\ t.linked \notin {0, i} => s[f] \notin {t.link, t.code[t.linked].rd}
     ELSE t.code[i][f] = s[f]

(* An instruction whose destination is allocated, and its operands in F. *)
Written(t, i, s, after, F) ==
  /\ Keeps(s, t.map, after)
  /\ t.linked # i
  /\ t.linked # 0 => s.rd \notin {t.link, t.code[t.linked].rd}
  /\ IF is_dead(t.code[i]) THEN Unread(s, after)
     ELSE /\ Same(s, t.code[i])
          /\ Lands(after, s.rd, t.code[i].rd)
          /\ \A u \in DOMAIN after \ {s.rd} : after[u] # t.code[i].rd
          /\ Operands(t, i, s, F)

(* An instruction that is the copy that waits. *)
Linking(t, i, s, after, F) ==
  /\ t.linked = i
  /\ Ready(t.map, after, s, t.code[i].rd)
  /\ is_mv(s) /\ s.type \in {"RdRs1Imm", "RdRs1Rs2"}
  /\ Copied(s) = t.link /\ is_virtual(t.link) /\ t.link # s.rd
  /\ t.link \notin DOMAIN after
  /\ s.rd \in DOMAIN after => t.code[i].rd # t.link
  /\ ~ is_physical(s.rd) /\ s.rd # none_reg
  /\ Same(s, t.code[i])
  /\ Operands(t, i, s, F)

(* What Define does to an instruction that is ready for it. *)
Defined(a, r, i, y) ==
  /\ r.linked = a.linked /\ r.link = a.link /\ ~ r.thrown
  /\ Changes(a.code, r.code, {i})
  /\ SubMap(r.map, a.map) /\ DOMAIN a.map \ {y} \subseteq DOMAIN r.map
  /\ IF y \in DOMAIN a.map THEN r.code[i] = [a.code[i] EXCEPT !.rd = a.map[y]]
     ELSE r.code[i] = kill(a.code[i])
  /\ a.code[i].type = "RdRs1ImmKeepRs2" /\ a.code[i].rs2 = y => r.map = a.map

(* An instruction that keeps its destination is to write it still. *)
Whole(s, y) == s.type = "RdRs1ImmKeepRs2" => s.rd = y /\ s.rs2 = y

(* Define, for every kind of destination. *)
LEMMA DefineIs ==
  ASSUME NEW a \in States, ~ a.thrown, NEW i \in DOMAIN a.code, NEW y, y = a.code[i].rd,
         NEW r, r = Define(a, i)
  PROVE  Defined(a, r, i, y)
<1> DEFINE c == a.code[i]
<1>1. /\ a.code \in Seq(Instructions) /\ c \in Instructions /\ a.map \in Maps
      /\ y \in Nat
  BY CodeIs
<1>2. CASE y \notin DOMAIN a.map
  <2> DEFINE cc == [a.code EXCEPT ![i] = kill(c)]
  <2>1. r = [a EXCEPT !.code = cc]
    BY <1>2 DEF Define, Allocated
  <2>2. kill(c) \in Instructions
    BY <1>1, InstructionUpdate
  <2>3. Changes(a.code, cc, {i}) /\ cc[i] = kill(c)
    BY <1>1, <2>2, CodeUpdate
  <2> HIDE DEF cc
  <2>4. r.code = cc /\ r.linked = a.linked /\ r.link = a.link /\ r.map = a.map /\ ~ r.thrown
    BY <2>1 DEF States
  <2> QED
    BY <1>2, <2>3, <2>4 DEF Defined, SubMap
<1>3. CASE y \in DOMAIN a.map
  <2> DEFINE p == a.map[y]
             z == [c EXCEPT !.rd = p]
             cc == [a.code EXCEPT ![i] = z]
             m == Erase(a.map, y)
  <2>1. p \in Nat
    BY <1>1, <1>3, MapsAre
  <2>2. z \in Instructions
    BY <1>1, <2>1, InstructionUpdate
  <2>3. Changes(a.code, cc, {i}) /\ cc[i] = z
    BY <1>1, <2>2, CodeUpdate
  <2>4. r = IF is_rd_use(c) \/ is_functional(y) THEN [a EXCEPT !.code = cc]
            ELSE [a EXCEPT !.code = cc, !.avail = @ \cup {p}, !.map = m]
    BY <1>3 DEF Define, Allocated
  <2>5. DOMAIN m = DOMAIN a.map \ {y} /\ \A u \in DOMAIN a.map \ {y} : m[u] = a.map[u]
    BY <1>1, EraseIs
  <2> HIDE DEF p, z, cc, m
  <2>6. /\ r.code = cc /\ r.linked = a.linked /\ r.link = a.link /\ ~ r.thrown
        /\ r.map = IF is_rd_use(c) \/ is_functional(y) THEN a.map ELSE m
    <3>1. CASE is_rd_use(c) \/ is_functional(y)
      BY <2>4, <3>1 DEF States
    <3>2. CASE ~ (is_rd_use(c) \/ is_functional(y))
      BY <2>4, <3>2 DEF States
    <3> QED
      BY <3>1, <3>2
  <2>7. SubMap(r.map, a.map) /\ DOMAIN a.map \ {y} \subseteq DOMAIN r.map
    BY <2>5, <2>6 DEF SubMap
  <2>8. c.type = "RdRs1ImmKeepRs2" /\ c.rs2 = y => r.map = a.map
    BY <2>6 DEF is_rd_use
  <2> QED
    BY <1>3, <2>3, <2>6, <2>7, <2>8 DEF Defined, z, p
<1> QED
  BY <1>2, <1>3

(* The instruction writes what it should write, or nothing. *)
LEMMA DefineWrites ==
  ASSUME NEW a \in States, ~ a.thrown, Distinct(a), NEW i \in DOMAIN a.code,
         NEW y, NEW s \in Instructions, ~ is_physical(s.rd), s.rd # none_reg, ~ is_dead(s),
         a.code[i] = [s EXCEPT !.rd = y], Whole(s, y),
         NEW after, Ready(a.map, after, s, y),
         a.linked # i, a.linked # 0 => y = s.rd /\ y \notin {a.link, a.code[a.linked].rd},
         a.linked # 0 => a.linked \in DOMAIN a.code,
         NEW r, r = Define(a, i)
  PROVE  /\ Written(r, i, s, after, {})
         /\ Defined(a, r, i, y)
<1>0. PICK c : c = a.code[i]
  OBVIOUS
<1>1. /\ c \in Instructions /\ a.map \in Maps /\ c.rd = y /\ c.rs1 = s.rs1 /\ c.rs2 = s.rs2
      /\ c.type = s.type /\ c.insn = s.insn /\ c.imm = s.imm
  <2>1. c \in Instructions /\ a.map \in Maps
    BY <1>0, CodeIs
  <2> QED
    BY <1>0, <2>1 DEF Instructions
<1>2. Defined(a, r, i, y)
  <2>1. y = a.code[i].rd
    BY <1>0, <1>1
  <2> QED
    BY <2>1, DefineIs
<1>3. Keeps(s, r.map, after)
  <2>1. \A u \in DOMAIN after \ {s.rd} : u \in DOMAIN r.map /\ r.map[u] = after[u]
    BY <1>2 DEF Defined, Ready, SubMap
  <2>2. CASE s.type # "RdRs1ImmKeepRs2"
    BY <2>1, <2>2 DEF Keeps, Overwrites
  <2>3. CASE s.type = "RdRs1ImmKeepRs2"
    <3>1. s.rd = y /\ c.rs2 = y /\ c.type = "RdRs1ImmKeepRs2"
      BY <1>1, <2>3 DEF Whole
    <3>2. r.map = a.map
      BY <1>0, <1>2, <3>1 DEF Defined
    <3>3. y \in DOMAIN after => y \in DOMAIN a.map /\ a.map[y] = after[y]
      BY <3>1 DEF Ready
    <3> QED
      BY <2>1, <3>1, <3>2, <3>3 DEF Keeps
  <2> QED
    BY <2>2, <2>3
<1>4. r.linked # i /\ (r.linked # 0 => s.rd \notin {r.link, r.code[r.linked].rd})
  BY <1>2 DEF Defined, Changes
<1>5. CASE y \notin DOMAIN a.map
  <2>1. r.code[i] = kill(c)
    BY <1>0, <1>2, <1>5 DEF Defined
  <2>2. is_dead(r.code[i])
    BY <1>1, <2>1 DEF is_dead, kill, Instructions
  <2>3. Unread(s, after)
    BY <1>5 DEF Unread, Ready
  <2> QED
    BY <1>2, <1>3, <1>4, <2>2, <2>3 DEF Written
<1>6. CASE y \in DOMAIN a.map
  <2>0. PICK p : p = a.map[y]
    OBVIOUS
  <2>a. PICK d : d = r.code[i]
    OBVIOUS
  <2>1. p \in 3 .. 31 /\ is_physical(p)
    BY <1>1, <1>6, <2>0, MapsAre DEF is_physical, FUNCTIONAL_BASE
  <2>2. d = [c EXCEPT !.rd = p]
    BY <1>0, <1>2, <1>6, <2>0, <2>a DEF Defined
  <2>3. /\ d.rd = p /\ d.rs1 = s.rs1 /\ d.rs2 = s.rs2
        /\ d.type = s.type /\ d.insn = s.insn /\ d.imm = s.imm
    BY <1>1, <2>2 DEF Instructions
  <2>4. ~ is_dead(d) /\ Same(s, d)
    BY <2>3 DEF is_dead, Same
  <2>5. Lands(after, s.rd, d.rd)
    BY <2>0, <2>1, <2>3 DEF Lands, Ready
  <2>6. \A u \in DOMAIN after \ {s.rd} : after[u] # d.rd
    BY <1>6, <2>0, <2>3 DEF Ready, Distinct
  <2>7. Operands(r, i, s, {})
    BY <2>3, <2>a DEF Operands
  <2> QED
    BY <1>2, <1>3, <1>4, <2>4, <2>5, <2>6, <2>7, <2>a DEF Written
<1> QED
  BY <1>5, <1>6

(* How far the step is: a and pl are the allocator and the history when it
   begins, t and ql what has become of them. *)
Stage(a, pl, t, ql, i, src) ==
  /\ Behind(t, ql, i, src)
  /\ t.linked \in {0, i, a.linked}
  /\ ql = IF a.linked \notin {0, t.linked} THEN Resolved(pl, a, t, i, src) ELSE pl
  /\ a.linked # 0 /\ t.linked = a.linked
       => t.link = a.link /\ t.code[a.linked] = a.code[a.linked]

(* Settled depends on no more than this. *)
SettlesAlike(a, b, c, d, k, s, after) ==
  /\ k = a.linked /\ k = c.linked /\ a.link = c.link /\ a.code[k].rd = c.code[k].rd
  /\ b.code[k].rd = d.code[k].rd
  /\ is_physical(b.code[k].rd) \/ s.rd \notin DOMAIN after \/ a.map = c.map

LEMMA SettledSame ==
  ASSUME NEW a, NEW b, NEW c, NEW d, NEW s, NEW after, NEW k,
         SettlesAlike(a, b, c, d, k, s, after), NEW m
  PROVE  Settled(m, a, b, s, after) = Settled(m, c, d, s, after)
<1>0. PICK x : x = a.code[k].rd
  OBVIOUS
<1>1. CASE is_physical(b.code[k].rd)
  BY <1>0, <1>1 DEF Settled, SettlesAlike
<1>2. CASE ~ is_physical(b.code[k].rd) /\ s.rd \notin DOMAIN after
  BY <1>0, <1>2 DEF Settled, SettlesAlike
<1>3. CASE ~ is_physical(b.code[k].rd) /\ s.rd \in DOMAIN after /\ a.map = c.map
  BY <1>0, <1>3 DEF Settled, SettlesAlike
<1> QED
  BY <1>1, <1>2, <1>3 DEF SettlesAlike

LEMMA ResolvedSame ==
  ASSUME NEW a, NEW b, NEW c, NEW d, NEW pl, NEW i, NEW src, NEW k,
         NEW s, s = src[k], NEW after, after = pl[k], SettlesAlike(a, b, c, d, k, s, after)
  PROVE  Resolved(pl, a, b, i, src) = Resolved(pl, c, d, i, src)
<1>1. \A m : Settled(m, a, b, s, after) = Settled(m, c, d, s, after)
  BY SettledSame
<1>2. k = a.linked /\ k = c.linked
  BY DEF SettlesAlike
<1> QED
  BY <1>1, <1>2 DEF Resolved

(* A change of instruction i alone does not end a stage. *)
LEMMA StageStays ==
  ASSUME NEW src \in Seq(Instructions), NEW i \in Nat, NEW a, NEW pl, NEW t, NEW ql,
         Stage(a, pl, t, ql, i, src), a.linked # i, a.linked \in DOMAIN src \cup {0},
         NEW r, r.linked = t.linked, Changes(t.code, r.code, {i}),
         t.linked \notin {0, i} =>
           /\ r.link = t.link
           /\ Agree(t.map, r.map, t.link) /\ Agree(t.map, r.map, t.code[t.linked].rd)
  PROVE  Stage(a, pl, r, ql, i, src)
<1>1. Behind(t, ql, i, src)
  BY DEF Stage
<1>2. Behind(r, ql, i, src)
  BY <1>1, BehindStays
<1>3. a.linked # 0 => r.code[a.linked] = t.code[a.linked]
  BY <1>1 DEF Behind, Changes
<1>4. a.linked # 0 /\ r.linked = a.linked => r.link = a.link /\ r.code[a.linked] = a.code[a.linked]
  BY <1>3 DEF Stage
<1>5. a.linked \notin {0, t.linked} => Resolved(pl, a, t, i, src) = Resolved(pl, a, r, i, src)
  <2>1. a.linked # 0 => SettlesAlike(a, t, a, r, a.linked, src[a.linked], pl[a.linked])
    BY <1>3 DEF SettlesAlike
  <2> QED
    BY <2>1, ResolvedSame
<1> QED
  BY <1>2, <1>4, <1>5 DEF Stage

(* Resolves and Inlines, as stages of a step. *)
ResolvesStage(a, pl, t, r, ql, qr, i, src, k, x) ==
  /\ Stage(a, pl, r, qr, i, src)
  /\ r.linked = 0 /\ ~ r.thrown
  /\ Changes(t.code, r.code, {k})
  /\ SubMap(qr[i], ql[i]) /\ x \notin DOMAIN qr[i]
  /\ SubMap(r.map, t.map) /\ DOMAIN t.map \ {x} \subseteq DOMAIN r.map

InlinesStage(a, pl, r, qr, i, src, k, x) ==
  /\ Stage(a, pl, r, qr, i, src)
  /\ r.linked = 0 /\ ~ r.thrown
  /\ Changes(a.code, r.code, {i, k})
  /\ r.code[i] = [src[i] EXCEPT !.rd = x]
  /\ Ready(r.map, qr[i], src[i], x)

(* The copy that waited since before the step is written out. *)
LEMMA StageResolves ==
  ASSUME NEW src \in Seq(Instructions), NEW i \in Nat, NEW a, NEW pl, NEW t, NEW ql,
         Stage(a, pl, t, ql, i, src), NEW P \in SUBSET Given, Good(t, i, P), ~ t.thrown,
         a.linked # i, NEW k, k = t.linked, k \notin {0, i}, NEW x, x = t.code[k].rd,
         NEW r, r = AllocateLinked(t), NEW qr, qr = Resolved(ql, t, r, i, src)
  PROVE  ResolvesStage(a, pl, t, r, ql, qr, i, src, k, x)
<1>0. Behind(t, ql, i, src) /\ k = a.linked /\ ql = pl /\ t.link = a.link /\ t.code[k] = a.code[k]
  BY DEF Stage
<1>1. Passed(t, ql, i, src)
  BY <1>0 DEF Behind, Passed
<1>2. /\ r.linked = 0 /\ ~ r.thrown
      /\ Passed(r, qr, i, src)
      /\ Changes(t.code, r.code, {k})
      /\ SubMap(qr[i], ql[i]) /\ x \notin DOMAIN qr[i]
      /\ SubMap(r.map, t.map)
      /\ DOMAIN t.map \ {x} \subseteq DOMAIN r.map
      /\ is_physical(r.code[k].rd) \/ src[k].rd \notin DOMAIN ql[k]
  <2>1. PICK v : v = t.link
    OBVIOUS
  <2>2. Resolves(t, r, ql, qr, i, src, k, x)
    BY <1>1, <2>1, AllocateLinkedPasses
  <2> QED
    BY <2>2 DEF Resolves
<1>3. Resolved(ql, t, r, i, src) = Resolved(pl, a, r, i, src)
  <2>1. /\ k = t.linked /\ k = a.linked /\ t.link = a.link /\ t.code[k].rd = a.code[k].rd
        /\ is_physical(r.code[k].rd) \/ src[k].rd \notin DOMAIN ql[k]
    BY <1>0, <1>2
  <2>a. PICK s : s = src[k]
    OBVIOUS
  <2>b. PICK after : after = ql[k]
    OBVIOUS
  <2>2. SettlesAlike(t, r, a, r, k, s, after)
    BY <2>1, <2>a, <2>b DEF SettlesAlike
  <2>3. qr = Resolved(ql, a, r, i, src)
    <3>1. \A m : Settled(m, t, r, s, after) = Settled(m, a, r, s, after)
      BY <2>2, SettledSame
    <3> QED
      BY <1>0, <2>a, <2>b, <3>1 DEF Resolved
  <2> QED
    BY <1>0, <2>3
<1>4. Behind(r, qr, i, src)
  BY <1>2 DEF Passed, Behind
<1>5. Stage(a, pl, r, qr, i, src)
  BY <1>0, <1>2, <1>3, <1>4 DEF Stage
<1> QED
  BY <1>2, <1>5 DEF ResolvesStage

(* Or what it copies is written where the copy would go. *)
LEMMA StageInlines ==
  ASSUME NEW src \in Seq(Instructions), NEW i \in Nat, NEW a, NEW pl,
         Stage(a, pl, a, pl, i, src), NEW P \in SUBSET Given, Good(a, i, P), ~ a.thrown,
         SubMap(pl[i], a.map), i \in DOMAIN src, a.code[i] = src[i],
         NEW k, k = a.linked, k \notin {0, i}, a.link = src[i].rd, NEW x, x = a.code[k].rd,
         NEW r, r = Inline(a, i), NEW qr, qr = Resolved(pl, a, r, i, src)
  PROVE  InlinesStage(a, pl, r, qr, i, src, k, x)
<1>0. Behind(a, pl, i, src)
  BY DEF Stage
<1>1. Passed(a, pl, i, src)
  BY <1>0 DEF Behind, Passed
<1>2. /\ r.linked = 0 /\ ~ r.thrown
      /\ Passed(r, qr, i, src)
      /\ Changes(a.code, r.code, {i, k})
      /\ r.code[i] = [src[i] EXCEPT !.rd = x]
      /\ Ready(r.map, qr[i], src[i], x)
  <2>1. PICK v : v = a.link
    OBVIOUS
  <2>2. Inlines(a, r, qr, i, src, k, x)
    BY <1>1, <2>1, InlinePasses
  <2> QED
    BY <2>2 DEF Inlines
<1>3. Behind(r, qr, i, src)
  BY <1>2 DEF Passed, Behind
<1>4. Stage(a, pl, r, qr, i, src)
  BY <1>2, <1>3 DEF Stage
<1> QED
  BY <1>2, <1>4 DEF InlinesStage

LEMMA LinkedIs ==
  ASSUME NEW P \in SUBSET Given, NEW i \in Nat, NEW t, Good(t, i, P), t.linked # 0
  PROVE  /\ t.linked \in DOMAIN t.code /\ is_mv(t.code[t.linked]) /\ is_virtual(t.link)
         /\ ~ is_physical(t.link) /\ t.link # none_reg
         /\ ~ is_physical(t.code[t.linked].rd)
<1>1. is_virtual(t.link) /\ t.link \in Nat
  BY DEF Good, LinkedFrom, States
<1>2. ~ is_physical(t.link) /\ t.link # none_reg
  BY <1>1 DEF is_virtual, is_physical, VIRTUAL_BASE, FUNCTIONAL_BASE, none_reg
<1> QED
  BY <1>2 DEF Good, LinkedFrom

LEMMA OrderlyIs ==
  ASSUME NEW src \in Seq(Instructions), Orderly(src), NEW i \in DOMAIN src, NEW s, s = src[i]
  PROVE  /\ s \in Instructions /\ ~ is_dead(s)
         /\ s.rd \in Nat /\ s.rs1 \in Nat /\ s.rs2 \in Nat
         /\ is_mv(s) => in_reg(s) = Copied(s) /\ Copied(s) # s.rd
         /\ s.type = "RdRs1Imm" => s.rs2 = none_reg
         /\ s.type = "RdRs1ImmKeepRs2" => s.rs2 = s.rd /\ ~ is_virtual(s.rs1)
<1>1. s \in Instructions
  OBVIOUS
<1>2. s.rd \in Nat /\ s.rs1 \in Nat /\ s.rs2 \in Nat
  BY <1>1 DEF Instructions
<1> QED
  BY <1>1, <1>2 DEF Orderly

(* No value is in p. *)
Apart(after, p) == \A u \in DOMAIN after : after[u] # p

(* A register of the machine that an instruction writes holds no value that
   is alive behind it. *)
LEMMA PhysicalApart ==
  ASSUME NEW P \in SUBSET Given, NEW i \in Nat, NEW t, Good(t, i, P),
         NEW src \in Seq(Instructions), Orderly(src), i \in DOMAIN src, NEW s, s = src[i],
         NEW ql, Behind(t, ql, i, src), NEW after, after = ql[i], SubMap(after, t.map),
         is_physical(s.rd)
  PROVE  Apart(after, s.rd)
<1>0. SUFFICES ASSUME NEW u \in DOMAIN after PROVE after[u] # s.rd
  BY DEF Apart
<1>1. u \in DOMAIN t.map /\ t.map[u] = after[u]
  BY DEF SubMap
<1>2. ~ Held(src, i, after[u])
  <2>1. i \in i .. Len(src)
    OBVIOUS
  <2> QED
    BY <2>1 DEF Behind, Follow
<1>3. SUFFICES ASSUME after[u] = s.rd PROVE FALSE
  OBVIOUS
<1>4. s.rd \notin Available \cup {Home(f) : f \in Mapped}
  BY DEF Orderly
<1>5. s.rd \in P
  <2>1. CASE u \in Mapped
    BY <1>1, <1>3, <1>4, <2>1 DEF Good, Pooled
  <2>2. CASE u \notin Mapped
    BY <1>1, <1>3, <2>2 DEF Good, Pooled
  <2> QED
    BY <2>1, <2>2
<1>6. s.rd \in {A0, A1}
  BY <1>4, <1>5 DEF Given
<1>7. Held(src, i, s.rd)
  BY <1>6 DEF Orderly, Held
<1> QED
  BY <1>2, <1>3, <1>7

(* An instruction without a destination to allocate. *)
LEMMA PlainWritten ==
  ASSUME NEW P \in SUBSET Given, NEW i \in Nat, NEW t, Good(t, i, P),
         NEW src \in Seq(Instructions), Orderly(src), i \in DOMAIN src, NEW s, s = src[i],
         NEW ql, Behind(t, ql, i, src), NEW after, after = ql[i], SubMap(after, t.map),
         t.linked # i, t.code[i] = s, is_physical(s.rd) \/ s.rd = none_reg,
         NEW r, r.code = t.code, r.map = t.map, r.linked = t.linked, r.link = t.link
  PROVE  Written(r, i, s, after, {})
<1>1. s \in Instructions /\ ~ is_dead(s)
  BY OrderlyIs
<1>2. t.linked # 0 => s.rd \notin {t.link, t.code[t.linked].rd}
  <2> SUFFICES ASSUME t.linked # 0 PROVE s.rd \notin {t.link, t.code[t.linked].rd}
    OBVIOUS
  <2>0. t.linked \notin {0, i}
    OBVIOUS
  <2>1. ~ is_physical(t.link) /\ t.link # none_reg
    BY LinkedIs
  <2>2. ~ is_physical(t.code[t.linked].rd) /\ t.code[t.linked].rd # none_reg
    BY <2>0 DEF Behind, Waits, Copies
  <2> QED
    BY <2>1, <2>2
<1>3. Keeps(s, t.map, after)
  BY DEF SubMap, Keeps
<1>4. \A u \in DOMAIN after \ {s.rd} : after[u] # s.rd
  <2>1. CASE is_physical(s.rd)
    <3>1. Apart(after, s.rd)
      BY <2>1, PhysicalApart
    <3> QED
      BY <3>1 DEF Apart
  <2>2. CASE s.rd = none_reg
    <3>1. t.map \in Maps
      BY DEF Good, States
    <3>2. \A u \in DOMAIN t.map : t.map[u] \in 3 .. 31
      BY <3>1, MapsAre
    <3>3. none_reg \notin 3 .. 31
      BY DEF none_reg, VIRTUAL_BASE
    <3> QED
      BY <2>2, <3>2, <3>3 DEF SubMap
  <2> QED
    BY <2>1, <2>2
<1>5. Lands(after, s.rd, s.rd) /\ Same(s, s)
  BY DEF Lands, Same
<1>6. Operands(r, i, s, {})
  BY DEF Operands
<1> QED
  BY <1>1, <1>2, <1>3, <1>4, <1>5, <1>6 DEF Written

(* The destination is done: the instruction writes, is dead, or waits. *)
Reached(a, pl, r, i, src, F) ==
  \E qr : /\ Stage(a, pl, r, qr, i, src)
          /\ \/ Written(r, i, src[i], qr[i], F)
             \/ Linking(r, i, src[i], qr[i], F)

LEMMA ReadyAtOnce ==
  ASSUME NEW m, NEW s, NEW after, SubMap(after, m), ~ is_physical(s.rd), s.rd # none_reg
  PROVE  Ready(m, after, s, s.rd)
  BY DEF SubMap, Ready

(* Links, of a copy of v. *)
Linkable(c, v, m) == v = in_reg(c) /\ is_mv(c) /\ is_virtual(v) /\ v \notin DOMAIN m

LinksStage(a, pl, r, ql, i, src, s, after) ==
  Stage(a, pl, r, ql, i, src) /\ Linking(r, i, s, after, {})

(* A copy is linked. *)
LEMMA LinkPasses ==
  ASSUME NEW P \in SUBSET Given, NEW i \in Nat, NEW t, Good(t, i, P), ~ t.thrown,
         NEW src \in Seq(Instructions), Orderly(src), i \in DOMAIN src, NEW s, s = src[i],
         NEW a, NEW pl, NEW ql, Stage(a, pl, t, ql, i, src), a.linked # i, i # 0,
         a.linked \in DOMAIN src \cup {0},
         t.linked = 0, ~ is_physical(s.rd), s.rd # none_reg,
         NEW y, t.code[i] = [s EXCEPT !.rd = y], NEW after, after = ql[i], Ready(t.map, after, s, y),
         NEW v, Linkable(t.code[i], v, t.map),
         NEW r, r.linked = i, r.link = v, r.code = t.code, r.map = t.map
  PROVE  LinksStage(a, pl, r, ql, i, src, s, after)
<1>0. v = in_reg(t.code[i]) /\ is_mv(t.code[i]) /\ is_virtual(v) /\ v \notin DOMAIN t.map
  BY DEF Linkable
<1>1. s \in Instructions /\ (is_mv(s) => in_reg(s) = Copied(s) /\ Copied(s) # s.rd)
      /\ (s.type = "RdRs1ImmKeepRs2" => s.rs2 = s.rd /\ ~ is_virtual(s.rs1))
  BY OrderlyIs
<1>2. PICK c : c = t.code[i]
  OBVIOUS
<1>3. /\ c.type = s.type /\ c.insn = s.insn /\ c.imm = s.imm /\ c.rs1 = s.rs1 /\ c.rs2 = s.rs2
      /\ c.rd = y
  BY <1>1, <1>2 DEF Instructions
<1>4. is_mv(s) /\ in_reg(s) = v
  BY <1>0, <1>2, <1>3 DEF is_mv, in_reg
<1>5. Copied(s) = v /\ v # s.rd
  BY <1>1, <1>4
<1>6. s.type \in {"RdRs1Imm", "RdRs1Rs2"}
  <2>1. s.type # "RdRs1ImmKeepRs2"
    BY <1>0, <1>1, <1>5 DEF Copied
  <2> QED
    BY <1>4, <2>1 DEF is_mv
<1>7. r.linked = i /\ r.link = v /\ r.code = t.code /\ r.map = t.map
  OBVIOUS
<1>8. v \notin DOMAIN after
  BY <1>0, <1>5 DEF Ready
<1>9. Linking(r, i, s, after, {})
  <2>1. Operands(r, i, s, {})
    BY <1>2, <1>3, <1>7 DEF Operands
  <2>2. Ready(r.map, after, s, r.code[i].rd)
    BY <1>2, <1>3, <1>7
  <2>3. Same(s, r.code[i])
    BY <1>2, <1>3, <1>7 DEF Same
  <2>4. s.rd \in DOMAIN after => r.code[i].rd # v
    <3>1. s.rd \in DOMAIN after => y \in DOMAIN t.map
      BY DEF Ready
    <3>2. r.code[i].rd = y
      BY <1>2, <1>3, <1>7
    <3> QED
      BY <1>0, <3>1, <3>2
  <2> QED
    BY <1>0, <1>4, <1>5, <1>6, <1>7, <1>8, <2>1, <2>2, <2>3, <2>4 DEF Linking
<1>10. Stage(a, pl, r, ql, i, src)
  <2>1. Behind(t, ql, i, src)
    BY DEF Stage
  <2>2. Behind(r, ql, i, src)
    <3>1. Follow(src, r.code, ql, i, r.linked)
      BY <1>7, <2>1 DEF Behind, Follow
    <3> QED
      BY <1>7, <2>1, <3>1 DEF Behind
  <2>3. a.linked # 0 => a.linked \notin {0, t.linked} /\ a.linked \notin {0, r.linked}
    BY <1>7
  <2>4. a.linked # 0 => Resolved(pl, a, t, i, src) = Resolved(pl, a, r, i, src)
    <3>1. a.linked # 0 => SettlesAlike(a, t, a, r, a.linked, src[a.linked], pl[a.linked])
      BY <1>7 DEF SettlesAlike
    <3> QED
      BY <3>1, ResolvedSame
  <2>5. ql = IF a.linked \notin {0, t.linked} THEN Resolved(pl, a, t, i, src) ELSE pl
    BY DEF Stage
  <2>6. ql = IF a.linked \notin {0, r.linked} THEN Resolved(pl, a, r, i, src) ELSE pl
    BY <2>3, <2>4, <2>5
  <2> QED
    BY <1>7, <2>2, <2>6 DEF Stage
<1> QED
  BY <1>9, <1>10 DEF LinksStage

(* The instruction is about to be defined; it will write y. *)
Prepared(a, pl, b, qb, i, src, s, y, P) ==
  /\ Stage(a, pl, b, qb, i, src) /\ Good(b, i, P) /\ ~ b.thrown
  /\ b.linked # i
  /\ b.code[i] = [s EXCEPT !.rd = y]
  /\ Ready(b.map, qb[i], s, y)
  /\ Whole(s, y)

(* No copy may wait for an instruction that keeps its destination. *)
Free(s, n) == s.type = "RdRs1ImmKeepRs2" => n = 0

(* The wait ends before the instruction is defined. *)
LEMMA ResolvePasses ==
  ASSUME NEW P \in SUBSET Given, NEW i \in Nat, i # 0,
         NEW src \in Seq(Instructions), i \in DOMAIN src, NEW s, s = src[i],
         NEW a, NEW pl, a.linked # i, NEW b, NEW qb, NEW y,
         Prepared(a, pl, b, qb, i, src, s, y, P),
         b.linked # 0 => y = s.rd /\ SubMap(qb[i], b.map),
         NEW c, c = AllocateLinked(b)
  PROVE  /\ c.linked = 0 /\ SubMap(c.map, b.map)
         /\ \E qc : Prepared(a, pl, c, qc, i, src, s, y, P)
<1>0. /\ Stage(a, pl, b, qb, i, src) /\ Good(b, i, P) /\ ~ b.thrown
      /\ b.linked # i /\ b.code[i] = [s EXCEPT !.rd = y] /\ Ready(b.map, qb[i], s, y)
      /\ Whole(s, y)
  BY DEF Prepared
<1>1. Good(c, i, P)
  BY <1>0, AllocateLinkedGood
<1>2. CASE b.linked = 0
  <2>1. c = b
    BY <1>2 DEF AllocateLinked
  <2> QED
    BY <1>2, <2>1 DEF SubMap
<1>3. CASE b.linked # 0
  <2>1. PICK k : k = b.linked
    OBVIOUS
  <2>2. PICK x : x = b.code[k].rd
    OBVIOUS
  <2>3. PICK qc : qc = Resolved(qb, b, c, i, src)
    OBVIOUS
  <2>4. k \notin {0, i}
    BY <1>0, <1>3, <2>1
  <2>5. /\ Stage(a, pl, c, qc, i, src)
        /\ c.linked = 0 /\ ~ c.thrown
        /\ Changes(b.code, c.code, {k})
        /\ SubMap(qc[i], qb[i]) /\ x \notin DOMAIN qc[i]
        /\ SubMap(c.map, b.map) /\ DOMAIN b.map \ {x} \subseteq DOMAIN c.map
    <3>1. ResolvesStage(a, pl, b, c, qb, qc, i, src, k, x)
      BY <1>0, <2>1, <2>2, <2>3, <2>4, StageResolves
    <3> QED
      BY <3>1 DEF ResolvesStage
  <2>6. SubMap(qc[i], c.map)
    BY <1>3, <2>5 DEF SubMap
  <2>7. c.code[i] = b.code[i]
    <3>1. i \in DOMAIN b.code
      BY <1>0 DEF Stage, Behind
    <3> QED
      BY <2>4, <2>5, <3>1 DEF Changes
  <2>8. Ready(c.map, qc[i], s, y)
    <3>1. ~ is_physical(s.rd) /\ s.rd # none_reg /\ y = s.rd
      BY <1>0, <1>3 DEF Ready
    <3>2. Ready(c.map, qc[i], s, s.rd)
      BY <2>6, <3>1, ReadyAtOnce
    <3> QED
      BY <3>1, <3>2
  <2>9. Prepared(a, pl, c, qc, i, src, s, y, P)
    BY <1>0, <1>1, <2>5, <2>7, <2>8 DEF Prepared
  <2> QED
    BY <2>5, <2>9
<1> QED
  BY <1>2, <1>3

(* The instruction is defined. *)
LEMMA DefinePasses ==
  ASSUME NEW P \in SUBSET Given, NEW i \in Nat, i # 0,
         NEW src \in Seq(Instructions), Orderly(src), i \in DOMAIN src, NEW s, s = src[i],
         ~ is_physical(s.rd), s.rd # none_reg,
         NEW a, NEW pl, a.linked # i, a.linked \in DOMAIN src \cup {0}, NEW b, NEW qb, NEW y,
         Prepared(a, pl, b, qb, i, src, s, y, P),
         b.linked # 0 => y = s.rd /\ y \notin {b.link, b.code[b.linked].rd},
         NEW r, r = Define(b, i)
  PROVE  /\ Reached(a, pl, r, i, src, {}) /\ ~ r.thrown
<1>0. /\ Stage(a, pl, b, qb, i, src) /\ Good(b, i, P) /\ ~ b.thrown
      /\ b.linked # i /\ b.code[i] = [s EXCEPT !.rd = y] /\ Ready(b.map, qb[i], s, y)
      /\ Whole(s, y)
  BY DEF Prepared
<1>1. s \in Instructions /\ ~ is_dead(s)
  BY OrderlyIs
<1>2. b \in States /\ Distinct(b) /\ (b.linked # 0 => b.linked \in DOMAIN b.code)
  BY <1>0 DEF Good, LinkedFrom
<1>3. i \in DOMAIN b.code
  BY <1>0 DEF Stage, Behind
<1>4. PICK after : after = qb[i]
  OBVIOUS
<1>5. Ready(b.map, after, s, y)
  BY <1>0, <1>4
<1>6. Written(r, i, s, after, {}) /\ Defined(b, r, i, y)
  BY <1>0, <1>1, <1>2, <1>3, <1>5, DefineWrites
<1>7. Stage(a, pl, r, qb, i, src)
  <2>1. b.linked \notin {0, i} => y \notin {b.link, b.code[b.linked].rd}
    OBVIOUS
  <2>2. \A u : u # y => Agree(b.map, r.map, u)
    BY <1>6 DEF Defined, Agree, SubMap
  <2>3. /\ r.linked = b.linked /\ r.link = b.link /\ Changes(b.code, r.code, {i})
    BY <1>6 DEF Defined
  <2>4. b.linked \notin {0, i} => /\ r.link = b.link
             /\ Agree(b.map, r.map, b.link) /\ Agree(b.map, r.map, b.code[b.linked].rd)
    BY <2>1, <2>2, <2>3
  <2> QED
    BY <1>0, <2>3, <2>4, StageStays
<1>8. Written(r, i, src[i], qb[i], {})
  BY <1>4, <1>6
<1> QED
  BY <1>6, <1>7, <1>8 DEF Reached, Defined

(* The instruction is prepared, with the target of the copy or with its own. *)
LEMMA InlineStage ==
  ASSUME NEW P \in SUBSET Given, NEW i \in Nat, i # 0,
         NEW src \in Seq(Instructions), Orderly(src), i \in DOMAIN src, NEW s, s = src[i],
         ~ is_physical(s.rd), s.rd # none_reg,
         NEW a, NEW pl, NEW t, NEW ql, Stage(a, pl, t, ql, i, src), Good(t, i, P), ~ t.thrown,
         t.linked # i, t.linked # 0 => t = a /\ ql = pl, SubMap(ql[i], t.map),
         t.code[i] = s, Free(s, t.linked), NEW b, b = Inline(t, i)
  PROVE  \E qb, y : /\ Prepared(a, pl, b, qb, i, src, s, y, P)
                    /\ b.linked # 0 => y = s.rd /\ y # b.link /\ SubMap(qb[i], b.map)
<1>1. i \in DOMAIN t.code
  BY DEF Stage, Behind
<1>2. Good(b, i, P)
  BY <1>1, InlineGood
<1>3. CASE t.linked # 0 /\ t.link = s.rd
  <2>1. PICK k : k = t.linked
    OBVIOUS
  <2>2. PICK x : x = t.code[k].rd
    OBVIOUS
  <2>3. PICK qb : qb = Resolved(pl, a, b, i, src)
    OBVIOUS
  <2>4. t = a /\ ql = pl
    BY <1>3
  <2>5. /\ Stage(a, pl, a, pl, i, src) /\ Good(a, i, P) /\ ~ a.thrown /\ SubMap(pl[i], a.map)
        /\ a.code[i] = src[i] /\ k = a.linked /\ k \notin {0, i} /\ a.link = src[i].rd
        /\ x = a.code[k].rd /\ b = Inline(a, i)
    BY <1>3, <2>1, <2>2, <2>4
  <2>6. /\ Stage(a, pl, b, qb, i, src)
        /\ b.linked = 0 /\ ~ b.thrown
        /\ Changes(a.code, b.code, {i, k})
        /\ b.code[i] = [src[i] EXCEPT !.rd = x]
        /\ Ready(b.map, qb[i], src[i], x)
    <3>1. InlinesStage(a, pl, b, qb, i, src, k, x)
      BY <2>3, <2>5, StageInlines
    <3> QED
      BY <3>1 DEF InlinesStage
  <2>a. Whole(s, x)
    BY <1>3 DEF Whole, Free
  <2>7. Prepared(a, pl, b, qb, i, src, s, x, P)
    BY <1>2, <2>6, <2>a DEF Prepared
  <2> QED
    BY <2>6, <2>7
<1>4. CASE ~ (t.linked # 0 /\ t.link = s.rd)
  <2>1. b = t
    BY <1>4 DEF Inline
  <2>2. s \in Instructions
    OBVIOUS
  <2>3. s = [s EXCEPT !.rd = s.rd]
    BY <2>2 DEF Instructions
  <2>4. Ready(t.map, ql[i], s, s.rd)
    BY ReadyAtOnce
  <2>a. Whole(s, s.rd)
    BY OrderlyIs DEF Whole
  <2>5. Prepared(a, pl, b, ql, i, src, s, s.rd, P)
    BY <2>1, <2>3, <2>4, <2>a DEF Prepared
  <2> QED
    BY <1>4, <2>1, <2>5
<1> QED
  BY <1>3, <1>4

(* A destination that is not a register of the machine. *)
LEMMA VirtualPasses ==
  ASSUME NEW P \in SUBSET Given, NEW i \in Nat, i # 0,
         NEW src \in Seq(Instructions), Orderly(src), i \in DOMAIN src, NEW s, s = src[i],
         ~ is_physical(s.rd), s.rd # none_reg,
         NEW a, NEW pl, NEW t, NEW ql, Stage(a, pl, t, ql, i, src), Good(t, i, P), ~ t.thrown,
         a.linked # i, a.linked \in DOMAIN src \cup {0},
         t.linked # i, t.linked # 0 => t = a /\ ql = pl, SubMap(ql[i], t.map),
         t.code[i] = s, Free(s, t.linked), NEW r, r = Destination(t, i)
  PROVE  Reached(a, pl, r, i, src, {}) /\ ~ r.thrown
<1>1. PICK b : b = Inline(t, i)
  OBVIOUS
<1>2. PICK qb, y : /\ Prepared(a, pl, b, qb, i, src, s, y, P)
                   /\ b.linked # 0 => y = s.rd /\ y # b.link /\ SubMap(qb[i], b.map)
  BY <1>1, InlineStage
<1>3. PICK c : c = AllocateLinked(b)
  OBVIOUS
<1>4. /\ b.code[i] = [s EXCEPT !.rd = y] /\ Good(b, i, P) /\ s \in Instructions /\ b.code[i].rd = y
  <2>1. s \in Instructions
    OBVIOUS
  <2>2. b.code[i] = [s EXCEPT !.rd = y] /\ Good(b, i, P)
    BY <1>2 DEF Prepared
  <2> QED
    BY <2>1, <2>2 DEF Instructions
<1>5. b.linked # 0 => y = s.rd /\ SubMap(qb[i], b.map)
  BY <1>2
<1>6. c.linked = 0 /\ SubMap(c.map, b.map) /\ \E qc : Prepared(a, pl, c, qc, i, src, s, y, P)
  BY <1>2, <1>3, <1>5, ResolvePasses
<1>7. PICK qc : Prepared(a, pl, c, qc, i, src, s, y, P)
  BY <1>6
<1>8. r = IF Links(b, i) THEN [c EXCEPT !.link = in_reg(b.code[i]), !.linked = i]
          ELSE IF b.linked # 0 /\ y = b.code[b.linked].rd THEN Define(c, i)
          ELSE Define(b, i)
  BY <1>1, <1>3, <1>4 DEF Destination
<1>9. CASE Links(b, i)
  <2>1. PICK v : v = in_reg(b.code[i])
    OBVIOUS
  <2>2. /\ Stage(a, pl, c, qc, i, src) /\ Good(c, i, P) /\ ~ c.thrown
        /\ c.code[i] = [s EXCEPT !.rd = y] /\ Ready(c.map, qc[i], s, y)
    BY <1>7 DEF Prepared
  <2>3. c.code[i] = b.code[i]
    BY <1>4, <2>2
  <2>4. Linkable(c.code[i], v, c.map)
    BY <1>6, <1>9, <2>1, <2>3 DEF Links, Allocated, SubMap, Linkable
  <2>5. r.linked = i /\ r.link = v /\ r.code = c.code /\ r.map = c.map /\ ~ r.thrown
    <3>1. r = [c EXCEPT !.link = v, !.linked = i]
      BY <1>8, <1>9, <2>1
    <3>2. c \in States
      BY <2>2 DEF Good
    <3> QED
      BY <2>2, <3>1, <3>2 DEF States
  <2>a. c.linked = 0
    BY <1>6
  <2>6. PICK after : after = qc[i]
    OBVIOUS
  <2>7. Ready(c.map, after, s, y)
    BY <2>2, <2>6
  <2>8. LinksStage(a, pl, r, qc, i, src, s, after)
    BY <2>2, <2>4, <2>5, <2>6, <2>7, <2>a, LinkPasses
  <2> QED
    BY <2>5, <2>6, <2>8 DEF Reached, LinksStage
<1>10. CASE ~ Links(b, i) /\ b.linked # 0 /\ y = b.code[b.linked].rd
  <2>1. r = Define(c, i)
    BY <1>8, <1>10
  <2> QED
    BY <1>6, <1>7, <2>1, DefinePasses
<1>11. CASE ~ Links(b, i) /\ ~ (b.linked # 0 /\ y = b.code[b.linked].rd)
  <2>1. r = Define(b, i)
    BY <1>8, <1>11
  <2>2. b.linked # 0 => y = s.rd /\ y \notin {b.link, b.code[b.linked].rd}
    BY <1>2, <1>11
  <2> QED
    BY <1>2, <2>1, <2>2, DefinePasses
<1> QED
  BY <1>9, <1>10, <1>11

(* Any destination. *)
LEMMA DestinationPasses ==
  ASSUME NEW P \in SUBSET Given, NEW i \in Nat, i # 0,
         NEW src \in Seq(Instructions), Orderly(src), i \in DOMAIN src, NEW s, s = src[i],
         NEW a, NEW pl, NEW t, NEW ql, Stage(a, pl, t, ql, i, src), Good(t, i, P), ~ t.thrown,
         a.linked # i, a.linked \in DOMAIN src \cup {0},
         t.linked # i, t.linked # 0 => t = a /\ ql = pl, SubMap(ql[i], t.map),
         t.code[i] = s, Free(s, t.linked), NEW r, r = Destination(t, i)
  PROVE  Reached(a, pl, r, i, src, {}) /\ ~ r.thrown
<1>1. CASE ~ is_physical(s.rd) /\ s.rd # none_reg
  BY <1>1, VirtualPasses
<1>2. CASE is_physical(s.rd) \/ s.rd = none_reg
  <2>1. r.code = t.code /\ r.map = t.map /\ r.linked = t.linked /\ r.link = t.link /\ ~ r.thrown
    <3>1. r \in {t, [t EXCEPT !.avail = @ \cup {s.rd}]}
      BY <1>2 DEF Destination
    <3>2. t \in States
      BY DEF Good
    <3> QED
      BY <3>1, <3>2 DEF States
  <2>2. PICK after : after = ql[i]
    OBVIOUS
  <2>3. SubMap(after, t.map) /\ Behind(t, ql, i, src)
    BY <2>2 DEF Stage
  <2>4. Written(r, i, s, after, {})
    BY <1>2, <2>1, <2>2, <2>3, PlainWritten
  <2>5. Changes(t.code, r.code, {i}) /\ \A u : Agree(t.map, r.map, u)
    BY <2>1 DEF Changes, Agree
  <2>6. Stage(a, pl, r, ql, i, src)
    BY <2>1, <2>5, StageStays
  <2> QED
    BY <2>1, <2>2, <2>4, <2>6 DEF Reached
<1> QED
  BY <1>1, <1>2

(* d is c with another register in the place of operand f. *)
Replaced(c, d, f, p) ==
  /\ d.type = c.type /\ d.insn = c.insn /\ d.imm = c.imm /\ d.rd = c.rd
  /\ d[f] = p
  /\ \A g \in {"rs1", "rs2"} \ {f} : d[g] = c[g]

LEMMA ReplacedIs ==
  ASSUME NEW c \in Instructions, NEW f \in {"rs1", "rs2"}, NEW p, NEW d, d = [c EXCEPT ![f] = p]
  PROVE  Replaced(c, d, f, p)
<1>1. CASE f = "rs1"
  <2>1. d = [c EXCEPT !.rs1 = p]
    BY <1>1
  <2>2. /\ d.type = c.type /\ d.insn = c.insn /\ d.imm = c.imm /\ d.rd = c.rd
        /\ d.rs1 = p /\ d.rs2 = c.rs2
    BY <2>1 DEF Instructions
  <2> QED
    BY <1>1, <2>2 DEF Replaced
<1>2. CASE f = "rs2"
  <2>1. d = [c EXCEPT !.rs2 = p]
    BY <1>2
  <2>2. /\ d.type = c.type /\ d.insn = c.insn /\ d.imm = c.imm /\ d.rd = c.rd
        /\ d.rs2 = p /\ d.rs1 = c.rs1
    BY <2>1 DEF Instructions
  <2> QED
    BY <1>2, <2>2 DEF Replaced
<1> QED
  BY <1>1, <1>2

(* What Use does when no exception is thrown. *)
Used(t, r, i, f, w) ==
  /\ r.linked = t.linked /\ r.link = t.link
  /\ DOMAIN r.map = DOMAIN t.map \cup {w} /\ SubMap(t.map, r.map)
  /\ Changes(t.code, r.code, {i})
  /\ Replaced(t.code[i], r.code[i], f, r.map[w])

(* Use, when a register is found. *)
LEMMA UseIs ==
  ASSUME NEW t \in States, NEW i \in DOMAIN t.code, NEW f \in {"rs1", "rs2"}, ~ t.thrown,
         NEW w, w = t.code[i][f], NEW r, r = Use(t, i, f), ~ r.thrown, t.avail \in SUBSET (3 .. 31)
  PROVE  Used(t, r, i, f, w)
<1> DEFINE c == t.code[i]
           preference == IF is_physical(c.rd) THEN c.rd ELSE none_reg
           b == IF Allocated(t, w) THEN t ELSE allocate(t, w, preference)
<1>1. t.code \in Seq(Instructions) /\ c \in Instructions /\ t.map \in Maps
  BY CodeIs
<1>2. r = IF b.thrown THEN b ELSE [b EXCEPT !.code[i][f] = b.map[w]]
  BY DEF Use
<1>3. ~ b.thrown
  BY <1>2
<1>4. /\ b.code = t.code /\ b.linked = t.linked /\ b.link = t.link
      /\ DOMAIN b.map = DOMAIN t.map \cup {w} /\ SubMap(t.map, b.map)
      /\ b.map[w] \in Nat
      /\ b = [code |-> b.code, avail |-> b.avail, map |-> b.map,
              linked |-> b.linked, link |-> b.link, thrown |-> b.thrown]
  <2>1. CASE Allocated(t, w)
    <3>1. b = t /\ w \in DOMAIN t.map
      BY <2>1 DEF Allocated
    <3>2. t.map[w] \in Nat
      BY <1>1, <3>1, MapsAre
    <3> HIDE DEF b
    <3> QED
      BY <3>1, <3>2 DEF SubMap, States
  <2>2. CASE ~ Allocated(t, w)
    <3> DEFINE p == Choice(t.avail, preference)
               m == Extended(t.map, w, p)
    <3>1. b = allocate(t, w, preference) /\ w \notin DOMAIN t.map
      BY <2>2 DEF Allocated
    <3>2. t.avail # {}
      <4>1. SUFFICES ASSUME t.avail = {} PROVE FALSE
        OBVIOUS
      <4>2. b = [t EXCEPT !.thrown = TRUE]
        BY <3>1, <4>1 DEF allocate
      <4> HIDE DEF b
      <4> QED
        BY <1>3, <4>2 DEF States
    <3>3. b = [t EXCEPT !.avail = @ \ {p}, !.map = m]
      BY <3>1, <3>2 DEF allocate
    <3>4. p \in Nat
      <4>1. p \in t.avail
        BY <3>2, ChoiceIsFree
      <4> QED
        BY <4>1
    <3> HIDE DEF p, b
    <3>5. /\ DOMAIN m = DOMAIN t.map \cup {w} /\ m[w] = p
          /\ \A u \in DOMAIN t.map : m[u] = t.map[u]
      BY <3>1 DEF Extended
    <3> HIDE DEF m
    <3>6. b.code = t.code /\ b.linked = t.linked /\ b.link = t.link /\ b.map = m
          /\ b = [code |-> b.code, avail |-> b.avail, map |-> b.map,
                  linked |-> b.linked, link |-> b.link, thrown |-> b.thrown]
      BY <3>3 DEF States
    <3> QED
      BY <3>4, <3>5, <3>6 DEF SubMap
  <2> QED
    BY <2>1, <2>2
<1> HIDE DEF b
<1> DEFINE p == b.map[w]
           d == [c EXCEPT ![f] = p]
           cc == [t.code EXCEPT ![i] = d]
<1>5. r = [b EXCEPT !.code = cc]
  BY <1>2, <1>3, <1>4
<1>6. d \in Instructions
  <2>1. CASE f = "rs1"
    BY <1>1, <1>4, <2>1, InstructionUpdate
  <2>2. CASE f = "rs2"
    BY <1>1, <1>4, <2>2, InstructionUpdate
  <2> QED
    BY <2>1, <2>2
<1>7. Replaced(c, d, f, p)
  BY <1>1, ReplacedIs
<1> HIDE DEF d
<1>8. cc[i] = d /\ Changes(t.code, cc, {i})
  BY <1>1, <1>6, CodeUpdate
<1> HIDE DEF cc
<1>9. r.code = cc /\ r.map = b.map /\ r.linked = b.linked /\ r.link = b.link
  BY <1>4, <1>5
<1> QED
  BY <1>4, <1>7, <1>8, <1>9 DEF Used

LEMMA OperandsUsed ==
  ASSUME NEW t, NEW i, NEW s, NEW F \in SUBSET {"rs1", "rs2"}, Operands(t, i, s, F),
         NEW f \in {"rs1", "rs2"} \ F,
         NEW w, w = t.code[i][f], ~ is_physical(w), w # none_reg,
         t.linked \notin {0, i} => t.linked \in DOMAIN t.code /\ w \notin {t.link, t.code[t.linked].rd},
         NEW r, Used(t, r, i, f, w)
  PROVE  Operands(r, i, s, F \cup {f})
<1>1. s[f] = w
  BY DEF Operands
<1>2. /\ r.linked = t.linked /\ r.link = t.link
      /\ t.linked \notin {0, i} => r.code[r.linked].rd = t.code[t.linked].rd
  BY DEF Used, Changes
<1>3. SUFFICES ASSUME NEW g \in {"rs1", "rs2"}
               PROVE  IF g \in F \cup {f}
                      THEN /\ InPlace(r.map, s[g], r.code[i][g])
                           /\ r.linked \notin {0, i} => s[g] \notin {r.link, r.code[r.linked].rd}
                      ELSE r.code[i][g] = s[g]
  BY DEF Operands
<1>4. CASE g = f
  <2>1. InPlace(r.map, s[f], r.code[i][f])
    BY <1>1 DEF Used, Replaced, InPlace
  <2> QED
    BY <1>1, <1>2, <1>4, <2>1
<1>5. CASE g # f
  <2>1. r.code[i][g] = t.code[i][g]
    BY <1>5 DEF Used, Replaced
  <2>2. CASE g \in F
    <3>1. InPlace(t.map, s[g], t.code[i][g])
      BY <2>2 DEF Operands
    <3>2. InPlace(r.map, s[g], r.code[i][g])
      BY <2>1, <3>1 DEF InPlace, Used, SubMap
    <3>3. t.linked \notin {0, i} => s[g] \notin {t.link, t.code[t.linked].rd}
      BY <2>2 DEF Operands
    <3> QED
      BY <1>2, <2>2, <3>2, <3>3
  <2>3. CASE g \notin F
    BY <1>5, <2>1, <2>3 DEF Operands
  <2> QED
    BY <2>2, <2>3
<1> QED
  BY <1>4, <1>5

(* An operand more has its register. *)
LEMMA WrittenUsed ==
  ASSUME NEW t, NEW i, NEW s, NEW after, NEW F \in SUBSET {"rs1", "rs2"}, Written(t, i, s, after, F),
         ~ is_dead(t.code[i]), NEW f \in {"rs1", "rs2"} \ F,
         NEW w, w = t.code[i][f], ~ is_physical(w), w # none_reg,
         t.linked \notin {0, i} => t.linked \in DOMAIN t.code /\ w \notin {t.link, t.code[t.linked].rd},
         NEW r, Used(t, r, i, f, w)
  PROVE  Written(r, i, s, after, F \cup {f})
<1>0. Operands(t, i, s, F) /\ Same(s, t.code[i])
  BY DEF Written
<1>1. Operands(r, i, s, F \cup {f})
  BY <1>0, OperandsUsed
<1>2. /\ r.linked = t.linked /\ r.link = t.link
      /\ t.linked \notin {0, i} => r.code[r.linked].rd = t.code[t.linked].rd
  BY DEF Used, Changes
<1>3. Keeps(s, r.map, after)
  BY DEF Written, Keeps, Used, SubMap
<1>4. r.code[i].rd = t.code[i].rd /\ Same(s, r.code[i]) /\ ~ is_dead(r.code[i])
  BY <1>0 DEF Used, Replaced, Same, is_dead
<1>5. /\ t.linked # i /\ (t.linked # 0 => s.rd \notin {t.link, t.code[t.linked].rd})
      /\ Lands(after, s.rd, t.code[i].rd)
      /\ \A u \in DOMAIN after \ {s.rd} : after[u] # t.code[i].rd
  BY DEF Written
<1>6. r.linked # i /\ (r.linked # 0 => s.rd \notin {r.link, r.code[r.linked].rd})
  BY <1>2, <1>5
<1>7. /\ Lands(after, s.rd, r.code[i].rd)
      /\ \A u \in DOMAIN after \ {s.rd} : after[u] # r.code[i].rd
  BY <1>4, <1>5
<1> QED
  BY <1>1, <1>3, <1>4, <1>6, <1>7 DEF Written

(* The same for an instruction that waits. *)
LEMMA LinkingUsed ==
  ASSUME NEW t, NEW i, NEW s, NEW after, NEW F \in SUBSET {"rs1", "rs2"}, Linking(t, i, s, after, F),
         NEW f \in {"rs1", "rs2"} \ F,
         NEW w, w = t.code[i][f], ~ is_physical(w), w # none_reg,
         NEW r, Used(t, r, i, f, w)
  PROVE  Linking(r, i, s, after, F \cup {f})
<1>0. Operands(t, i, s, F) /\ Same(s, t.code[i]) /\ t.linked = i
  BY DEF Linking
<1>1. Operands(r, i, s, F \cup {f})
  BY <1>0, OperandsUsed
<1>2. r.linked = t.linked /\ r.link = t.link
  BY DEF Used
<1>3. r.code[i].rd = t.code[i].rd /\ Same(s, r.code[i])
  BY <1>0 DEF Used, Replaced, Same
<1>4. Ready(r.map, after, s, r.code[i].rd)
  <2>1. Ready(t.map, after, s, t.code[i].rd)
    BY DEF Linking
  <2> QED
    BY <1>3, <2>1 DEF Used, SubMap, Ready
<1> QED
  BY <1>1, <1>2, <1>3, <1>4 DEF Linking

(* An operand that is a register of the machine, or none, stays. *)
LEMMA OperandsPlain ==
  ASSUME NEW t, NEW i, NEW s, NEW F \in SUBSET {"rs1", "rs2"}, Operands(t, i, s, F),
         NEW f \in {"rs1", "rs2"} \ F, is_physical(s[f]) \/ s[f] = none_reg,
         t.linked \notin {0, i} => /\ ~ is_physical(t.link) /\ t.link # none_reg
                                   /\ ~ is_physical(t.code[t.linked].rd)
                                   /\ t.code[t.linked].rd # none_reg
  PROVE  Operands(t, i, s, F \cup {f})
  BY DEF Operands, InPlace

(* The wait of a copy ends in the middle of an instruction. *)
LEMMA WrittenResolved ==
  ASSUME NEW t, NEW i, NEW s, NEW after, NEW F \in SUBSET {"rs1", "rs2"}, Written(t, i, s, after, F),
         NEW k, k = t.linked, k \notin {0, i}, NEW x, x = t.code[k].rd, i \in DOMAIN t.code,
         NEW r, r.linked = 0, Changes(t.code, r.code, {k}),
         SubMap(r.map, t.map), DOMAIN t.map \ {x} \subseteq DOMAIN r.map,
         NEW before, SubMap(before, after), x \notin DOMAIN before, i # 0
  PROVE  Written(r, i, s, before, F)
<1>1. r.code[i] = t.code[i]
  BY DEF Changes
<1>2. Keeps(s, r.map, before)
  BY DEF Written, Keeps, SubMap
<1>3. CASE is_dead(t.code[i])
  <2>1. Unread(s, before)
    BY <1>3 DEF Written, Unread, SubMap
  <2> QED
    BY <1>1, <1>2, <1>3, <2>1 DEF Written
<1>4. CASE ~ is_dead(t.code[i])
  <2>1. /\ Same(s, t.code[i])
        /\ Lands(after, s.rd, t.code[i].rd)
        /\ \A u \in DOMAIN after \ {s.rd} : after[u] # t.code[i].rd
        /\ Operands(t, i, s, F)
    BY <1>4 DEF Written
  <2>2. Lands(before, s.rd, t.code[i].rd)
    BY <2>1 DEF Lands, SubMap
  <2>3. \A u \in DOMAIN before \ {s.rd} : before[u] # t.code[i].rd
    BY <2>1 DEF SubMap
  <2>4. Operands(r, i, s, F)
    <3>1. SUFFICES ASSUME NEW g \in F, g \in {"rs1", "rs2"}
                   PROVE  InPlace(r.map, s[g], t.code[i][g])
      BY <1>1, <2>1 DEF Operands
    <3>2. InPlace(t.map, s[g], t.code[i][g]) /\ s[g] # x
      BY <2>1, <3>1 DEF Operands
    <3> QED
      BY <3>2 DEF InPlace, SubMap
  <2> QED
    BY <1>1, <1>2, <1>4, <2>1, <2>2, <2>3, <2>4 DEF Written
<1> QED
  BY <1>3, <1>4

(* A use that is no conflict. *)
LEMMA UsePasses ==
  ASSUME NEW P \in SUBSET Given, NEW i \in Nat, i # 0,
         NEW src \in Seq(Instructions), i \in DOMAIN src, NEW s, s = src[i],
         NEW a, NEW pl, a.linked # i, a.linked \in DOMAIN src \cup {0},
         NEW t, NEW ql, Stage(a, pl, t, ql, i, src), Good(t, i, P), ~ t.thrown,
         NEW after, after = ql[i], NEW F \in SUBSET {"rs1", "rs2"},
         Written(t, i, s, after, F) \/ Linking(t, i, s, after, F), ~ is_dead(t.code[i]),
         NEW f \in {"rs1", "rs2"} \ F, NEW w, w = t.code[i][f], ~ is_physical(w), w # none_reg,
         t.linked \notin {0, i} => w \notin {t.link, t.code[t.linked].rd},
         NEW r, r = Use(t, i, f), ~ r.thrown
  PROVE  Reached(a, pl, r, i, src, F \cup {f})
<1>1. /\ t \in States /\ t.avail \in SUBSET (3 .. 31)
      /\ t.linked \notin {0, i} => t.linked \in DOMAIN t.code
  <2>1. t.avail \subseteq P /\ P \subseteq 3 .. 31
    BY GivenAre DEF Good, Pooled
  <2>2. t.linked # 0 => t.linked \in DOMAIN t.code
    BY DEF Good, LinkedFrom
  <2> QED
    BY <2>1, <2>2 DEF Good
<1>2. i \in DOMAIN t.code
  BY DEF Stage, Behind
<1>3. f \in {"rs1", "rs2"}
  OBVIOUS
<1>4. Used(t, r, i, f, w)
  BY <1>1, <1>2, <1>3, UseIs
<1>5. t.linked \notin {0, i} => t.linked \in DOMAIN t.code /\ w \notin {t.link, t.code[t.linked].rd}
  BY <1>1
<1>6. Written(r, i, s, after, F \cup {f}) \/ Linking(r, i, s, after, F \cup {f})
  <2>1. CASE Written(t, i, s, after, F)
    BY <1>4, <1>5, <2>1, WrittenUsed
  <2>2. CASE Linking(t, i, s, after, F)
    BY <1>4, <2>2, LinkingUsed
  <2> QED
    BY <2>1, <2>2
<1>7. Stage(a, pl, r, ql, i, src)
  <2>1. /\ r.linked = t.linked /\ r.link = t.link /\ Changes(t.code, r.code, {i})
    BY <1>4 DEF Used
  <2>2. \A u : u # w => Agree(t.map, r.map, u)
    BY <1>4 DEF Used, Agree, SubMap
  <2>3. t.linked \notin {0, i} => /\ r.link = t.link
             /\ Agree(t.map, r.map, t.link) /\ Agree(t.map, r.map, t.code[t.linked].rd)
    BY <1>5, <2>1, <2>2
  <2> QED
    BY <2>1, <2>3, StageStays
<1> QED
  BY <1>6, <1>7 DEF Reached

(* Any operand. *)
LEMMA OperandPasses ==
  ASSUME NEW P \in SUBSET Given, NEW i \in Nat, i # 0,
         NEW src \in Seq(Instructions), i \in DOMAIN src,
         NEW a, NEW pl, a.linked # i, a.linked \in DOMAIN src \cup {0},
         NEW t, Good(t, i, P), ~ t.thrown, NEW F \in SUBSET {"rs1", "rs2"},
         Reached(a, pl, t, i, src, F), NEW f \in {"rs1", "rs2"} \ F,
         NEW r, r = Operand(t, i, f), ~ r.thrown
  PROVE  Reached(a, pl, r, i, src, F \cup {f})
<1>1. PICK ql : /\ Stage(a, pl, t, ql, i, src)
                /\ Written(t, i, src[i], ql[i], F) \/ Linking(t, i, src[i], ql[i], F)
  BY DEF Reached
<1>2. PICK s : s = src[i]
  OBVIOUS
<1>3. PICK after : after = ql[i]
  OBVIOUS
<1>4. Written(t, i, s, after, F) \/ Linking(t, i, s, after, F)
  BY <1>1, <1>2, <1>3
<1>5. i \in DOMAIN t.code /\ Behind(t, ql, i, src)
  BY <1>1 DEF Stage, Behind
<1>6. Linking(t, i, s, after, F) => ~ is_dead(t.code[i])
  BY DEF Linking, Same, is_dead
<1>7. ~ is_dead(t.code[i]) => Operands(t, i, s, F) /\ t.code[i][f] = s[f]
  <2>1. ~ is_dead(t.code[i]) => Operands(t, i, s, F)
    BY <1>4 DEF Written, Linking
  <2> QED
    BY <2>1 DEF Operands
<1>8. CASE ~ IsUse(t, i, f)
  <2>1. r = t
    BY <1>8 DEF Operand
  <2>2. CASE is_dead(t.code[i])
    <3>1. Written(t, i, s, after, F \cup {f})
      BY <1>4, <1>6, <2>2 DEF Written
    <3> QED
      BY <1>1, <1>2, <1>3, <2>1, <3>1 DEF Reached
  <2>3. CASE ~ is_dead(t.code[i])
    <3>1. is_physical(s[f]) \/ s[f] = none_reg
      BY <1>7, <1>8, <2>3 DEF IsUse
    <3>2. t.linked \notin {0, i} => /\ ~ is_physical(t.link) /\ t.link # none_reg
                                    /\ ~ is_physical(t.code[t.linked].rd)
                                    /\ t.code[t.linked].rd # none_reg
      <4> SUFFICES ASSUME t.linked \notin {0, i}
                   PROVE  /\ ~ is_physical(t.link) /\ t.link # none_reg
                          /\ ~ is_physical(t.code[t.linked].rd)
                          /\ t.code[t.linked].rd # none_reg
        OBVIOUS
      <4>1. ~ is_physical(t.link) /\ t.link # none_reg
        BY LinkedIs
      <4>2. ~ is_physical(t.code[t.linked].rd) /\ t.code[t.linked].rd # none_reg
        BY <1>5 DEF Behind, Waits, Copies
      <4> QED
        BY <4>1, <4>2
    <3>3. Operands(t, i, s, F \cup {f})
      BY <1>7, <2>3, <3>1, <3>2, OperandsPlain
    <3>4. Written(t, i, s, after, F \cup {f}) \/ Linking(t, i, s, after, F \cup {f})
      BY <1>4, <3>3 DEF Written, Linking
    <3> QED
      BY <1>1, <1>2, <1>3, <2>1, <3>4 DEF Reached
  <2> QED
    BY <2>2, <2>3
<1>9. CASE IsUse(t, i, f)
  <2>0. PICK w : w = t.code[i][f]
    OBVIOUS
  <2>1. ~ is_dead(t.code[i]) /\ ~ is_physical(w) /\ w # none_reg
    BY <1>9, <2>0 DEF IsUse
  <2>2. CASE t.linked \notin {0, i} /\ w \in {t.link, t.code[t.linked].rd}
    <3>1. PICK b : b = AllocateLinked(t)
      OBVIOUS
    <3>2. PICK k : k = t.linked
      OBVIOUS
    <3>3. PICK x : x = t.code[k].rd
      OBVIOUS
    <3>4. PICK qb : qb = Resolved(ql, t, b, i, src)
      OBVIOUS
    <3>5. PICK before : before = qb[i]
      OBVIOUS
    <3>6. k \notin {0, i} /\ Stage(a, pl, t, ql, i, src)
      BY <1>1, <2>2, <3>2
    <3>7. ResolvesStage(a, pl, t, b, ql, qb, i, src, k, x)
      BY <3>1, <3>2, <3>3, <3>4, <3>6, StageResolves
    <3>8. /\ Stage(a, pl, b, qb, i, src)
          /\ b.linked = 0 /\ ~ b.thrown
          /\ Changes(t.code, b.code, {k})
          /\ SubMap(before, after) /\ x \notin DOMAIN before
          /\ SubMap(b.map, t.map) /\ DOMAIN t.map \ {x} \subseteq DOMAIN b.map
      BY <1>3, <3>5, <3>7 DEF ResolvesStage
    <3>9. Written(t, i, s, after, F)
      BY <1>4, <2>2 DEF Linking
    <3>10. Written(b, i, s, before, F)
      BY <1>5, <3>2, <3>3, <3>6, <3>8, <3>9, WrittenResolved
    <3>11. Good(b, i, P)
      BY <3>1, AllocateLinkedGood
    <3>12. b.code[i] = t.code[i]
      BY <1>5, <3>6, <3>8 DEF Changes
    <3>13. r = Use(b, i, f)
      BY <1>9, <2>0, <2>2, <3>1, <3>8 DEF Operand
    <3>14. ~ is_dead(b.code[i]) /\ w = b.code[i][f]
      BY <2>0, <2>1, <3>12
    <3> QED
      BY <1>2, <2>1, <3>5, <3>8, <3>10, <3>11, <3>13, <3>14, UsePasses
  <2>3. CASE ~ (t.linked \notin {0, i} /\ w \in {t.link, t.code[t.linked].rd})
    <3>1. r = Use(t, i, f)
      BY <1>9, <2>0, <2>3 DEF Operand
    <3> QED
      BY <1>1, <1>2, <1>3, <1>4, <2>0, <2>1, <2>3, <3>1, UsePasses
  <2> QED
    BY <2>2, <2>3
<1> QED
  BY <1>8, <1>9

(* A copy onto itself is what the copy should do. *)
LEMMA KilledComputes ==
  ASSUME NEW m \in Maps, NEW after \in Maps, NEW s \in Instructions, NEW c \in Instructions,
         ~ is_dead(s), is_mv(s) => in_reg(s) = Copied(s),
         Same(s, c), Lands(after, s.rd, c.rd), InPlace(m, s.rs1, c.rs1), InPlace(m, s.rs2, c.rs2),
         is_mv(c), is_physical(c.rd), is_physical(in_reg(c)), c.rd \in {in_reg(c), ZERO}
  PROVE  Computes(s, kill(c), m, after)
<1>1. is_dead(kill(c))
  BY DEF kill, is_dead, Instructions
<1>2. /\ \A u \in DOMAIN m : m[u] \in 3 .. 31
      /\ \A u \in DOMAIN after : after[u] \in 3 .. 31
  BY MapsAre
<1>3. /\ is_physical(ZERO) /\ \A p \in 3 .. 31 : is_physical(p) /\ p # none_reg /\ p # ZERO
      /\ ~ is_physical(none_reg)
  BY DEF is_physical, none_reg, VIRTUAL_BASE, FUNCTIONAL_BASE, ZERO
<1>4. \A r, p : InPlace(m, r, p) => /\ p = ZERO <=> r = ZERO
                                    /\ p = none_reg <=> r = none_reg
  BY <1>2, <1>3 DEF InPlace
<1>5. is_mv(s)
  BY <1>4 DEF is_mv, Same
<1>6. InPlace(m, Copied(s), in_reg(c))
  <2>1. InPlace(m, in_reg(s), in_reg(c))
    BY <1>4 DEF in_reg
  <2> QED
    BY <1>5, <2>1
<1>7. in_reg(c) \in 0 .. 31
  BY DEF in_reg, Instructions, is_physical, FUNCTIONAL_BASE
<1>8. CASE ~ is_physical(s.rd) /\ s.rd # none_reg /\ s.rd \notin DOMAIN after
  BY <1>1, <1>8 DEF Computes, Unread
<1>9. CASE is_physical(s.rd) \/ s.rd \in DOMAIN after
  <2>1. InPlace(after, s.rd, c.rd)
    <3>1. s.rd # none_reg
      BY <1>3 DEF Lands
    <3> QED
      BY <1>9, <3>1 DEF Lands, InPlace
  <2>2. CASE c.rd = ZERO
    <3>1. s.rd = ZERO
      BY <1>2, <1>3, <2>1, <2>2 DEF InPlace
    <3> QED
      BY <1>1, <1>5, <1>6, <1>7, <3>1 DEF Computes
  <2>3. CASE c.rd = in_reg(c)
    BY <1>1, <1>5, <1>6, <1>7, <2>1, <2>3 DEF Computes
  <2> QED
    BY <2>2, <2>3
<1>10. CASE s.rd = none_reg
  BY <1>3, <1>10 DEF Lands
<1> QED
  BY <1>8, <1>9, <1>10

Both == {"rs1", "rs2"}

(* The instruction is done: it waits, or computes what it should. *)
Finished(r, i, s, after) ==
  \/ Linking(r, i, s, after, Both)
  \/ /\ r.linked # i
     /\ Keeps(s, r.map, after)
     /\ Computes(s, r.code[i], r.map, after)
     /\ r.linked # 0 => Avoids(s, r.code[i], after, r.link, r.code[r.linked].rd)

(* With both operands in place the instruction computes what it should. *)
LEMMA WrittenComputes ==
  ASSUME NEW t, NEW i, NEW s, NEW after, Written(t, i, s, after, Both)
  PROVE  /\ Computes(s, t.code[i], t.map, after)
         /\ t.linked # 0 => Avoids(s, t.code[i], after, t.link, t.code[t.linked].rd)
         /\ ~ is_dead(t.code[i]) /\ t.linked # 0 =>
              /\ s.rs1 \notin {t.link, t.code[t.linked].rd}
              /\ s.rs2 \notin {t.link, t.code[t.linked].rd}
<1>1. t.linked # i /\ (t.linked # 0 => s.rd \notin {t.link, t.code[t.linked].rd})
  BY DEF Written
<1>2. CASE is_dead(t.code[i])
  <2>1. Unread(s, after)
    BY <1>2 DEF Written
  <2> QED
    BY <1>1, <1>2, <2>1 DEF Computes, Avoids
<1>3. CASE ~ is_dead(t.code[i])
  <2>1. /\ Same(s, t.code[i])
        /\ Lands(after, s.rd, t.code[i].rd)
        /\ \A u \in DOMAIN after \ {s.rd} : after[u] # t.code[i].rd
        /\ Operands(t, i, s, Both)
    BY <1>3 DEF Written
  <2>2. \A f \in Both : /\ InPlace(t.map, s[f], t.code[i][f])
                        /\ t.linked \notin {0, i} => s[f] \notin {t.link, t.code[t.linked].rd}
    BY <2>1 DEF Operands, Both
  <2>3. "rs1" \in Both /\ "rs2" \in Both
    BY DEF Both
  <2>4. InPlace(t.map, s.rs1, t.code[i].rs1) /\ InPlace(t.map, s.rs2, t.code[i].rs2)
    BY <2>2, <2>3
  <2>5. t.linked # 0 => /\ s.rs1 \notin {t.link, t.code[t.linked].rd}
                        /\ s.rs2 \notin {t.link, t.code[t.linked].rd}
    BY <1>1, <2>2, <2>3
  <2> QED
    BY <1>1, <1>3, <2>1, <2>4, <2>5 DEF Computes, Avoids, Same
<1> QED
  BY <1>2, <1>3

LEMMA KillCopyIs ==
  ASSUME NEW t \in States, NEW i \in DOMAIN t.code, NEW r, r = KillCopy(t, i)
  PROVE  /\ r.map = t.map /\ r.linked = t.linked /\ r.link = t.link /\ r.thrown = t.thrown
         /\ Changes(t.code, r.code, {i})
         /\ \/ r.code[i] = t.code[i]
            \/ /\ r.code[i] = kill(t.code[i])
               /\ is_mv(t.code[i]) /\ is_physical(t.code[i].rd) /\ is_physical(in_reg(t.code[i]))
               /\ t.code[i].rd \in {in_reg(t.code[i]), ZERO}
<1> DEFINE c == t.code[i]
           cc == [t.code EXCEPT ![i] = kill(c)]
<1>1. t.code \in Seq(Instructions) /\ c \in Instructions
  BY CodeIs
<1>2. kill(c) \in Instructions
  BY <1>1, InstructionUpdate
<1>3. cc[i] = kill(c) /\ Changes(t.code, cc, {i})
  BY <1>1, <1>2, CodeUpdate
<1>4. CASE r = t
  BY <1>4 DEF Changes
<1>5. CASE r # t
  <2>1. r = [t EXCEPT !.code = cc] /\ is_mv(c) /\ is_physical(c.rd) /\ is_physical(in_reg(c)) /\ c.rd \in {in_reg(c), ZERO}
    BY <1>5 DEF KillCopy
  <2> HIDE DEF cc
  <2>2. r.code = cc /\ r.map = t.map /\ r.linked = t.linked /\ r.link = t.link /\ r.thrown = t.thrown
    BY <2>1 DEF States
  <2> QED
    BY <1>3, <2>1, <2>2
<1> QED
  BY <1>4, <1>5

(* A copy onto itself is killed. *)
LEMMA KillFinishes ==
  ASSUME NEW P \in SUBSET Given, NEW i \in Nat, i # 0,
         NEW src \in Seq(Instructions), Orderly(src), i \in DOMAIN src, NEW s, s = src[i],
         NEW a, NEW pl, a.linked # i, a.linked \in DOMAIN src \cup {0},
         NEW t, NEW ql, Stage(a, pl, t, ql, i, src), Good(t, i, P),
         NEW after, after = ql[i],
         Written(t, i, s, after, Both) \/ Linking(t, i, s, after, Both),
         NEW r, r = KillCopy(t, i)
  PROVE  Stage(a, pl, r, ql, i, src) /\ Finished(r, i, s, after)
<1>0. /\ t \in States /\ i \in DOMAIN t.code /\ t.map \in Maps /\ after \in Maps
      /\ t.code[i] \in Instructions
  <2>1. t \in States /\ i \in DOMAIN t.code /\ ql \in Histories(src)
    BY DEF Good, Stage, Behind
  <2>2. t.map \in Maps /\ t.code[i] \in Instructions
    BY <2>1, CodeIs
  <2>3. after \in Maps
    BY <2>1 DEF Histories
  <2> QED
    BY <2>1, <2>2, <2>3
<1>1. /\ r.map = t.map /\ r.linked = t.linked /\ r.link = t.link
      /\ Changes(t.code, r.code, {i})
      /\ \/ r.code[i] = t.code[i]
         \/ /\ r.code[i] = kill(t.code[i])
            /\ is_mv(t.code[i]) /\ is_physical(t.code[i].rd) /\ is_physical(in_reg(t.code[i]))
            /\ t.code[i].rd \in {in_reg(t.code[i]), ZERO}
  BY <1>0, KillCopyIs
<1>2. Stage(a, pl, r, ql, i, src)
  <2>1. \A u : Agree(t.map, r.map, u)
    BY <1>1 DEF Agree
  <2>2. t.linked \notin {0, i} =>
           /\ r.link = t.link
           /\ Agree(t.map, r.map, t.link) /\ Agree(t.map, r.map, t.code[t.linked].rd)
    BY <1>1, <2>1
  <2> QED
    BY <1>1, <2>2, StageStays
<1>3. CASE Linking(t, i, s, after, Both)
  <2>1. ~ is_physical(t.code[i].rd)
    BY <1>3 DEF Linking, Ready
  <2>2. r.code[i] = t.code[i]
    BY <1>1, <2>1
  <2>3. Operands(r, i, s, Both)
    <3>1. Operands(t, i, s, Both) /\ t.linked = i
      BY <1>3 DEF Linking
    <3> QED
      BY <1>1, <2>2, <3>1 DEF Operands
  <2>4. Linking(r, i, s, after, Both)
    BY <1>1, <1>3, <2>2, <2>3 DEF Linking
  <2> QED
    BY <1>2, <2>4 DEF Finished
<1>4. CASE Written(t, i, s, after, Both)
  <2>1. /\ Computes(s, t.code[i], t.map, after)
        /\ t.linked # 0 => Avoids(s, t.code[i], after, t.link, t.code[t.linked].rd)
        /\ ~ is_dead(t.code[i]) /\ t.linked # 0 =>
             /\ s.rs1 \notin {t.link, t.code[t.linked].rd}
             /\ s.rs2 \notin {t.link, t.code[t.linked].rd}
    BY <1>4, WrittenComputes
  <2>2. Keeps(s, t.map, after) /\ t.linked # i
    BY <1>4 DEF Written
  <2>3. t.linked # 0 => r.code[r.linked] = t.code[t.linked]
    <3>1. t.linked # 0 => t.linked \in DOMAIN t.code
      BY DEF Good, LinkedFrom
    <3> QED
      BY <1>1, <2>2, <3>1 DEF Changes
  <2>4. CASE r.code[i] = t.code[i]
    BY <1>1, <1>2, <2>1, <2>2, <2>3, <2>4 DEF Finished
  <2>5. CASE r.code[i] # t.code[i]
    <3>0. PICK c : c = t.code[i]
      OBVIOUS
    <3>1. r.code[i] = kill(c) /\ is_mv(c) /\ is_physical(c.rd) /\ is_physical(in_reg(c)) /\ c.rd \in {in_reg(c), ZERO}
      BY <1>1, <2>5, <3>0
    <3>2. ~ is_dead(c) /\ is_dead(kill(c)) /\ c \in Instructions
      <4>1. c \in Instructions
        BY <1>0, <3>0
      <4> QED
        BY <3>1, <4>1 DEF is_dead, kill, is_mv, Instructions
    <3>3. /\ Same(s, c) /\ Lands(after, s.rd, c.rd)
          /\ InPlace(t.map, s.rs1, c.rs1) /\ InPlace(t.map, s.rs2, c.rs2)
      BY <2>1, <3>0, <3>2 DEF Computes, Same
    <3>4. s \in Instructions /\ ~ is_dead(s) /\ (is_mv(s) => in_reg(s) = Copied(s))
      BY OrderlyIs
    <3>5. Computes(s, kill(c), t.map, after)
      BY <1>0, <3>1, <3>2, <3>3, <3>4, KilledComputes
    <3>6. r.linked # 0 => Avoids(s, r.code[i], after, r.link, r.code[r.linked].rd)
      BY <1>1, <2>1, <2>3, <3>0, <3>2 DEF Avoids
    <3> QED
      BY <1>1, <1>2, <2>2, <3>1, <3>5, <3>6 DEF Finished
  <2> QED
    BY <2>4, <2>5
<1> QED
  BY <1>3, <1>4

(* Control flow ends the wait of a copy. *)
Entered(a, pl, b, qb, i, src, P) ==
  /\ Stage(a, pl, b, qb, i, src) /\ Good(b, i, P) /\ ~ b.thrown /\ b.linked # i
  /\ b.linked # 0 => b = a /\ qb = pl
  /\ SubMap(qb[i], b.map)
  /\ b.code[i] = src[i]
  /\ Free(src[i], b.linked)

(* The step begins. *)
LEMMA EnterPasses ==
  ASSUME NEW P \in SUBSET Given, NEW i \in Nat, i # 0, NEW a, Good(a, i, P), ~ a.thrown,
         a.linked # i, NEW src \in Seq(Instructions), i \in DOMAIN src,
         NEW pl, Passed(a, pl, i, src), SubMap(pl[i], a.map), a.code[i] = src[i],
         Free(src[i], a.linked), NEW b, b = IF is_control_flow(a.code[i]) THEN AllocateLinked(a) ELSE a
  PROVE  \E qb : Entered(a, pl, b, qb, i, src, P)
<1>1. Stage(a, pl, a, pl, i, src)
  BY DEF Stage, Passed, Behind
<1>2. CASE b = a
  BY <1>1, <1>2 DEF Entered
<1>3. CASE b # a
  <2>1. b = AllocateLinked(a) /\ a.linked # 0
    BY <1>3 DEF AllocateLinked
  <2> DEFINE k == a.linked
             x == a.code[k].rd
             qb == Resolved(pl, a, b, i, src)
  <2>2. ResolvesStage(a, pl, a, b, pl, qb, i, src, k, x)
    <3>1. k \notin {0, i}
      BY <2>1
    <3> QED
      BY <1>1, <2>1, <3>1, StageResolves
  <2>3. Good(AllocateLinked(a), i, P)
    BY AllocateLinkedGood
  <2>4. Good(b, i, P)
    BY <2>1, <2>3
  <2> HIDE DEF qb, x, k
  <2>5. /\ Stage(a, pl, b, qb, i, src) /\ b.linked = 0 /\ ~ b.thrown
        /\ Changes(a.code, b.code, {k})
        /\ SubMap(qb[i], pl[i]) /\ x \notin DOMAIN qb[i]
        /\ SubMap(b.map, a.map) /\ DOMAIN a.map \ {x} \subseteq DOMAIN b.map
    BY <2>2 DEF ResolvesStage
  <2>6. SubMap(qb[i], b.map)
    BY <2>5 DEF SubMap
  <2>7. b.code[i] = src[i]
    <3>1. i \in DOMAIN a.code /\ i # k
      BY DEF Passed, k
    <3> QED
      BY <2>5, <3>1 DEF Changes
  <2> QED
    BY <2>4, <2>5, <2>6, <2>7 DEF Entered, Free
<1> QED
  BY <1>2, <1>3

LEMMA ThrownOn ==
  ASSUME NEW a, NEW i
  PROVE  /\ \A f \in {"rs1", "rs2"} : a.thrown => Operand(a, i, f).thrown
         /\ a.thrown => KillCopy(a, i).thrown
<1>1. ASSUME NEW f \in {"rs1", "rs2"}, a.thrown
      PROVE  Operand(a, i, f).thrown
  BY <1>1 DEF Operand, IsUse
<1>2. ASSUME a.thrown PROVE KillCopy(a, i).thrown
  BY <1>2 DEF KillCopy
<1> QED
  BY <1>1, <1>2

(* An operand, with the registers kept apart. *)
LEMMA ReachedGood ==
  ASSUME NEW P \in SUBSET Given, NEW i \in Nat, i # 0, NEW src \in Seq(Instructions), i \in DOMAIN src,
         NEW a, NEW pl, a.linked # i, a.linked \in DOMAIN src \cup {0},
         NEW t, Good(t, i, P), i \in DOMAIN t.code, ~ t.thrown, NEW F \in SUBSET {"rs1", "rs2"},
         Reached(a, pl, t, i, src, F), NEW f \in {"rs1", "rs2"} \ F,
         NEW r, r = Operand(t, i, f), ~ r.thrown
  PROVE  Reached(a, pl, r, i, src, F \cup {f}) /\ Good(r, i, P) /\ i \in DOMAIN r.code
<1>1. Good(Operand(t, i, f), i, P) /\ Changes(t.code, Operand(t, i, f).code, Beyond(i))
  BY OperandGood
<1>2. i \in DOMAIN r.code
  BY <1>1 DEF Changes
<1>3. Reached(a, pl, r, i, src, F \cup {f})
  BY OperandPasses
<1> QED
  BY <1>1, <1>2, <1>3

(* One instruction of the scan. *)
LEMMA StepPasses ==
  ASSUME NEW P \in SUBSET Given, NEW i \in Nat, i # 0, NEW a, Good(a, i + 1, P), ~ a.thrown,
         NEW src \in Seq(Instructions), Orderly(src), i \in DOMAIN src,
         NEW pl, Passed(a, pl, i, src), SubMap(pl[i], a.map), a.code[i] = src[i],
         P \cap Returned(src[i]) = {}, Free(src[i], a.linked),
         NEW r, r = allocate_instruction(a, i), ~ r.thrown
  PROVE  \E ql : Stage(a, pl, r, ql, i, src) /\ Finished(r, i, src[i], ql[i])
<1> DEFINE b == IF is_control_flow(a.code[i]) THEN AllocateLinked(a) ELSE a
           c == Destination(b, i)
           d == Operand(c, i, "rs1")
           e == Operand(d, i, "rs2")
<1>1. Good(a, i, P) /\ a.linked # i /\ a.linked \in DOMAIN src \cup {0}
  BY DEF Good, LinkedFrom, States, Passed
<1>2. r = KillCopy(e, i)
  BY DEF allocate_instruction
<1>3. ~ e.thrown /\ ~ d.thrown
  <2> HIDE DEF c
  <2>1. d.thrown => e.thrown
    <3> HIDE DEF d
    <3> QED
      BY ThrownOn
  <2> HIDE DEF d, e
  <2>2. e.thrown => r.thrown
    BY <1>2, ThrownOn
  <2> QED
    BY <2>1, <2>2
<1>4. PICK qb : Entered(a, pl, b, qb, i, src, P)
  <2> HIDE DEF b
  <2>1. b = IF is_control_flow(a.code[i]) THEN AllocateLinked(a) ELSE a
    BY DEF b
  <2> QED
    BY <1>1, <2>1, EnterPasses
<1> HIDE DEF b
<1>5. /\ Stage(a, pl, b, qb, i, src) /\ Good(b, i, P) /\ ~ b.thrown /\ b.linked # i
      /\ b.linked # 0 => b = a /\ qb = pl
      /\ SubMap(qb[i], b.map)
      /\ b.code[i] = src[i] /\ Free(src[i], b.linked)
  BY <1>4 DEF Entered
<1>6. Reached(a, pl, c, i, src, {}) /\ ~ c.thrown
  <2> HIDE DEF c
  <2>1. c = Destination(b, i)
    BY DEF c
  <2> QED
    BY <1>1, <1>5, <2>1, DestinationPasses
<1>7. i \in DOMAIN b.code
  BY <1>5 DEF Stage, Behind
<1>8. /\ \E Q \in SUBSET (P \cup Returned(b.code[i])) : Good(c, i, Q)
      /\ Changes(b.code, c.code, Beyond(i))
  BY <1>5, <1>7, DestinationGood
<1> HIDE DEF c
<1>9. PICK Q \in SUBSET (P \cup Returned(b.code[i])) : Good(c, i, Q)
  BY <1>8
<1>10. Q \in SUBSET Given
  BY DEF Returned, Given
<1>11. i \in DOMAIN c.code
  BY <1>7, <1>8 DEF Changes
<1>12. Reached(a, pl, d, i, src, {"rs1"}) /\ Good(d, i, Q) /\ i \in DOMAIN d.code
  <2>1. d = Operand(c, i, "rs1")
    BY DEF d
  <2> HIDE DEF d
  <2>2. Reached(a, pl, d, i, src, {} \cup {"rs1"}) /\ Good(d, i, Q) /\ i \in DOMAIN d.code
    BY <1>1, <1>3, <1>6, <1>9, <1>10, <1>11, <2>1, ReachedGood
  <2>3. {} \cup {"rs1"} = {"rs1"}
    OBVIOUS
  <2> QED
    BY <2>2, <2>3
<1> HIDE DEF d
<1>13. Reached(a, pl, e, i, src, Both) /\ Good(e, i, Q)
  <2>1. e = Operand(d, i, "rs2")
    BY DEF e
  <2> HIDE DEF e
  <2>2. "rs2" \in {"rs1", "rs2"} \ {"rs1"}
    OBVIOUS
  <2>3. Reached(a, pl, e, i, src, {"rs1"} \cup {"rs2"}) /\ Good(e, i, Q)
    BY <1>1, <1>3, <1>10, <1>12, <2>1, <2>2, ReachedGood
  <2>4. {"rs1"} \cup {"rs2"} = Both
    BY DEF Both
  <2> QED
    BY <2>3, <2>4
<1> HIDE DEF e
<1>14. PICK ql : /\ Stage(a, pl, e, ql, i, src)
                 /\ \/ Written(e, i, src[i], ql[i], Both)
                    \/ Linking(e, i, src[i], ql[i], Both)
  BY <1>13 DEF Reached
<1>15. Stage(a, pl, r, ql, i, src) /\ Finished(r, i, src[i], ql[i])
  BY <1>1, <1>2, <1>10, <1>13, <1>14, KillFinishes
<1> QED
  BY <1>15

(* What waits once the copy has been linked. *)
LEMMA LinkedWaits ==
  ASSUME NEW P \in SUBSET Given, NEW i \in Nat, i # 0, NEW r, Good(r, i, P),
         NEW src \in Seq(Instructions), Orderly(src), i \in DOMAIN src, NEW s, s = src[i],
         NEW after, Linking(r, i, s, after, Both),
         NEW nl, nl[i] = after, nl[i - 1] = r.map
  PROVE  Waits(r, nl, i - 1, src)
<1>1. PICK c : c = r.code[i]
  OBVIOUS
<1>2. PICK m : m = r.map
  OBVIOUS
<1>3. PICK v : v = r.link
  OBVIOUS
<1>4. PICK x : x = c.rd
  OBVIOUS
<1>5. /\ r.linked = i /\ Ready(m, after, s, x)
      /\ is_mv(s) /\ s.type \in {"RdRs1Imm", "RdRs1Rs2"}
      /\ Copied(s) = v /\ is_virtual(v) /\ v # s.rd
      /\ v \notin DOMAIN after
      /\ s.rd \in DOMAIN after => x # v
      /\ ~ is_physical(s.rd) /\ s.rd # none_reg
      /\ Same(s, c) /\ Operands(r, i, s, Both)
  BY <1>1, <1>2, <1>3, <1>4 DEF Linking
<1>6. InPlace(m, s.rs1, c.rs1) /\ InPlace(m, s.rs2, c.rs2)
  <2>1. \A f \in {"rs1", "rs2"} : InPlace(r.map, s[f], r.code[i][f])
    BY <1>5 DEF Operands, Both
  <2> QED
    BY <1>1, <1>2, <2>1
<1>7. s \in Instructions /\ in_reg(s) = v /\ (s.type = "RdRs1Imm" => s.rs2 = none_reg)
  BY <1>5, OrderlyIs
<1>8. ~ is_physical(v) /\ v # none_reg
  <2>1. v \in Nat
    BY <1>5, <1>7, CopiedIs DEF Instructions
  <2> QED
    BY <1>5, <2>1 DEF is_virtual, is_physical, VIRTUAL_BASE, FUNCTIONAL_BASE, none_reg
<1>9. v \in DOMAIN m
  <2>1. v = s.rs1 \/ v = s.rs2
    BY <1>5, CopiedIs
  <2> QED
    BY <1>6, <1>8, <2>1 DEF InPlace
<1>10. /\ s.rs1 = v \/ is_physical(s.rs1) \/ s.rs1 = none_reg
       /\ s.rs2 = v \/ is_physical(s.rs2) \/ s.rs2 = none_reg
  <2>1. CASE s.type = "RdRs1Imm"
    BY <1>5, <1>7, <2>1 DEF Copied
  <2>2. CASE s.type = "RdRs1Rs2"
    <3>1. is_physical(ZERO)
      BY DEF is_physical, ZERO, FUNCTIONAL_BASE
    <3>2. s.rs1 = ZERO \/ s.rs2 = ZERO
      BY <1>5, <2>2 DEF is_mv
    <3> QED
      BY <1>7, <3>1, <3>2 DEF in_reg
  <2> QED
    BY <1>5, <2>1, <2>2
<1>11. /\ ~ is_physical(x) /\ x # none_reg
       /\ x \notin DOMAIN after \ {s.rd}
       /\ \A u \in DOMAIN after \ {s.rd} : u \in DOMAIN m /\ m[u] = after[u]
       /\ s.rd \in DOMAIN after => x \in DOMAIN m /\ m[x] = after[s.rd]
  BY <1>5 DEF Ready
<1>12. Copies(s, c, v, m)
  BY <1>4, <1>5, <1>6, <1>10, <1>11 DEF Copies, Same
<1>13. Target(s, x, v, m, after)
  <2>1. \A u, w \in DOMAIN m : u # w => m[u] # m[w]
    BY <1>2 DEF Good, Distinct
  <2>2. ASSUME x \in DOMAIN m, NEW u \in DOMAIN after \ {s.rd}
        PROVE  after[u] # m[x]
    BY <1>11, <2>1, <2>2
  <2> QED
    BY <1>5, <1>11, <2>2 DEF Target
<1>14. \A q \in i - 1 .. i - 1 : nl[q] = m
  BY <1>2
<1>15. Untouched(src, r.code, nl, i - 1, i, v, x)
  <2>1. (i - 1) + 1 .. i - 1 = {}
    OBVIOUS
  <2> QED
    BY <2>1 DEF Untouched
<1>16. /\ i > i - 1 /\ v \in DOMAIN m
       /\ \A q \in i - 1 .. i - 1 :
            /\ v \in DOMAIN nl[q] /\ nl[q][v] = m[v]
            /\ s.rd \in DOMAIN nl[i] => x \in DOMAIN nl[q] /\ nl[q][x] = m[x]
  BY <1>9, <1>11, <1>14
<1>17. r.linked = i
  BY <1>5
<1> QED
  BY <1>1, <1>2, <1>3, <1>4, <1>12, <1>13, <1>15, <1>16, <1>17 DEF Waits

(* What waits on. *)
LEMMA WaitsOn ==
  ASSUME NEW i \in Nat, i # 0, NEW src \in Seq(Instructions), i \in DOMAIN src,
         NEW r, NEW ql, Waits(r, ql, i, src),
         Avoids(src[i], r.code[i], ql[i], r.link, r.code[r.linked].rd),
         NEW nl, nl[i - 1] = r.map, \A q \in 0 .. Len(src) : q # i - 1 => nl[q] = ql[q]
  PROVE  Waits(r, nl, i - 1, src)
<1>1. PICK k : k = r.linked
  OBVIOUS
<1>2. PICK v : v = r.link
  OBVIOUS
<1>3. PICK x : x = r.code[k].rd
  OBVIOUS
<1>4. /\ k \in DOMAIN src /\ k > i /\ k \in 1 .. Len(src)
      /\ v \in DOMAIN r.map
      /\ Copies(src[k], r.code[k], v, r.map)
      /\ Target(src[k], x, v, r.map, ql[k])
      /\ \A q \in i .. k - 1 :
           /\ v \in DOMAIN ql[q] /\ ql[q][v] = r.map[v]
           /\ src[k].rd \in DOMAIN ql[k] => x \in DOMAIN ql[q] /\ ql[q][x] = r.map[x]
      /\ Untouched(src, r.code, ql, i, k, v, x)
  BY <1>1, <1>2, <1>3 DEF Waits
<1>5. \A q \in i .. k : nl[q] = ql[q]
  BY <1>4
<1>6. nl[k] = ql[k] /\ nl[i] = ql[i]
  BY <1>4, <1>5
<1>7. src[k].rd \in DOMAIN ql[k] => x \in DOMAIN r.map
  BY <1>4 DEF Target
<1>8. \A q \in i - 1 .. k - 1 :
        /\ v \in DOMAIN nl[q] /\ nl[q][v] = r.map[v]
        /\ src[k].rd \in DOMAIN nl[k] => x \in DOMAIN nl[q] /\ nl[q][x] = r.map[x]
  <2> TAKE q \in i - 1 .. k - 1
  <2>1. CASE q = i - 1
    BY <1>4, <1>6, <1>7, <2>1
  <2>2. CASE q \in i .. k - 1
    BY <1>4, <1>5, <1>6, <2>2
  <2> QED
    BY <1>4, <2>1, <2>2
<1>9. Untouched(src, r.code, nl, i - 1, k, v, x)
  <2> SUFFICES ASSUME NEW j \in (i - 1) + 1 .. k - 1
               PROVE  Avoids(src[j], r.code[j], nl[j], v, x)
    BY DEF Untouched
  <2>1. CASE j = i
    BY <1>1, <1>2, <1>3, <1>6, <2>1
  <2>2. CASE j \in i + 1 .. k - 1
    BY <1>4, <1>5, <2>2 DEF Untouched
  <2> QED
    BY <1>4, <2>1, <2>2
<1>10. k > i - 1
  BY <1>4
<1> QED
  BY <1>1, <1>2, <1>3, <1>4, <1>6, <1>8, <1>9, <1>10 DEF Waits

(* No value is in a return register before the instruction that sets it. *)
LEMMA NoneHeld ==
  ASSUME NEW Q \in SUBSET Given, NEW i \in Nat, i # 0, NEW r, Good(r, i, Q),
         NEW src \in Seq(Instructions), SetOnce(src, Len(src)), PoolSet(Q, i - 1, src)
  PROVE  \A v \in DOMAIN r.map : ~ Held(src, i - 1, r.map[v])
<1> SUFFICES ASSUME NEW v \in DOMAIN r.map, Held(src, i - 1, r.map[v]) PROVE FALSE
  OBVIOUS
<1>1. PICK p : p = r.map[v]
  OBVIOUS
<1>2. p \in {A0, A1} /\ \E j \in 1 .. i - 1 : Sets(src[j], p)
  BY <1>1 DEF Held
<1>3. p \in Q
  <2>1. CASE v \in Mapped
    <3>1. p \in 16 .. 23
      BY <1>1, <2>1, GivenAre DEF Good, Pooled
    <3> QED
      BY <1>2, <3>1 DEF A0, A1
  <2>2. CASE v \notin Mapped
    BY <1>1, <2>2 DEF Good, Pooled
  <2> QED
    BY <2>1, <2>2
<1>4. PICK j \in 1 .. i - 1 : Sets(src[j], p)
  BY <1>2
<1>5. PICK k \in (i - 1) + 1 .. Len(src) : Sets(src[k], p)
  BY <1>2, <1>3 DEF PoolSet
<1>6. j # k /\ j \in 1 .. Len(src) /\ k \in 1 .. Len(src)
  OBVIOUS
<1> QED
  BY <1>2, <1>4, <1>5, <1>6 DEF SetOnce

(* The history with the places before instruction i. *)
Onward(ql, r, i, src) == [q \in 0 .. Len(src) |-> IF q = i - 1 THEN r.map ELSE ql[q]]

(* What the step leaves is what the next one finds. *)
LEMMA Advances ==
  ASSUME NEW Q \in SUBSET Given, NEW i \in Nat, i # 0, NEW r, Good(r, i, Q),
         NEW src \in Seq(Instructions), Orderly(src), i \in DOMAIN src,
         SetOnce(src, Len(src)), PoolSet(Q, i - 1, src),
         NEW ql, Behind(r, ql, i, src), Finished(r, i, src[i], ql[i]),
         NEW nl, nl = Onward(ql, r, i, src)
  PROVE  Passed(r, nl, i - 1, src) /\ SubMap(nl[i - 1], r.map)
<1>1. /\ ql \in Histories(src) /\ DOMAIN r.code = DOMAIN src
      /\ Follow(src, r.code, ql, i, r.linked)
      /\ r.linked \notin {0, i} => Waits(r, ql, i, src)
  BY DEF Behind
<1>2. i \in 1 .. Len(src) /\ i - 1 \in 0 .. Len(src)
  OBVIOUS
<1>3. r.map \in Maps
  BY DEF Good, States
<1>4. nl \in Histories(src)
  BY <1>1, <1>3 DEF Histories, Onward
<1>5. nl[i - 1] = r.map /\ \A q \in 0 .. Len(src) : q # i - 1 => nl[q] = ql[q]
  BY <1>2 DEF Onward
<1>6. nl[i] = ql[i]
  BY <1>2, <1>5
<1>7. Keeps(src[i], r.map, ql[i])
  <2>1. CASE Linking(r, i, src[i], ql[i], Both)
    BY <2>1 DEF Linking, Ready, Keeps, Overwrites
  <2>2. CASE ~ Linking(r, i, src[i], ql[i], Both)
    BY <2>2 DEF Finished
  <2> QED
    BY <2>1, <2>2
<1>8. \A j \in (i - 1) + 1 .. Len(src) : Keeps(src[j], nl[j - 1], nl[j])
  <2> TAKE j \in (i - 1) + 1 .. Len(src)
  <2>1. CASE j = i
    BY <1>5, <1>6, <1>7, <2>1
  <2>2. CASE j \in i + 1 .. Len(src)
    <3>1. nl[j] = ql[j] /\ nl[j - 1] = ql[j - 1]
      BY <1>5, <2>2
    <3> QED
      BY <1>1, <2>2, <3>1 DEF Follow
  <2> QED
    BY <2>1, <2>2
<1>9. \A j \in (i - 1) + 1 .. Len(src) :
         j # r.linked => Computes(src[j], r.code[j], nl[j - 1], nl[j])
  <2> TAKE j \in (i - 1) + 1 .. Len(src)
  <2> SUFFICES ASSUME j # r.linked PROVE Computes(src[j], r.code[j], nl[j - 1], nl[j])
    OBVIOUS
  <2>1. CASE j = i
    <3>1. Computes(src[i], r.code[i], r.map, ql[i])
      BY <2>1 DEF Finished, Linking
    <3> QED
      BY <1>5, <1>6, <2>1, <3>1
  <2>2. CASE j \in i + 1 .. Len(src)
    <3>1. nl[j] = ql[j] /\ nl[j - 1] = ql[j - 1]
      BY <1>5, <2>2
    <3> QED
      BY <1>1, <2>2, <3>1 DEF Follow
  <2> QED
    BY <2>1, <2>2
<1>10. \A q \in i - 1 .. Len(src) : \A v \in DOMAIN nl[q] : ~ Held(src, q, nl[q][v])
  <2> TAKE q \in i - 1 .. Len(src)
  <2>1. CASE q = i - 1
    BY <1>5, <2>1, NoneHeld
  <2>2. CASE q \in i .. Len(src)
    <3>1. nl[q] = ql[q]
      BY <1>5, <2>2
    <3> QED
      BY <1>1, <2>2, <3>1 DEF Follow
  <2>3. q = i - 1 \/ q \in i .. Len(src)
    OBVIOUS
  <2> QED
    BY <2>1, <2>2, <2>3
<1>11. Follow(src, r.code, nl, i - 1, r.linked)
  BY <1>8, <1>9, <1>10 DEF Follow
<1>12. r.linked # 0 => Waits(r, nl, i - 1, src)
  <2>1. CASE Linking(r, i, src[i], ql[i], Both)
    BY <1>5, <1>6, <2>1, LinkedWaits
  <2>2. CASE r.linked # 0 /\ ~ Linking(r, i, src[i], ql[i], Both)
    <3>1. r.linked # i /\ Avoids(src[i], r.code[i], ql[i], r.link, r.code[r.linked].rd)
      BY <2>2 DEF Finished
    <3>2. Waits(r, ql, i, src)
      BY <1>1, <2>2, <3>1
    <3> QED
      BY <1>5, <3>1, <3>2, WaitsOn
  <2> QED
    BY <2>1, <2>2
<1>13. SubMap(nl[i - 1], r.map)
  BY <1>5 DEF SubMap
<1> QED
  BY <1>1, <1>4, <1>11, <1>12, <1>13 DEF Passed

(* The history as the step writes it. *)
Advanced(pl, a, r, i, src) ==
  [q \in DOMAIN pl |->
     IF q = i - 1 THEN r.map
     ELSE IF a.linked \notin {0, r.linked} /\ q \in i .. a.linked - 1
          THEN Settled(pl[q], a, r, src[a.linked], pl[a.linked])
          ELSE pl[q]]

(* The history that the step writes is the one the stages lead to. *)
LEMMA RememberedIs ==
  ASSUME NEW i \in Nat, NEW src \in Seq(Instructions), NEW a, NEW pl \in Histories(src), NEW r,
         NEW ql, Stage(a, pl, r, ql, i, src)
  PROVE  Advanced(pl, a, r, i, src)
         = Onward(ql, r, i, src)
<1>1. DOMAIN pl = 0 .. Len(src)
  BY DEF Histories
<1>2. ASSUME NEW q \in 0 .. Len(src)
      PROVE  ql[q] = IF a.linked \notin {0, r.linked} /\ q \in i .. a.linked - 1
                     THEN Settled(pl[q], a, r, src[a.linked], pl[a.linked])
                     ELSE pl[q]
  <2>1. CASE a.linked \notin {0, r.linked}
    <3>1. ql = Resolved(pl, a, r, i, src)
      BY <2>1 DEF Stage
    <3> QED
      BY <1>1, <2>1, <3>1 DEF Resolved
  <2>2. CASE a.linked \in {0, r.linked}
    BY <2>2 DEF Stage
  <2> QED
    BY <2>1, <2>2
<1> QED
  BY <1>1, <1>2 DEF Advanced, Onward

(* A return register is not in the pool at the instruction that sets it. *)
LEMMA PoolGrows ==
  ASSUME NEW P \in SUBSET Given, NEW i \in Nat, i # 0, NEW src \in Seq(Instructions), i \in DOMAIN src,
         SetOnce(src, Len(src)), PoolSet(P, i, src)
  PROVE  /\ P \cap Returned(src[i]) = {}
         /\ \A Q \in SUBSET (P \cup Returned(src[i])) : Q \in SUBSET Given /\ PoolSet(Q, i - 1, src)
<1>1. i \in 1 .. Len(src)
  OBVIOUS
<1>2. ASSUME NEW p \in P \cap Returned(src[i]) PROVE FALSE
  <2>1. p \in {A0, A1} /\ Sets(src[i], p)
    BY <1>2 DEF Returned
  <2>2. PICK j \in i + 1 .. Len(src) : Sets(src[j], p)
    BY <2>1 DEF PoolSet
  <2>3. j \in 1 .. Len(src) /\ j # i
    OBVIOUS
  <2> QED
    BY <1>1, <2>1, <2>2, <2>3 DEF SetOnce
<1>3. ASSUME NEW Q \in SUBSET (P \cup Returned(src[i]))
      PROVE  Q \in SUBSET Given /\ PoolSet(Q, i - 1, src)
  <2>1. Q \in SUBSET Given
    BY DEF Returned, Given
  <2>2. ASSUME NEW p \in Q \cap {A0, A1}
        PROVE  \E j \in (i - 1) + 1 .. Len(src) : Sets(src[j], p)
    <3>1. CASE p \in P
      <4>1. PICK j \in i + 1 .. Len(src) : Sets(src[j], p)
        BY <3>1 DEF PoolSet
      <4>2. j \in (i - 1) + 1 .. Len(src)
        OBVIOUS
      <4> QED
        BY <4>1, <4>2
    <3>2. CASE p \in Returned(src[i])
      <4>1. Sets(src[i], p) /\ i \in (i - 1) + 1 .. Len(src)
        BY <1>1, <3>2 DEF Returned
      <4> QED
        BY <4>1
    <3> QED
      BY <3>1, <3>2
  <2> QED
    BY <2>1, <2>2 DEF PoolSet
<1> QED
  BY <1>2, <1>3

-----------------------------------------------------------------------------
(***************************************************************************)
(* Jumps.                                                                  *)
(***************************************************************************)

(* No copy waits across control flow, and guest registers that have a register
   all the time are in it there. *)
Branching(a, pl, n, src) ==
  /\ a.linked # 0 => \A j \in n + 1 .. a.linked : ~ is_control_flow(src[j])
  /\ \A q \in n .. Len(src) : \A f \in Mapped \cap DOMAIN pl[q] : pl[q][f] = Home(f)
  /\ \A j \in n + 1 .. Len(src) : is_control_flow(src[j]) => Mapped \subseteq DOMAIN pl[j - 1]

(* Mapped registers are settled nowhere else. *)
LEMMA SettledHome ==
  ASSUME NEW m, NEW a, NEW b, NEW s, NEW after, is_virtual(a.link),
         NEW f \in Mapped, f \in DOMAIN Settled(m, a, b, s, after)
  PROVE  f \in DOMAIN m /\ Settled(m, a, b, s, after)[f] = m[f]
<1>1. f # a.link
  BY GivenAre
<1>2. PICK x : x = a.code[a.linked].rd
  OBVIOUS
<1>3. PICK rest : rest = Erase(m, x)
  OBVIOUS
<1>4. f \in DOMAIN rest => f \in DOMAIN m /\ rest[f] = m[f]
  BY <1>3 DEF Erase
<1>5. CASE is_physical(b.code[a.linked].rd)
  BY <1>2, <1>3, <1>4, <1>5 DEF Settled
<1>6. CASE ~ is_physical(b.code[a.linked].rd) /\ s.rd \in DOMAIN after
  <2>1. Settled(m, a, b, s, after) = Extended(rest, a.link, a.map[x])
    BY <1>2, <1>3, <1>6 DEF Settled
  <2> QED
    BY <1>1, <1>4, <2>1 DEF Extended
<1>7. CASE ~ is_physical(b.code[a.linked].rd) /\ s.rd \notin DOMAIN after
  <2>1. Settled(m, a, b, s, after) = Erase(rest, a.link)
    BY <1>2, <1>3, <1>7 DEF Settled
  <2> QED
    BY <1>1, <1>4, <2>1 DEF Erase
<1> QED
  BY <1>5, <1>6, <1>7

(* A step keeps what holds at jumps. *)
LEMMA BranchingOn ==
  ASSUME NEW Q \in SUBSET Given, NEW i \in Nat, i # 0, NEW r, Good(r, i, Q),
         NEW src \in Seq(Instructions), i \in DOMAIN src, NEW a, NEW pl, Branching(a, pl, i, src),
         a.linked \in DOMAIN src \cup {0}, a.linked # 0 => is_virtual(a.link),
         r.linked \in {0, i, a.linked}, is_control_flow(src[i]) => r.linked \in {0, i},
         NEW ql, Stage(a, pl, r, ql, i, src), Finished(r, i, src[i], ql[i]),
         NEW nl, nl = Onward(ql, r, i, src), pl \in Histories(src)
  PROVE  Branching(r, nl, i - 1, src)
<1>1. i \in 1 .. Len(src) /\ i - 1 \in 0 .. Len(src) /\ (i - 1) + 1 = i
  OBVIOUS
<1>2. nl[i - 1] = r.map /\ \A q \in 0 .. Len(src) : q # i - 1 => nl[q] = ql[q]
  BY <1>1 DEF Onward
<1>3. \A f \in Mapped : f \in DOMAIN r.map /\ r.map[f] = Home(f)
  BY DEF Good, Pooled
<1>4. /\ a.linked # 0 => \A j \in i + 1 .. a.linked : ~ is_control_flow(src[j])
      /\ \A q \in i .. Len(src) : \A f \in Mapped \cap DOMAIN pl[q] : pl[q][f] = Home(f)
      /\ \A j \in i + 1 .. Len(src) : is_control_flow(src[j]) => Mapped \subseteq DOMAIN pl[j - 1]
  BY DEF Branching
<1>5. r.linked = i => ~ is_control_flow(src[i])
  <2>1. r.linked = i => is_mv(src[i])
    BY DEF Finished, Linking
  <2> QED
    BY <2>1 DEF is_mv, is_control_flow
<1>6. r.linked # 0 => \A j \in (i - 1) + 1 .. r.linked : ~ is_control_flow(src[j])
  <2> SUFFICES ASSUME r.linked # 0, NEW j \in i .. r.linked PROVE ~ is_control_flow(src[j])
    BY <1>1
  <2>1. CASE r.linked = i
    BY <1>5, <2>1
  <2>2. CASE r.linked # i
    <3>1. r.linked = a.linked /\ ~ is_control_flow(src[i])
      BY <2>2
    <3>2. j = i \/ j \in i + 1 .. a.linked
      BY <3>1
    <3> QED
      BY <1>4, <3>1, <3>2
  <2> QED
    BY <2>1, <2>2
<1>7. \A q \in 0 .. Len(src) :
         \/ ql[q] = pl[q]
         \/ /\ a.linked # 0 /\ q \in i .. a.linked - 1
            /\ ql[q] = Settled(pl[q], a, r, src[a.linked], pl[a.linked])
  <2>1. DOMAIN pl = 0 .. Len(src)
    BY DEF Histories
  <2>2. CASE a.linked \notin {0, r.linked}
    <3>1. ql = Resolved(pl, a, r, i, src)
      BY <2>2 DEF Stage
    <3> QED
      BY <2>1, <2>2, <3>1 DEF Resolved
  <2>3. CASE a.linked \in {0, r.linked}
    BY <2>3 DEF Stage
  <2> QED
    BY <2>2, <2>3
<1>8. ASSUME NEW q \in i - 1 .. Len(src), NEW f \in Mapped \cap DOMAIN nl[q]
      PROVE  nl[q][f] = Home(f)
  <2>1. CASE q = i - 1
    BY <1>2, <1>3, <2>1
  <2>2. CASE q \in i .. Len(src)
    <3>1. nl[q] = ql[q] /\ q \in 0 .. Len(src)
      BY <1>2, <2>2
    <3>2. CASE ql[q] = pl[q]
      BY <1>4, <2>2, <3>1, <3>2
    <3>3. CASE a.linked # 0 /\ ql[q] = Settled(pl[q], a, r, src[a.linked], pl[a.linked])
      <4>1. f \in DOMAIN pl[q] /\ ql[q][f] = pl[q][f]
        BY <3>1, <3>3, SettledHome
      <4> QED
        BY <1>4, <2>2, <3>1, <4>1
    <3> QED
      BY <1>7, <3>1, <3>2, <3>3
  <2>3. q = i - 1 \/ q \in i .. Len(src)
    BY <1>1
  <2> QED
    BY <2>1, <2>2, <2>3
<1>9. ASSUME NEW j \in (i - 1) + 1 .. Len(src), is_control_flow(src[j])
      PROVE  Mapped \subseteq DOMAIN nl[j - 1]
  <2>1. CASE j = i
    BY <1>2, <1>3, <2>1
  <2>2. CASE j \in i + 1 .. Len(src)
    <3>1. j - 1 \in 0 .. Len(src) /\ j - 1 # i - 1
      BY <2>2
    <3>2. nl[j - 1] = ql[j - 1]
      BY <1>2, <3>1
    <3>3. ql[j - 1] = pl[j - 1]
      <4>1. a.linked # 0 /\ j - 1 \in i .. a.linked - 1 => j \in i + 1 .. a.linked
        BY <2>2
      <4> QED
        BY <1>4, <1>7, <1>9, <3>1, <4>1
    <3> QED
      BY <1>4, <1>9, <2>2, <3>2, <3>3
  <2>3. j = i \/ j \in i + 1 .. Len(src)
    BY <1>1
  <2> QED
    BY <2>1, <2>2, <2>3
<1> QED
  BY <1>6, <1>8, <1>9 DEF Branching

(* The instruction that may keep its target precedes control flow: no copy
   waits when the scan reaches it. *)
LEMMA BranchingFree ==
  ASSUME NEW src \in Seq(Instructions), Orderly(src), NEW i \in DOMAIN src,
         NEW a, NEW pl, Branching(a, pl, i, src), a.linked \in DOMAIN src \cup {0},
         a.linked # 0 => a.linked > i
  PROVE  Free(src[i], a.linked)
<1> SUFFICES ASSUME src[i].type = "RdRs1ImmKeepRs2", a.linked # 0 PROVE FALSE
  BY DEF Free
<1>1. is_control_flow(src[i + 1])
  BY DEF Orderly
<1>2. i + 1 \in i + 1 .. a.linked
  OBVIOUS
<1> QED
  BY <1>1, <1>2 DEF Branching

(* What holds when the scan has passed all but the first n instructions. *)
Scanned(a, pl, n, src) ==
  /\ \A j \in 1 .. n : a.code[j] = src[j]
  /\ \E P \in SUBSET Given : Good(a, n + 1, P) /\ PoolSet(P, n, src)
  /\ SubMap(pl[n], a.map)
  /\ Passed(a, pl, n, src)
  /\ Branching(a, pl, n, src)

(* The inductive invariant of the allocation. *)
FollowInv ==
  /\ source \in Seq(Instructions) /\ Orderly(source) /\ SetOnce(source, Len(source))
  /\ pos \in 0 .. Len(source)
  /\ ~ thrown => Scanned(State, places, pos, source)

(* One step of the scan, with all its parts. *)
LEMMA ScanPasses ==
  ASSUME NEW src \in Seq(Instructions), Orderly(src), SetOnce(src, Len(src)),
         NEW i \in 1 .. Len(src), NEW a, NEW pl, Scanned(a, pl, i, src), ~ a.thrown,
         NEW r, r = allocate_instruction(a, i), ~ r.thrown
  PROVE  Scanned(r, Advanced(pl, a, r, i, src), i - 1, src) /\ r \in States
<1>1. i \in Nat /\ i # 0 /\ i \in DOMAIN src
  OBVIOUS
<1>2. PICK P \in SUBSET Given : Good(a, i + 1, P) /\ PoolSet(P, i, src)
  BY DEF Scanned
<1>3. /\ Passed(a, pl, i, src) /\ SubMap(pl[i], a.map) /\ a.code[i] = src[i]
      /\ \A j \in 1 .. i : a.code[j] = src[j]
  BY DEF Scanned
<1>4. /\ P \cap Returned(src[i]) = {}
      /\ \A Q \in SUBSET (P \cup Returned(src[i])) : Q \in SUBSET Given /\ PoolSet(Q, i - 1, src)
  BY <1>1, <1>2, PoolGrows
<1>5. i \in DOMAIN a.code
  BY <1>1, <1>3 DEF Passed
<1>6. /\ \E Q \in SUBSET (P \cup Returned(a.code[i])) : Good(allocate_instruction(a, i), i, Q)
      /\ Changes(a.code, allocate_instruction(a, i).code, Beyond(i))
      /\ allocate_instruction(a, i).linked \in {0, i, a.linked}
      /\ is_control_flow(a.code[i]) => allocate_instruction(a, i).linked \in {0, i}
  <2>1. i \in Nat \ {0} /\ P \cap Returned(a.code[i]) = {}
    BY <1>1, <1>3, <1>4
  <2> QED
    BY <1>2, <1>5, <2>1, InstructionGood
<1>7. PICK Q \in SUBSET Given : Good(r, i, Q) /\ PoolSet(Q, i - 1, src)
  BY <1>3, <1>4, <1>6
<1>20. /\ a.linked \in DOMAIN src \cup {0}
       /\ a.linked # 0 => a.linked > i /\ is_virtual(a.link)
  BY <1>1, <1>2, <1>3 DEF Good, LinkedFrom, States, Passed
<1>21. Branching(a, pl, i, src) /\ Free(src[i], a.linked)
  <2>1. Branching(a, pl, i, src)
    BY DEF Scanned
  <2> QED
    BY <1>1, <1>20, <2>1, BranchingFree
<1>8. PICK ql : Stage(a, pl, r, ql, i, src) /\ Finished(r, i, src[i], ql[i])
  BY <1>1, <1>2, <1>3, <1>4, <1>21, StepPasses
<1>9. PICK nl : nl = Onward(ql, r, i, src)
  OBVIOUS
<1>10. Passed(r, nl, i - 1, src) /\ SubMap(nl[i - 1], r.map)
  <2>1. Behind(r, ql, i, src)
    BY <1>8 DEF Stage
  <2> QED
    BY <1>1, <1>7, <1>8, <1>9, <2>1, Advances
<1>11. nl = Advanced(pl, a, r, i, src)
  <2>1. pl \in Histories(src)
    BY <1>3 DEF Passed
  <2>2. Advanced(pl, a, r, i, src) = Onward(ql, r, i, src)
    BY <1>1, <1>8, <2>1, RememberedIs
  <2> QED
    BY <1>9, <2>2
<1>12. \A j \in 1 .. i - 1 : r.code[j] = src[j]
  <2> TAKE j \in 1 .. i - 1
  <2>1. j \in DOMAIN a.code /\ j \notin Beyond(i) /\ j \in 1 .. i
    BY <1>3 DEF Passed, Beyond
  <2> QED
    BY <1>3, <1>6, <2>1 DEF Changes
<1>13. \E R \in SUBSET Given : Good(r, (i - 1) + 1, R) /\ PoolSet(R, i - 1, src)
  <2>1. (i - 1) + 1 = i
    OBVIOUS
  <2> QED
    BY <1>7, <2>1
<1>14. r \in States
  BY <1>7 DEF Good
<1>15. Branching(r, nl, i - 1, src)
  <2>1. /\ r.linked \in {0, i, a.linked}
        /\ is_control_flow(src[i]) => r.linked \in {0, i}
    BY <1>3, <1>6
  <2>2. pl \in Histories(src)
    BY <1>3 DEF Passed
  <2> QED
    BY <1>1, <1>7, <1>8, <1>9, <1>20, <1>21, <2>1, <2>2, BranchingOn
<1> QED
  BY <1>10, <1>11, <1>12, <1>13, <1>14, <1>15 DEF Scanned

(* At the end of the code nothing has been passed. *)
LEMMA BeginScanned ==
  ASSUME NEW c \in Seq(Instructions), NEW a,
         a = [code |-> c, avail |-> Available, map |-> [f \in Mapped |-> Home(f)],
              linked |-> 0, link |-> none_reg, thrown |-> FALSE],
         NEW pl, pl = [q \in 0 .. Len(c) |-> a.map]
  PROVE  Scanned(a, pl, Len(c), c)
<1>1. PICK n \in Nat : n = Len(c)
  OBVIOUS
<1>2. Good(a, n + 1, Available) /\ Available \in SUBSET Given
  BY BeginGood DEF PoolInv, Given
<1>3. PoolSet(Available, n, c)
  BY DEF PoolSet, Available, A0, A1
<1>4. /\ a.map = [f \in Mapped |-> Home(f)] /\ a.code = c /\ a.linked = 0
      /\ a.map \in Maps
  BY <1>2 DEF Good, States
<1>5. \A q \in 0 .. n : pl[q] = a.map
  BY <1>1
<1>6. pl \in Histories(c)
  BY <1>1, <1>4 DEF Histories
<1>7. \A q \in n .. n : \A v \in DOMAIN pl[q] : ~ Held(c, q, pl[q][v])
  <2>1. \A v \in Mapped : Home(v) \notin {A0, A1}
    BY GivenAre DEF A0, A1
  <2>2. \A v \in DOMAIN a.map : a.map[v] \notin {A0, A1}
    BY <1>4, <2>1
  <2> QED
    BY <1>5, <2>2 DEF Held
<1>8. Follow(c, a.code, pl, n, a.linked)
  <2>1. n + 1 .. n = {}
    OBVIOUS
  <2> QED
    BY <1>1, <1>7, <2>1 DEF Follow
<1>9. SubMap(pl[n], a.map)
  BY <1>5 DEF SubMap
<1>10. Passed(a, pl, n, c)
  BY <1>4, <1>6, <1>8 DEF Passed
<1>11. Branching(a, pl, n, c)
  <2>1. n + 1 .. n = {} /\ \A q \in n .. n : q = n
    BY <1>1
  <2> QED
    BY <1>1, <1>4, <1>5, <2>1 DEF Branching
<1> QED
  BY <1>1, <1>2, <1>3, <1>4, <1>9, <1>10, <1>11 DEF Scanned

(* What TLC checks on the runs follows from what is inductive. *)
LEMMA FollowInvImplies ==
  ASSUME FollowInv
  PROVE  CodeFollows
<1> SUFFICES ASSUME ~ thrown
             PROVE  /\ \A j \in pos + 1 .. Len(code) :
                         /\ Keeps(source[j], places[j - 1], places[j])
                         /\ j # linked => Computes(source[j], code[j], places[j - 1], places[j])
                    /\ \A q \in pos .. Len(code) : \A v \in DOMAIN places[q] : ~ Reserved(q, places[q][v])
  BY DEF CodeFollows
<1>1. Scanned(State, places, pos, source)
  BY DEF FollowInv
<1>2. State.code = code /\ State.linked = linked
  BY DEF State
<1>3. DOMAIN code = DOMAIN source /\ Follow(source, code, places, pos, linked)
  BY <1>1, <1>2 DEF Scanned, Passed
<1>4. code \in Seq(Instructions)
  BY <1>1, <1>2 DEF Scanned, Good, States
<1>5. Len(code) = Len(source)
  BY <1>3, <1>4 DEF FollowInv
<1> QED
  BY <1>3, <1>5 DEF Follow, Held, Reserved

(* The hypothesis on the code. *)
AllOrderlyCodes == \A c \in Codes : Orderly(c)

LEMMA InitFollows ==
  ASSUME Init
  PROVE  FollowInv
<1>1. PICK c : c = <<>>
  OBVIOUS
<1>2. c \in Seq(Instructions) /\ Len(c) = 0 /\ DOMAIN c = {}
  BY <1>1
<1>3. Orderly(c) /\ SetOnce(c, Len(c))
  BY <1>2 DEF Orderly, SetOnce
<1>4. State = [code |-> c, avail |-> Available, map |-> [f \in Mapped |-> Home(f)],
               linked |-> 0, link |-> none_reg, thrown |-> FALSE]
  BY <1>1 DEF Init, State
<1>5. places = [q \in 0 .. Len(c) |-> State.map]
  <2>1. 0 .. Len(c) = {0}
    BY <1>2
  <2> QED
    BY <2>1 DEF Init, State
<1>6. source = c /\ pos = Len(c) /\ pos \in 0 .. Len(c)
  BY <1>1, <1>2 DEF Init
<1> HIDE DEF State
<1>7. Scanned(State, places, Len(c), c)
  BY <1>2, <1>4, <1>5, BeginScanned
<1> QED
  BY <1>2, <1>3, <1>6, <1>7 DEF FollowInv

LEMMA BeginFollows ==
  ASSUME NEW c \in Codes, Orderly(c), Begin(c)
  PROVE  FollowInv'
<1>1. c \in Seq(Instructions) /\ Len(c) \in Nat
  BY CodeAssumption DEF CodeAssumption, Allocatable
<1>2. SetOnce(c, Len(c))
  BY CodeAssumption, <1>1 DEF CodeAssumption, Allocatable, SetOnce
<1>3. State' = [code |-> c, avail |-> Available, map |-> [f \in Mapped |-> Home(f)],
                linked |-> 0, link |-> none_reg, thrown |-> FALSE]
  BY DEF Begin, State
<1>4. places' = [q \in 0 .. Len(c) |-> State'.map]
  BY DEF Begin, State
<1>5. source' = c /\ pos' = Len(c) /\ pos' \in 0 .. Len(c)
  BY <1>1 DEF Begin
<1>6. PICK a : a = State'
  OBVIOUS
<1>7. Scanned(a, places', Len(c), c)
  BY <1>1, <1>3, <1>4, <1>6, BeginScanned
<1> QED
  BY <1>1, <1>2, <1>5, <1>6, <1>7 DEF FollowInv

LEMMA AllocateInstructionFollows ==
  ASSUME FollowInv, AllocateInstruction
  PROVE  FollowInv'
<1>1. PICK a : a = State
  OBVIOUS
<1>2. PICK r : r = allocate_instruction(State, pos)
  OBVIOUS
<1>3. /\ source \in Seq(Instructions) /\ Orderly(source) /\ SetOnce(source, Len(source))
      /\ source' = source /\ pos' = pos - 1 /\ pos \in 1 .. Len(source)
      /\ ~ thrown /\ Scanned(State, places, pos, source)
  BY DEF FollowInv, AllocateInstruction
<1>4. r = allocate_instruction(a, pos) /\ ~ a.thrown /\ a.linked = linked
  BY <1>1, <1>2, <1>3 DEF State
<1>5. /\ code' = r.code /\ avail' = r.avail /\ map' = r.map
      /\ linked' = r.linked /\ link' = r.link /\ thrown' = r.thrown
      /\ places' = Remembered(State, r)
  BY <1>2 DEF AllocateInstruction
<1>6. places' = Advanced(places, a, r, pos, source)
  BY <1>1, <1>5 DEF Remembered, Advanced
<1>7. ASSUME ~ thrown'
      PROVE  Scanned(State', places', pos', source')
  <2>1. /\ Scanned(r, Advanced(places, a, r, pos, source), pos - 1, source) /\ r \in States
    BY <1>1, <1>3, <1>4, <1>5, <1>7, ScanPasses
  <2>2. State' = r
    <3>1. State' = [code |-> r.code, avail |-> r.avail, map |-> r.map,
                    linked |-> r.linked, link |-> r.link, thrown |-> r.thrown]
      BY <1>5 DEF State
    <3> QED
      BY <2>1, <3>1 DEF States
  <2> QED
    BY <1>3, <1>6, <2>1, <2>2
<1>8. pos' \in 0 .. Len(source)
  BY <1>3
<1> QED
  BY <1>3, <1>7, <1>8 DEF FollowInv

LEMMA NextFollows ==
  ASSUME AllOrderlyCodes, FollowInv, [Next]_vars
  PROVE  FollowInv'
<1>1. CASE AllocateInstruction
  BY <1>1, AllocateInstructionFollows
<1>2. CASE NextBlock
  BY <1>2, BeginFollows DEF NextBlock, AllOrderlyCodes
<1>3. CASE UNCHANGED vars
  <2>1. State' = State /\ pos' = pos /\ source' = source /\ places' = places /\ thrown' = thrown
    BY <1>3 DEF vars, State
  <2> QED
    BY <2>1 DEF FollowInv
<1> QED
  BY <1>1, <1>2, <1>3 DEF Next

(* Whatever orderly code allocate is given, each instruction that it leaves
   reads and writes the registers of the machine that hold, at that place, the
   values of the registers it named before, no value that is needed is
   overwritten, and only copies onto themselves and instructions whose result
   nothing needs are killed: in every state of every scan, for code of any
   length. *)
THEOREM AllocatedCodeFollows ==
  ASSUME AllOrderlyCodes
  PROVE  Spec => []CodeFollows
<1>1. Init => FollowInv
  BY InitFollows
<1>2. FollowInv /\ [Next]_vars => FollowInv'
  BY NextFollows
<1>3. FollowInv => CodeFollows
  BY FollowInvImplies
<1> QED
  BY <1>1, <1>2, <1>3, PTL DEF Spec

(* The least of some numbers: where a value was last written, or first needed. *)
LEMMA Least ==
  ASSUME NEW T \in SUBSET Nat, T # {}
  PROVE  \E x \in T : \A y \in T : x <= y
<1> DEFINE R == {s \in Nat \X Nat : s[1] < s[2]}
<1>1. IsWellFoundedOn(R, Nat)
  <2>1. OpToRel(<, Nat) = R
    BY DEF OpToRel
  <2> QED
    BY <2>1, NatLessThanWellFounded
<1>2. \A x, y \in Nat : <<y, x>> \in R <=> y < x
  OBVIOUS
<1> HIDE DEF R
<1>3. PICK x \in T : \A y \in T : ~ (<<y, x>> \in R)
  BY <1>1, WFMin
<1>4. \A y \in T : ~ (y < x)
  BY <1>2, <1>3
<1>5. \A y \in T : x <= y
  BY <1>4
<1> QED
  BY <1>5

(* Keeps, of the instructions behind n. *)
AllKeep(src, pl, n, e) == \A j \in n + 1 .. e : Keeps(src[j], pl[j - 1], pl[j])
(* Stays, of any code. *)
NoWrite(src, v, j, k) == \A d \in j .. k : ~ Overwrites(src[d], v)

(* A value that is alive has its place from where it was written. *)
LEMMA Steady ==
  ASSUME NEW src, NEW pl, NEW n \in Nat, NEW e \in Nat, AllKeep(src, pl, n, e),
         NEW q \in n .. e, NEW l \in q .. e, NEW v, v \in DOMAIN pl[l],
         NoWrite(src, v, q + 1, l)
  PROVE  v \in DOMAIN pl[q] /\ pl[q][v] = pl[l][v]
<1> DEFINE T == {t \in q .. l : v \in DOMAIN pl[t] /\ pl[t][v] = pl[l][v]}
<1>1. T \in SUBSET Nat /\ l \in T
  OBVIOUS
<1>2. PICK x \in T : \A y \in T : x <= y
  <2> HIDE DEF T
  <2> QED
    BY <1>1, Least
<1>3. x \in q .. l /\ v \in DOMAIN pl[x] /\ pl[x][v] = pl[l][v]
  OBVIOUS
<1>4. x = q
  <2> SUFFICES ASSUME x # q PROVE FALSE
    OBVIOUS
  <2>1. x \in q + 1 .. l /\ x \in n + 1 .. e /\ x - 1 \in q .. l
    BY <1>3
  <2>2. ~ Overwrites(src[x], v) /\ Keeps(src[x], pl[x - 1], pl[x])
    BY <2>1 DEF AllKeep, NoWrite
  <2>3. v \in DOMAIN pl[x - 1] /\ pl[x - 1][v] = pl[x][v]
    BY <1>3, <2>2 DEF Keeps
  <2>4. x - 1 \in T
    BY <1>3, <2>1, <2>3
  <2>5. x <= x - 1
    BY <1>2, <2>4
  <2> QED
    BY <2>1, <2>5
<1> QED
  BY <1>3, <1>4

(* What an instruction needs is alive before it. *)
LEMMA NeededAlive ==
  ASSUME NEW s \in Instructions, s.type = "RdRs1Imm" => s.rs2 = none_reg,
         is_mv(s) => in_reg(s) = Copied(s), s.type = "RdRs1ImmKeepRs2" => s.rs2 = s.rd,
         NEW c, NEW before, NEW after,
         Computes(s, c, before, after), Keeps(s, before, after),
         NEW v, Needs(s, after, v)
  PROVE  v \in DOMAIN before
<1>1. v \in {s.rs1, s.rs2} /\ ~ is_physical(v) /\ v # none_reg /\ ~ Unread(s, after)
  BY DEF Needs
<1>2. CASE is_dead(c)
  <2>1. is_mv(s) /\ \E p \in 0 .. 31 : InPlace(before, Copied(s), p) /\ (s.rd = ZERO \/ InPlace(after, s.rd, p))
    BY <1>1, <1>2 DEF Computes
  <2>2. is_physical(ZERO)
    BY DEF is_physical, ZERO, FUNCTIONAL_BASE
  <2>3. v = Copied(s) \/ (s.type = "RdRs1ImmKeepRs2" /\ v = s.rd)
    <3>1. s.type \in {"RdRs1Imm", "RdRs1ImmKeepRs2"} => Copied(s) = s.rs1
      BY DEF Copied
    <3>2. s.type = "RdRs1Rs2" => Copied(s) = in_reg(s) /\ (s.rs1 = ZERO \/ s.rs2 = ZERO)
      BY <2>1 DEF Copied, is_mv
    <3>3. s.type \in {"RdRs1Imm", "RdRs1ImmKeepRs2", "RdRs1Rs2"}
      BY <2>1 DEF is_mv
    <3>4. s.type = "RdRs1Rs2" => v = in_reg(s)
      BY <1>1, <2>2, <3>2 DEF in_reg
    <3> QED
      BY <1>1, <3>1, <3>2, <3>3, <3>4
  <2>4. CASE v = Copied(s)
    BY <1>1, <2>1, <2>4 DEF InPlace
  <2>5. CASE s.type = "RdRs1ImmKeepRs2" /\ v = s.rd
    <3>1. v \in DOMAIN after /\ ~ Overwrites(s, v)
      BY <1>1, <2>5 DEF Unread, Overwrites
    <3> QED
      BY <3>1 DEF Keeps
  <2> QED
    BY <2>3, <2>4, <2>5
<1>3. CASE ~ is_dead(c)
  BY <1>1, <1>3 DEF Computes, InPlace
<1> QED
  BY <1>2, <1>3

(* Between a jump and its label a value that nothing writes has one place: it
   is alive all the way, and each instruction leaves it where it is. *)
LEMMA FollowInvMeets ==
  ASSUME FollowInv
  PROVE  JumpsMeet
<1> SUFFICES ASSUME ~ thrown, NEW j \in pos + 1 .. Len(code), NEW l \in pos + 1 .. Len(code),
                    JumpsTo(source[j], source[l]), NEW v \in DOMAIN places[l],
                    \/ v \in Mapped
                    \/ j < l /\ Stays(v, j, l)
                    \/ l < j /\ \E m \in j .. Len(code) : /\ m # linked
                                                          /\ Needs(source[m], places[m], v)
                                                          /\ Stays(v, l + 1, m - 1)
             PROVE  v \in DOMAIN places[j - 1] /\ places[j - 1][v] = places[l][v]
  BY DEF JumpsMeet
<1>1. Scanned(State, places, pos, source) /\ State.code = code /\ State.linked = linked
  BY DEF FollowInv, State
<1>2. /\ DOMAIN code = DOMAIN source
      /\ Follow(source, code, places, pos, linked)
      /\ Branching(State, places, pos, source)
  BY <1>1 DEF Scanned, Passed
<1>3. code \in Seq(Instructions)
  BY <1>1 DEF Scanned, Good, States
<1>4. /\ source \in Seq(Instructions) /\ Orderly(source)
      /\ Len(code) = Len(source) /\ pos \in Nat /\ Len(source) \in Nat
  BY <1>2, <1>3 DEF FollowInv
<1>5. PICK e \in Nat : e = Len(source)
  BY <1>4
<1>6. PICK n \in Nat : n = pos
  BY <1>4
<1>7. /\ j \in n + 1 .. e /\ l \in n + 1 .. e /\ l \in n .. e
      /\ j \in Nat /\ l \in Nat
  BY <1>4, <1>5, <1>6
<1>8. PICK b \in n .. e : b = j - 1 /\ b + 1 = j
  BY <1>7
<1>9. /\ AllKeep(source, places, n, e)
      /\ \A d \in n + 1 .. e : Keeps(source[d], places[d - 1], places[d])
      /\ \A d \in n + 1 .. e : d # linked => Computes(source[d], code[d], places[d - 1], places[d])
  BY <1>2, <1>5, <1>6 DEF Follow, AllKeep
<1>10. CASE v \in Mapped
  <2>1. is_control_flow(source[j])
    BY DEF JumpsTo, is_control_flow
  <2>2. Mapped \subseteq DOMAIN places[b]
    BY <1>2, <1>5, <1>6, <1>7, <1>8, <2>1 DEF Branching
  <2>3. \A q \in n .. e : \A f \in Mapped \cap DOMAIN places[q] : places[q][f] = Home(f)
    BY <1>2, <1>5, <1>6 DEF Branching
  <2>4. v \in DOMAIN places[b] /\ places[b][v] = Home(v)
    BY <1>8, <1>10, <2>2, <2>3
  <2>5. places[l][v] = Home(v)
    BY <1>7, <1>10, <2>3
  <2> QED
    BY <1>8, <2>4, <2>5
<1>11. CASE j < l /\ Stays(v, j, l)
  <2>1. l \in b .. e
    BY <1>7, <1>8, <1>11
  <2>2. NoWrite(source, v, b + 1, l)
    BY <1>8, <1>11 DEF Stays, NoWrite
  <2>3. v \in DOMAIN places[b] /\ places[b][v] = places[l][v]
    BY <1>9, <2>1, <2>2, Steady
  <2> QED
    BY <1>8, <2>3
<1>12. ASSUME l < j, NEW m \in j .. Len(code), m # linked, Needs(source[m], places[m], v),
              Stays(v, l + 1, m - 1)
       PROVE  v \in DOMAIN places[j - 1] /\ places[j - 1][v] = places[l][v]
  <2>1. m \in n + 1 .. e /\ m \in DOMAIN source /\ m \in j .. e
    BY <1>4, <1>5, <1>7
  <2>2. PICK s : s = source[m]
    OBVIOUS
  <2>3. /\ s \in Instructions
        /\ is_mv(s) => in_reg(s) = Copied(s)
        /\ s.type = "RdRs1Imm" => s.rs2 = none_reg
        /\ s.type = "RdRs1ImmKeepRs2" => s.rs2 = s.rd
    BY <1>4, <2>1, <2>2, OrderlyIs
  <2>4. PICK o \in n .. e : o = m - 1 /\ o \in l .. e /\ o \in b .. e
    BY <1>7, <1>8, <1>12, <2>1
  <2>5. Computes(s, code[m], places[o], places[m]) /\ Keeps(s, places[o], places[m])
    BY <1>9, <1>12, <2>1, <2>2, <2>4
  <2>6. v \in DOMAIN places[o]
    BY <1>12, <2>2, <2>3, <2>5, NeededAlive
  <2>7. NoWrite(source, v, l + 1, o)
    BY <1>12, <2>4 DEF Stays, NoWrite
  <2>8. places[l][v] = places[o][v]
    BY <1>7, <1>9, <2>4, <2>6, <2>7, Steady
  <2>9. NoWrite(source, v, b + 1, o)
    BY <1>7, <1>8, <1>12, <2>7 DEF NoWrite
  <2>10. v \in DOMAIN places[b] /\ places[b][v] = places[o][v]
    BY <1>9, <2>4, <2>6, <2>9, Steady
  <2> QED
    BY <1>8, <2>8, <2>10
<1> QED
  BY <1>10, <1>11, <1>12

(* Whatever orderly code allocate is given, in which jumps go forward or
   backward between any instructions, the values that a jump leaves alone are
   in the same registers before the jump and behind its label, although the
   scan does not look at where jumps go. *)
THEOREM AllocatedJumpsMeet ==
  ASSUME AllOrderlyCodes
  PROVE  Spec => []JumpsMeet
<1>1. Init => FollowInv
  BY InitFollows
<1>2. FollowInv /\ [Next]_vars => FollowInv'
  BY NextFollows
<1>3. FollowInv => JumpsMeet
  BY FollowInvMeets
<1> QED
  BY <1>1, <1>2, <1>3, PTL DEF Spec

-----------------------------------------------------------------------------
(***************************************************************************)
(* Nothing is left over: the virtual registers that are allocated are      *)
(* always among those that instructions before this one define.            *)
(***************************************************************************)

(* Virtual registers that are allocated, or that the waiting copy needs, come
   from E, but for the target of the copy. *)
Rooted(a, E) ==
  /\ \A v \in DOMAIN a.map :
        is_virtual(v) => v \in E \/ (a.linked # 0 /\ v = a.code[a.linked].rd)
  /\ a.linked # 0 => a.link \in E

(* The instruction reads registers of the machine. *)
Clear(c) == \A f \in {"rs1", "rs2"} : c[f] = none_reg \/ is_physical(c[f])

(* The virtual registers that it reads are in E. *)
ReadsIn(c, E) == \A f \in {"rs1", "rs2"} : is_virtual(c[f]) => c[f] \in E

LEMMA VirtualIs ==
  /\ ~ is_virtual(none_reg)
  /\ \A v : v \in Nat /\ is_virtual(v) => ~ is_physical(v) /\ ~ is_functional(v) /\ v # none_reg
  BY DEF is_virtual, is_physical, is_functional, none_reg, VIRTUAL_BASE, FUNCTIONAL_BASE

(* What Define leaves allocated. *)
Dropped(a, r, i, c) ==
  /\ r.linked = a.linked /\ r.link = a.link /\ ~ r.thrown
  /\ Changes(a.code, r.code, {i})
  /\ r.code[i].rs1 = c.rs1 /\ r.code[i].rs2 = c.rs2
  /\ DOMAIN r.map \subseteq DOMAIN a.map
  /\ is_virtual(c.rd) /\ c.rd \in DOMAIN r.map => is_rd_use(c)

(* A register that the instruction does not read is free before it is written. *)
LEMMA DefineDrops ==
  ASSUME NEW a \in States, ~ a.thrown, NEW i \in DOMAIN a.code, NEW c, c = a.code[i],
         NEW r, r = Define(a, i)
  PROVE  Dropped(a, r, i, c)
<1>1. c \in Instructions /\ a.map \in Maps
  BY CodeIs
<1>2. PICK y : y = c.rd
  OBVIOUS
<1>3. Defined(a, r, i, y)
  BY <1>2, DefineIs
<1>4. r.code[i].rs1 = c.rs1 /\ r.code[i].rs2 = c.rs2
  BY <1>1, <1>3 DEF Defined, kill, Instructions
<1>5. ASSUME is_virtual(y), y \in DOMAIN r.map, ~ is_rd_use(c) PROVE FALSE
  <2>1. y \in DOMAIN a.map /\ ~ is_functional(y)
    BY <1>1, <1>2, <1>3, <1>5, VirtualIs DEF Defined, SubMap, Instructions
  <2>2. r = [a EXCEPT !.code[i].rd = a.map[y],
                      !.avail      = @ \cup {a.map[y]},
                      !.map        = Erase(@, y)]
    BY <1>2, <1>5, <2>1 DEF Define, Allocated
  <2>3. r.map = Erase(a.map, y)
    BY <2>2 DEF States
  <2> QED
    BY <1>5, <2>3 DEF Erase
<1> QED
  BY <1>2, <1>3, <1>4, <1>5 DEF Defined, SubMap, Dropped

(* The end of a wait brings up no register that is not read before. *)
LEMMA AllocateLinkedRoots ==
  ASSUME NEW P \in SUBSET Given, NEW i \in Nat, NEW a, Good(a, i, P), ~ a.thrown,
         NEW E, Rooted(a, E), a.linked # 0 => Clear(a.code[a.linked]),
         NEW r, r = AllocateLinked(a)
  PROVE  ~ r.thrown /\ r.linked = 0 /\ Rooted(r, E)
<1>1. CASE a.linked = 0
  BY <1>1 DEF AllocateLinked
<1>2. CASE a.linked # 0
  <2>1. PICK k : k = a.linked
    OBVIOUS
  <2>2. PICK c : c = a.code[k]
    OBVIOUS
  <2>3. /\ k \in DOMAIN a.code /\ a \in States /\ is_mv(c) /\ ~ is_physical(c.rd) /\ Clear(c)
    BY <1>2, <2>1, <2>2 DEF Good, LinkedFrom
  <2>4. PICK z : z = [a EXCEPT !.linked = 0]
    OBVIOUS
  <2>5. /\ z \in States /\ z.linked = 0 /\ z.code = a.code /\ z.map = a.map /\ ~ z.thrown
    BY <2>3, <2>4 DEF States
  <2>6. PICK b : b = Define(z, k)
    OBVIOUS
  <2>7. /\ b.linked = 0 /\ ~ b.thrown
        /\ b.code[k].rs1 = c.rs1 /\ b.code[k].rs2 = c.rs2
        /\ DOMAIN b.map \subseteq DOMAIN a.map
        /\ is_virtual(c.rd) /\ c.rd \in DOMAIN b.map => is_rd_use(c)
    <3>1. z \in States /\ ~ z.thrown /\ k \in DOMAIN z.code /\ c = z.code[k]
      BY <2>2, <2>3, <2>5
    <3>2. Dropped(z, b, k, c)
      BY <2>6, <3>1, DefineDrops
    <3> QED
      BY <2>5, <3>2 DEF Dropped
  <2>8. /\ c.rs1 = none_reg \/ is_physical(c.rs1)
        /\ c.rs2 = none_reg \/ is_physical(c.rs2)
    BY <2>3 DEF Clear
  <2>9. ~ IsUse(b, k, "rs1") /\ ~ IsUse(b, k, "rs2")
    BY <2>7, <2>8 DEF IsUse
  <2>10. r = KillCopy(b, k)
    BY <1>2, <2>1, <2>4, <2>6, <2>9 DEF AllocateLinked
  <2>11. ~ r.thrown /\ r.linked = 0 /\ r.map = b.map
    <3>1. r = b \/ r = [b EXCEPT !.code[k] = kill(@)]
      BY <2>10 DEF KillCopy
    <3>2. b = [code |-> b.code, avail |-> b.avail, map |-> b.map,
               linked |-> b.linked, link |-> b.link, thrown |-> b.thrown]
      BY <2>5, <2>6 DEF Define, States
    <3> QED
      BY <2>7, <3>1, <3>2
  <2>12. ASSUME NEW v \in DOMAIN r.map, is_virtual(v)
         PROVE  v \in E
    <3>1. v \in DOMAIN a.map /\ v \in DOMAIN b.map
      BY <2>7, <2>11, <2>12
    <3>2. v \in E \/ v = c.rd
      BY <2>1, <2>2, <2>12, <3>1 DEF Rooted
    <3>3. v # c.rd
      <4> SUFFICES ASSUME v = c.rd PROVE FALSE
        OBVIOUS
      <4>1. is_rd_use(c)
        BY <2>7, <2>12, <3>1
      <4>2. c.rd = c.rs1 \/ c.rd = c.rs2
        BY <4>1 DEF is_rd_use
      <4>3. c.rd = none_reg
        BY <2>3, <2>8, <4>2
      <4> QED
        BY <2>12, <4>3, VirtualIs
    <3> QED
      BY <3>2, <3>3
  <2> QED
    BY <2>11, <2>12 DEF Rooted
<1> QED
  BY <1>1, <1>2

(* An instruction whose destination has been dealt with. *)
Rooting(r, i, E) ==
  /\ Rooted(r, E) /\ ~ r.thrown
  /\ ReadsIn(r.code[i], E)
  /\ r.linked \notin {0, i} => Clear(r.code[r.linked])

(* The same before the destination is. *)
Writing(b, i, E) ==
  /\ Rooted(b, E \cup {b.code[i].rd}) /\ ~ b.thrown
  /\ b.linked # 0 => b.link \in E /\ Clear(b.code[b.linked])
  /\ ReadsIn(b.code[i], E)

LEMMA InlineWriting ==
  ASSUME NEW P \in SUBSET Given, NEW i \in Nat, NEW a, Good(a, i, P), ~ a.thrown,
         i \in DOMAIN a.code, a.linked # i, NEW E, Rooted(a, E \cup {a.code[i].rd}),
         ReadsIn(a.code[i], E), a.linked # 0 => Clear(a.code[a.linked]),
         NEW b, b = Inline(a, i)
  PROVE  Writing(b, i, E)
<1>1. PICK c : c = a.code[i]
  OBVIOUS
<1>2. CASE a.linked = 0 \/ a.link # c.rd
  <2>1. b = a
    BY <1>1, <1>2 DEF Inline
  <2>2. a.linked # 0 => a.link \in E
    BY <1>1, <1>2 DEF Rooted
  <2> QED
    BY <2>1, <2>2 DEF Writing
<1>3. CASE a.linked # 0 /\ a.link = c.rd
  <2>1. PICK k : k = a.linked
    OBVIOUS
  <2>2. PICK x : x = a.code[k].rd
    OBVIOUS
  <2>3. k \in DOMAIN a.code /\ k # 0 /\ i # k /\ a \in States /\ c \in Instructions
    BY <1>1, <1>3, <2>1, CodeIs DEF Good, LinkedFrom
  <2>4. Inlined(a, b, i, k, x)
    BY <1>1, <1>3, <2>1, <2>2, <2>3, InlineIs
  <2>5. /\ b.linked = 0 /\ ~ b.thrown /\ b.map = Erase(a.map, c.rd)
        /\ b.code[i] = [c EXCEPT !.rd = x]
    BY <1>1, <1>3, <2>4 DEF Inlined
  <2>6. b.code[i].rd = x /\ b.code[i].rs1 = c.rs1 /\ b.code[i].rs2 = c.rs2
    BY <2>3, <2>5 DEF Instructions
  <2>7. ReadsIn(b.code[i], E)
    BY <1>1, <2>6 DEF ReadsIn
  <2>8. Rooted(b, E \cup {x})
    <3>1. ASSUME NEW v \in DOMAIN b.map, is_virtual(v) PROVE v \in E \cup {x}
      <4>1. v \in DOMAIN a.map /\ v # c.rd
        BY <2>5 DEF Erase
      <4>2. v \in E \cup {c.rd} \/ v = x
        BY <1>1, <2>1, <2>2, <3>1, <4>1 DEF Rooted
      <4> QED
        BY <4>1, <4>2
    <3> QED
      BY <2>5, <3>1 DEF Rooted
  <2> QED
    BY <2>5, <2>6, <2>7, <2>8 DEF Writing
<1> QED
  BY <1>2, <1>3

LEMMA DefineRoots ==
  ASSUME NEW P \in SUBSET Given, NEW i \in Nat, NEW b, Good(b, i, P), i \in DOMAIN b.code,
         b.linked # i, NEW E, Writing(b, i, E), NEW r, r = Define(b, i)
  PROVE  Rooting(r, i, E)
<1>1. PICK c : c = b.code[i]
  OBVIOUS
<1>2. /\ Rooted(b, E \cup {c.rd}) /\ ~ b.thrown
      /\ b.linked # 0 => b.link \in E /\ Clear(b.code[b.linked])
      /\ ReadsIn(c, E) /\ b \in States
  BY <1>1 DEF Writing, Good
<1>3. Dropped(b, r, i, c)
  BY <1>1, <1>2, DefineDrops
<1>4. /\ r.linked = b.linked /\ r.link = b.link /\ ~ r.thrown
      /\ Changes(b.code, r.code, {i})
      /\ r.code[i].rs1 = c.rs1 /\ r.code[i].rs2 = c.rs2
      /\ DOMAIN r.map \subseteq DOMAIN b.map
      /\ is_virtual(c.rd) /\ c.rd \in DOMAIN r.map => is_rd_use(c)
  BY <1>3 DEF Dropped
<1>5. r.linked # 0 => r.code[r.linked] = b.code[b.linked]
  <2>1. b.linked # 0 => b.linked \in DOMAIN b.code
    BY DEF Good, LinkedFrom
  <2> QED
    BY <1>4, <2>1 DEF Changes
<1>6. ASSUME NEW v \in DOMAIN r.map, is_virtual(v)
      PROVE  v \in E \/ (r.linked # 0 /\ v = r.code[r.linked].rd)
  <2>1. v \in E \cup {c.rd} \/ (b.linked # 0 /\ v = b.code[b.linked].rd)
    BY <1>2, <1>4, <1>6 DEF Rooted
  <2>2. v = c.rd => v \in E
    <3> SUFFICES ASSUME v = c.rd PROVE v \in E
      OBVIOUS
    <3>1. c.rd = c.rs1 \/ c.rd = c.rs2
      BY <1>4, <1>6 DEF is_rd_use
    <3> QED
      BY <1>2, <1>6, <3>1 DEF ReadsIn
  <2> QED
    BY <1>4, <1>5, <2>1, <2>2
<1>7. ReadsIn(r.code[i], E)
  BY <1>2, <1>4 DEF ReadsIn
<1> QED
  BY <1>2, <1>4, <1>5, <1>6, <1>7 DEF Rooting, Rooted

LEMMA LinkedWriting ==
  ASSUME NEW P \in SUBSET Given, NEW i \in Nat, NEW b, Good(b, i, P), i \in DOMAIN b.code,
         b.linked # i, NEW E, Writing(b, i, E), NEW c, c = AllocateLinked(b)
  PROVE  Writing(c, i, E) /\ c.linked = 0 /\ c.code[i] = b.code[i]
<1>1. /\ ~ b.thrown /\ Rooted(b, E \cup {b.code[i].rd})
      /\ b.linked # 0 => Clear(b.code[b.linked])
  BY DEF Writing
<1>2. ~ c.thrown /\ c.linked = 0 /\ Rooted(c, E \cup {b.code[i].rd})
  BY <1>1, AllocateLinkedRoots
<1>3. Changes(b.code, c.code, {b.linked})
  BY <1>1, AllocateLinkedGood
<1>4. c.code[i] = b.code[i]
  BY <1>3 DEF Changes
<1> QED
  BY <1>2, <1>4 DEF Writing

LEMMA VirtualRoots ==
  ASSUME NEW P \in SUBSET Given, NEW i \in Nat, NEW b, Good(b, i, P), i \in DOMAIN b.code,
         b.linked # i, i # 0, NEW E, Writing(b, i, E), ~ is_physical(b.code[i].rd), NEW r,
         r = IF Links(b, i)
             THEN [AllocateLinked(b) EXCEPT !.link = in_reg(b.code[i]), !.linked = i]
             ELSE IF b.linked # 0 /\ b.code[i].rd = b.code[b.linked].rd
             THEN Define(AllocateLinked(b), i)
             ELSE Define(b, i)
  PROVE  Rooting(r, i, E)
<1>1. PICK c : c = AllocateLinked(b)
  OBVIOUS
<1>2. /\ Writing(c, i, E) /\ c.linked = 0 /\ c.code[i] = b.code[i]
      /\ Good(c, i, P) /\ i \in DOMAIN c.code /\ c \in States
  <2>1. Writing(c, i, E) /\ c.linked = 0 /\ c.code[i] = b.code[i]
    BY <1>1, LinkedWriting
  <2>2. ~ b.thrown
    BY DEF Writing
  <2>3. Good(c, i, P) /\ Changes(b.code, c.code, {b.linked})
    BY <1>1, <2>2, AllocateLinkedGood
  <2> QED
    BY <2>1, <2>3 DEF Changes, Good
<1>3. CASE Links(b, i)
  <2>1. PICK v : v = in_reg(b.code[i])
    OBVIOUS
  <2>2. r = [c EXCEPT !.link = v, !.linked = i]
    BY <1>1, <1>3, <2>1
  <2>3. r.linked = i /\ r.link = v /\ r.map = c.map /\ r.code = c.code /\ r.thrown = c.thrown
    BY <1>2, <2>2 DEF States
  <2>4. v \in E
    <3>1. is_virtual(v) /\ (v = b.code[i].rs1 \/ v = b.code[i].rs2)
      BY <1>3, <2>1 DEF Links, in_reg
    <3> QED
      BY <3>1 DEF Writing, ReadsIn
  <2>5. Rooted(r, E)
    BY <1>2, <2>3, <2>4 DEF Writing, Rooted
  <2> QED
    BY <1>2, <2>3, <2>5 DEF Writing, Rooting
<1>4. CASE ~ Links(b, i) /\ b.linked # 0 /\ b.code[i].rd = b.code[b.linked].rd
  <2>1. r = Define(c, i) /\ c.linked # i
    BY <1>1, <1>2, <1>4
  <2> QED
    BY <1>2, <2>1, DefineRoots
<1>5. CASE ~ Links(b, i) /\ ~ (b.linked # 0 /\ b.code[i].rd = b.code[b.linked].rd)
  <2>1. r = Define(b, i)
    BY <1>5
  <2> QED
    BY <2>1, DefineRoots
<1> QED
  BY <1>3, <1>4, <1>5

(* A destination is not alive before its instruction, unless it is read there. *)
LEMMA DestinationRoots ==
  ASSUME NEW P \in SUBSET Given, NEW i \in Nat, i # 0, NEW a, Good(a, i, P), ~ a.thrown,
         i \in DOMAIN a.code, a.linked # i, NEW E, Rooted(a, E \cup {a.code[i].rd}),
         ReadsIn(a.code[i], E), a.linked # 0 => Clear(a.code[a.linked]),
         NEW r, r = Destination(a, i)
  PROVE  Rooting(r, i, E)
<1>1. PICK c : c = a.code[i]
  OBVIOUS
<1>2. a \in States /\ c \in Instructions /\ c.rd \in Nat
  BY <1>1, CodeIs DEF Good
<1>3. CASE c.rd = none_reg \/ is_physical(c.rd)
  <2>1. /\ r.linked = a.linked /\ r.link = a.link /\ r.map = a.map
        /\ r.code = a.code /\ r.thrown = a.thrown
    <3>1. r = a \/ r = [a EXCEPT !.avail = @ \cup {c.rd}]
      BY <1>1, <1>3 DEF Destination
    <3> QED
      BY <1>2, <3>1 DEF States
  <2>2. ~ is_virtual(c.rd)
    BY <1>2, <1>3, VirtualIs
  <2>3. a.linked # 0 => is_virtual(a.link)
    BY DEF Good, LinkedFrom
  <2>4. Rooted(a, E)
    BY <1>1, <2>2, <2>3 DEF Rooted
  <2> QED
    BY <2>1, <2>4 DEF Rooting, Rooted
<1>4. CASE ~ (c.rd = none_reg \/ is_physical(c.rd))
  <2>1. PICK b : b = Inline(a, i)
    OBVIOUS
  <2>2. Writing(b, i, E)
    BY <2>1, InlineWriting
  <2>3. /\ Good(b, i, P) /\ i \in DOMAIN b.code /\ b.linked # i /\ ~ is_physical(b.code[i].rd)
    <3>1. ~ is_physical(a.code[i].rd) /\ i # a.linked
      BY <1>1, <1>4
    <3>2. /\ Good(b, i, P) /\ Changes(a.code, b.code, {i, a.linked})
          /\ b.linked \in {0, a.linked} /\ ~ is_physical(b.code[i].rd)
      BY <2>1, <3>1, InlineGood
    <3> QED
      BY <3>2 DEF Changes
  <2>4. r = IF Links(b, i)
            THEN [AllocateLinked(b) EXCEPT !.link = in_reg(b.code[i]), !.linked = i]
            ELSE IF b.linked # 0 /\ b.code[i].rd = b.code[b.linked].rd
            THEN Define(AllocateLinked(b), i)
            ELSE Define(b, i)
    BY <1>1, <1>4, <2>1 DEF Destination
  <2> QED
    BY <2>2, <2>3, <2>4, VirtualRoots
<1> QED
  BY <1>3, <1>4

(* Only operand f of the instruction has become another one. *)
Reading(t, r, i, f) == \A g \in {"rs1", "rs2"} \ {f} : r.code[i][g] = t.code[i][g]

LEMMA UseRoots ==
  ASSUME NEW P \in SUBSET Given, NEW i \in Nat, i # 0, NEW t, Good(t, i, P), i \in DOMAIN t.code,
         NEW E, Rooting(t, i, E), NEW f \in {"rs1", "rs2"}, IsUse(t, i, f),
         NEW r, r = Use(t, i, f), ~ r.thrown
  PROVE  /\ Rooting(r, i, E) /\ is_physical(r.code[i][f]) /\ Reading(t, r, i, f)
         /\ is_dead(r.code[i]) <=> is_dead(t.code[i])
<1>1. PICK w : w = t.code[i][f]
  OBVIOUS
<1>2. t \in States /\ t.avail \in SUBSET (3 .. 31) /\ ~ t.thrown
  <2>1. t \in States /\ t.avail \subseteq P
    BY DEF Good, Pooled
  <2> QED
    BY <2>1, GivenAre DEF Rooting
<1>3. Used(t, r, i, f, w)
  BY <1>1, <1>2, UseIs
<1>4. /\ r.linked = t.linked /\ r.link = t.link
      /\ DOMAIN r.map = DOMAIN t.map \cup {w}
      /\ Changes(t.code, r.code, {i})
      /\ r.code[i].rd = t.code[i].rd /\ r.code[i][f] = r.map[w]
      /\ r.code[i].type = t.code[i].type
      /\ Reading(t, r, i, f)
  BY <1>3 DEF Used, Replaced, Reading
<1>5. is_physical(r.code[i][f])
  <2>1. r.map \in Maps
    BY UseGood DEF Good, States
  <2>2. r.map[w] \in 3 .. 31
    BY <1>4, <2>1, MapsAre
  <2> QED
    BY <1>4, <2>2 DEF is_physical, FUNCTIONAL_BASE
<1>6. t.linked \notin {0, i} => r.code[t.linked] = t.code[t.linked]
  <2>1. t.linked # 0 => t.linked \in DOMAIN t.code
    BY DEF Good, LinkedFrom
  <2> QED
    BY <1>4, <2>1 DEF Changes
<1>7. t.linked # 0 => r.code[r.linked].rd = t.code[t.linked].rd
  BY <1>4, <1>6
<1>8. /\ Rooted(t, E) /\ ReadsIn(t.code[i], E)
      /\ t.linked \notin {0, i} => Clear(t.code[t.linked])
  BY DEF Rooting
<1>9. is_virtual(w) => w \in E
  BY <1>1, <1>8 DEF ReadsIn
<1>10. Rooted(r, E)
  BY <1>4, <1>7, <1>8, <1>9 DEF Rooted
<1>11. ReadsIn(r.code[i], E)
  <2>1. ~ is_virtual(r.code[i][f])
    <3>1. r.code[i] \in Instructions
      <4>1. r \in States /\ i \in DOMAIN r.code
        BY <1>4, UseGood DEF Good, Changes
      <4> QED
        BY <4>1, CodeIs
    <3>2. r.code[i][f] \in Nat
      BY <3>1 DEF Instructions
    <3> QED
      BY <1>5, <3>2, VirtualIs
  <2> QED
    BY <1>4, <1>8, <2>1 DEF ReadsIn, Reading
<1> QED
  BY <1>4, <1>5, <1>6, <1>8, <1>10, <1>11 DEF Rooting, is_dead

(* An operand is one of the registers defined before. *)
LEMMA OperandRoots ==
  ASSUME NEW P \in SUBSET Given, NEW i \in Nat, i # 0, NEW t, Good(t, i, P), i \in DOMAIN t.code,
         NEW E, Rooting(t, i, E), NEW f \in {"rs1", "rs2"},
         NEW r, r = Operand(t, i, f), ~ r.thrown
  PROVE  /\ Rooting(r, i, E) /\ Reading(t, r, i, f)
         /\ is_dead(r.code[i]) <=> is_dead(t.code[i])
         /\ is_dead(r.code[i]) \/ r.code[i][f] = none_reg \/ is_physical(r.code[i][f])
<1>1. CASE ~ IsUse(t, i, f)
  <2>1. r = t
    BY <1>1 DEF Operand
  <2>2. ~ t.thrown
    BY DEF Rooting
  <2> QED
    BY <1>1, <2>1, <2>2 DEF Reading, IsUse
<1>2. CASE /\ IsUse(t, i, f)
           /\ ~ (/\ t.linked \notin {0, i}
                 /\ t.code[i][f] \in {t.link, t.code[t.linked].rd})
  <2>1. r = Use(t, i, f)
    BY <1>2 DEF Operand
  <2> QED
    BY <1>2, <2>1, UseRoots
<1>3. CASE /\ IsUse(t, i, f)
           /\ t.linked \notin {0, i}
           /\ t.code[i][f] \in {t.link, t.code[t.linked].rd}
  <2>1. PICK b : b = AllocateLinked(t)
    OBVIOUS
  <2>2. /\ ~ t.thrown /\ Rooted(t, E) /\ ReadsIn(t.code[i], E)
        /\ t.linked \notin {0, i} => Clear(t.code[t.linked])
    BY DEF Rooting
  <2>3. ~ b.thrown /\ b.linked = 0 /\ Rooted(b, E)
    BY <1>3, <2>1, <2>2, AllocateLinkedRoots
  <2>4. Good(b, i, P) /\ Changes(t.code, b.code, {t.linked})
    BY <2>1, <2>2, AllocateLinkedGood
  <2>5. b.code[i] = t.code[i] /\ i \in DOMAIN b.code
    BY <1>3, <2>4 DEF Changes
  <2>6. Rooting(b, i, E)
    BY <2>2, <2>3, <2>5 DEF Rooting
  <2>7. r = Use(b, i, f)
    BY <1>3, <2>1, <2>3 DEF Operand
  <2>8. IsUse(b, i, f)
    BY <1>3, <2>3, <2>5 DEF IsUse
  <2>9. /\ Rooting(r, i, E) /\ is_physical(r.code[i][f]) /\ Reading(b, r, i, f)
        /\ is_dead(r.code[i]) <=> is_dead(b.code[i])
    BY <2>4, <2>5, <2>6, <2>7, <2>8, UseRoots
  <2> QED
    BY <2>5, <2>9 DEF Reading
<1> QED
  BY <1>1, <1>2, <1>3

(* One instruction of the scan. *)
LEMMA InstructionRoots ==
  ASSUME NEW P \in SUBSET Given, NEW i \in Nat, i # 0, NEW a, Good(a, i + 1, P), ~ a.thrown,
         i \in DOMAIN a.code, P \cap Returned(a.code[i]) = {},
         NEW E, Rooted(a, E \cup {a.code[i].rd}), ReadsIn(a.code[i], E),
         a.linked # 0 => Clear(a.code[a.linked]),
         NEW r, r = allocate_instruction(a, i), ~ r.thrown
  PROVE  Rooted(r, E) /\ (r.linked # 0 => Clear(r.code[r.linked]))
<1>1. Good(a, i, P) /\ a.linked # i
  BY DEF Good, LinkedFrom, States
<1>2. PICK b : b = IF is_control_flow(a.code[i]) THEN AllocateLinked(a) ELSE a
  OBVIOUS
<1>3. PICK c : c = Destination(b, i)
  OBVIOUS
<1>4. PICK d : d = Operand(c, i, "rs1")
  OBVIOUS
<1>5. PICK e : e = Operand(d, i, "rs2")
  OBVIOUS
<1>6. r = KillCopy(e, i)
  BY <1>2, <1>3, <1>4, <1>5 DEF allocate_instruction
<1>7. ~ e.thrown /\ ~ d.thrown
  BY <1>4, <1>5, <1>6, ThrownOn
<1>8. /\ Good(b, i, P) /\ b.code[i] = a.code[i] /\ i \in DOMAIN b.code /\ ~ b.thrown
      /\ b.linked # i /\ Rooted(b, E \cup {b.code[i].rd})
      /\ b.linked # 0 => Clear(b.code[b.linked])
  <2>1. CASE is_control_flow(a.code[i])
    <3>1. b = AllocateLinked(a)
      BY <1>2, <2>1
    <3>2. ~ b.thrown /\ b.linked = 0 /\ Rooted(b, E \cup {a.code[i].rd})
      BY <1>1, <3>1, AllocateLinkedRoots
    <3>3. Good(b, i, P) /\ Changes(a.code, b.code, {a.linked})
      BY <1>1, <3>1, AllocateLinkedGood
    <3>4. b.code[i] = a.code[i] /\ i \in DOMAIN b.code
      BY <1>1, <3>3 DEF Changes
    <3> QED
      BY <3>2, <3>3, <3>4
  <2>2. CASE ~ is_control_flow(a.code[i])
    BY <1>1, <1>2, <2>2
  <2> QED
    BY <2>1, <2>2
<1>9. Rooting(c, i, E)
  BY <1>3, <1>8, DestinationRoots
<1>10. /\ \E Q \in SUBSET (P \cup Returned(a.code[i])) : Good(c, i, Q)
       /\ Changes(b.code, c.code, Beyond(i))
  BY <1>3, <1>8, DestinationGood
<1>11. PICK Q \in SUBSET Given : Good(c, i, Q)
  <2>1. P \cup Returned(a.code[i]) \in SUBSET Given
    BY DEF Returned, Given
  <2> QED
    BY <1>10, <2>1
<1>12. i \in DOMAIN c.code
  BY <1>8, <1>10 DEF Changes
<1>13. Good(d, i, Q) /\ i \in DOMAIN d.code
  BY <1>4, <1>11, <1>12, OperandGood DEF Changes
<1>14. /\ Rooting(d, i, E)
       /\ is_dead(d.code[i]) \/ d.code[i].rs1 = none_reg \/ is_physical(d.code[i].rs1)
  BY <1>4, <1>7, <1>9, <1>11, <1>12, OperandRoots
<1>15. Good(e, i, Q) /\ i \in DOMAIN e.code
  BY <1>5, <1>13, OperandGood DEF Changes
<1>16. /\ Rooting(e, i, E) /\ Reading(d, e, i, "rs2")
       /\ is_dead(e.code[i]) <=> is_dead(d.code[i])
       /\ is_dead(e.code[i]) \/ e.code[i].rs2 = none_reg \/ is_physical(e.code[i].rs2)
  BY <1>5, <1>7, <1>13, <1>14, OperandRoots
<1>17. e.linked = i => Clear(e.code[i]) /\ ~ is_physical(e.code[i].rd)
  <2>1. e.linked = i => is_mv(e.code[i]) /\ ~ is_physical(e.code[i].rd)
    BY <1>15 DEF Good, LinkedFrom
  <2>2. e.linked = i => ~ is_dead(e.code[i])
    BY <2>1 DEF is_mv, is_dead
  <2>3. e.code[i].rs1 = d.code[i].rs1
    BY <1>16 DEF Reading
  <2> QED
    BY <1>14, <1>16, <2>1, <2>2, <2>3 DEF Clear
<1>18. /\ r.map = e.map /\ r.linked = e.linked /\ r.link = e.link
       /\ Changes(e.code, r.code, {i})
       /\ r.code[i] = e.code[i] \/ is_physical(e.code[i].rd)
  BY <1>6, <1>15, KillCopyIs DEF Good
<1>19. r.linked # 0 => r.code[r.linked] = e.code[e.linked]
  <2>1. e.linked # 0 => e.linked \in DOMAIN e.code
    BY <1>15 DEF Good, LinkedFrom
  <2> QED
    BY <1>17, <1>18, <2>1 DEF Changes
<1> QED
  BY <1>16, <1>17, <1>18, <1>19 DEF Rooting, Rooted

(* The virtual registers that the first n instructions define. *)
DefinedIn(c, n) == {v \in Nat : \E d \in 1 .. n : c[d].rd = v /\ ~ is_rd_use(c[d])}

(* What holds when the first n instructions are still to come. *)
Supplied(a, n, src) ==
  /\ Rooted(a, DefinedIn(src, n))
  /\ a.linked # 0 => Clear(a.code[a.linked])

(* The inductive invariant of what is left over, beside AllocInv. *)
RootInv ==
  /\ source \in Seq(Instructions)
  /\ DOMAIN code = DOMAIN source
  /\ \A j \in 1 .. pos : code[j] = source[j]
  /\ ~ thrown /\ ReadsDefined(source) => Supplied(State, pos, source)

(* One step of the scan. *)
LEMMA ScanSupplied ==
  ASSUME NEW src \in Seq(Instructions), ReadsDefined(src), NEW i \in 1 .. Len(src),
         NEW P \in SUBSET Given, NEW a, Good(a, i + 1, P), ~ a.thrown,
         i \in DOMAIN a.code, a.code[i] = src[i], P \cap Returned(a.code[i]) = {},
         Supplied(a, i, src), NEW r, r = allocate_instruction(a, i), ~ r.thrown
  PROVE  Supplied(r, i - 1, src)
<1>1. PICK E : E = DefinedIn(src, i - 1)
  OBVIOUS
<1>2. i \in Nat /\ i # 0 /\ i \in DOMAIN src /\ src[i] \in Instructions
  OBVIOUS
<1>3. DefinedIn(src, i) \subseteq E \cup {src[i].rd}
  <2> SUFFICES ASSUME NEW v \in DefinedIn(src, i), v # src[i].rd PROVE v \in E
    OBVIOUS
  <2>1. PICK d \in 1 .. i : src[d].rd = v /\ ~ is_rd_use(src[d])
    BY DEF DefinedIn
  <2>2. d \in 1 .. i - 1
    BY <2>1
  <2> QED
    BY <1>1, <2>1, <2>2 DEF DefinedIn
<1>4. Rooted(a, E \cup {a.code[i].rd})
  BY <1>3 DEF Supplied, Rooted
<1>5. ReadsIn(a.code[i], E)
  <2> SUFFICES ASSUME NEW f \in {"rs1", "rs2"}, is_virtual(src[i][f]) PROVE src[i][f] \in E
    BY DEF ReadsIn
  <2>1. src[i][f] \in Nat /\ src[i][f] \in {src[i].rs1, src[i].rs2}
    BY <1>2 DEF Instructions
  <2>2. \E d \in 1 .. i - 1 : src[d].rd = src[i][f] /\ ~ is_rd_use(src[d])
    BY <1>2, <2>1 DEF ReadsDefined
  <2> QED
    BY <1>1, <2>1, <2>2 DEF DefinedIn
<1>6. a.linked # 0 => Clear(a.code[a.linked])
  BY DEF Supplied
<1> QED
  BY <1>1, <1>2, <1>4, <1>5, <1>6, InstructionRoots DEF Supplied

LEMMA BeginSupplied ==
  ASSUME NEW c, NEW a, a.map = [f \in Mapped |-> Home(f)], a.linked = 0
  PROVE  Supplied(a, Len(c), c)
<1>1. \A v \in DOMAIN a.map : ~ is_virtual(v)
  BY GivenAre
<1> QED
  BY <1>1 DEF Supplied, Rooted

(* Before the first instruction none is defined. *)
LEMMA RootInvImplies ==
  ASSUME AllocInv, RootInv
  PROVE  NothingLeftOver
<1> SUFFICES ASSUME pos = 0, ~ thrown, ReadsDefined(source)
             PROVE  linked = 0 /\ \A v \in DOMAIN map : is_functional(v)
  BY DEF NothingLeftOver
<1>1. DefinedIn(source, pos) = {}
  BY DEF DefinedIn
<1>2. Supplied(State, pos, source) /\ State.linked = linked /\ State.map = map
  BY DEF RootInv, State
<1>3. linked = 0
  BY <1>1, <1>2 DEF Supplied, Rooted
<1>4. \A v \in DOMAIN map : ~ is_virtual(v)
  BY <1>1, <1>2, <1>3 DEF Supplied, Rooted
<1>5. \A v \in DOMAIN map : ~ is_physical(v) /\ v \in Nat
  <2>1. TypeOK
    BY AllocInvImplies
  <2>2. map \in Maps
    BY DEF AllocInv, PoolInv, Good, States, State
  <2> QED
    BY <2>1, <2>2, MapsAre DEF TypeOK
<1> QED
  BY <1>3, <1>4, <1>5 DEF is_physical, is_functional, is_virtual, FUNCTIONAL_BASE, VIRTUAL_BASE

LEMMA InitRoots ==
  ASSUME Init
  PROVE  RootInv
<1>1. State.map = [f \in Mapped |-> Home(f)] /\ State.linked = 0
  BY DEF Init, State
<1>2. source = <<>> /\ code = <<>> /\ pos = 0 /\ Len(source) = 0
  BY DEF Init
<1>3. Supplied(State, pos, source)
  BY <1>1, <1>2, BeginSupplied
<1> QED
  BY <1>2, <1>3 DEF RootInv

LEMMA BeginRoots ==
  ASSUME NEW c \in Codes, Begin(c)
  PROVE  RootInv'
<1>1. c \in Seq(Instructions) /\ Len(c) \in Nat
  BY CodeAssumption DEF CodeAssumption, Allocatable
<1>2. code' = c /\ source' = c /\ pos' = Len(c)
  BY DEF Begin
<1>3. PICK a : a = State'
  OBVIOUS
<1>4. a.map = [f \in Mapped |-> Home(f)] /\ a.linked = 0
  BY <1>3 DEF Begin, State
<1>5. Supplied(a, Len(c), c)
  BY <1>4, BeginSupplied
<1> QED
  BY <1>1, <1>2, <1>3, <1>5 DEF RootInv

LEMMA AllocateInstructionRoots ==
  ASSUME AllocInv, RootInv, AllocateInstruction
  PROVE  RootInv'
<1>1. PICK a : a = State
  OBVIOUS
<1>2. PICK r : r = allocate_instruction(a, pos)
  OBVIOUS
<1>3. PICK P \in SUBSET Given : PoolInv(a, pos, P)
  BY <1>1 DEF AllocInv
<1>4. /\ Good(a, pos + 1, P) /\ a.code = code /\ ~ a.thrown /\ ~ thrown
      /\ \A j \in 1 .. pos, p \in {A0, A1} : Sets(code[j], p) => p \notin P
  BY <1>1, <1>3 DEF PoolInv, State, AllocateInstruction
<1>5. /\ source \in Seq(Instructions) /\ DOMAIN code = DOMAIN source
      /\ \A j \in 1 .. pos : code[j] = source[j]
      /\ ReadsDefined(source) => Supplied(a, pos, source)
  BY <1>1, <1>4 DEF RootInv
<1>6. code \in Seq(Instructions) /\ pos \in Nat \ {0} /\ pos \in DOMAIN code
  BY <1>4 DEF Good, States, AllocInv, AllocateInstruction
<1>7. PICK i \in 1 .. Len(source) : i = pos
  BY <1>5, <1>6
<1>8. P \cap Returned(a.code[i]) = {}
  BY <1>4, <1>6, <1>7 DEF Returned
<1>9. /\ \E Q \in SUBSET (P \cup Returned(a.code[i])) : Good(r, i, Q)
      /\ Changes(a.code, r.code, Beyond(i))
  BY <1>2, <1>4, <1>6, <1>7, <1>8, InstructionGood
<1>10. r \in States
  BY <1>9 DEF Good
<1>11. State' = r /\ code' = r.code /\ pos' = i - 1 /\ source' = source /\ thrown' = r.thrown
  <2>1. State' = [code |-> r.code, avail |-> r.avail, map |-> r.map,
                  linked |-> r.linked, link |-> r.link, thrown |-> r.thrown]
    BY <1>1, <1>2 DEF AllocateInstruction, State
  <2>2. r = [code |-> r.code, avail |-> r.avail, map |-> r.map,
             linked |-> r.linked, link |-> r.link, thrown |-> r.thrown]
    BY <1>10 DEF States
  <2>3. code' = r.code /\ pos' = i - 1 /\ source' = source /\ thrown' = r.thrown
    BY <1>1, <1>2, <1>7 DEF AllocateInstruction
  <2> QED
    BY <2>1, <2>2, <2>3
<1>12. DOMAIN r.code = DOMAIN source
  BY <1>4, <1>5, <1>9 DEF Changes
<1>13. \A j \in 1 .. i - 1 : r.code[j] = source[j]
  BY <1>4, <1>5, <1>6, <1>7, <1>9 DEF Changes, Beyond
<1>14. ~ r.thrown /\ ReadsDefined(source) => Supplied(r, i - 1, source)
  <2> SUFFICES ASSUME ~ r.thrown, ReadsDefined(source)
               PROVE  Supplied(r, i - 1, source)
    OBVIOUS
  <2>1. Supplied(a, i, source) /\ a.code[i] = source[i] /\ i \in DOMAIN a.code /\ Good(a, i + 1, P)
    BY <1>4, <1>5, <1>6, <1>7
  <2>2. r = allocate_instruction(a, i)
    BY <1>2, <1>7
  <2> QED
    BY <1>4, <1>5, <1>8, <2>1, <2>2, ScanSupplied
<1> QED
  BY <1>5, <1>11, <1>12, <1>13, <1>14 DEF RootInv

LEMMA NextRoots ==
  ASSUME AllocInv, RootInv, [Next]_vars
  PROVE  RootInv'
<1>1. CASE AllocateInstruction
  BY <1>1, AllocateInstructionRoots
<1>2. CASE NextBlock
  BY <1>2, BeginRoots DEF NextBlock
<1>3. CASE UNCHANGED vars
  <2>1. State' = State /\ pos' = pos /\ source' = source /\ code' = code /\ thrown' = thrown
    BY <1>3 DEF vars, State
  <2> QED
    BY <2>1 DEF RootInv
<1> QED
  BY <1>1, <1>2, <1>3 DEF Next

(* When allocate has come to the first instruction of code that writes its
   virtual registers before it reads them, no virtual register has a register
   of the machine any more and no copy waits: no definition was passed over
   when copies were linked, inlined and killed. *)
THEOREM AllocatorLeavesNothing == Spec => []NothingLeftOver
<1>1. Init => AllocInv /\ RootInv
  BY InitInv, InitRoots
<1>2. AllocInv /\ RootInv /\ [Next]_vars => (AllocInv /\ RootInv)'
  BY NextInv, NextRoots
<1>3. AllocInv /\ RootInv => NothingLeftOver
  BY RootInvImplies
<1> QED
  BY <1>1, <1>2, <1>3, PTL DEF Spec
=============================================================================
