--------------------------- MODULE DeadFlagsProofs ----------------------------
(***************************************************************************)
(* The elimination of dead flag writes deletes exactly the dead writes, of *)
(* every chunk, and is not seen by straight-line code, for every set of    *)
(* chunks.  The first half is an invariant of the backward pass, the       *)
(* second one of the run: a flag that lacks its last write is written      *)
(* again before it is read.                                                *)
(***************************************************************************)
EXTENDS DeadFlags, TLAPS

ChunkOK == chunk \in Seq(Packets) /\ \A k \in DOMAIN chunk : ReadsFirst(chunk[k])

\* Actions of packet k after the m-th.
WrittenIn(k, m, f) ==
    k \in DOMAIN chunk /\ \E n \in DOMAIN chunk[k] : m < n /\ chunk[k][n].w = f
ReadIn(k, m, f) ==
    k \in DOMAIN chunk /\ \E n \in DOMAIN chunk[k] : m < n /\ f \in chunk[k][n].r

\* What the visitor knows when it has come down to action j of packet i.
Known(f) ==
    /\ f \in last_se <=> WrittenAfter(i, f) \/ WrittenIn(i, j, f)
    /\ f \in live_flags <=> ReadAfter(i, f) /\ ~WrittenIn(i, j, f)
    /\ f \in new_live_flags <=> ReadIn(i, j, f)

Decided(k, m) ==
    /\ <<k, m>> \in deleted <=> i < k /\ DeadWrite(k, m)
    /\ <<k, m>> \in delete <=> i = k /\ j < m /\ DeadWrite(k, m)

PassInv ==
    phase = "pass" =>
      /\ i \in 0 .. Len(chunk) /\ j \in 0 .. Length(i)
      /\ \A f \in Flags : Known(f)
      /\ \A k \in DOMAIN chunk : \A m \in DOMAIN chunk[k] : Decided(k, m)
      /\ behind = {}

\* The instruction at hand has fetched f for a register or for memory.
Held(f) ==
    \E l \in DOMAIN chunk[i] : l < j /\ chunk[i][l].w = None /\ f \in chunk[i][l].r

\* A flag that lacks its last write is written again before it is fetched.
Awaits(f) ==
    /\ \A n \in DOMAIN chunk[i] : j <= n /\ f \in chunk[i][n].r => Held(f)
    /\ \/ \E n \in DOMAIN chunk[i] : j <= n /\ chunk[i][n].w = f
       \/ WrittenAfter(i, f) /\ ~ReadAfter(i, f)

RunInv ==
    phase = "run" =>
      /\ i \in 1 .. Len(chunk) + 1 /\ j \in 1 .. Length(i) + 1
      /\ i <= Len(chunk) => \A f \in behind : Awaits(f)
      /\ i > Len(chunk) => behind = {}

Between ==
    /\ phase # "pass" => new_live_flags = {} /\ delete = {}
    /\ phase = "idle" => behind = {}
    /\ phase # "idle" => chunk \in Chunks

DeletesExactly ==
    phase = "run" =>
      \A k \in DOMAIN chunk : \A m \in DOMAIN chunk[k] : <<k, m>> \in deleted <=> DeadWrite(k, m)

PassFacts == TypeOK /\ ChunkOK /\ PassInv /\ Between /\ DeletesExactly
FlagsInv == PassFacts /\ RunInv

-------------------------------------------------------------------------------
(* Facts about chunks. *)

LEMMA ChunkFacts ==
    ASSUME ChunkOK
    PROVE  /\ Len(chunk) \in Nat /\ DOMAIN chunk = 1 .. Len(chunk)
           /\ \A k \in DOMAIN chunk :
                /\ Len(chunk[k]) \in Nat /\ DOMAIN chunk[k] = 1 .. Len(chunk[k])
                /\ \A m \in DOMAIN chunk[k] :
                     chunk[k][m].w \in Flags \cup {None} /\ chunk[k][m].r \subseteq Flags
<1>1. Len(chunk) \in Nat /\ DOMAIN chunk = 1 .. Len(chunk)
  BY DEF ChunkOK
<1>2. ASSUME NEW k \in DOMAIN chunk
      PROVE  /\ Len(chunk[k]) \in Nat /\ DOMAIN chunk[k] = 1 .. Len(chunk[k])
             /\ \A m \in DOMAIN chunk[k] :
                  chunk[k][m].w \in Flags \cup {None} /\ chunk[k][m].r \subseteq Flags
  <2>1. chunk[k] \in Seq(Actions)
    BY DEF ChunkOK, Packets
  <2>2. \A m \in DOMAIN chunk[k] : chunk[k][m] \in Actions
    BY <2>1
  <2> QED  BY <2>1, <2>2 DEF Actions
<1> QED  BY <1>1, <1>2

\* What is live before a packet: what it reads, and what is live after it
\* unless it writes it.
LEMMA BeforePacket ==
    ASSUME ChunkOK, NEW k \in DOMAIN chunk, NEW f
    PROVE  /\ ReadAfter(k - 1, f) <=> Reads(k, f) \/ (ReadAfter(k, f) /\ ~Writes(k, f))
           /\ WrittenAfter(k - 1, f) <=> Writes(k, f) \/ WrittenAfter(k, f)
<1>1. DOMAIN chunk = 1 .. Len(chunk) /\ Len(chunk) \in Nat
  BY ChunkFacts
<1>2. WrittenAfter(k - 1, f) <=> Writes(k, f) \/ WrittenAfter(k, f)
  BY <1>1 DEF WrittenAfter
<1>3. ReadAfter(k - 1, f) => Reads(k, f) \/ (ReadAfter(k, f) /\ ~Writes(k, f))
  BY <1>1 DEF ReadAfter
<1>4. Reads(k, f) => ReadAfter(k - 1, f)
  BY <1>1 DEF ReadAfter
<1>5. ReadAfter(k, f) /\ ~Writes(k, f) => ReadAfter(k - 1, f)
  BY <1>1 DEF ReadAfter
<1> QED  BY <1>2, <1>3, <1>4, <1>5

LEMMA AtTheEnds ==
    ASSUME ChunkOK, NEW f
    PROVE  /\ ~ReadAfter(Len(chunk), f) /\ ~WrittenAfter(Len(chunk), f)
           /\ \A k \in DOMAIN chunk :
                ~WrittenIn(k, Len(chunk[k]), f) /\ ~ReadIn(k, Len(chunk[k]), f)
           /\ \A m : ~WrittenIn(0, m, f) /\ ~ReadIn(0, m, f)
<1>1. ~ReadAfter(Len(chunk), f) /\ ~WrittenAfter(Len(chunk), f)
  BY ChunkFacts DEF ReadAfter, WrittenAfter
<1>2. \A k \in DOMAIN chunk : ~WrittenIn(k, Len(chunk[k]), f) /\ ~ReadIn(k, Len(chunk[k]), f)
  BY ChunkFacts DEF WrittenIn, ReadIn
<1>3. 0 \notin DOMAIN chunk
  BY ChunkFacts
<1> QED  BY <1>1, <1>2, <1>3 DEF WrittenIn, ReadIn

-------------------------------------------------------------------------------
(* The backward pass. *)

LEMMA FlagsInit == Init => FlagsInv
  BY DEF Init, FlagsInv, PassFacts, TypeOK, ChunkOK, PassInv, RunInv, Between, DeletesExactly,
         Packets, Positions

LEMMA FlagsVisitChunk ==
    ASSUME FlagsInv, VisitChunk
    PROVE  FlagsInv'
<1>1. PICK c \in Chunks : /\ chunk' = c /\ i' = Len(c)
                          /\ j' = IF c = << >> THEN 0 ELSE Len(c[Len(c)])
  BY DEF VisitChunk
<1>2. ChunkOK'
  BY <1>1, ChunksAssumption DEF ChunkOK
<1>3. /\ Len(c) \in Nat /\ DOMAIN c = 1 .. Len(c) /\ c = << >> <=> Len(c) = 0
      /\ \A k \in DOMAIN c : Len(c[k]) \in Nat /\ DOMAIN c[k] = 1 .. Len(c[k])
  BY ChunksAssumption DEF Packets
<1>4. /\ phase = "idle" /\ phase' = "pass" /\ behind' = behind
      /\ last_se' = {} /\ live_flags' = {} /\ deleted' = {}
      /\ new_live_flags' = new_live_flags /\ delete' = delete
  BY DEF VisitChunk
<1>5. behind = {} /\ new_live_flags = {} /\ delete = {}
  BY <1>4 DEF FlagsInv, PassFacts, Between
<1>6. i' \in 0 .. Len(chunk') /\ j' = Length(i)' /\ j' \in Nat
  BY <1>1, <1>3 DEF Length
<1>7. TypeOK'
  BY <1>2, <1>4, <1>5, <1>6 DEF TypeOK, ChunkOK
<1>8. ASSUME NEW f \in Flags PROVE Known(f)'
  <2>1. ~WrittenAfter(i, f)' /\ ~ReadAfter(i, f)'
    BY <1>1, <1>3 DEF WrittenAfter, ReadAfter
  <2>2. ~WrittenIn(i, j, f)' /\ ~ReadIn(i, j, f)'
    BY <1>1, <1>3 DEF WrittenIn, ReadIn
  <2> QED  BY <1>4, <1>5, <2>1, <2>2 DEF Known
<1>9. ASSUME NEW k \in DOMAIN chunk', NEW m \in DOMAIN (chunk'[k]) PROVE Decided(k, m)'
  <2>1. ~(i' < k) /\ ~(i' = k /\ j' < m)
    BY <1>1, <1>3
  <2> QED  BY <1>4, <1>5, <2>1 DEF Decided
<1>10. PassInv'
  BY <1>4, <1>5, <1>6, <1>8, <1>9 DEF PassInv
<1> QED  BY <1>1, <1>2, <1>4, <1>7, <1>10 DEF FlagsInv, PassFacts, RunInv, Between, DeletesExactly

\* One action: the flag it writes is not live before it, and it is deleted
\* exactly when it is dead.
LEMMA FlagsVisitAction ==
    ASSUME FlagsInv, VisitAction
    PROVE  FlagsInv'
<1>1. /\ phase = "pass" /\ i > 0 /\ j > 0 /\ j' = j - 1
      /\ UNCHANGED <<chunk, phase, i, deleted, behind>>
  BY DEF VisitAction
<1>2. /\ i \in DOMAIN chunk /\ j \in DOMAIN chunk[i] /\ i \in Nat /\ j \in Nat
      /\ j' \in 0 .. Length(i)
      /\ \A n \in DOMAIN chunk[i] : n \in Nat
      /\ Current.w \in Flags \cup {None} /\ Current.r \subseteq Flags
  BY <1>1, ChunkFacts DEF FlagsInv, PassFacts, PassInv, Length, Current
<1>3. /\ ChunkOK' /\ PassFacts
      /\ \A f : WrittenAfter(i, f)' = WrittenAfter(i, f)
      /\ \A f : ReadAfter(i, f)' = ReadAfter(i, f)
      /\ \A k, m : DeadWrite(k, m)' = DeadWrite(k, m)
  BY <1>1 DEF FlagsInv, PassFacts, ChunkOK, WrittenAfter, ReadAfter, DeadWrite, RewrittenInPacket, Writes, Reads
<1>4. \A f : Known(f) <=>
        /\ f \in last_se <=> WrittenAfter(i, f) \/ WrittenIn(i, j, f)
        /\ f \in live_flags <=> ReadAfter(i, f) /\ ~WrittenIn(i, j, f)
        /\ f \in new_live_flags <=> ReadIn(i, j, f)
  BY DEF Known
<1>5. \A f : /\ WrittenIn(i, j, f)' <=> WrittenIn(i, j, f) \/ Current.w = f
             /\ ReadIn(i, j, f)' <=> ReadIn(i, j, f) \/ f \in Current.r
  <2>1. TAKE f
  <2>2. WrittenIn(i, j, f)' <=> WrittenIn(i, j, f) \/ Current.w = f
    BY <1>1, <1>2 DEF WrittenIn, Current
  <2>3. ReadIn(i, j, f)' <=> ReadIn(i, j, f) \/ f \in Current.r
    BY <1>1, <1>2 DEF ReadIn, Current
  <2> QED  BY <2>2, <2>3
<1>6. \A f \in Flags : Known(f)
  BY <1>1, <1>3 DEF PassFacts, PassInv
<1>7. ASSUME NEW f \in Flags PROVE Known(f)'
  <2>1. f \in last_se' <=> f \in last_se \/ Current.w = f
    BY FlagsAssumption DEF VisitAction
  <2>2. f \in live_flags' <=> f \in live_flags /\ Current.w # f
    BY DEF VisitAction
  <2>3. f \in new_live_flags' <=> f \in new_live_flags \/ f \in Current.r
    BY DEF VisitAction
  <2>4. Known(f)
    BY <1>6
  <2> QED  BY <1>1, <1>3, <1>5, <2>1, <2>2, <2>3, <2>4 DEF Known
<1>8. <<i, j>> \in delete' <=> DeadWrite(i, j)
  <2>1. <<i, j>> \notin delete
    BY <1>1, <1>2, <1>3 DEF PassFacts, PassInv, Decided
  <2>2. DeadWrite(i, j) <=> Current.w \in Flags /\ ~KeepsWrite(Current.w)
    <3>1. CASE Current.w \in Flags
      <4>1. Known(Current.w)
        BY <1>6, <3>1
      <4>2. RewrittenInPacket(i, j) <=> WrittenIn(i, j, Current.w)
        BY <1>2 DEF RewrittenInPacket, WrittenIn, Current
      <4> QED  BY <3>1, <4>1, <4>2 DEF Known, KeepsWrite, DeadWrite, Current
    <3> QED  BY <3>1 DEF DeadWrite, Current
  <2> QED  BY <2>1, <2>2 DEF VisitAction
<1>9. ASSUME NEW k \in DOMAIN chunk', NEW m \in DOMAIN (chunk'[k]) PROVE Decided(k, m)'
  <2>1. Decided(k, m) /\ k \in Nat /\ m \in Nat
    BY <1>1, <1>3, ChunkFacts DEF PassFacts, PassInv
  <2>2. CASE k = i /\ m = j
    BY <1>1, <1>2, <1>3, <1>8, <2>1, <2>2 DEF Decided
  <2>3. CASE ~(k = i /\ m = j)
    <3>1. <<k, m>> \in delete' <=> <<k, m>> \in delete
      BY <2>3 DEF VisitAction
    <3>2. i' = k /\ j' < m <=> i = k /\ j < m
      BY <1>1, <1>2, <2>1, <2>3
    <3> QED  BY <1>1, <1>3, <2>1, <3>1, <3>2 DEF Decided
  <2> QED  BY <2>2, <2>3
<1>10. PassInv'
  <2>1. i' \in 0 .. Len(chunk') /\ j' \in 0 .. Length(i)'
    BY <1>1, <1>2, <1>3 DEF PassFacts, PassInv, Length
  <2>2. behind' = {}
    BY <1>1, <1>3 DEF PassFacts, PassInv
  <2> QED  BY <1>7, <1>9, <2>1, <2>2 DEF PassInv
<1>11. TypeOK'
  <2>1. last_se' \subseteq Flags /\ live_flags' \subseteq Flags /\ new_live_flags' \subseteq Flags
    BY <1>2, <1>3 DEF VisitAction, PassFacts, TypeOK
  <2>2. <<i, j>> \in Positions
    BY <1>2 DEF Positions
  <2>3. delete' \subseteq Positions'
    BY <1>1, <1>3, <2>2 DEF VisitAction, PassFacts, TypeOK, Positions
  <2> QED  BY <1>1, <1>2, <1>3, <2>1, <2>3 DEF PassFacts, TypeOK, Positions, Length
<1> QED  BY <1>1, <1>3, <1>10, <1>11 DEF FlagsInv, PassFacts, RunInv, Between, DeletesExactly

\* The reads of a packet become live before it, whatever it writes.
LEMMA FlagsLeavePacket ==
    ASSUME FlagsInv, LeavePacket
    PROVE  FlagsInv'
<1>1. /\ phase = "pass" /\ i > 0 /\ j = 0 /\ i' = i - 1 /\ j' = Length(i - 1)
      /\ UNCHANGED <<chunk, phase, last_se, behind>>
      /\ deleted' = deleted \cup delete /\ delete' = {}
      /\ live_flags' = live_flags \cup new_live_flags /\ new_live_flags' = {}
  BY DEF LeavePacket
<1>2. ChunkOK /\ PassFacts /\ ChunkOK'
  BY <1>1 DEF FlagsInv, PassFacts, ChunkOK
<1>3. /\ i \in DOMAIN chunk /\ i \in Nat /\ i' \in 0 .. Len(chunk)
      /\ j' \in Nat /\ j' = Length(i)' /\ Len(chunk) \in Nat
  BY <1>1, <1>2, ChunkFacts DEF PassFacts, PassInv, Length
<1>4. /\ \A f, k : WrittenAfter(k, f)' = WrittenAfter(k, f)
      /\ \A f, k : ReadAfter(k, f)' = ReadAfter(k, f)
      /\ \A k, m : DeadWrite(k, m)' = DeadWrite(k, m)
  BY <1>1 DEF WrittenAfter, ReadAfter, DeadWrite, RewrittenInPacket, Writes, Reads
<1>5. ASSUME NEW f \in Flags PROVE Known(f)'
  <2>1. Known(f) /\ (WrittenIn(i, j, f) <=> Writes(i, f)) /\ (ReadIn(i, j, f) <=> Reads(i, f))
    BY <1>1, <1>2, <1>3, ChunkFacts DEF PassFacts, PassInv, WrittenIn, ReadIn, Writes, Reads
  <2>2. ~WrittenIn(i, j, f)' /\ ~ReadIn(i, j, f)'
    BY <1>1, <1>2, <1>3, ChunkFacts DEF WrittenIn, ReadIn, Length
  <2>3. /\ ReadAfter(i - 1, f) <=> Reads(i, f) \/ (ReadAfter(i, f) /\ ~Writes(i, f))
        /\ WrittenAfter(i - 1, f) <=> Writes(i, f) \/ WrittenAfter(i, f)
    BY <1>2, <1>3, BeforePacket
  <2>4. ReadAfter(i, f)' = ReadAfter(i - 1, f) /\ WrittenAfter(i, f)' = WrittenAfter(i - 1, f)
    BY <1>1 DEF ReadAfter, WrittenAfter, Reads, Writes
  <2> QED  BY <1>1, <2>1, <2>2, <2>3, <2>4 DEF Known
<1>6. ASSUME NEW k \in DOMAIN chunk', NEW m \in DOMAIN (chunk'[k]) PROVE Decided(k, m)'
  <2>1. Decided(k, m) /\ k \in Nat /\ m \in Nat /\ 0 < m /\ m <= Len(chunk[k])
    BY <1>1, <1>2, ChunkFacts DEF PassFacts, PassInv
  <2>2. i' < k <=> i < k \/ i = k
    BY <1>1, <1>3, <2>1
  <2>3. ~(i' = k /\ j' < m)
    BY <1>1, <1>3, <2>1 DEF Length
  <2> QED  BY <1>1, <1>4, <2>1, <2>2, <2>3 DEF Decided
<1>7. PassInv'
  <2>1. j' \in 0 .. Length(i)' /\ behind' = {}
    BY <1>1, <1>2, <1>3 DEF PassFacts, PassInv
  <2> QED  BY <1>1, <1>3, <1>5, <1>6, <2>1 DEF PassInv
<1>8. TypeOK'
  <2>1. Positions' = Positions
    BY <1>1 DEF Positions
  <2> QED  BY <1>1, <1>2, <1>3, <2>1 DEF PassFacts, TypeOK
<1> QED  BY <1>1, <1>2, <1>7, <1>8 DEF FlagsInv, PassFacts, RunInv, Between, DeletesExactly

LEMMA FlagsRun ==
    ASSUME FlagsInv, Run
    PROVE  FlagsInv'
<1>1. /\ phase = "pass" /\ i = 0 /\ phase' = "run" /\ i' = 1 /\ j' = 1
      /\ UNCHANGED <<chunk, pass, behind>>
  BY DEF Run
<1>2. ChunkOK /\ PassFacts /\ ChunkOK' /\ behind = {}
  BY <1>1 DEF FlagsInv, PassFacts, PassInv, ChunkOK
<1>3. ASSUME NEW k \in DOMAIN chunk, NEW m \in DOMAIN chunk[k]
      PROVE  <<k, m>> \in deleted <=> DeadWrite(k, m)
  BY <1>1, <1>2, ChunkFacts DEF PassFacts, PassInv, Decided
<1>4. DeletesExactly'
  <2>1. \A k, m : DeadWrite(k, m)' = DeadWrite(k, m)
    BY <1>1 DEF WrittenAfter, ReadAfter, DeadWrite, RewrittenInPacket, Writes, Reads
  <2> QED  BY <1>1, <1>3, <2>1 DEF DeletesExactly, pass
<1>5. 1 \in 1 .. Len(chunk) + 1 /\ 1 \in 1 .. Length(1) + 1
  BY <1>2, ChunkFacts DEF Length
<1>6. RunInv' /\ PassInv'
  BY <1>1, <1>2, <1>5 DEF RunInv, PassInv, Length
<1>7. new_live_flags' = {} /\ delete' = {}
  <2>1. ASSUME NEW f \in new_live_flags PROVE FALSE
    <3>1. f \in Flags /\ Known(f)
      BY <1>1, <1>2 DEF PassFacts, PassInv, TypeOK
    <3> QED  BY <1>1, <1>2, <3>1, AtTheEnds DEF Known
  <2>2. ASSUME NEW p \in delete PROVE FALSE
    <3>1. PICK k \in DOMAIN chunk : p \in {k} \X DOMAIN chunk[k]
      BY <1>2 DEF PassFacts, TypeOK, Positions
    <3>2. PICK m \in DOMAIN chunk[k] : p = <<k, m>>
      BY <3>1
    <3>3. Decided(k, m)
      BY <1>1, <1>2 DEF PassFacts, PassInv
    <3> QED  BY <1>1, <1>2, <3>2, <3>3, ChunkFacts DEF Decided
  <2> QED  BY <1>1, <2>1, <2>2 DEF pass
<1>8. TypeOK'
  BY <1>1, <1>2 DEF PassFacts, TypeOK, Positions, pass
<1> QED  BY <1>1, <1>2, <1>4, <1>6, <1>7, <1>8 DEF FlagsInv, PassFacts, Between

-------------------------------------------------------------------------------
(* The run. *)

\* A write that is left out is followed by another one before any read.
LEMMA FlagsStep ==
    ASSUME FlagsInv, Step
    PROVE  FlagsInv'
<1>1. /\ phase = "run" /\ i <= Len(chunk) /\ j <= Length(i) /\ j' = j + 1
      /\ UNCHANGED <<chunk, phase, i, pass>>
      /\ behind' = IF <<i, j>> \in deleted THEN behind \cup {Current.w} ELSE behind \ {Current.w}
  BY DEF Step
<1>2. /\ ChunkOK /\ PassFacts /\ ChunkOK'
      /\ i \in DOMAIN chunk /\ j \in DOMAIN chunk[i] /\ i \in Nat /\ j \in Nat
      /\ \A n \in DOMAIN chunk[i] : n \in Nat
  BY <1>1, ChunkFacts DEF FlagsInv, PassFacts, ChunkOK, RunInv, Length
<1>3. /\ \A f : WrittenAfter(i, f)' = WrittenAfter(i, f)
      /\ \A f : ReadAfter(i, f)' = ReadAfter(i, f)
      /\ \A k, m : DeadWrite(k, m)' = DeadWrite(k, m)
  BY <1>1 DEF WrittenAfter, ReadAfter, DeadWrite, RewrittenInPacket, Writes, Reads
<1>4. <<i, j>> \in deleted <=> DeadWrite(i, j)
  BY <1>1, <1>2 DEF PassFacts, DeletesExactly
<1>5. ASSUME NEW f \in behind' PROVE Awaits(f)'
  <2>1. CASE f = Current.w
    <3>1. DeadWrite(i, j) /\ chunk[i][j].w = f
      BY <1>1, <1>4, <2>1 DEF Current
    <3>2. ASSUME NEW n \in DOMAIN chunk[i], j + 1 <= n, f \in chunk[i][n].r PROVE Held(f)'
      <4>1. PICK l \in DOMAIN chunk[i] : l < j /\ chunk[i][l].w = None /\ f \in chunk[i][l].r
        BY <1>2, <3>1, <3>2 DEF ChunkOK, ReadsFirst
      <4> QED  BY <1>1, <1>2, <4>1 DEF Held
    <3>3. \/ \E n \in DOMAIN chunk[i] : j + 1 <= n /\ chunk[i][n].w = f
          \/ WrittenAfter(i, f) /\ ~ReadAfter(i, f)
      BY <1>2, <3>1 DEF DeadWrite, RewrittenInPacket
    <3> QED  BY <1>1, <1>3, <3>2, <3>3 DEF Awaits
  <2>2. CASE f # Current.w
    <3>1. f \in behind /\ Awaits(f)
      BY <1>1, <2>2 DEF FlagsInv, RunInv
    <3>2. ASSUME NEW n \in DOMAIN chunk[i], j + 1 <= n, f \in chunk[i][n].r PROVE Held(f)'
      <4>1. Held(f)
        BY <1>2, <3>1, <3>2 DEF Awaits
      <4> QED  BY <1>1, <1>2, <4>1 DEF Held
    <3>3. \/ \E n \in DOMAIN chunk[i] : j + 1 <= n /\ chunk[i][n].w = f
          \/ WrittenAfter(i, f) /\ ~ReadAfter(i, f)
      BY <1>2, <2>2, <3>1 DEF Awaits, Current
    <3> QED  BY <1>1, <1>3, <3>2, <3>3 DEF Awaits
  <2> QED  BY <2>1, <2>2
<1>6. RunInv'
  <2>1. i' \in 1 .. Len(chunk') + 1 /\ j' \in 1 .. Length(i)' + 1
    BY <1>1, <1>2, ChunkFacts DEF Length, FlagsInv, RunInv
  <2>2. ~(i' > Len(chunk'))
    BY <1>1, <1>2, ChunkFacts
  <2> QED  BY <1>1, <1>5, <2>1, <2>2 DEF RunInv
<1>7. TypeOK'
  <2>1. <<i, j>> \in deleted => Current.w \in Flags
    BY <1>4 DEF DeadWrite, Current
  <2> QED  BY <1>1, <1>2, <2>1 DEF PassFacts, TypeOK, Positions, pass
<1>8. PassInv' /\ Between' /\ DeletesExactly'
  BY <1>1, <1>2, <1>3 DEF PassFacts, PassInv, Between, DeletesExactly, pass
<1> QED  BY <1>2, <1>6, <1>7, <1>8 DEF FlagsInv, PassFacts

\* Between packets: what is awaited is written by a later packet, and no
\* packet up to that one reads it.
LEMMA FlagsNextPacket ==
    ASSUME FlagsInv, NextPacket, StraightLine
    PROVE  FlagsInv'
<1>1. /\ phase = "run" /\ i <= Len(chunk) /\ j > Length(i) /\ j' = 1
      /\ UNCHANGED <<chunk, phase, pass, behind>>
  BY DEF NextPacket
<1>2. /\ ChunkOK /\ PassFacts /\ ChunkOK' /\ Len(chunk) \in Nat
      /\ i \in DOMAIN chunk /\ i \in Nat /\ j \in Nat
      /\ Length(i) = Len(chunk[i]) /\ Len(chunk[i]) \in Nat
      /\ DOMAIN chunk[i] = 1 .. Len(chunk[i])
      /\ \A k : k \in DOMAIN chunk <=> k \in 1 .. Len(chunk)
  BY <1>1, ChunkFacts DEF FlagsInv, PassFacts, ChunkOK, RunInv, Length
<1>3. i' = i + 1
  BY <1>1, <1>2 DEF NextPacket, StraightLine, PassFacts, Between
<1>4. ASSUME NEW f \in behind PROVE WrittenAfter(i, f) /\ ~ReadAfter(i, f)
  <2>1. Awaits(f)
    BY <1>1 DEF FlagsInv, RunInv
  <2> QED  BY <1>1, <1>2, <2>1 DEF Awaits
<1>5. ASSUME i' <= Len(chunk), NEW f \in behind PROVE Awaits(f)'
  <2>1. i + 1 \in DOMAIN chunk /\ (i + 1) - 1 = i
    BY <1>2, <1>3, <1>5
  <2>2. /\ ReadAfter(i, f) <=> Reads(i + 1, f) \/ (ReadAfter(i + 1, f) /\ ~Writes(i + 1, f))
        /\ WrittenAfter(i, f) <=> Writes(i + 1, f) \/ WrittenAfter(i + 1, f)
    BY <1>2, <2>1, BeforePacket
  <2>3. ~Reads(i + 1, f) /\ (Writes(i + 1, f) \/ (WrittenAfter(i + 1, f) /\ ~ReadAfter(i + 1, f)))
    BY <1>4, <1>5, <2>2
  <2>4. DOMAIN chunk[i + 1] = 1 .. Len(chunk[i + 1])
    BY <1>2, <2>1, ChunkFacts
  <2>5. \A n \in DOMAIN chunk[i + 1] : f \notin chunk[i + 1][n].r
    BY <2>3 DEF Reads
  <2>6. \/ \E n \in DOMAIN chunk[i + 1] : 1 <= n /\ chunk[i + 1][n].w = f
        \/ WrittenAfter(i + 1, f) /\ ~ReadAfter(i + 1, f)
    BY <2>3, <2>4 DEF Writes
  <2>7. WrittenAfter(i, f)' = WrittenAfter(i + 1, f) /\ ReadAfter(i, f)' = ReadAfter(i + 1, f)
    BY <1>1, <1>3 DEF WrittenAfter, ReadAfter, Writes, Reads
  <2> QED  BY <1>1, <1>3, <2>5, <2>6, <2>7 DEF Awaits
<1>6. ASSUME i' > Len(chunk), NEW f \in behind PROVE FALSE
  <2>1. i = Len(chunk)
    BY <1>1, <1>2, <1>3, <1>6
  <2>2. ~WrittenAfter(Len(chunk), f)
    BY <1>2, AtTheEnds
  <2> QED  BY <1>4, <1>6, <2>1, <2>2
<1>7. RunInv'
  <2>1. i' \in 1 .. Len(chunk') + 1 /\ j' \in 1 .. Length(i)' + 1
    BY <1>1, <1>2, <1>3, ChunkFacts DEF Length
  <2> QED  BY <1>1, <1>5, <1>6, <2>1 DEF RunInv
<1>8. TypeOK'
  BY <1>1, <1>2, <1>3 DEF PassFacts, TypeOK, Positions, pass
<1>9. \A k, m : DeadWrite(k, m)' = DeadWrite(k, m)
  BY <1>1 DEF WrittenAfter, ReadAfter, DeadWrite, RewrittenInPacket, Writes, Reads
<1>10. PassInv' /\ Between' /\ DeletesExactly'
  BY <1>1, <1>2, <1>9 DEF PassFacts, PassInv, Between, DeletesExactly, pass
<1> QED  BY <1>2, <1>7, <1>8, <1>10 DEF FlagsInv, PassFacts

LEMMA FlagsLeave ==
    ASSUME FlagsInv, Leave
    PROVE  FlagsInv'
<1>1. /\ phase = "run" /\ i > Len(chunk) /\ phase' = "idle" /\ chunk' = << >> /\ deleted' = {}
      /\ i' = 0 /\ j' = 0 /\ UNCHANGED <<last_se, live_flags, new_live_flags, delete, behind>>
  BY DEF Leave
<1>2. PassFacts /\ behind = {} /\ new_live_flags = {} /\ delete = {}
  BY <1>1 DEF FlagsInv, PassFacts, RunInv, Between
<1>3. ChunkOK' /\ TypeOK'
  BY <1>1, <1>2 DEF PassFacts, ChunkOK, TypeOK, Packets
<1> QED
  BY <1>1, <1>2, <1>3 DEF FlagsInv, PassFacts, PassInv, RunInv, Between, DeletesExactly

LEMMA FlagsStutter ==
    ASSUME FlagsInv, UNCHANGED vars
    PROVE  FlagsInv'
<1>1. UNCHANGED <<chunk, phase, i, j, last_se, live_flags, new_live_flags, delete, deleted, behind>>
  BY DEF vars, pass
<1>2. /\ \A k, f : WrittenAfter(k, f)' = WrittenAfter(k, f) /\ ReadAfter(k, f)' = ReadAfter(k, f)
      /\ \A k, m : DeadWrite(k, m)' = DeadWrite(k, m)
  BY <1>1 DEF WrittenAfter, ReadAfter, DeadWrite, RewrittenInPacket, Writes, Reads
<1>3. \A f : Known(f)' <=> Known(f)
  BY <1>1, <1>2 DEF Known, WrittenIn, ReadIn, WrittenAfter, ReadAfter
<1>4. \A k, m : Decided(k, m)' <=> Decided(k, m)
  BY <1>1, <1>2 DEF Decided
<1>5. PassInv'
  BY <1>1, <1>3, <1>4 DEF FlagsInv, PassFacts, PassInv, Length
<1>6. \A f : Awaits(f)' <=> Awaits(f)
  BY <1>1, <1>2 DEF Awaits, Held, WrittenAfter, ReadAfter
<1>7. RunInv'
  BY <1>1, <1>6 DEF FlagsInv, RunInv, Length
<1>8. TypeOK' /\ ChunkOK' /\ Between'
  BY <1>1 DEF FlagsInv, PassFacts, TypeOK, ChunkOK, Between, Positions
<1>9. DeletesExactly'
  BY <1>1, <1>2 DEF FlagsInv, PassFacts, DeletesExactly
<1> QED  BY <1>5, <1>7, <1>8, <1>9 DEF FlagsInv, PassFacts

-------------------------------------------------------------------------------
(* The theorems. *)

\* The invariant of the pass and of the run, for straight-line chunks.
THEOREM DeadFlagsInvariant ==
    ASSUME StraightLine
    PROVE  Spec => []FlagsInv
<1>1. FlagsInv /\ [Next]_vars => FlagsInv'
  BY FlagsVisitChunk, FlagsVisitAction, FlagsLeavePacket, FlagsRun, FlagsStep, FlagsNextPacket,
     FlagsLeave, FlagsStutter DEF Next
<1> QED  BY <1>1, FlagsInit, PTL DEF Spec

\* The types of the visitor's state.
THEOREM FlagsTypeCorrect ==
    ASSUME StraightLine
    PROVE  Spec => []TypeOK
<1>1. FlagsInv => TypeOK
  BY DEF FlagsInv, PassFacts
<1> QED  BY <1>1, DeadFlagsInvariant, PTL

\* The pass deletes a flag write if and only if the flag is written again
\* in the chunk before it is read (opt.h 124-146).
THEOREM PassIsExact ==
    ASSUME StraightLine
    PROVE  Spec => []DeletesDeadWrites
<1>1. FlagsInv => DeletesDeadWrites
  <2> SUFFICES ASSUME FlagsInv, phase = "run"
               PROVE  deleted = {p \in Positions : DeadWrite(p[1], p[2])}
    BY DEF DeletesDeadWrites
  <2>1. deleted \subseteq Positions
    BY DEF FlagsInv, PassFacts, TypeOK
  <2>2. ASSUME NEW p \in Positions PROVE p \in deleted <=> DeadWrite(p[1], p[2])
    <3>1. PICK k \in DOMAIN chunk : p \in {k} \X DOMAIN chunk[k]
      BY DEF Positions
    <3>2. PICK m \in DOMAIN chunk[k] : p = <<k, m>>
      BY <3>1
    <3>3. p[1] = k /\ p[2] = m
      BY <3>2
    <3> QED  BY <3>2, <3>3 DEF FlagsInv, PassFacts, DeletesExactly
  <2> QED  BY <2>1, <2>2
<1> QED  BY <1>1, DeadFlagsInvariant, PTL

\* Code without the dead writes reads the flags that the code with them
\* reads, and leaves every chunk with the same flags (opt.h 126-145).
THEOREM EliminationUnseen ==
    ASSUME StraightLine
    PROVE  Spec => []FlagsAgree
<1>1. FlagsInv => FlagsAgree
  <2> SUFFICES ASSUME FlagsInv, phase = "run"
               PROVE  /\ i \in DOMAIN chunk /\ j \in DOMAIN chunk[i] =>
                           \A f \in chunk[i][j].r \cap behind : Fetched(f)
                      /\ i > Len(chunk) => behind = {}
    BY DEF FlagsAgree
  <2>1. ASSUME i \in DOMAIN chunk, j \in DOMAIN chunk[i], NEW f \in chunk[i][j].r \cap behind
        PROVE  Fetched(f)
    <3>1. i <= Len(chunk) /\ j <= j
      BY <2>1, ChunkFacts DEF FlagsInv, PassFacts
    <3>2. Held(f)
      BY <2>1, <3>1 DEF FlagsInv, RunInv, Awaits
    <3>3. PICK l \in DOMAIN chunk[i] : l < j /\ chunk[i][l].w = None /\ f \in chunk[i][l].r
      BY <3>2 DEF Held
    <3>4. <<i, l>> \notin deleted
      BY <2>1, <3>3, FlagsAssumption DEF FlagsInv, PassFacts, DeletesExactly, DeadWrite
    <3> QED  BY <3>3, <3>4 DEF Fetched
  <2> QED  BY <2>1 DEF FlagsInv, RunInv
<1> QED  BY <1>1, DeadFlagsInvariant, PTL
===============================================================================
