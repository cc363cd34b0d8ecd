------------------------- MODULE ThreadSpawnProofs -------------------------
(* clone returns the identifier of its own child, whose arguments outlive    *)
(* their use, for any number of threads that clone in parallel, if           *)
(* pthread_cond_wait returns only after a signal.                            *)
EXTENDS ThreadSpawn, TLAPS

LEMMA PlacesFacts ==
    ASSUME NEW a \in Places
    PROVE  /\ a \in InClone <=> a \in {"create", "created", "wait", "woken"}
           /\ a \in InHandshake <=> a \in {"start", "reporting", "reported"}
           /\ a \in InClone => a \notin InHandshake /\ a # "none" /\ a # "guest"
           /\ a \in InHandshake => a # "none" /\ a # "guest"
  BY DEF Places, InClone, InHandshake

\* A thread that goes from one place to another leaves the others where they are.
LEMMA GoesFacts ==
    ASSUME TypeOK, NEW t \in Tids, NEW a, NEW b \in Places, Goes(t, a, b)
    PROVE  /\ at' \in [Tids -> Places]
           /\ at[t] = a /\ at'[t] = b
           /\ \A u \in Tids : u # t => at'[u] = at[u]
  BY DEF TypeOK, Goes

LEMMA PlacesOf ==
    ASSUME NEW a \in {"none", "guest", "ended", "joining", "create", "created",
                      "wait", "woken", "start", "reporting", "reported"}
    PROVE  a \in Places
  BY DEF Places, InClone, InHandshake

LEMMA CallFacts ==
    ASSUME TypeOK, NEW p \in Tids
    PROVE  /\ call[p].child \in Tids /\ parent[p] \in Tids /\ at[p] \in Places
           /\ call[p].ctid \in Words /\ call[p] \in Calls
  BY DEF TypeOK, Calls

LEMMA SpawnInit ==
    ASSUME Init, Calls # {}
    PROVE  SpawnInv
<1>1. \E c \in Calls : c.child = Main
  <2>1. PICK c \in Calls : TRUE
    OBVIOUS
  <2>2. [flags |-> c.flags, ctid |-> c.ctid, child |-> Main] \in Calls
    BY SpawnAssumption DEF Calls
  <2> QED  BY <2>2
<1>2. NoCall \in Calls
  BY <1>1 DEF NoCall
<1>3. \A t \in Tids : at[t] \in {"guest", "none"}
  BY DEF Init
<1>4. TypeOK
  BY <1>2, SpawnAssumption DEF Init, TypeOK, Places
<1>5. Paired /\ Excluded /\ Reported
  BY <1>3 DEF Paired, Excluded, Reported, Signalled, InClone, InHandshake
<1> QED  BY <1>4, <1>5 DEF SpawnInv

\* A step that moves a thread between places outside clone and handshake.
LEMMA SpawnElsewhere ==
    ASSUME SpawnInv, NEW t \in Tids,
           NEW a \in {"guest", "joining"}, NEW b \in {"guest", "joining", "ended"},
           Goes(t, a, b), TypeOK', UNCHANGED <<call, parent, mutex, signalled, rax, ptid>>
    PROVE  SpawnInv'
<1>1. TypeOK /\ b \in Places
  BY PlacesOf DEF SpawnInv
<1>2. /\ at[t] = a /\ at'[t] = b
      /\ \A u \in Tids : u # t => at'[u] = at[u]
  BY <1>1, GoesFacts
<1>3. /\ \A u \in Tids : at'[u] \in InClone => at[u] = at'[u]
      /\ \A u \in Tids : at'[u] \in InHandshake => at[u] = at'[u]
      /\ \A u \in Tids : at[u] \in InClone \cup InHandshake => at'[u] = at[u]
      /\ \A u \in Tids : at'[u] = "none" <=> at[u] = "none"
  BY <1>2 DEF InClone, InHandshake
<1>4. Paired'
  <2>1. ASSUME NEW p \in Tids, at'[p] \in InClone
        PROVE  /\ parent[call[p].child] = p /\ call[p].child # p
               /\ at'[p] = "create" => at'[call[p].child] = "none"
               /\ at'[p] = "created" => at'[call[p].child] = "start"
               /\ at'[p] # "create" => at'[call[p].child] # "none"
    <3>1. call[p].child \in Tids /\ at[p] = at'[p]
      BY <1>1, <1>3, <2>1, CallFacts
    <3>2. at[call[p].child] = "start" => at'[call[p].child] = "start"
      BY <1>3, <3>1 DEF InHandshake
    <3> QED  BY <1>3, <2>1, <3>1, <3>2 DEF SpawnInv, Paired
  <2>2. ASSUME NEW c \in Tids, at'[c] \in InHandshake
        PROVE  at'[parent[c]] \in InClone /\ call[parent[c]].child = c
    <3>1. parent[c] \in Tids /\ at[c] = at'[c]
      BY <1>1, <1>3, <2>2, CallFacts
    <3> QED  BY <1>3, <2>2, <3>1 DEF SpawnInv, Paired
  <2> QED  BY <2>1, <2>2 DEF Paired
<1>5. Excluded'
  BY <1>3 DEF SpawnInv, Excluded, InClone, InHandshake
<1>6. Reported'
  <2> SUFFICES ASSUME NEW p \in Tids, Signalled(p)'  PROVE Answered(p)'
    BY DEF Reported
  <2>1. at[p] = at'[p] /\ Signalled(p)
    BY <1>3 DEF Signalled, InClone
  <2>2. call[p].child \in Tids /\ Answered(p)
    BY <1>1, <2>1, CallFacts DEF SpawnInv, Reported
  <2>3. at'[call[p].child] \in {"start", "reporting"}
            => at[call[p].child] \in {"start", "reporting"}
    BY <1>3, <2>2 DEF InHandshake
  <2> QED  BY <2>2, <2>3 DEF Answered
<1> QED  BY <1>4, <1>5, <1>6 DEF SpawnInv

-----------------------------------------------------------------------------
(* The steps of the handshake, by the pair of parent and child *)

LEMMA PairFacts ==
    ASSUME SpawnInv
    PROVE  /\ \A p \in Tids : at[p] \in InClone => parent[call[p].child] = p
           /\ \A p, q \in Tids : /\ at[p] \in InClone /\ at[q] \in InClone
                                 /\ call[p].child = call[q].child
                                 => p = q
           /\ \A p \in Tids : at[p] \in InClone => call[p].child # p
<1>1. \A p \in Tids : at[p] \in InClone => parent[call[p].child] = p /\ call[p].child # p
  BY DEF SpawnInv, Paired
<1>2. ASSUME NEW p \in Tids, NEW q \in Tids, at[p] \in InClone, at[q] \in InClone,
             call[p].child = call[q].child
      PROVE  p = q
  BY <1>1, <1>2
<1> QED  BY <1>1, <1>2

LEMMA SpawnCreate ==
    ASSUME SpawnInv, NEW p \in Tids, PthreadCreate(p)
    PROVE  SpawnInv'
<1> DEFINE c == call[p].child
<1>1. /\ TypeOK /\ at[p] = "create" /\ c \in Tids /\ c # p /\ parent[c] = p
      /\ at[c] = "none" /\ mutex[p] = p
  BY CallFacts DEF PthreadCreate, SpawnInv, Paired, Excluded, InClone
<1>2. /\ at' = [at EXCEPT ![p] = "created", ![c] = "start"]
      /\ UNCHANGED <<call, parent, mutex, signalled, rax, ptid, clearTid, word, joining>>
  BY DEF PthreadCreate
<1> HIDE DEF c
<1>3. /\ at' \in [Tids -> Places] /\ at'[p] = "created" /\ at'[c] = "start"
      /\ \A u \in Tids \ {p, c} : at'[u] = at[u]
  BY <1>1, <1>2, PlacesOf DEF TypeOK
<1>4. TypeOK'
  BY <1>1, <1>2, <1>3 DEF TypeOK
<1>5. Paired'
  <2>1. ASSUME NEW q \in Tids, at'[q] \in InClone
        PROVE  /\ parent[call[q].child] = q /\ call[q].child # q
               /\ at'[q] = "create" => at'[call[q].child] = "none"
               /\ at'[q] = "created" => at'[call[q].child] = "start"
               /\ at'[q] # "create" => at'[call[q].child] # "none"
    <3>1. CASE q = p
      BY <1>1, <1>3, <3>1 DEF c
    <3>2. CASE q # p
      <4>1. q # c /\ at[q] = at'[q]
        BY <1>3, <2>1, <3>2 DEF InClone
      <4>2. call[q].child # c /\ call[q].child \in Tids
        BY <1>1, <2>1, <3>2, <4>1, CallFacts, PairFacts DEF InClone, c
      <4>3. /\ parent[call[q].child] = q /\ call[q].child # q
            /\ at[q] = "create" => at[call[q].child] = "none"
            /\ at[q] = "created" => at[call[q].child] = "start"
            /\ at[q] # "create" => at[call[q].child] # "none"
        BY <2>1, <4>1 DEF SpawnInv, Paired
      <4>4. CASE call[q].child = p
        BY <1>1, <1>3, <4>1, <4>3, <4>4
      <4>5. CASE call[q].child # p
        BY <1>3, <4>1, <4>2, <4>3, <4>5
      <4> QED  BY <4>4, <4>5
    <3> QED  BY <3>1, <3>2
  <2>2. ASSUME NEW d \in Tids, at'[d] \in InHandshake
        PROVE  at'[parent[d]] \in InClone /\ call[parent[d]].child = d
    <3>1. CASE d = c
      BY <1>1, <1>3, <3>1 DEF c, InClone
    <3>2. CASE d # c
      <4>1. d # p /\ at[d] = at'[d] /\ parent[d] \in Tids
        BY <1>1, <1>3, <2>2, <3>2, CallFacts DEF InHandshake
      <4>2. at[parent[d]] \in InClone /\ call[parent[d]].child = d
        BY <2>2, <4>1 DEF SpawnInv, Paired
      <4>3. parent[d] # c
        BY <1>1, <4>2 DEF InClone
      <4> QED  BY <1>3, <4>1, <4>2, <4>3 DEF InClone
    <3> QED  BY <3>1, <3>2
  <2>3. call' = call /\ parent' = parent
    BY <1>2
  <2> QED  BY <2>1, <2>2, <2>3 DEF Paired
<1>6. Excluded'
  BY <1>1, <1>2, <1>3 DEF SpawnInv, Excluded
<1>7. Reported'
  <2> SUFFICES ASSUME NEW q \in Tids, Signalled(q)'  PROVE Answered(q)'
    BY DEF Reported
  <2>1. q # p /\ q # c /\ at'[q] = at[q] /\ Signalled(q) /\ at[q] \in InClone
    BY <1>2, <1>3 DEF Signalled, InClone
  <2>2. call[q].child \in Tids /\ call[q].child # c /\ Answered(q)
    <3>1. call[q].child \in Tids
      BY <1>1, CallFacts
    <3>2. call[q].child # c
      BY <1>1, <2>1, PairFacts DEF InClone, c
    <3> QED  BY <2>1, <3>1, <3>2 DEF SpawnInv, Reported
  <2>3. at'[call[q].child] \in {"start", "reporting"}
            => at[call[q].child] \in {"start", "reporting"}
    BY <1>1, <1>3, <2>2
  <2> QED  BY <1>2, <2>2, <2>3 DEF Answered
<1> QED  BY <1>4, <1>5, <1>6, <1>7 DEF SpawnInv

\* A thread that is not new moves on: the pairs stay, if it does not leave its
\* partner alone.
LEMMA PairedMove ==
    ASSUME SpawnInv, NEW t \in Tids, NEW a \in Places \ {"none", "create"},
           NEW b \in Places \ {"none", "create", "created", "start"}, Goes(t, a, b),
           UNCHANGED <<call, parent>>,
           b \in InClone => a \in InClone,
           b \in InHandshake => a \in InHandshake,
           a \in InClone /\ b \notin InClone => at[call[t].child] \notin InHandshake,
           a = "start" => at[parent[t]] # "created"
    PROVE  Paired'
<1>1. TypeOK /\ call' = call /\ parent' = parent
  BY DEF SpawnInv
<1>2. at[t] = a /\ at'[t] = b /\ \A u \in Tids : u # t => at'[u] = at[u]
  BY <1>1, GoesFacts
<1>3. ASSUME NEW p \in Tids, at'[p] \in InClone
      PROVE  /\ parent[call[p].child] = p /\ call[p].child # p
             /\ at'[p] = "create" => at'[call[p].child] = "none"
             /\ at'[p] = "created" => at'[call[p].child] = "start"
             /\ at'[p] # "create" => at'[call[p].child] # "none"
  <2> DEFINE c == call[p].child
  <2>1. c \in Tids /\ at[p] \in InClone
    BY <1>1, <1>2, <1>3, CallFacts
  <2>2. /\ parent[c] = p /\ c # p
        /\ at[p] = "create" => at[c] = "none"
        /\ at[p] = "created" => at[c] = "start"
        /\ at[p] # "create" => at[c] # "none"
    BY <2>1 DEF SpawnInv, Paired
  <2> HIDE DEF c
  <2>3. CASE p = t
    <3>1. at[c] # "none" /\ at'[c] = at[c] /\ at'[p] = b
      BY <1>2, <2>1, <2>2, <2>3
    <3> QED  BY <2>2, <3>1 DEF c
  <2>4. CASE p # t /\ c = t
    BY <1>2, <2>1, <2>2, <2>4 DEF c
  <2>5. CASE p # t /\ c # t
    BY <1>2, <2>1, <2>2, <2>5 DEF c
  <2> QED  BY <2>3, <2>4, <2>5
<1>4. ASSUME NEW c \in Tids, at'[c] \in InHandshake
      PROVE  at'[parent[c]] \in InClone /\ call[parent[c]].child = c
  <2>1. at[c] \in InHandshake /\ parent[c] \in Tids
    BY <1>1, <1>2, <1>4, CallFacts
  <2>2. at[parent[c]] \in InClone /\ call[parent[c]].child = c
    BY <2>1 DEF SpawnInv, Paired
  <2>3. CASE parent[c] = t
    BY <1>2, <2>1, <2>2, <2>3
  <2>4. CASE parent[c] # t
    BY <1>2, <2>1, <2>2, <2>4
  <2> QED  BY <2>3, <2>4
<1> QED  BY <1>1, <1>3, <1>4 DEF Paired

LEMMA SpawnCondWait ==
    ASSUME SpawnInv, NEW p \in Tids, CondWait(p)
    PROVE  SpawnInv'
<1> DEFINE c == call[p].child
<1>1. /\ TypeOK /\ Goes(p, "created", "wait") /\ mutex[p] = p /\ c \in Tids
      /\ at[c] = "start" /\ parent[c] = p
  BY CallFacts DEF CondWait, SpawnInv, Paired, Excluded, Goes, InClone
<1>2. "created" \in Places /\ "wait" \in Places
  BY PlacesOf
<1>3. /\ at' \in [Tids -> Places] /\ at[p] = "created" /\ at'[p] = "wait"
      /\ \A u \in Tids : u # p => at'[u] = at[u]
  BY <1>1, <1>2, GoesFacts
<1>4. /\ mutex' = [mutex EXCEPT ![p] = NoTid]
      /\ signalled' = signalled \ {p}
      /\ UNCHANGED <<call, parent, rax, ptid, clearTid, word, joining>>
  BY <1>1 DEF CondWait
<1>5. TypeOK'
  BY <1>1, <1>3, <1>4 DEF TypeOK
<1>6. Paired'
  BY <1>1, <1>2, <1>4, PairedMove DEF InClone, InHandshake
<1>7. Excluded'
  <2>1. ASSUME NEW q \in Tids, at'[q] \in {"create", "created"}  PROVE mutex'[q] = q
    BY <1>1, <1>3, <1>4, <2>1 DEF SpawnInv, Excluded, TypeOK
  <2>2. ASSUME NEW d \in Tids, at'[d] \in {"reporting", "reported"}
        PROVE  mutex'[parent[d]] = d
    <3>1. at[d] = at'[d] /\ parent[d] \in Tids
      BY <1>1, <1>3, <2>2, CallFacts
    <3>2. call[parent[d]].child = d
      BY <2>2, <3>1 DEF SpawnInv, Paired, InHandshake
    <3>3. parent[d] # p
      BY <1>1, <2>2, <3>1, <3>2
    <3> QED  BY <1>1, <1>4, <2>2, <3>1, <3>3 DEF SpawnInv, Excluded, TypeOK
  <2>3. parent' = parent
    BY <1>4
  <2> QED  BY <2>1, <2>2, <2>3 DEF Excluded
<1>8. Reported'
  <2> SUFFICES ASSUME NEW q \in Tids, Signalled(q)'  PROVE Answered(q)'
    BY DEF Reported
  <2>1. q # p /\ Signalled(q)
    BY <1>3, <1>4 DEF Signalled
  <2>2. call[q].child \in Tids /\ Answered(q)
    BY <1>1, <2>1, CallFacts DEF SpawnInv, Reported
  <2>3. at'[call[q].child] \in {"start", "reporting"}
            => at[call[q].child] \in {"start", "reporting"}
    BY <1>3, <2>2
  <2> QED  BY <1>4, <2>2, <2>3 DEF Answered
<1> QED  BY <1>5, <1>6, <1>7, <1>8 DEF SpawnInv

\* The steps that change nothing but the thread's place.
LEMMA SpawnMove ==
    ASSUME SpawnInv, ~Spurious, NEW p \in Tids, WakeUp(p) \/ FinishClone(p)
    PROVE  SpawnInv'
<1>1. PICK a \in {"wait", "woken"}, b \in {"woken", "guest"} :
         /\ Goes(p, a, b)
         /\ a = "wait" => b = "woken" /\ p \in signalled
         /\ a = "woken" => b = "guest" /\ mutex[p] = NoTid
         /\ UNCHANGED <<call, parent, mutex, signalled, rax, ptid, clearTid, word, joining>>
  BY DEF WakeUp, FinishClone
<1>2. TypeOK /\ a \in Places /\ b \in Places /\ Signalled(p)
  BY <1>1, PlacesOf DEF SpawnInv, Signalled, Goes
<1>3. /\ at' \in [Tids -> Places] /\ at[p] = a /\ at'[p] = b
      /\ \A u \in Tids : u # p => at'[u] = at[u]
  BY <1>1, <1>2, GoesFacts
<1>4. TypeOK'
  BY <1>1, <1>2, <1>3 DEF TypeOK
<1>5. b = "guest" => at[call[p].child] \notin InHandshake
  <2> SUFFICES ASSUME b = "guest"  PROVE at[call[p].child] \notin InHandshake
    OBVIOUS
  <2>1. call[p].child \in Tids /\ Answered(p) /\ mutex[p] = NoTid /\ parent[call[p].child] = p
    BY <1>1, <1>2, <1>3, CallFacts DEF SpawnInv, Reported, Paired, InClone
  <2>2. at[call[p].child] # "reported"
    BY <2>1, SpawnAssumption DEF SpawnInv, Excluded
  <2> QED  BY <2>1, <2>2 DEF Answered, InHandshake
<1>6. Paired'
  BY <1>1, <1>2, <1>5, PairedMove DEF InClone, InHandshake
<1>7. Excluded'
  BY <1>1, <1>3 DEF SpawnInv, Excluded
<1>8. Reported'
  <2> SUFFICES ASSUME NEW q \in Tids, Signalled(q)'  PROVE Answered(q)'
    BY DEF Reported
  <2>1. Signalled(q)
    BY <1>1, <1>2, <1>3 DEF Signalled
  <2>2. call[q].child \in Tids /\ Answered(q)
    BY <1>2, <2>1, CallFacts DEF SpawnInv, Reported
  <2>3. at'[call[q].child] \in {"start", "reporting"}
            => at[call[q].child] \in {"start", "reporting"}
    BY <1>3, <2>2
  <2> QED  BY <1>1, <2>2, <2>3 DEF Answered
<1> QED  BY <1>4, <1>6, <1>7, <1>8 DEF SpawnInv
\* A new pair: the child's identifier is free, and nobody else's.
LEMMA SpawnClone ==
    ASSUME SpawnInv, NEW p \in Tids, NEW f \in Flags, NEW w \in Words, Clone(p, f, w)
    PROVE  SpawnInv'
<1>1. TypeOK /\ Goes(p, "guest", "create") /\ "create" \in Places
  BY PlacesOf DEF Clone, SpawnInv
<1>2. PICK c \in Tids :
        /\ at[c] = "none" /\ \A q \in Tids : at[q] \in InClone => call[q].child # c
        /\ call' = [call EXCEPT ![p] = [flags |-> f, ctid |-> w, child |-> c]]
        /\ parent' = [parent EXCEPT ![c] = p]
        /\ rax' = [rax EXCEPT ![c] = NoTid]
        /\ word' = IF "child_cleartid" \in f THEN [word EXCEPT ![w] = c] ELSE word
        /\ mutex' = [mutex EXCEPT ![p] = p]
        /\ signalled' = signalled \ {p}
        /\ UNCHANGED <<ptid, clearTid, joining>>
  BY DEF Clone
<1>3. /\ at' \in [Tids -> Places] /\ at[p] = "guest" /\ at'[p] = "create"
      /\ \A u \in Tids : u # p => at'[u] = at[u]
  BY <1>1, GoesFacts
<1>4. c # p /\ at'[c] = "none"
  BY <1>2, <1>3
<1>5. /\ call' \in [Tids -> Calls] /\ call'[p].child = c
      /\ \A u \in Tids : u # p => call'[u] = call[u]
  BY <1>1, <1>2 DEF TypeOK, Calls
<1>6. parent'[c] = p /\ \A u \in Tids : u # c => parent'[u] = parent[u]
  BY <1>1, <1>2 DEF TypeOK
<1>7. TypeOK'
  BY <1>1, <1>2, <1>3, <1>5 DEF TypeOK
<1>8. Paired'
  <2>1. ASSUME NEW q \in Tids, at'[q] \in InClone
        PROVE  /\ parent'[call'[q].child] = q /\ call'[q].child # q
               /\ at'[q] = "create" => at'[call'[q].child] = "none"
               /\ at'[q] = "created" => at'[call'[q].child] = "start"
               /\ at'[q] # "create" => at'[call'[q].child] # "none"
    <3>1. CASE q = p
      BY <1>3, <1>4, <1>5, <1>6, <3>1
    <3>2. CASE q # p
      <4>1. at[q] = at'[q] /\ call'[q] = call[q] /\ call[q].child \in Tids
        BY <1>1, <1>3, <1>5, <3>2, CallFacts
      <4>2. call[q].child # c
        BY <1>2, <2>1, <4>1
      <4>3. /\ parent[call[q].child] = q /\ call[q].child # q
            /\ at[q] = "create" => at[call[q].child] = "none"
            /\ at[q] = "created" => at[call[q].child] = "start"
            /\ at[q] # "create" => at[call[q].child] # "none"
        BY <2>1, <4>1 DEF SpawnInv, Paired
      <4>4. parent'[call[q].child] = q
        BY <1>6, <4>1, <4>2, <4>3
      <4>5. CASE call[q].child = p
        BY <1>3, <4>1, <4>3, <4>4, <4>5
      <4>6. CASE call[q].child # p
        BY <1>3, <4>1, <4>3, <4>4, <4>6
      <4> QED  BY <4>5, <4>6
    <3> QED  BY <3>1, <3>2
  <2>2. ASSUME NEW d \in Tids, at'[d] \in InHandshake
        PROVE  at'[parent'[d]] \in InClone /\ call'[parent'[d]].child = d
    <3>1. d # c /\ d # p /\ at[d] = at'[d] /\ parent'[d] = parent[d] /\ parent[d] \in Tids
      BY <1>1, <1>3, <1>4, <1>6, <2>2, CallFacts DEF InHandshake
    <3>2. at[parent[d]] \in InClone /\ call[parent[d]].child = d
      BY <2>2, <3>1 DEF SpawnInv, Paired
    <3>3. parent[d] # p
      BY <1>3, <3>2 DEF InClone
    <3> QED  BY <1>3, <1>5, <3>1, <3>2, <3>3
  <2> QED  BY <2>1, <2>2 DEF Paired
<1>9. Excluded'
  <2>1. ASSUME NEW q \in Tids, at'[q] \in {"create", "created"}  PROVE mutex'[q] = q
    BY <1>1, <1>2, <1>3, <2>1 DEF SpawnInv, Excluded, TypeOK
  <2>2. ASSUME NEW d \in Tids, at'[d] \in {"reporting", "reported"}
        PROVE  mutex'[parent'[d]] = d
    <3>1. d # c /\ d # p /\ at[d] = at'[d] /\ parent'[d] = parent[d] /\ parent[d] \in Tids
      BY <1>1, <1>3, <1>4, <1>6, <2>2, CallFacts
    <3>2. at[parent[d]] \in InClone
      BY <2>2, <3>1 DEF SpawnInv, Paired, InHandshake
    <3>3. parent[d] # p
      BY <1>3, <3>2 DEF InClone
    <3> QED  BY <1>1, <1>2, <2>2, <3>1, <3>3 DEF SpawnInv, Excluded, TypeOK
  <2> QED  BY <2>1, <2>2 DEF Excluded
<1>10. Reported'
  <2> SUFFICES ASSUME NEW q \in Tids, Signalled(q)'  PROVE Answered(q)'
    BY DEF Reported
  <2>1. q # p /\ Signalled(q) /\ at[q] \in InClone /\ at'[q] = at[q]
    BY <1>2, <1>3 DEF Signalled, InClone
  <2>2. call[q].child \in Tids /\ Answered(q)
    BY <1>1, <2>1, CallFacts DEF SpawnInv, Reported
  <2>3. at'[call[q].child] \in {"start", "reporting"}
            => at[call[q].child] \in {"start", "reporting"}
    BY <1>3, <2>2
  <2>4. q # c /\ call'[q] = call[q]
    BY <1>2, <1>5, <2>1 DEF InClone
  <2>5. rax'[q] = rax[q] /\ ptid'[q] = ptid[q]
    BY <1>1, <1>2, <2>4 DEF TypeOK
  <2> QED  BY <2>2, <2>3, <2>4, <2>5 DEF Answered
<1> QED  BY <1>7, <1>8, <1>9, <1>10 DEF SpawnInv
LEMMA ChildFacts ==
    ASSUME SpawnInv, NEW c \in Tids, at[c] \in InHandshake
    PROVE  /\ parent[c] \in Tids /\ at[parent[c]] \in InClone
           /\ call[parent[c]].child = c /\ parent[c] # c
<1>1. parent[c] \in Tids /\ at[parent[c]] \in InClone /\ call[parent[c]].child = c
  BY CallFacts DEF SpawnInv, Paired
<1> QED  BY <1>1, PairFacts

LEMMA SpawnLockArgs ==
    ASSUME SpawnInv, NEW c \in Tids, LockArgs(c)
    PROVE  SpawnInv'
<1> DEFINE p == parent[c]
<1>1. /\ TypeOK /\ Goes(c, "start", "reporting") /\ mutex[p] = NoTid
      /\ mutex' = [mutex EXCEPT ![p] = c]
      /\ UNCHANGED <<call, parent, signalled, rax, ptid, clearTid, word, joining>>
  BY DEF LockArgs, SpawnInv
<1>2. "start" \in Places /\ "reporting" \in Places
  BY PlacesOf
<1>3. /\ at' \in [Tids -> Places] /\ at[c] = "start" /\ at'[c] = "reporting"
      /\ \A u \in Tids : u # c => at'[u] = at[u]
  BY <1>1, <1>2, GoesFacts
<1>4. p \in Tids /\ at[p] \in InClone /\ call[p].child = c /\ p # c
  BY <1>3, ChildFacts DEF InHandshake
<1>5. at[p] \notin {"create", "created"}
  BY <1>1, <1>4, SpawnAssumption DEF SpawnInv, Excluded
<1>6. TypeOK'
  BY <1>1, <1>3, <1>4 DEF TypeOK
<1>7. Paired'
  BY <1>1, <1>2, <1>5, PairedMove DEF InClone, InHandshake
<1> HIDE DEF p
<1>8. Excluded'
  <2>1. ASSUME NEW q \in Tids, at'[q] \in {"create", "created"}  PROVE mutex'[q] = q
    <3>1. at[q] = at'[q] /\ q # p
      BY <1>3, <1>4, <1>5, <2>1
    <3> QED  BY <1>1, <2>1, <3>1 DEF SpawnInv, Excluded, TypeOK
  <2>2. ASSUME NEW d \in Tids, at'[d] \in {"reporting", "reported"}
        PROVE  mutex'[parent[d]] = d
    <3>1. CASE d = c
      BY <1>1, <1>4, <3>1 DEF TypeOK, p
    <3>2. CASE d # c
      <4>1. at[d] = at'[d] /\ parent[d] \in Tids
        BY <1>1, <1>3, <3>2, CallFacts
      <4>2. parent[d] # p
        BY <1>4, <2>2, <3>2, <4>1, ChildFacts DEF InHandshake
      <4> QED  BY <1>1, <2>2, <4>1, <4>2 DEF SpawnInv, Excluded, TypeOK
    <3> QED  BY <3>1, <3>2
  <2>3. parent' = parent
    BY <1>1
  <2> QED  BY <2>1, <2>2, <2>3 DEF Excluded
<1>9. Reported'
  <2> SUFFICES ASSUME NEW q \in Tids, Signalled(q)'  PROVE Answered(q)'
    BY DEF Reported
  <2>1. Signalled(q)
    BY <1>1, <1>3 DEF Signalled
  <2>2. call[q].child \in Tids /\ Answered(q)
    BY <1>1, <2>1, CallFacts DEF SpawnInv, Reported
  <2>3. at'[call[q].child] = at[call[q].child]
    BY <1>3, <2>2 DEF Answered
  <2> QED  BY <1>1, <2>2, <2>3 DEF Answered
<1> QED  BY <1>6, <1>7, <1>8, <1>9 DEF SpawnInv

LEMMA SpawnReport ==
    ASSUME SpawnInv, NEW c \in Tids, Report(c)
    PROVE  SpawnInv'
<1> DEFINE p == parent[c]
<1>1. /\ TypeOK /\ Goes(c, "reporting", "reported")
      /\ rax' = [rax EXCEPT ![p] = c]
      /\ ptid' = IF "parent_settid" \in call[p].flags THEN [ptid EXCEPT ![p] = c] ELSE ptid
      /\ clearTid' = IF "child_cleartid" \in call[p].flags
                       THEN [clearTid EXCEPT ![c] = call[p].ctid] ELSE clearTid
      /\ signalled' = signalled \cup {p}
      /\ UNCHANGED <<call, parent, mutex, word, joining>>
  BY DEF Report, SpawnInv
<1>2. "reporting" \in Places /\ "reported" \in Places
  BY PlacesOf
<1>3. /\ at' \in [Tids -> Places] /\ at[c] = "reporting" /\ at'[c] = "reported"
      /\ \A u \in Tids : u # c => at'[u] = at[u]
  BY <1>1, <1>2, GoesFacts
<1>4. p \in Tids /\ at[p] \in InClone /\ call[p].child = c /\ p # c
  BY <1>3, ChildFacts DEF InHandshake
<1>5. call[p].ctid \in Words
  BY <1>1, <1>4, CallFacts
<1>6. TypeOK'
  <2>1. rax' \in [Tids -> Tids \cup {NoTid}] /\ ptid' \in [Tids -> Tids \cup {NoTid}]
    BY <1>1, <1>4 DEF TypeOK
  <2>2. clearTid' \in [Tids -> Words \cup {NoTid}]
    BY <1>1, <1>5 DEF TypeOK
  <2> QED  BY <1>1, <1>3, <1>4, <2>1, <2>2 DEF TypeOK
<1>7. Paired'
  BY <1>1, <1>2, PairedMove DEF InClone, InHandshake
<1> HIDE DEF p
<1>8. Excluded'
  <2>1. ASSUME NEW q \in Tids, at'[q] \in {"create", "created"}  PROVE mutex[q] = q
    BY <1>3, <2>1 DEF SpawnInv, Excluded
  <2>2. ASSUME NEW d \in Tids, at'[d] \in {"reporting", "reported"}
        PROVE  mutex[parent[d]] = d
    BY <1>3, <2>2 DEF SpawnInv, Excluded
  <2>3. parent' = parent /\ mutex' = mutex
    BY <1>1
  <2> QED  BY <2>1, <2>2, <2>3 DEF Excluded
<1>9. Reported'
  <2> SUFFICES ASSUME NEW q \in Tids, Signalled(q)'  PROVE Answered(q)'
    BY DEF Reported
  <2>0. call' = call
    BY <1>1
  <2>1. CASE q = p
    <3>1. /\ at'[c] = "reported" /\ rax'[p] = c
          /\ "parent_settid" \in call[p].flags => ptid'[p] = c
      BY <1>1, <1>3, <1>4 DEF TypeOK
    <3> QED  BY <1>4, <2>0, <2>1, <3>1 DEF Answered
  <2>2. CASE q # p
    <3>1. Signalled(q) /\ at[q] \in InClone
      BY <1>1, <1>3, <2>2 DEF Signalled, InClone
    <3>2. call[q].child \in Tids /\ Answered(q) /\ call[q].child # c
      <4>1. call[q].child \in Tids
        BY <1>1, CallFacts
      <4>2. call[q].child # c
        BY <1>4, <2>2, <3>1, PairFacts
      <4> QED  BY <3>1, <4>1, <4>2 DEF SpawnInv, Reported
    <3>3. at'[call[q].child] = at[call[q].child]
      BY <1>3, <3>2
    <3>4. rax'[q] = rax[q] /\ ptid'[q] = ptid[q]
      BY <1>1, <2>2 DEF TypeOK
    <3> QED  BY <2>0, <3>2, <3>3, <3>4 DEF Answered
  <2> QED  BY <2>1, <2>2
<1> QED  BY <1>6, <1>7, <1>8, <1>9 DEF SpawnInv

LEMMA SpawnUnlockArgs ==
    ASSUME SpawnInv, NEW c \in Tids, UnlockArgs(c)
    PROVE  SpawnInv'
<1> DEFINE p == parent[c]
<1>1. /\ TypeOK /\ Goes(c, "reported", "guest")
      /\ mutex' = [mutex EXCEPT ![p] = NoTid]
      /\ UNCHANGED <<call, parent, signalled, rax, ptid, clearTid, word, joining>>
  BY DEF UnlockArgs, SpawnInv
<1>2. "reported" \in Places /\ "guest" \in Places
  BY PlacesOf
<1>3. /\ at' \in [Tids -> Places] /\ at[c] = "reported" /\ at'[c] = "guest"
      /\ \A u \in Tids : u # c => at'[u] = at[u]
  BY <1>1, <1>2, GoesFacts
<1>4. p \in Tids /\ at[p] \in InClone /\ call[p].child = c /\ p # c
  BY <1>3, ChildFacts DEF InHandshake
<1>5. at[p] \notin {"create", "created"}
  BY <1>3, <1>4 DEF SpawnInv, Excluded
<1>6. TypeOK'
  BY <1>1, <1>3, <1>4 DEF TypeOK
<1>7. Paired'
  BY <1>1, <1>2, PairedMove DEF InClone, InHandshake
<1> HIDE DEF p
<1>8. Excluded'
  <2>1. ASSUME NEW q \in Tids, at'[q] \in {"create", "created"}  PROVE mutex'[q] = q
    <3>1. at[q] = at'[q] /\ q # p
      BY <1>3, <1>4, <1>5, <2>1
    <3> QED  BY <1>1, <2>1, <3>1 DEF SpawnInv, Excluded, TypeOK
  <2>2. ASSUME NEW d \in Tids, at'[d] \in {"reporting", "reported"}
        PROVE  mutex'[parent[d]] = d
    <3>1. d # c /\ at[d] = at'[d] /\ parent[d] \in Tids
      BY <1>1, <1>3, <2>2, CallFacts
    <3>2. parent[d] # p
      BY <1>4, <2>2, <3>1, ChildFacts DEF InHandshake
    <3> QED  BY <1>1, <2>2, <3>1, <3>2 DEF SpawnInv, Excluded, TypeOK
  <2>3. parent' = parent
    BY <1>1
  <2> QED  BY <2>1, <2>2, <2>3 DEF Excluded
<1>9. Reported'
  <2> SUFFICES ASSUME NEW q \in Tids, Signalled(q)'  PROVE Answered(q)'
    BY DEF Reported
  <2>1. Signalled(q)
    BY <1>1, <1>3 DEF Signalled
  <2>2. call[q].child \in Tids /\ Answered(q)
    BY <1>1, <2>1, CallFacts DEF SpawnInv, Reported
  <2>3. at'[call[q].child] \in {"start", "reporting"}
            => at[call[q].child] \in {"start", "reporting"}
    BY <1>3, <2>2
  <2> QED  BY <1>1, <2>2, <2>3 DEF Answered
<1> QED  BY <1>6, <1>7, <1>8, <1>9 DEF SpawnInv

-----------------------------------------------------------------------------
(* Every step *)

LEMMA SpawnGuest ==
    ASSUME SpawnInv, NEW t \in Tids, Exit(t) \/ Joined(t) \/ \E w \in Words : Join(t, w)
    PROVE  SpawnInv'
<1>1. TypeOK
  BY DEF SpawnInv
<1>2. "guest" \in Places /\ "joining" \in Places /\ "ended" \in Places
  BY PlacesOf
<1>3. CASE Exit(t)
  <2>1. Goes(t, "guest", "ended") /\ UNCHANGED <<call, parent, mutex, signalled, rax, ptid>>
    BY <1>3 DEF Exit
  <2>2. at' \in [Tids -> Places]
    BY <1>1, <1>2, <2>1, GoesFacts
  <2>3. TypeOK'
    BY <1>1, <1>3, <2>2 DEF Exit, TypeOK
  <2> QED  BY <2>1, <2>3, SpawnElsewhere
<1>4. CASE Joined(t)
  <2>1. Goes(t, "joining", "guest") /\ UNCHANGED <<call, parent, mutex, signalled, rax, ptid>>
    BY <1>4 DEF Joined
  <2>2. at' \in [Tids -> Places]
    BY <1>1, <1>2, <2>1, GoesFacts
  <2>3. TypeOK'
    BY <1>1, <1>4, <2>2 DEF Joined, TypeOK
  <2> QED  BY <2>1, <2>3, SpawnElsewhere
<1>5. ASSUME NEW w \in Words, Join(t, w)  PROVE SpawnInv'
  <2>1. Goes(t, "guest", "joining") /\ UNCHANGED <<call, parent, mutex, signalled, rax, ptid>>
    BY <1>5 DEF Join
  <2>2. at' \in [Tids -> Places]
    BY <1>1, <1>2, <2>1, GoesFacts
  <2>3. TypeOK'
    BY <1>1, <1>5, <2>2 DEF Join, TypeOK
  <2> QED  BY <2>1, <2>3, SpawnElsewhere
<1> QED  BY <1>3, <1>4, <1>5

LEMMA SpawnStep ==
    ASSUME SpawnInv, ~Spurious, [Next]_vars
    PROVE  SpawnInv'
<1>1. CASE UNCHANGED vars
  BY <1>1 DEF vars, SpawnInv, TypeOK, Paired, Excluded, Reported, Signalled, Answered
<1>2. ASSUME NEW t \in Tids, Handshake(t)  PROVE SpawnInv'
  BY <1>2, SpawnCreate, SpawnCondWait, SpawnMove, SpawnLockArgs, SpawnReport,
     SpawnUnlockArgs DEF Handshake
<1>3. ASSUME NEW t \in Tids, Guest(t)  PROVE SpawnInv'
  BY <1>3, SpawnClone, SpawnGuest DEF Guest
<1> QED  BY <1>1, <1>2, <1>3 DEF Next, Over

LEMMA SpawnAlways ==
    ASSUME ~Spurious, Calls # {}
    PROVE  Spec => []SpawnInv
<1>1. Init => SpawnInv
  BY SpawnInit
<1>2. SpawnInv /\ [Next]_vars => SpawnInv'
  BY SpawnStep
<1> QED  BY <1>1, <1>2, PTL DEF Spec

\* clone's arguments, on the parent's stack, are there as long as a child uses
\* them, however many threads clone (MainLoopWrapper, case 56 of internal_call).
THEOREM ArgumentsAlive ==
    ASSUME ~Spurious, Calls # {}
    PROVE  Spec => []ArgsAlive
<1>1. SpawnInv => ArgsAlive
  BY DEF SpawnInv, Paired, ArgsAlive
<1> QED  BY <1>1, SpawnAlways, PTL

LEMMA CloneReturned ==
    ASSUME SpawnInv, NEW p \in Tids, NEW t \in Tids, Handshake(t) \/ Guest(t),
           at[p] \in InClone, at'[p] = "guest"
    PROVE  /\ rax[p] = call[p].child
           /\ "parent_settid" \in call[p].flags => ptid[p] = call[p].child
           /\ at[call[p].child] \notin InHandshake
<1>1. TypeOK /\ call[p].child \in Tids /\ parent[call[p].child] = p
  BY CallFacts, PairFacts DEF SpawnInv
<1>2. FinishClone(p)
  <2>1. at[p] # "guest"
    BY DEF InClone
  <2>2. CASE PthreadCreate(t)
    <3>1. at[t] = "create" /\ call[t].child \in Tids
      BY <1>1, <2>2, CallFacts DEF PthreadCreate
    <3>2. at'[p] \in {"created", "start", at[p]}
      BY <1>1, <2>2, <3>1 DEF PthreadCreate, TypeOK
    <3> QED  BY <2>1, <3>2
  <2>3. ASSUME NEW a \in Places, NEW b \in Places, Goes(t, a, b),
               b = "guest" /\ a \in InClone => FinishClone(t)
        PROVE  FinishClone(p)
    BY <1>1, <2>1, <2>3, GoesFacts
  <2>4. CASE CondWait(t) \/ WakeUp(t)
    BY <2>3, <2>4, PlacesOf DEF CondWait, WakeUp
  <2>5. CASE FinishClone(t)
    BY <2>3, <2>5, PlacesOf DEF FinishClone
  <2>6. CASE LockArgs(t) \/ Report(t) \/ UnlockArgs(t)
    BY <2>3, <2>6, PlacesOf DEF LockArgs, Report, UnlockArgs, InClone
  <2>7. CASE Exit(t) \/ Joined(t) \/ \E w \in Words : Join(t, w)
    BY <2>3, <2>7, PlacesOf DEF Exit, Joined, Join, InClone
  <2>8. CASE \E f \in Flags, w \in Words : Clone(t, f, w)
    BY <2>3, <2>8, PlacesOf DEF Clone
  <2> QED  BY <2>2, <2>4, <2>5, <2>6, <2>7, <2>8 DEF Handshake, Guest
<1>3. Answered(p)
  BY <1>2 DEF FinishClone, Goes, Signalled, SpawnInv, Reported
<1>4. at[call[p].child] # "reported"
  BY <1>1, <1>2, SpawnAssumption DEF FinishClone, SpawnInv, Excluded
<1> QED  BY <1>3, <1>4 DEF Answered, InHandshake

\* clone returns its own child's identifier, in RAX and in the parent's word,
\* and its child has let go of the arguments.
THEOREM ClonesAnswered ==
    ASSUME ~Spurious, Calls # {}
    PROVE  Spec => CloneResult
<1>1. SpawnInv /\ [Next]_vars =>
        [\A p \in Tids : at[p] \in InClone /\ at'[p] = "guest" =>
            LET c == call[p].child IN
            /\ rax[p] = c
            /\ "parent_settid" \in call[p].flags => ptid[p] = c
            /\ at[c] \notin InHandshake]_vars
  <2>1. CASE UNCHANGED vars
    BY <2>1
  <2>2. CASE Over
    BY <2>2 DEF Over
  <2>3. CASE \E t \in Tids : Handshake(t) \/ Guest(t)
    BY <2>3, CloneReturned
  <2> QED  BY <2>1, <2>2, <2>3 DEF Next
<1> QED  BY <1>1, SpawnAlways, PTL DEF Spec, CloneResult
-----------------------------------------------------------------------------
(* The kernel and the words that name threads *)

\* A step of one thread in which nobody is born, dies or reports, and which
\* leaves clone only when the child has reported.
LEMMA WatchedMove ==
    ASSUME SpawnInv, Watched, NEW t \in Tids, NEW a \in Places, NEW b \in Places,
           Goes(t, a, b), UNCHANGED <<call, parent, clearTid, word>>,
           a \notin {"none", "ended"}, b \notin {"none", "ended"},
           a \in {"start", "reporting"} <=> b \in {"start", "reporting"},
           a \in InClone /\ b \notin InClone
             => at[call[t].child] \notin {"none", "start", "reporting"}
    PROVE  Watched'
<1>1. TypeOK
  BY DEF SpawnInv
<1>2. /\ at[t] = a /\ at'[t] = b
      /\ \A u \in Tids : u # t => at'[u] = at[u]
  BY <1>1, GoesFacts
<1> SUFFICES ASSUME NEW w \in Words, word[w] \in Tids  PROVE Watch(word[w], w)'
  BY DEF Watched
<1> DEFINE c == word[w]
<1>3. Watch(c, w) /\ parent[c] \in Tids
  BY <1>1, CallFacts DEF Watched
<1>4. CASE at[c] \in {"none", "start", "reporting"}
  <2>1. at'[c] \in {"none", "start", "reporting"}
    BY <1>2, <1>4
  <2>2. at'[parent[c]] \in InClone
    BY <1>2, <1>3, <1>4 DEF Watch
  <2> QED  BY <1>3, <1>4, <2>1, <2>2 DEF Watch
<1>5. CASE at[c] \notin {"none", "start", "reporting"}
  <2>1. at'[c] \notin {"none", "start", "reporting", "ended"}
    BY <1>2, <1>3, <1>5 DEF Watch
  <2> QED  BY <1>3, <1>5, <2>1 DEF Watch
<1> QED  BY <1>4, <1>5

LEMMA WatchedClone ==
    ASSUME SpawnInv, Watched, NEW p \in Tids, NEW f \in Flags, NEW w0 \in Words,
           Clone(p, f, w0)
    PROVE  Watched'
<1>1. TypeOK /\ Goes(p, "guest", "create")
  BY DEF SpawnInv, Clone
<1>2. PICK c \in Tids :
        /\ at[c] = "none" /\ \A q \in Tids : at[q] \in InClone => call[q].child # c
        /\ call' = [call EXCEPT ![p] = [flags |-> f, ctid |-> w0, child |-> c]]
        /\ parent' = [parent EXCEPT ![c] = p]
        /\ word' = IF "child_cleartid" \in f THEN [word EXCEPT ![w0] = c] ELSE word
        /\ UNCHANGED clearTid
  BY DEF Clone
<1>3. /\ at[p] = "guest" /\ at'[p] = "create"
      /\ \A u \in Tids : u # p => at'[u] = at[u]
  BY <1>1, PlacesOf, GoesFacts
<1>4. /\ parent'[c] = p /\ \A u \in Tids : u # c => parent'[u] = parent[u]
      /\ call'[p] = [flags |-> f, ctid |-> w0, child |-> c]
      /\ \A u \in Tids : u # p => call'[u] = call[u]
  BY <1>1, <1>2 DEF TypeOK
<1> SUFFICES ASSUME NEW w \in Words, word'[w] \in Tids  PROVE Watch(word[w], w)'
  BY DEF Watched
<1>5. CASE w = w0 /\ "child_cleartid" \in f
  <2>1. word'[w] = c
    BY <1>1, <1>2, <1>5 DEF TypeOK
  <2>2. at'[c] = "none" /\ at'[p] \in InClone
    BY <1>2, <1>3 DEF InClone
  <2> QED  BY <1>4, <1>5, <2>1, <2>2 DEF Watch
<1>6. CASE ~(w = w0 /\ "child_cleartid" \in f)
  <2>1. word'[w] = word[w] /\ word[w] \in Tids
    BY <1>1, <1>2, <1>6 DEF TypeOK
  <2> DEFINE t == word[w]
  <2>2. Watch(t, w) /\ parent[t] \in Tids
    BY <1>1, <2>1, CallFacts DEF Watched
  <2>3. CASE at[t] \in {"none", "start", "reporting"}
    <3>1. at[parent[t]] \in InClone /\ call[parent[t]].child = t
      BY <2>2, <2>3 DEF Watch
    <3>2. t # c /\ t # p /\ parent[t] # p
      BY <1>2, <1>3, <2>2, <2>3, <3>1 DEF InClone
    <3> QED  BY <1>3, <1>4, <2>1, <2>2, <2>3, <3>2 DEF Watch
  <2>4. CASE at[t] \notin {"none", "start", "reporting"}
    <3>1. at'[t] \notin {"none", "start", "reporting", "ended"}
      BY <1>3, <2>1, <2>2, <2>4 DEF Watch
    <3> QED  BY <1>2, <2>1, <2>2, <2>4, <3>1 DEF Watch
  <2> QED  BY <2>3, <2>4
<1> QED  BY <1>5, <1>6

LEMMA WatchedCreate ==
    ASSUME SpawnInv, Watched, NEW p \in Tids, PthreadCreate(p)
    PROVE  Watched'
<1> DEFINE c == call[p].child
<1>1. /\ TypeOK /\ at[p] = "create" /\ c \in Tids /\ c # p /\ at[c] = "none"
  BY CallFacts DEF PthreadCreate, SpawnInv, Paired, InClone
<1>2. /\ at' = [at EXCEPT ![p] = "created", ![c] = "start"]
      /\ UNCHANGED <<call, parent, clearTid, word>>
  BY DEF PthreadCreate
<1> HIDE DEF c
<1>3. /\ at'[p] = "created" /\ at'[c] = "start"
      /\ \A u \in Tids \ {p, c} : at'[u] = at[u]
  BY <1>1, <1>2 DEF TypeOK
<1> SUFFICES ASSUME NEW w \in Words, word[w] \in Tids  PROVE Watch(word[w], w)'
  BY <1>2 DEF Watched
<1>4. Watch(word[w], w) /\ parent[word[w]] \in Tids
  BY <1>1, CallFacts DEF Watched
<1>5. CASE at[word[w]] \in {"none", "start", "reporting"}
  <2>1. at'[word[w]] \in {"none", "start", "reporting"}
    BY <1>1, <1>3, <1>5
  <2>2. at'[parent[word[w]]] \in InClone
    BY <1>1, <1>3, <1>4, <1>5 DEF Watch, InClone
  <2> QED  BY <1>2, <1>4, <1>5, <2>1, <2>2 DEF Watch
<1>6. CASE at[word[w]] \notin {"none", "start", "reporting"}
  <2>1. at'[word[w]] \notin {"none", "start", "reporting", "ended"}
    BY <1>1, <1>3, <1>4, <1>6 DEF Watch
  <2> QED  BY <1>2, <1>4, <1>6, <2>1 DEF Watch
<1> QED  BY <1>5, <1>6

\* The child tells the kernel what its parent was told.
LEMMA WatchedReport ==
    ASSUME SpawnInv, Watched, NEW c \in Tids, Report(c)
    PROVE  Watched'
<1>1. /\ TypeOK /\ Goes(c, "reporting", "reported")
      /\ clearTid' = IF "child_cleartid" \in call[parent[c]].flags
                       THEN [clearTid EXCEPT ![c] = call[parent[c]].ctid] ELSE clearTid
      /\ UNCHANGED <<call, parent, word>>
  BY DEF Report, SpawnInv
<1>2. /\ at[c] = "reporting" /\ at'[c] = "reported"
      /\ \A u \in Tids : u # c => at'[u] = at[u]
  BY <1>1, PlacesOf, GoesFacts
<1> SUFFICES ASSUME NEW w \in Words, word[w] \in Tids  PROVE Watch(word[w], w)'
  BY <1>1 DEF Watched
<1>3. Watch(word[w], w) /\ parent[word[w]] \in Tids
  BY <1>1, CallFacts DEF Watched
<1>4. CASE word[w] = c
  <2>1. /\ call[parent[c]].ctid = w /\ "child_cleartid" \in call[parent[c]].flags
    BY <1>2, <1>3, <1>4 DEF Watch
  <2>2. clearTid'[c] = w
    BY <1>1, <2>1 DEF TypeOK
  <2> QED  BY <1>1, <1>2, <1>4, <2>2 DEF Watch
<1>5. CASE word[w] # c
  <2>1. clearTid'[word[w]] = clearTid[word[w]] /\ at'[word[w]] = at[word[w]]
    BY <1>1, <1>2, <1>5 DEF TypeOK
  <2>2. at[parent[word[w]]] \in InClone => at'[parent[word[w]]] \in InClone
    BY <1>2, <1>3 DEF InClone
  <2> QED  BY <1>1, <1>3, <2>1, <2>2 DEF Watch
<1> QED  BY <1>4, <1>5

LEMMA WatchedExit ==
    ASSUME SpawnInv, Watched, NEW t \in Tids, Exit(t)
    PROVE  Watched'
<1>1. /\ TypeOK /\ Goes(t, "guest", "ended") /\ UNCHANGED <<call, parent, clearTid>>
      /\ word' = IF clearTid[t] \in Words THEN [word EXCEPT ![clearTid[t]] = NoTid] ELSE word
  BY DEF Exit, SpawnInv
<1>2. /\ at[t] = "guest" /\ at'[t] = "ended"
      /\ \A u \in Tids : u # t => at'[u] = at[u]
  BY <1>1, PlacesOf, GoesFacts
<1> SUFFICES ASSUME NEW w \in Words, word'[w] \in Tids  PROVE Watch(word[w], w)'
  BY DEF Watched
<1>3. w # clearTid[t] /\ word'[w] = word[w]
  BY <1>1, SpawnAssumption DEF TypeOK
<1>4. Watch(word[w], w) /\ parent[word[w]] \in Tids
  BY <1>1, <1>3, CallFacts DEF Watched
<1>5. word[w] # t
  BY <1>2, <1>3, <1>4 DEF Watch
<1>6. at[parent[word[w]]] \in InClone => at'[parent[word[w]]] \in InClone
  BY <1>2, <1>4 DEF InClone
<1> QED  BY <1>1, <1>2, <1>3, <1>4, <1>5, <1>6 DEF Watch

LEMMA WatchedStep ==
    ASSUME SpawnInv, Watched, ~Spurious, [Next]_vars
    PROVE  Watched'
<1>1. CASE UNCHANGED vars
  BY <1>1 DEF vars, Watched, Watch
<1>2. ASSUME NEW t \in Tids, Handshake(t)  PROVE Watched'
  <2>1. CASE CondWait(t) \/ WakeUp(t)
    BY <2>1, PlacesOf, WatchedMove DEF CondWait, WakeUp, InClone
  <2>2. CASE FinishClone(t)
    <3>1. at[t] = "woken"
      BY <2>2 DEF FinishClone, Goes
    <3>2. at[call[t].child] \notin {"none", "start", "reporting"}
      BY <3>1 DEF SpawnInv, Reported, Signalled, Answered, Paired, InClone
    <3> QED  BY <2>2, <3>2, PlacesOf, WatchedMove DEF FinishClone
  <2>3. CASE LockArgs(t) \/ UnlockArgs(t)
    BY <2>3, PlacesOf, WatchedMove DEF LockArgs, UnlockArgs, InClone
  <2> QED  BY <1>2, <2>1, <2>2, <2>3, WatchedCreate, WatchedReport DEF Handshake
<1>3. ASSUME NEW t \in Tids, Guest(t)  PROVE Watched'
  <2>1. CASE Joined(t) \/ \E w \in Words : Join(t, w)
    BY <2>1, PlacesOf, WatchedMove DEF Joined, Join, InClone
  <2> QED  BY <1>3, <2>1, WatchedClone, WatchedExit DEF Guest
<1> QED  BY <1>1, <1>2, <1>3 DEF Next, Over

\* A thread's end clears the word that names it, however soon it comes after the
\* thread's birth: set_tid_address comes before the guest's code in the child,
\* and the arguments it takes the address from are still those of its clone.
THEOREM WordsCleared ==
    ASSUME ~Spurious, Calls # {}
    PROVE  Spec => []EndedCleared
<1>1. Init => Watched
  BY SpawnAssumption DEF Init, Watched
<1>2. SpawnInv /\ Watched /\ [Next]_vars => Watched'
  BY WatchedStep
<1>3. Watched => EndedCleared
  BY DEF Watched, Watch, EndedCleared
<1> QED  BY <1>1, <1>2, <1>3, SpawnAlways, PTL DEF Spec
=============================================================================
