---------------------------- MODULE ThreadSpawn ----------------------------
(* Creation and end of guest threads.  clone's arguments, its mutex and its  *)
(* condition variable live on the parent's stack; parent and child agree     *)
(* through them when the child has reported its thread identifier.  Threads  *)
(* clone in parallel and children clone in turn.                             *)
EXTENDS Naturals, FiniteSets

CONSTANTS
    Tids,        \* identifiers the host gives to threads
    Main,        \* the first one
    Flags,       \* clone's flags, of which the code looks at two
    Words,       \* the guest's ctid words
    Spurious,    \* pthread_cond_wait may return without a signal
    NoTid        \* no thread, no word

ASSUME SpawnAssumption ==
    /\ Main \in Tids /\ NoTid \notin Tids \cup Words
    /\ Flags \subseteq SUBSET {"parent_settid", "child_cleartid"}
    /\ Spurious \in BOOLEAN

VARIABLES
    at,          \* where each thread is
    call,        \* a parent's clone: flags, ctid, its child; on the parent's stack
    parent,      \* a child's args: the parent whose call it uses
    mutex,       \* owner of the parent's rax_lock
    signalled,   \* the parents whose rax_cond has been signalled
    rax, ptid,   \* RAX of each thread, the word a parent gave for ptid
    clearTid,    \* the address the kernel clears when a thread ends
    word,        \* the thread a ctid word names
    joining      \* the word on which a thread waits in the kernel

vars == <<at, call, parent, mutex, signalled, rax, ptid, clearTid, word, joining>>

InClone == {"create", "created", "wait", "woken"}
InHandshake == {"start", "reporting", "reported"}
Places == {"none", "guest", "ended", "joining"} \cup InClone \cup InHandshake
Calls == [flags : Flags, ctid : Words, child : Tids]

NoCall == CHOOSE c \in Calls : c.child = Main

Init == /\ at = [t \in Tids |-> IF t = Main THEN "guest" ELSE "none"]
        /\ call = [t \in Tids |-> NoCall]
        /\ parent = [t \in Tids |-> Main]
        /\ mutex = [t \in Tids |-> NoTid]
        /\ signalled = {}
        /\ rax = [t \in Tids |-> NoTid] /\ ptid = [t \in Tids |-> NoTid]
        /\ clearTid = [t \in Tids |-> NoTid]
        /\ word = [w \in Words |-> NoTid]
        /\ joining = [t \in Tids |-> NoTid]

Goes(t, from, to) == at[t] = from /\ at' = [at EXCEPT ![t] = to]

-----------------------------------------------------------------------------
(* The parent *)

\* (mutant) the mutex is not held from here to the wait
CloneUnlocked(p, f, w) ==
    /\ Goes(p, "guest", "create")
    /\ \E c \in Tids :
         /\ at[c] = "none" /\ \A q \in Tids : at[q] \in InClone => call[q].child # c
         /\ call' = [call EXCEPT ![p] = [flags |-> f, ctid |-> w, child |-> c]]
         /\ parent' = [parent EXCEPT ![c] = p]
         /\ rax' = [rax EXCEPT ![c] = NoTid]
         /\ "child_cleartid" \in f => word[w] = NoTid
         /\ word' = IF "child_cleartid" \in f THEN [word EXCEPT ![w] = c] ELSE word
    /\ signalled' = signalled \ {p}
    /\ UNCHANGED <<mutex, ptid, clearTid, joining>>

\* The guest gives flags f and the address w of the ctid word, in which it has
\* noted that the thread runs; the host will give the child identifier c.
Clone(p, f, w) ==
    /\ Goes(p, "guest", "create")
    /\ \E c \in Tids :
         /\ at[c] = "none" /\ \A q \in Tids : at[q] \in InClone => call[q].child # c
         /\ call' = [call EXCEPT ![p] = [flags |-> f, ctid |-> w, child |-> c]]
         /\ parent' = [parent EXCEPT ![c] = p]
         /\ rax' = [rax EXCEPT ![c] = NoTid]
         /\ "child_cleartid" \in f => word[w] = NoTid
         /\ word' = IF "child_cleartid" \in f THEN [word EXCEPT ![w] = c] ELSE word
    /\ mutex' = [mutex EXCEPT ![p] = p]
    /\ signalled' = signalled \ {p}
    /\ UNCHANGED <<ptid, clearTid, joining>>

PthreadCreate(p) ==
    /\ at[p] = "create"
    /\ at' = [at EXCEPT ![p] = "created", ![call[p].child] = "start"]
    /\ UNCHANGED <<call, parent, mutex, signalled, rax, ptid, clearTid, word, joining>>

\* pthread_cond_wait gives the mutex back and waits, in one step.
CondWait(p) ==
    /\ Goes(p, "created", "wait")
    /\ mutex' = [mutex EXCEPT ![p] = IF @ = p THEN NoTid ELSE @]
    /\ signalled' = signalled \ {p}
    /\ UNCHANGED <<call, parent, rax, ptid, clearTid, word, joining>>

WakeUp(p) ==
    /\ Goes(p, "wait", "woken")
    /\ p \in signalled \/ Spurious
    /\ UNCHANGED <<call, parent, mutex, signalled, rax, ptid, clearTid, word, joining>>

\* (mutant) the wait does not take the mutex again
FinishCloneUnlocked(p) ==
    /\ Goes(p, "woken", "guest")
    /\ UNCHANGED <<call, parent, mutex, signalled, rax, ptid, clearTid, word, joining>>

\* The wait ends with the mutex, which is then destroyed with the arguments.
FinishClone(p) ==
    /\ Goes(p, "woken", "guest")
    /\ mutex[p] = NoTid
    /\ UNCHANGED <<call, parent, mutex, signalled, rax, ptid, clearTid, word, joining>>

-----------------------------------------------------------------------------
(* The child, in MainLoopWrapper *)

LockArgs(c) ==
    LET p == parent[c] IN
    /\ Goes(c, "start", "reporting")
    /\ mutex[p] = NoTid
    /\ mutex' = [mutex EXCEPT ![p] = c]
    /\ UNCHANGED <<call, parent, signalled, rax, ptid, clearTid, word, joining>>

\* (mutant) the kernel is told an address only with the other flag
ReportOneFlag(c) ==
    LET p == parent[c]
        f == call[p].flags
    IN  /\ Goes(c, "reporting", "reported")
        /\ rax' = [rax EXCEPT ![p] = c]
        /\ ptid' = IF "parent_settid" \in f THEN [ptid EXCEPT ![p] = c] ELSE ptid
        /\ clearTid' = IF f = {"parent_settid", "child_cleartid"}
                         THEN [clearTid EXCEPT ![c] = call[p].ctid] ELSE clearTid
        /\ signalled' = signalled \cup {p}
        /\ UNCHANGED <<call, parent, mutex, word, joining>>

\* Under the mutex: the identifier for the parent, set_tid_address, the signal.
Report(c) ==
    LET p == parent[c]
        f == call[p].flags
    IN  /\ Goes(c, "reporting", "reported")
        /\ rax' = [rax EXCEPT ![p] = c]
        /\ ptid' = IF "parent_settid" \in f THEN [ptid EXCEPT ![p] = c] ELSE ptid
        /\ clearTid' = IF "child_cleartid" \in f
                         THEN [clearTid EXCEPT ![c] = call[p].ctid] ELSE clearTid
        /\ signalled' = signalled \cup {p}
        /\ UNCHANGED <<call, parent, mutex, word, joining>>

UnlockArgs(c) ==
    /\ Goes(c, "reported", "guest")
    /\ mutex' = [mutex EXCEPT ![parent[c]] = NoTid]
    /\ UNCHANGED <<call, parent, signalled, rax, ptid, clearTid, word, joining>>

-----------------------------------------------------------------------------
(* The end of a thread, and waiting for it *)

\* exit ends the host thread; the kernel clears the word whose address it has
\* been told and wakes who waits for it.
Exit(t) ==
    /\ Goes(t, "guest", "ended")
    /\ word' = IF clearTid[t] \in Words THEN [word EXCEPT ![clearTid[t]] = NoTid] ELSE word
    /\ UNCHANGED <<call, parent, mutex, signalled, rax, ptid, clearTid, joining>>

Join(t, w) ==
    /\ Goes(t, "guest", "joining")
    /\ word[w] \in Tids \ {t} /\ \A u \in Tids : joining[u] # w
    /\ joining' = [joining EXCEPT ![t] = w]
    /\ UNCHANGED <<call, parent, mutex, signalled, rax, ptid, clearTid, word>>

Joined(t) ==
    /\ Goes(t, "joining", "guest")
    /\ word[joining[t]] = NoTid
    /\ joining' = [joining EXCEPT ![t] = NoTid]
    /\ UNCHANGED <<call, parent, mutex, signalled, rax, ptid, clearTid, word>>

\* All threads have ended, but for those that wait for each other.
Over == (\A t \in Tids : at[t] \in {"none", "ended", "joining"}) /\ UNCHANGED vars

\* What a thread does by itself, once it is in clone.
Handshake(t) == \/ PthreadCreate(t) \/ CondWait(t) \/ WakeUp(t) \/ FinishClone(t)
                \/ LockArgs(t) \/ Report(t) \/ UnlockArgs(t)

Guest(t) == \/ \E f \in Flags, w \in Words : Clone(t, f, w)
            \/ Exit(t)
            \/ \E w \in Words : Join(t, w)
            \/ Joined(t)

Next == (\E t \in Tids : Handshake(t) \/ Guest(t)) \/ Over

Spec == Init /\ [][Next]_vars

\* The host schedules every thread in the end.
FairSpec == Spec /\ \A t \in Tids : WF_vars(Handshake(t))

-----------------------------------------------------------------------------
TypeOK == /\ at \in [Tids -> Places]
          /\ call \in [Tids -> Calls]
          /\ parent \in [Tids -> Tids]
          /\ mutex \in [Tids -> Tids \cup {NoTid}]
          /\ signalled \subseteq Tids
          /\ rax \in [Tids -> Tids \cup {NoTid}]
          /\ ptid \in [Tids -> Tids \cup {NoTid}]
          /\ clearTid \in [Tids -> Words \cup {NoTid}]
          /\ word \in [Words -> Tids \cup {NoTid}]
          /\ joining \in [Tids -> Words \cup {NoTid}]

\* A child uses clone's arguments, the mutex among them, only while its parent
\* is still in clone: they are on its stack and destroyed when it returns.
ArgsAlive == \A c \in Tids : at[c] \in InHandshake => /\ at[parent[c]] \in InClone
                                                      /\ call[parent[c]].child = c

\* When clone returns the child has reported: RAX is the child's identifier, and
\* so is the word at RDX if the guest has asked for it, though other threads
\* clone at the same time and children clone before their parents return.
CloneResult ==
    [][\A p \in Tids : at[p] \in InClone /\ at'[p] = "guest" =>
          LET c == call[p].child IN
          /\ rax[p] = c
          /\ "parent_settid" \in call[p].flags => ptid[p] = c
          /\ at[c] \notin InHandshake]_vars

\* No ctid word names a thread that has ended, so that nobody waits for it in
\* vain: whatever the flags, the kernel knows the word before the guest's code
\* in the child, which may end at once, begins.
EndedCleared == \A w \in Words : word[w] \in Tids => at[word[w]] # "ended"

\* clone returns: the child's signal is not lost, and nobody keeps the mutex.
CloneReturns == \A p \in Tids : at[p] = "create" ~> at[p] = "guest"

-----------------------------------------------------------------------------
(* The inductive invariant, without spurious wake-ups *)

\* A parent in clone and its child belong to each other, from the moment the
\* host has chosen the child's identifier.
Paired ==
    /\ \A p \in Tids : at[p] \in InClone =>
          LET c == call[p].child IN
          /\ parent[c] = p /\ c # p
          /\ at[p] = "create" => at[c] = "none"
          /\ at[p] = "created" => at[c] = "start"
          /\ at[p] # "create" => at[c] # "none"
    /\ \A c \in Tids : at[c] \in InHandshake =>
          at[parent[c]] \in InClone /\ call[parent[c]].child = c

\* Who has the mutex, and that a parent about to leave has been signalled.
Excluded ==
    /\ \A p \in Tids : at[p] \in {"create", "created"} => mutex[p] = p
    /\ \A c \in Tids : at[c] \in {"reporting", "reported"} => mutex[parent[c]] = c

Signalled(p) == at[p] = "woken" \/ (at[p] = "wait" /\ p \in signalled)

Answered(p) == LET c == call[p].child IN
               /\ at[c] \notin {"start", "reporting"}
               /\ rax[p] = c
               /\ "parent_settid" \in call[p].flags => ptid[p] = c

Reported == \A p \in Tids : Signalled(p) => Answered(p)

SpawnInv == TypeOK /\ Paired /\ Excluded /\ Reported

\* Who sees to it that w no longer names t when t has ended: the clone that will
\* have the kernel told about w, while t has not reported, and then the kernel.
Watch(t, w) ==
    \/ /\ at[t] \in {"none", "start", "reporting"}
       /\ at[parent[t]] \in InClone /\ call[parent[t]].child = t
       /\ call[parent[t]].ctid = w /\ "child_cleartid" \in call[parent[t]].flags
    \/ at[t] \notin {"none", "start", "reporting", "ended"} /\ clearTid[t] = w

Watched == \A w \in Words : word[w] \in Tids => Watch(word[w], w)
=============================================================================
