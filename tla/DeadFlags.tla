------------------------------ MODULE DeadFlags -------------------------------
(***************************************************************************)
(* The elimination of dead flag writes (ir/opt.h), and the run of the code *)
(* it leaves.  A chunk is a sequence of packets, one per guest             *)
(* instruction; a packet is a sequence of actions, of which the pass looks *)
(* at the flag an action writes and at the flags its value reads.  The     *)
(* visitor goes through the chunk backwards and decides which writes are   *)
(* never seen; then the chunk runs, and `behind' holds the flags whose     *)
(* last write was left out of the optimised code.  One visitor serves one  *)
(* chunk after the other: basic blocks in the translator                   *)
(* (translation-engine.cpp 104-123), functions in the static compiler      *)
(* (txlat-engine.cpp 673-681).                                             *)
(***************************************************************************)
EXTENDS Integers, Sequences

CONSTANTS Flags,   \* the flag registers the pass knows
          None,    \* what an action that writes no flag writes
          Chunks,  \* the chunks the program consists of
          Targets(_, _)  \* Targets(c, k): the packets of c, or the end of c,
                         \* that packet k jumps to instead of the next one

\* An action writes w when it is reached; the flags r are read before that.
Actions == [w : Flags \cup {None}, r : SUBSET Flags]
Packets == Seq(Actions)

\* The actions of an instruction run in their order, each exactly once.  A
\* flag is fetched by the first of them that uses it and kept for the others
\* (lower_port memorises a node's value): an instruction that uses a flag it
\* has already written fetched it before that, for a register or for memory.
ReadsFirst(p) ==
    \A m, n \in DOMAIN p : m < n /\ p[m].w \in p[n].r =>
      \E l \in DOMAIN p : l < m /\ p[l].w = None /\ p[m].w \in p[l].r

\* A basic block of the translator has no jump inside; a function of the
\* static compiler, one chunk from its symbol to its end, may have some
\* (llvm-static-output-engine.cpp 2390-2420).
StraightLine == \A c \in Chunks, k \in Nat : Targets(c, k) = {}

ASSUME FlagsAssumption == None \notin Flags
ASSUME ChunksAssumption ==
    \A c \in Chunks : c \in Seq(Packets) /\ \A k \in DOMAIN c : ReadsFirst(c[k])

VARIABLES
    chunk,           \* the chunk at hand
    phase,           \* "idle", "pass": visited backwards, "run": executed forwards
    i, j,            \* the packet and the action at hand
    last_se,         \* last_se_packets_: the flags a write of which was visited
    live_flags,      \* live_flags_
    new_live_flags,  \* new_live_flags: the reads of the packet at hand
    delete,          \* delete_: the writes of the packet at hand to be deleted
    deleted,         \* the writes that have been taken out of the chunk
    behind           \* the flags that lack their last write

pass == <<last_se, live_flags, new_live_flags, delete, deleted>>
vars == <<chunk, phase, i, j, pass, behind>>

Length(k) == IF k \in DOMAIN chunk THEN Len(chunk[k]) ELSE 0

Init ==
    /\ chunk = << >> /\ phase = "idle" /\ i = 0 /\ j = 0
    /\ last_se = {} /\ live_flags = {} /\ new_live_flags = {}
    /\ delete = {} /\ deleted = {} /\ behind = {}

\* visit_chunk begins; what the visitor gathers per packet it leaves alone.
VisitChunk ==
    /\ phase = "idle"
    /\ \E c \in Chunks :
         /\ chunk' = c
         /\ i' = Len(c)
         /\ j' = IF c = << >> THEN 0 ELSE Len(c[Len(c)])
    /\ phase' = "pass"
    /\ last_se' = {} /\ live_flags' = {} /\ deleted' = {}
    /\ UNCHANGED <<new_live_flags, delete, behind>>

Current == chunk[i][j]

\* Mutant: the last write of a chunk is treated like any other.
KeepsWriteIfLive(f) == f \in live_flags

\* visit_write_reg_node: the last write of a chunk stays; another one stays
\* if its flag is live.  Either way the flag is not live before the write.
KeepsWrite(f) == f \notin last_se \/ f \in live_flags

\* Mutants: a read is live at once, so that a write before it in the same
\* packet satisfies it; registers that are no flags are recorded too.
VisitActionAtOnce ==
    /\ phase = "pass" /\ i > 0 /\ j > 0
    /\ last_se' = last_se \cup ({Current.w} \ {None})
    /\ live_flags' = (live_flags \ {Current.w}) \cup Current.r
    /\ delete' = IF Current.w \in Flags /\ ~KeepsWrite(Current.w)
                   THEN delete \cup {<<i, j>>} ELSE delete
    /\ j' = j - 1
    /\ UNCHANGED <<chunk, phase, i, new_live_flags, deleted, behind>>

VisitActionAnyRegister ==
    /\ phase = "pass" /\ i > 0 /\ j > 0
    /\ last_se' = last_se \cup {Current.w}
    /\ live_flags' = live_flags \ {Current.w}
    /\ delete' = IF Current.w \in Flags /\ ~KeepsWrite(Current.w)
                   THEN delete \cup {<<i, j>>} ELSE delete
    /\ new_live_flags' = new_live_flags \cup Current.r
    /\ j' = j - 1
    /\ UNCHANGED <<chunk, phase, i, deleted, behind>>

VisitAction ==
    /\ phase = "pass" /\ i > 0 /\ j > 0
    /\ last_se' = last_se \cup ({Current.w} \ {None})
    /\ live_flags' = live_flags \ {Current.w}
    /\ delete' = IF Current.w \in Flags /\ ~KeepsWrite(Current.w)
                   THEN delete \cup {<<i, j>>} ELSE delete
    \* visit_read_reg_node: a read becomes live when the packet is left
    /\ new_live_flags' = new_live_flags \cup Current.r
    /\ j' = j - 1
    /\ UNCHANGED <<chunk, phase, i, deleted, behind>>

\* The end of visit_packet.
LeavePacket ==
    /\ phase = "pass" /\ i > 0 /\ j = 0
    /\ deleted' = deleted \cup delete /\ delete' = {}
    /\ live_flags' = live_flags \cup new_live_flags /\ new_live_flags' = {}
    /\ i' = i - 1 /\ j' = Length(i - 1)
    /\ UNCHANGED <<chunk, phase, last_se, behind>>

\* visit_chunk is done: what is left of the chunk is lowered and runs.
Run ==
    /\ phase = "pass" /\ i = 0
    /\ phase' = "run" /\ i' = 1 /\ j' = 1
    /\ UNCHANGED <<chunk, pass, behind>>

\* An action of the original chunk, made by the optimised code unless it
\* was deleted.
Step ==
    /\ phase = "run" /\ i <= Len(chunk) /\ j <= Length(i)
    /\ behind' = IF <<i, j>> \in deleted THEN behind \cup {Current.w}
                 ELSE behind \ {Current.w}
    /\ j' = j + 1
    /\ UNCHANGED <<chunk, phase, i, pass>>

NextPacket ==
    /\ phase = "run" /\ i <= Len(chunk) /\ j > Length(i)
    /\ i' \in {i + 1} \cup Targets(chunk, i) /\ j' = 1
    /\ UNCHANGED <<chunk, phase, pass, behind>>

\* The chunk ends; another one follows, in any order.
Leave ==
    /\ phase = "run" /\ i > Len(chunk)
    /\ phase' = "idle" /\ chunk' = << >> /\ i' = 0 /\ j' = 0 /\ deleted' = {}
    /\ UNCHANGED <<last_se, live_flags, new_live_flags, delete, behind>>

Next == VisitChunk \/ VisitAction \/ LeavePacket \/ Run \/ Step \/ NextPacket \/ Leave

Spec == Init /\ [][Next]_vars
-------------------------------------------------------------------------------
(* What the pass has to achieve. *)

Writes(k, f) == \E m \in DOMAIN chunk[k] : chunk[k][m].w = f
Reads(k, f) == \E m \in DOMAIN chunk[k] : f \in chunk[k][m].r

WrittenAfter(k, f) == \E l \in DOMAIN chunk : k < l /\ Writes(l, f)

\* Some later instruction reads what f is when instruction k ends.
ReadAfter(k, f) ==
    \E l \in DOMAIN chunk : /\ k < l /\ Reads(l, f)
                            /\ \A h \in DOMAIN chunk : k < h /\ h < l => ~Writes(h, f)

RewrittenInPacket(k, m) ==
    \E n \in DOMAIN chunk[k] : m < n /\ chunk[k][n].w = chunk[k][m].w

\* The write m of packet k is replaced in the chunk before it is read.
DeadWrite(k, m) ==
    /\ chunk[k][m].w \in Flags
    /\ \/ RewrittenInPacket(k, m)
       \/ WrittenAfter(k, chunk[k][m].w) /\ ~ReadAfter(k, chunk[k][m].w)

Positions == UNION {{k} \X DOMAIN chunk[k] : k \in DOMAIN chunk}

TypeOK ==
    /\ chunk \in Seq(Packets)
    /\ phase \in {"idle", "pass", "run"}
    /\ i \in Nat /\ j \in Nat
    /\ last_se \subseteq Flags /\ live_flags \subseteq Flags /\ new_live_flags \subseteq Flags
    /\ delete \subseteq Positions /\ deleted \subseteq Positions
    /\ behind \subseteq Flags

\* The pass takes out the writes that are replaced before they are read, all
\* of them and no other: a flag read by an instruction that also writes it is
\* live before that instruction and dead after its predecessor's write only if
\* the read is deferred to the end of the packet (opt.h 114-123), and the last
\* write of each flag stays for the chunk that follows (opt.h 129-135).
DeletesDeadWrites ==
    phase = "run" => deleted = {p \in Positions : DeadWrite(p[1], p[2])}

\* What is left of the instruction at hand has already fetched the flag.
Fetched(f) ==
    \E l \in DOMAIN chunk[i] : l < j /\ <<i, l>> \notin deleted /\ f \in chunk[i][l].r

\* Wherever the optimised code fetches a flag, and when it leaves the chunk, the
\* flag is what it is in the code as it was translated: the comment in opt.h
\* 136-137 promises that a flag that "is read later" keeps its write.
FlagsAgree ==
    phase = "run" =>
      /\ i \in DOMAIN chunk /\ j \in DOMAIN chunk[i] =>
           \A f \in chunk[i][j].r \cap behind : Fetched(f)
      /\ i > Len(chunk) => behind = {}
===============================================================================
