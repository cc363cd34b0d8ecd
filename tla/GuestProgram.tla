---------------------------- MODULE GuestProgram ----------------------------
(* The guest program that the translator runs, as far as control flow goes:  *)
(* a finite set of basic blocks, named by the guest address they start at,   *)
(* each ending in one of the terminators the x86 front end distinguishes     *)
(* (br_type of a packet and the internal calls of interrupt.cpp).  What a    *)
(* block computes is abstracted away: a conditional jump may go either way   *)
(* and an indirect transfer may reach any address of a given set.            *)
EXTENDS Sequences, Integers

CONSTANTS
    PCs,        \* guest addresses of basic blocks
    Entry,      \* where the main thread starts
    Kind,       \* the terminator of each block
    Taken,      \* target of a direct jump, conditional jump or call
    NextPc,     \* address of the instruction after the block
    Dyn,        \* addresses an indirect jump or call may reach
    Threads,    \* thread slots: bounds the guest threads alive at a time
    Main,       \* the thread the process starts with
    MaxDepth,   \* bounds the depth of the guest's call stack
    None        \* "no address", "no translation", "no owner"

Kinds == {"br", "csel", "ijmp",       \* jmp, jcc, jmp *r
          "call", "icall", "ret",
          "sys",                       \* a system call that returns
          "clone", "exit", "exitgroup",
          "unsup",                     \* a system call internal_call rejects
          "poison"}                    \* an instruction without a translator

ASSUME ProgramAssumption ==
    /\ Entry \in PCs
    /\ Kind \in [PCs -> Kinds]
    /\ Taken \in [PCs -> PCs]
    /\ NextPc \in [PCs -> PCs]
    /\ Dyn \in [PCs -> SUBSET PCs]
    /\ Main \in Threads
    /\ MaxDepth \in Nat
    /\ None \notin PCs
    /\ None \notin Threads

\* Where the terminator of block p may transfer control within the thread.
CallTargets(p) == IF Kind[p] = "call" THEN {Taken[p]} ELSE Dyn[p]

JumpTargets(p) == CASE Kind[p] = "br"   -> {Taken[p]}
                    [] Kind[p] = "csel" -> {Taken[p], NextPc[p]}
                    [] OTHER            -> Dyn[p]

IsJump(p) == Kind[p] \in {"br", "csel", "ijmp"}
IsCall(p) == Kind[p] \in {"call", "icall"}
=============================================================================
