------------------------------ MODULE RegSync ------------------------------
(* Static functions keep the guest's registers in local variables, one set   *)
(* per activation, translated code keeps them in the CPU state.  Around      *)
(* calls, returns, jumps out of a function and system calls the static code  *)
(* copies some of them between the two; which ones is chosen after the       *)
(* System V calling convention, which the guest is expected to follow.       *)
(*                                                                           *)
(* No step relates two registers, so that the model follows one register at  *)
(* a time, any of them, through the activations of one guest thread.         *)
EXTENDS Integers, Sequences

CONSTANTS
    Tracked,     \* the registers to follow
    Values,      \* values the guest writes; 0 is what a local starts with
    FloatArgs,   \* floating-point arguments the guest passes in registers
    MaxFrames    \* bounds the activations on the host stack

\* Registers are named by their positions in reg.def.
Regs == 0 .. 64
PC == 0
RAX == 1
RDX == 3
Args == {2, RDX, 7, 8, 9, 10}                \* RCX, RDX, RSI, RDI, R8, R9
CalleeGprs == {4, 5, 6} \cup 13 .. 16       \* RBX, RSP, RBP, R12 to R15
X87Base == 27
Permanent == {PC, 25, 26} \cup 28 .. 31     \* FS, GS, the x87's words
Rets == {RAX, RDX}
Zmm(i) == 32 + i

ASSUME RegAssumption ==
    /\ Tracked \subseteq Regs
    /\ 0 \in Values
    /\ FloatArgs \in 0 .. 8
    /\ MaxFrames \in Nat

VARIABLES
    reg,       \* the register that is followed
    guest,     \* its value, had the guest run on a processor of its own
    defined,   \* the calling convention lets the guest read it now
    mem,       \* its field in the CPU state
    frames,    \* host stack: MainLoop and static functions, the innermost last
    back       \* MainLoop has just returned to the innermost activation

vars == <<reg, guest, defined, mem, frames, back>>

\* An activation: MainLoop, a static function, or one that has called MainLoop
\* to jump elsewhere ("tail").  via: a static function has been called directly
\* by another or by MainLoop.  loc: its copy of the register.
Loop == [kind |-> "loop", via |-> "loop", loc |-> 0]
Frames == [kind : {"loop", "static", "tail"}, via : {"loop", "direct"}, loc : Values]

Top == frames[Len(frames)]
Below == frames[Len(frames) - 1]
Pop == [i \in 1 .. Len(frames) - 1 |-> frames[i]]
SetTop(s, f) == [s EXCEPT ![Len(s)] = f]

InStatic == ~back /\ frames # <<>> /\ Top.kind = "static"
InTranslated == ~back /\ frames # <<>> /\ Top.kind = "loop"

-----------------------------------------------------------------------------
(* save_callee_regs and restore_callee_regs *)

Saved(withArgs) == CalleeGprs \cup Permanent \cup Zmm(0) .. Zmm(7)
                   \cup (IF withArgs THEN Args ELSE {})

Restored(withRets) ==
    CalleeGprs \cup Permanent \cup {X87Base} \cup Zmm(0) .. Zmm(1)
    \cup (IF withRets THEN Rets ELSE {})

Save(loc, withArgs) == IF reg \in Saved(withArgs) THEN loc ELSE mem

Restore(m, loc, withRets) == IF reg \in Restored(withRets) THEN m ELSE loc

\* A static function starts with zeroes, its own copy of what it restores, and
\* its arguments.
Entered(m, arg) == IF reg \in Args THEN arg ELSE Restore(m, 0, FALSE)

\* The caller's copy after a direct call: restored, and unwrap_ret.
Returned(m, loc, ret) == IF reg \in Rets THEN ret ELSE Restore(m, loc, FALSE)

-----------------------------------------------------------------------------
(* The calling convention *)

Preserved == CalleeGprs \cup Permanent \cup {X87Base}
EntryLive == Preserved \cup Args \cup Zmm(0) .. Zmm(FloatArgs - 1)
ReturnLive == Preserved \cup Rets \cup Zmm(0) .. Zmm(1)

AtEntry == defined' = (defined /\ reg \in EntryLive)
AtReturn == defined' = (defined /\ reg \in ReturnLive)

-----------------------------------------------------------------------------
Init == /\ reg \in Tracked
        /\ guest \in Values
        /\ mem = guest
        /\ defined = TRUE
        /\ frames = <<Loop>>
        /\ back = FALSE

\* An instruction writes the register.  No translator writes the x87 base.
Write(v) ==
    /\ InStatic \/ InTranslated
    /\ reg # X87Base
    /\ guest' = v
    /\ defined' = TRUE
    /\ IF InStatic THEN /\ frames' = SetTop(frames, [Top EXCEPT !.loc = v])
                        /\ UNCHANGED mem
                   ELSE mem' = v /\ UNCHANGED frames
    /\ UNCHANGED <<reg, back>>

\* lower_static_fn_lookup: MainLoop finds a static function for the PC, when
\* the guest has called it or jumped to it; its activation ends with it.
EnterStatic ==
    /\ InTranslated
    /\ frames' = SetTop(frames, [kind |-> "static", via |-> "loop",
                                 loc |-> Entered(mem, mem)])
    /\ AtEntry
    /\ UNCHANGED <<reg, guest, mem, back>>

\* Return code 3 of translated code: MainLoop calls itself.
CallTranslated ==
    /\ InTranslated
    /\ Len(frames) < MaxFrames
    /\ frames' = Append(frames, Loop)
    /\ AtEntry
    /\ UNCHANGED <<reg, guest, mem, back>>

\* Return code 4.
ReturnTranslated ==
    /\ InTranslated
    /\ frames' = Pop
    /\ back' = TRUE
    /\ AtReturn
    /\ UNCHANGED <<reg, guest, mem>>

CallDirect ==
    /\ InStatic
    /\ Len(frames) < MaxFrames
    /\ mem' = Save(Top.loc, FALSE)
    /\ frames' = Append(frames, [kind |-> "static", via |-> "direct",
                                 loc |-> Entered(mem', Top.loc)])
    /\ AtEntry
    /\ UNCHANGED <<reg, guest, back>>

\* (mutant) the arguments are not saved
CallIndirectNoArgs ==
    /\ InStatic
    /\ Len(frames) < MaxFrames
    /\ mem' = Save(Top.loc, FALSE)
    /\ frames' = Append(frames, Loop)
    /\ AtEntry
    /\ UNCHANGED <<reg, guest, back>>

CallIndirect ==
    /\ InStatic
    /\ Len(frames) < MaxFrames
    /\ mem' = Save(Top.loc, TRUE)
    /\ frames' = Append(frames, Loop)
    /\ AtEntry
    /\ UNCHANGED <<reg, guest, back>>

\* The "dyn" block: a tail call.
JumpOut ==
    /\ InStatic
    /\ Len(frames) < MaxFrames
    /\ mem' = Save(Top.loc, TRUE)
    /\ frames' = Append(SetTop(frames, [Top EXCEPT !.kind = "tail"]), Loop)
    /\ AtEntry
    /\ UNCHANGED <<reg, guest, back>>

\* (mutant) MainLoop drops what the static function has returned
GiveBackDropped(m, ret) ==
    IF Top.via = "direct"
      THEN /\ frames' = SetTop(Pop, [Below EXCEPT !.loc = Returned(m, Below.loc, ret)])
           /\ mem' = m
           /\ back' = FALSE
      ELSE /\ frames' = Pop
           /\ mem' = m
           /\ back' = TRUE

\* The innermost activation returns RAX and RDX in ret, to the static function
\* that called it or to MainLoop, which stores them and returns.
GiveBack(m, ret) ==
    IF Top.via = "direct"
      THEN /\ frames' = SetTop(Pop, [Below EXCEPT !.loc = Returned(m, Below.loc, ret)])
           /\ mem' = m
           /\ back' = FALSE
      ELSE /\ frames' = Pop
           /\ mem' = (IF reg \in Rets THEN ret ELSE m)
           /\ back' = TRUE

ReturnStatic ==
    /\ InStatic
    /\ GiveBack(Save(Top.loc, FALSE), Top.loc)
    /\ AtReturn
    /\ UNCHANGED <<reg, guest>>

\* MainLoop has returned: to the call block of another, to a static function
\* that waits for an indirect call, or to one that has jumped out and returns.
Resume ==
    /\ back /\ frames # <<>>
    /\ Top.kind \in {"loop", "static"}
    /\ back' = FALSE
    /\ frames' = IF Top.kind = "loop" THEN frames
                 ELSE SetTop(frames, [Top EXCEPT !.loc = Restore(mem, Top.loc, TRUE)])
    /\ UNCHANGED <<reg, guest, defined, mem>>

ReturnAfterJump ==
    /\ back /\ frames # <<>>
    /\ Top.kind = "tail"
    /\ GiveBack(mem, Restore(mem, Top.loc, TRUE))
    /\ UNCHANGED <<reg, guest, defined>>

\* What system calls change: RAX and, by arch_prctl, FS and GS.
SyscallRegs == {RAX, 25, 26}

\* A system call from static code, with its effect v on the register, if any;
\* clone's child goes on in MainLoop with a copy of the CPU state.
StaticSyscall(v, child) ==
    /\ InStatic
    /\ IF reg \in SyscallRegs
         THEN guest' = v /\ defined' = TRUE /\ mem' = v
         ELSE mem' = Top.loc /\ UNCHANGED <<guest, defined>>   \* save_all_regs
    /\ frames' = IF child THEN <<Loop>>
                          ELSE SetTop(frames, [Top EXCEPT !.loc = mem'])
    /\ UNCHANGED <<reg, back>>

Over == frames = <<>> /\ UNCHANGED vars

Next == \/ \E v \in Values : Write(v) \/ StaticSyscall(v, TRUE) \/ StaticSyscall(v, FALSE)
        \/ EnterStatic \/ CallTranslated \/ ReturnTranslated
        \/ CallDirect \/ CallIndirect \/ JumpOut \/ ReturnStatic
        \/ Resume \/ ReturnAfterJump \/ Over

Spec == Init /\ [][Next]_vars

-----------------------------------------------------------------------------
TypeOK == /\ reg \in Tracked
          /\ guest \in Values /\ mem \in Values
          /\ defined \in BOOLEAN /\ back \in BOOLEAN
          /\ frames \in Seq(Frames)

\* When MainLoop returns, what the guest may rely on then is in the CPU state,
\* for whoever has called it (lower_static_fn_lookup, the "dyn" block).
MemoryCurrent == back /\ defined => mem = guest

\* Whatever the guest may rely on after the calling convention, the code that
\* runs reads the right value of: in the locals of a static function or in the
\* CPU state, through any nesting of direct and indirect calls, tail calls,
\* returns through several activations, system calls and clones
\* (save_callee_regs, restore_callee_regs, load_args, wrap_ret, unwrap_ret).
ArgumentsArrive ==
    /\ InStatic /\ defined => Top.loc = guest
    /\ InTranslated /\ defined => mem = guest

\* The inductive invariant needs besides that a static function called directly
\* has a static caller, that only a waiting activation is a "tail", that after a
\* return only what returns preserve is defined, and that the x87 base, which is
\* restored but never saved, is always right.
StackInv ==
    \A i \in 1 .. Len(frames) :
        /\ frames[i].via = "direct" => i > 1 /\ frames[i - 1].kind = "static"
        /\ frames[i].kind = "tail" => i < Len(frames) \/ back

ReturnInv == back /\ defined => reg \in ReturnLive

BaseInv == reg = X87Base => defined /\ mem = guest

SyncInv == /\ TypeOK /\ StackInv /\ ReturnInv /\ BaseInv
           /\ MemoryCurrent /\ ArgumentsArrive
=============================================================================
