----------------------------- MODULE DbtRuntime -----------------------------
(* The hybrid execution of a guest process.  Each guest thread is a host     *)
(* thread that runs MainLoop: it calls a statically translated function if   *)
(* there is one for the guest PC, and otherwise execution_context::invoke,   *)
(* which takes the big lock, looks the PC up in the translation cache or     *)
(* translates it, chains the block the thread came from to it, and runs it.  *)
(* A block ends by a jump to another block, if chaining has patched one in,  *)
(* or by returning a code to MainLoop, which recurses on a guest call and    *)
(* returns on a guest return.  Static functions call each other directly and *)
(* MainLoop for everything else.                                             *)
(*                                                                           *)
(* A step that touches only the thread's own registers and host stack is     *)
(* taken together with the step before it.                                   *)
EXTENDS GuestProgram

CONSTANTS
    StaticFns,   \* entry addresses of the statically translated functions
    Chunk,       \* the blocks of each of them
    Tx,          \* translations that fit into the code arena
    HostChains,  \* TRUE for riscv64, whose context implements chain()
    TooFar       \* <<x, y>>: no jump that chain() can write in x reaches y

ASSUME StaticAssumption ==
    /\ StaticFns \subseteq PCs
    /\ Chunk \in [StaticFns -> SUBSET PCs]
    /\ \A f \in StaticFns : f \in Chunk[f]
    \* the code after a call or a system call belongs to the same function
    /\ \A f \in StaticFns : \A p \in Chunk[f] :
           Kind[p] \in {"call", "icall", "sys", "clone"} => NextPc[p] \in Chunk[f]
    /\ None \notin Tx
    /\ HostChains \in BOOLEAN
    /\ TooFar \subseteq Tx \X Tx

VARIABLES
    spc,      \* PC in the cpu_state of each thread
    gstack,   \* return addresses on the guest stack, the innermost last
    frames,   \* host stack: MainLoop and static function activations
    ctl,      \* what the host thread does
    cur,      \* the translation it looked up or executes
    chainAt,  \* chain_address_: the exit it left its last block by
    lock,     \* owner of big_fat_lock
    cache,    \* translation_cache: guest PC to translation
    txPc,     \* guest PC of each translation; None: arena space not used yet
    firstOp,  \* the first patchable instruction of a translation's exit
    firstTo,  \* and the translation it has been made to jump to
    trueTo,   \* where a conditional exit's taken side has been made to jump
    proc      \* the process

code == <<cache, txPc, firstOp, firstTo, trueTo>>
host == <<lock, proc>>
vars == <<spc, gstack, frames, ctl, cur, chainAt, lock, cache, txPc,
          firstOp, firstTo, trueTo, proc>>

LoopFrame == [fn |-> None, at |-> None]
StaticFrame(f, p) == [fn |-> f, at |-> p]
Frames == {LoopFrame} \cup [fn : StaticFns, at : PCs]

Top(s) == s[Len(s)]
Pop(s) == [i \in 1 .. Len(s) - 1 |-> s[i]]
SetTop(s, f) == [s EXCEPT ![Len(s)] = f]

\* Exits of a translation that chain() can patch: the only exit of a jump and
\* the not-taken exit of a conditional jump share the first position.
Slots == Tx \X {"first", "true"}

Controls == {"off", "top", "locked", "missed", "found", "exec", "sys", "static"}

Init == /\ spc = [t \in Threads |-> Entry]
        /\ gstack = [t \in Threads |-> <<>>]
        /\ frames = [t \in Threads |-> IF t = Main THEN <<LoopFrame>> ELSE <<>>]
        /\ ctl = [t \in Threads |-> IF t = Main THEN "top" ELSE "off"]
        /\ cur = [t \in Threads |-> None]
        /\ chainAt = [t \in Threads |-> None]
        /\ lock = None
        /\ cache = [p \in PCs |-> None]
        /\ txPc = [x \in Tx |-> None]
        /\ firstOp = [x \in Tx |-> "auipc"]
        /\ firstTo = [x \in Tx |-> None]
        /\ trueTo = [x \in Tx |-> None]
        /\ proc = "running"

-----------------------------------------------------------------------------
(* MainLoop and execution_context::invoke *)

At(t, c) == proc = "running" /\ ctl[t] = c

\* (mutant) the loop goes on after the static function instead of returning
CallStaticFnInLoop(t) ==
    /\ At(t, "top")
    /\ spc[t] \in StaticFns
    /\ frames' = [frames EXCEPT ![t] = Append(@, StaticFrame(spc[t], spc[t]))]
    /\ ctl' = [ctl EXCEPT ![t] = "static"]
    /\ UNCHANGED <<spc, gstack, cur, chainAt, code, host>>

\* lower_static_fn_lookup: the loop's activation ends with the function's.
CallStaticFn(t) ==
    /\ At(t, "top")
    /\ spc[t] \in StaticFns
    /\ frames' = [frames EXCEPT ![t] = SetTop(@, StaticFrame(spc[t], spc[t]))]
    /\ ctl' = [ctl EXCEPT ![t] = "static"]
    /\ UNCHANGED <<spc, gstack, cur, chainAt, code, host>>

\* (mutant) the lock is not waited for
EnterInvokeUnlocked(t) ==
    /\ At(t, "top")
    /\ spc[t] \notin StaticFns
    /\ lock' = t
    /\ ctl' = [ctl EXCEPT ![t] = "locked"]
    /\ UNCHANGED <<spc, gstack, frames, cur, chainAt, code, proc>>

EnterInvoke(t) ==
    /\ At(t, "top")
    /\ spc[t] \notin StaticFns
    /\ lock = None
    /\ lock' = t
    /\ ctl' = [ctl EXCEPT ![t] = "locked"]
    /\ UNCHANGED <<spc, gstack, frames, cur, chainAt, code, proc>>

CanTranslate(p) == Kind[p] # "poison" /\ \E x \in Tx : txPc[x] = None

FreshTx == CHOOSE x \in Tx : txPc[x] = None

\* (mutant) the result of the lookup is not tested
LookupUntested(t) ==
    /\ At(t, "locked")
    /\ cur' = [cur EXCEPT ![t] = cache[spc[t]]]
    /\ ctl' = [ctl EXCEPT ![t] = "found"]
    /\ UNCHANGED <<spc, gstack, frames, chainAt, code, host>>

LookupHit(t) ==
    /\ At(t, "locked")
    /\ cache[spc[t]] # None
    /\ cur' = [cur EXCEPT ![t] = cache[spc[t]]]
    /\ ctl' = [ctl EXCEPT ![t] = "found"]
    /\ UNCHANGED <<spc, gstack, frames, chainAt, code, host>>

LookupMiss(t) ==
    /\ At(t, "locked")
    /\ cache[spc[t]] = None
    /\ ctl' = [ctl EXCEPT ![t] = "missed"]
    /\ UNCHANGED <<spc, gstack, frames, cur, chainAt, code, host>>

\* (mutant) the translation is not inserted and the lookup is tried again
TranslateAndRetry(t) ==
    /\ At(t, "missed")
    /\ CanTranslate(spc[t])
    /\ ctl' = [ctl EXCEPT ![t] = "locked"]
    /\ UNCHANGED <<spc, gstack, frames, cur, chainAt, code, host>>

Translate(t) ==
    /\ At(t, "missed")
    /\ CanTranslate(spc[t])
    /\ cur' = [cur EXCEPT ![t] = FreshTx]
    /\ txPc' = [txPc EXCEPT ![FreshTx] = spc[t]]
    /\ cache' = [cache EXCEPT ![spc[t]] = FreshTx]
    /\ ctl' = [ctl EXCEPT ![t] = "found"]
    /\ UNCHANGED <<spc, gstack, frames, chainAt, firstOp, firstTo, trueTo, host>>

\* The exception of translate() or of the arena leaves invoke and MainLoop.
TranslateFails(t) ==
    /\ At(t, "missed")
    /\ ~CanTranslate(spc[t])
    /\ proc' = "aborted"
    /\ UNCHANGED <<spc, gstack, frames, ctl, cur, chainAt, code, lock>>

\* chain(): the instruction after the slot is a branch only in a conditional
\* exit whose first position is unpatched; then the slot becomes that branch,
\* aimed at the next block.  In all other cases it becomes a plain jump.
FollowedByBranch(x) == Kind[txPc[x]] = "csel" /\ firstOp[x] = "auipc"

\* (mutant) the branch of a conditional exit is not looked for
PatchFirstAsJump(x, to) ==
    /\ firstOp' = [firstOp EXCEPT ![x] = "jump"]
    /\ firstTo' = [firstTo EXCEPT ![x] = to]
    /\ UNCHANGED trueTo

\* (mutant) the patch reaches into the other side of the exit
PatchFirstOverTrue(x, to) ==
    /\ firstOp' = [firstOp EXCEPT ![x] =
                       IF FollowedByBranch(x) THEN "branch" ELSE "jump"]
    /\ firstTo' = [firstTo EXCEPT ![x] = to]
    /\ trueTo' = [trueTo EXCEPT ![x] = None]

PatchFirst(x, to) ==
    /\ firstOp' = [firstOp EXCEPT ![x] =
                       IF FollowedByBranch(x) THEN "branch" ELSE "jump"]
    /\ firstTo' = [firstTo EXCEPT ![x] = to]
    /\ UNCHANGED trueTo

PatchTrue(x, to) ==
    /\ trueTo' = [trueTo EXCEPT ![x] = to]
    /\ UNCHANGED <<firstOp, firstTo>>

ChainTo(slot, to) ==
    IF slot[2] = "first" THEN PatchFirst(slot[1], to) ELSE PatchTrue(slot[1], to)

\* A branch is followed by room for a long jump, a jump is not.
Unreachable(slot, to) == /\ <<slot[1], to>> \in TooFar
                         /\ ~(slot[2] = "first" /\ FollowedByBranch(slot[1]))

Chains(t) == chainAt[t] # None /\ HostChains

\* The exception of chain(), with the lock held.
ChainFails(t) ==
    /\ At(t, "found")
    /\ Chains(t) /\ Unreachable(chainAt[t], cur[t])
    /\ proc' = "aborted"
    /\ UNCHANGED <<spc, gstack, frames, ctl, cur, chainAt, code, lock>>

ChainAndRun(t) ==
    /\ At(t, "found")
    /\ IF Chains(t)
         THEN /\ ~Unreachable(chainAt[t], cur[t])
              /\ ChainTo(chainAt[t], cur[t])
         ELSE UNCHANGED <<firstOp, firstTo, trueTo>>
    /\ lock' = None
    /\ ctl' = [ctl EXCEPT ![t] = "exec"]
    /\ UNCHANGED <<spc, gstack, frames, cur, chainAt, cache, txPc, proc>>

-----------------------------------------------------------------------------
(* Execution of a translation, up to its return to the top of MainLoop *)

\* The translation that the exit of x taken on condition c jumps to, if any.
Chained(x, c) ==
    IF firstOp[x] = "jump" \/ (firstOp[x] = "branch" /\ ~c) THEN firstTo[x]
    ELSE IF Kind[txPc[x]] = "csel" /\ c THEN trueTo[x]
    ELSE None

\* The slot whose address the exit leaves in the second return register.
ExitSlot(x, c) == IF Kind[txPc[x]] = "csel" /\ c THEN <<x, "true">>
                                                 ELSE <<x, "first">>

\* A jump to a constant is taken, in conditional exits the fallthrough is not.
ExitTarget(x, c) == IF c THEN Taken[txPc[x]] ELSE NextPc[txPc[x]]

ExitConditions(x) == IF Kind[txPc[x]] = "csel" THEN BOOLEAN ELSE {TRUE}

ExecJump(t) ==
    /\ At(t, "exec")
    /\ Kind[txPc[cur[t]]] \in {"br", "csel"}
    /\ \E c \in ExitConditions(cur[t]) :
         IF Chained(cur[t], c) # None
           THEN /\ cur' = [cur EXCEPT ![t] = Chained(cur[t], c)]
                /\ UNCHANGED <<spc, chainAt, ctl>>
           ELSE /\ spc' = [spc EXCEPT ![t] = ExitTarget(cur[t], c)]
                /\ chainAt' = [chainAt EXCEPT ![t] = ExitSlot(cur[t], c)]
                /\ ctl' = [ctl EXCEPT ![t] = "top"]
                /\ UNCHANGED cur
    /\ UNCHANGED <<gstack, frames, code, host>>

\* (mutant) "no chain" is not returned
ExecIndirectChained(t) ==
    /\ At(t, "exec")
    /\ Kind[txPc[cur[t]]] = "ijmp"
    /\ \E p \in Dyn[txPc[cur[t]]] : spc' = [spc EXCEPT ![t] = p]
    /\ ctl' = [ctl EXCEPT ![t] = "top"]
    /\ UNCHANGED <<gstack, frames, cur, chainAt, code, host>>

ExecIndirect(t) ==
    /\ At(t, "exec")
    /\ Kind[txPc[cur[t]]] = "ijmp"
    /\ \E p \in Dyn[txPc[cur[t]]] : spc' = [spc EXCEPT ![t] = p]
    /\ chainAt' = [chainAt EXCEPT ![t] = None]
    /\ ctl' = [ctl EXCEPT ![t] = "top"]
    /\ UNCHANGED <<gstack, frames, cur, code, host>>

\* (mutant) "no chain" is not returned
ExecCallChained(t) ==
    /\ At(t, "exec")
    /\ IsCall(txPc[cur[t]])
    /\ Len(gstack[t]) < MaxDepth
    /\ \E p \in CallTargets(txPc[cur[t]]) : spc' = [spc EXCEPT ![t] = p]
    /\ gstack' = [gstack EXCEPT ![t] = Append(@, NextPc[txPc[cur[t]]])]
    /\ frames' = [frames EXCEPT ![t] = Append(@, LoopFrame)]
    /\ ctl' = [ctl EXCEPT ![t] = "top"]
    /\ UNCHANGED <<cur, chainAt, code, host>>

\* Return code 3: MainLoop calls itself.
ExecCall(t) ==
    /\ At(t, "exec")
    /\ IsCall(txPc[cur[t]])
    /\ Len(gstack[t]) < MaxDepth
    /\ \E p \in CallTargets(txPc[cur[t]]) : spc' = [spc EXCEPT ![t] = p]
    /\ gstack' = [gstack EXCEPT ![t] = Append(@, NextPc[txPc[cur[t]]])]
    /\ frames' = [frames EXCEPT ![t] = Append(@, LoopFrame)]
    /\ chainAt' = [chainAt EXCEPT ![t] = None]
    /\ ctl' = [ctl EXCEPT ![t] = "top"]
    /\ UNCHANGED <<cur, code, host>>

\* What the activations fs do when the one above them has returned: MainLoop
\* goes back to its loop head, a static function goes on after its call.
Resumed(fs) == IF fs = <<>> \/ Top(fs) = LoopFrame
                 THEN fs
                 ELSE SetTop(fs, StaticFrame(Top(fs).fn, NextPc[Top(fs).at]))

ResumedCtl(fs) == CASE fs = <<>>              -> "off"
                    [] fs # <<>> /\ Top(fs) = LoopFrame -> "top"
                    [] OTHER                  -> "static"

\* The guest's return address goes into the PC; the host returns to wherever
\* its own stack says, out of MainLoop for the last activation.
HostReturn(t) ==
    /\ spc' = IF gstack[t] = <<>> THEN spc ELSE [spc EXCEPT ![t] = Top(gstack[t])]
    /\ gstack' = [gstack EXCEPT ![t] = IF @ = <<>> THEN @ ELSE Pop(@)]
    /\ frames' = [frames EXCEPT ![t] = Resumed(Pop(@))]
    /\ ctl' = [ctl EXCEPT ![t] = ResumedCtl(Pop(frames[t]))]
    /\ proc' = IF Len(frames[t]) = 1 /\ t = Main THEN "exited" ELSE proc

\* Return code 4.
ExecReturn(t) ==
    /\ At(t, "exec")
    /\ Kind[txPc[cur[t]]] = "ret"
    /\ HostReturn(t)
    /\ chainAt' = [chainAt EXCEPT ![t] = None]
    /\ UNCHANGED <<cur, code, lock>>

SysKinds == {"sys", "clone", "exit", "exitgroup", "unsup"}

\* Return code 1 (or 2): the PC is past the instruction before the call.
ExecSyscall(t) ==
    /\ At(t, "exec")
    /\ Kind[txPc[cur[t]]] \in SysKinds
    /\ spc' = [spc EXCEPT ![t] = NextPc[txPc[cur[t]]]]
    /\ chainAt' = [chainAt EXCEPT ![t] = None]
    /\ ctl' = [ctl EXCEPT ![t] = "sys"]
    /\ UNCHANGED <<gstack, frames, cur, code, host>>

-----------------------------------------------------------------------------
(* Static functions (lower_chunk) *)

InStatic(t, kinds) == /\ At(t, "static")
                      /\ Kind[Top(frames[t]).at] \in kinds

\* A jump within the function, or through the "dyn" block, which saves the
\* registers, calls MainLoop and returns with it.
StaticJump(t) ==
    /\ InStatic(t, {"br", "csel", "ijmp"})
    /\ \E p \in JumpTargets(Top(frames[t]).at) :
         IF p \in Chunk[Top(frames[t]).fn]
           THEN /\ frames' = [frames EXCEPT ![t] =
                                  SetTop(@, StaticFrame(Top(@).fn, p))]
                /\ UNCHANGED <<spc, ctl>>
           ELSE /\ spc' = [spc EXCEPT ![t] = p]
                /\ frames' = [frames EXCEPT ![t] = SetTop(@, LoopFrame)]
                /\ ctl' = [ctl EXCEPT ![t] = "top"]
    /\ UNCHANGED <<gstack, cur, chainAt, code, host>>

\* get_static_fn: only a call to a constant address can be a direct one.
IsDirect(b, p) == Kind[b] = "call" /\ p \in StaticFns

StaticCall(t) ==
    /\ InStatic(t, {"call", "icall"})
    /\ Len(gstack[t]) < MaxDepth
    /\ gstack' = [gstack EXCEPT ![t] = Append(@, NextPc[Top(frames[t]).at])]
    /\ \E p \in CallTargets(Top(frames[t]).at) :
         /\ spc' = [spc EXCEPT ![t] = p]
         /\ IF IsDirect(Top(frames[t]).at, p)
              THEN /\ frames' = [frames EXCEPT ![t] = Append(@, StaticFrame(p, p))]
                   /\ UNCHANGED ctl
              ELSE /\ frames' = [frames EXCEPT ![t] = Append(@, LoopFrame)]
                   /\ ctl' = [ctl EXCEPT ![t] = "top"]
    /\ UNCHANGED <<cur, chainAt, code, host>>

StaticReturn(t) ==
    /\ InStatic(t, {"ret"})
    /\ HostReturn(t)
    /\ UNCHANGED <<cur, chainAt, code, lock>>

StaticPoison(t) ==
    /\ InStatic(t, {"poison"})
    /\ proc' = "aborted"
    /\ UNCHANGED <<spc, gstack, frames, ctl, cur, chainAt, code, lock>>

-----------------------------------------------------------------------------
(* execution_context::internal_call, from MainLoop and from static code *)

\* The guest block thread t is in, as far as the guest can tell.
GuestPc(t) == CASE ctl[t] \in {"exec", "sys"} -> txPc[cur[t]]
                [] ctl[t] = "static"          -> Top(frames[t]).at
                [] ctl[t] = "off"             -> None
                [] OTHER                      -> spc[t]

InternalCall(t, kinds) == /\ At(t, "sys") \/ At(t, "static")
                          /\ Kind[GuestPc(t)] \in kinds

\* (mutant) the PC in memory is taken for current in static code
UnsavedPc(t) == spc[t]

\* A call from static code saves all registers first, the PC among them.
SavedPc(t) == IF ctl[t] = "sys" THEN spc[t] ELSE NextPc[Top(frames[t]).at]

\* The call has returned 0 to thread t: back to the loop or on in the function.
Continue(t, fs, cs) ==
    IF ctl[t] = "sys"
      THEN /\ frames' = fs
           /\ ctl' = [cs EXCEPT ![t] = "top"]
      ELSE /\ frames' = [fs EXCEPT ![t] =
                             SetTop(@, StaticFrame(Top(@).fn, NextPc[Top(@).at]))]
           /\ ctl' = cs

Syscall(t) ==
    /\ InternalCall(t, {"sys"})
    /\ spc' = [spc EXCEPT ![t] = SavedPc(t)]
    /\ Continue(t, frames, ctl)
    /\ UNCHANGED <<gstack, cur, chainAt, code, host>>

\* The child copies the registers and starts a MainLoop of its own.
Clone(t, c) ==
    /\ InternalCall(t, {"clone"})
    /\ ctl[c] = "off"
    /\ spc' = [spc EXCEPT ![t] = SavedPc(t), ![c] = SavedPc(t)]
    /\ gstack' = [gstack EXCEPT ![c] = <<>>]
    /\ chainAt' = [chainAt EXCEPT ![c] = None]
    /\ Continue(t, [frames EXCEPT ![c] = <<LoopFrame>>], [ctl EXCEPT ![c] = "top"])
    /\ UNCHANGED <<cur, code, host>>

ExitThread(t) ==
    /\ InternalCall(t, {"exit"})
    /\ ctl' = [ctl EXCEPT ![t] = "off"]
    /\ frames' = [frames EXCEPT ![t] = <<>>]
    /\ gstack' = [gstack EXCEPT ![t] = <<>>]
    /\ UNCHANGED <<spc, cur, chainAt, code, host>>

\* exit_group, and the result 1 of a call that is not supported: finalize().
ExitProcess(t) ==
    /\ InternalCall(t, {"exitgroup", "unsup"})
    /\ proc' = "exited"
    /\ UNCHANGED <<spc, gstack, frames, ctl, cur, chainAt, code, lock>>

-----------------------------------------------------------------------------
ThreadStep(t) ==
    \/ CallStaticFn(t) \/ EnterInvoke(t) \/ LookupHit(t) \/ LookupMiss(t)
    \/ Translate(t) \/ TranslateFails(t) \/ ChainFails(t) \/ ChainAndRun(t)
    \/ ExecJump(t) \/ ExecIndirect(t) \/ ExecCall(t) \/ ExecReturn(t)
    \/ ExecSyscall(t)
    \/ StaticJump(t) \/ StaticCall(t) \/ StaticReturn(t) \/ StaticPoison(t)
    \/ Syscall(t) \/ (\E c \in Threads : Clone(t, c)) \/ ExitThread(t)
    \/ ExitProcess(t)

\* Nothing is left to run.
Over == /\ \/ proc # "running"
           \/ \A t \in Threads : ctl[t] = "off"
        /\ UNCHANGED vars

Next == (\E t \in Threads : ThreadStep(t)) \/ Over

Spec == Init /\ [][Next]_vars

\* Host threads are scheduled: a thread that can go on does.
FairSpec == Spec /\ \A t \in Threads : WF_vars(ThreadStep(t))

-----------------------------------------------------------------------------
(* Properties *)

StateTypes ==
    /\ spc \in [Threads -> PCs]
    /\ gstack \in [Threads -> Seq(PCs)]
    /\ frames \in [Threads -> Seq(Frames)]
    /\ ctl \in [Threads -> Controls]
    /\ cur \in [Threads -> Tx \cup {None}]
    /\ chainAt \in [Threads -> Slots \cup {None}]
    /\ lock \in Threads \cup {None}
    /\ cache \in [PCs -> Tx \cup {None}]
    /\ txPc \in [Tx -> PCs \cup {None}]
    /\ firstOp \in [Tx -> {"auipc", "branch", "jump"}]
    /\ firstTo \in [Tx -> Tx \cup {None}]
    /\ trueTo \in [Tx -> Tx \cup {None}]
    /\ proc \in {"running", "exited", "aborted"}

ThreadTypes(t) ==
    /\ ctl[t] \in {"found", "exec", "sys"} => cur[t] \in Tx /\ txPc[cur[t]] \in PCs
    /\ ctl[t] # "off" => frames[t] # <<>>
    /\ ctl[t] = "static" => Top(frames[t]) # LoopFrame
    /\ ctl[t] \notin {"off", "static"} => Top(frames[t]) = LoopFrame

\* Every variable holds a value of its kind; a thread that is about to run a
\* translation, or runs one, has one, and the innermost activation on its host
\* stack is a static function's exactly if static code runs (execution_context,
\* translation_cache, MainLoop and the functions of lower_chunk).
TypeOK == StateTypes /\ \A t \in Threads : ThreadTypes(t)

-----------------------------------------------------------------------------
(* Inductive invariants *)

LockInv == \A t \in Threads :
               lock = t <=> ctl[t] \in {"locked", "missed", "found"}

CacheInv ==
    /\ \A p \in PCs : cache[p] # None => txPc[cache[p]] = p
    /\ \A x \in Tx : txPc[x] # None => cache[txPc[x]] = x
    /\ \A t \in Threads : ctl[t] = "missed" => cache[spc[t]] = None
    /\ \A t \in Threads : ctl[t] = "found" => txPc[cur[t]] = spc[t]

\* Patched exits lead to translations that exist.
LinkInv == \A x \in Tx : /\ firstTo[x] # None => txPc[firstTo[x]] # None
                         /\ trueTo[x] # None => txPc[trueTo[x]] # None

Inv == TypeOK /\ LockInv /\ CacheInv /\ LinkInv

\* While a system call is made for translated code, the PC in memory is past it.
SyscallPcInv == \A t \in Threads : ctl[t] = "sys" => spc[t] = NextPc[txPc[cur[t]]]

\* What the guest must be like for chaining to be right: no direct jump into
\* a static function, and one thread or no conditional jump.
ChainSafe ==
    HostChains =>
      /\ \A p \in PCs : Kind[p] \in {"br", "csel"} =>
                            JumpTargets(p) \cap StaticFns = {}
      /\ Threads = {Main} \/ \A p \in PCs : Kind[p] # "csel"

SlotTarget(slot) == ExitTarget(slot[1], slot[2] = "true" \/ Kind[txPc[slot[1]]] = "br")

\* The exit a thread has just left by and will have patched when it finds the
\* next translation is still unpatched, and leads to where the thread is going.
PendingChainInv ==
    \A t \in Threads :
      /\ ctl[t] \in {"static", "sys"} => chainAt[t] = None
      /\ ctl[t] \in {"top", "locked", "missed", "found"} /\ chainAt[t] # None =>
           LET x == chainAt[t][1] IN
             /\ txPc[x] # None
             /\ Kind[txPc[x]] \in {"br", "csel"}
             /\ chainAt[t][2] = "true" => Kind[txPc[x]] = "csel"
             /\ chainAt[t][2] = "first" /\ Kind[txPc[x]] = "csel" => firstOp[x] = "auipc"
             /\ spc[t] = SlotTarget(chainAt[t])

ExitRight(x) ==
    /\ firstOp[x] # "auipc" =>
         /\ txPc[x] # None
         /\ Kind[txPc[x]] \in {"br", "csel"}
         /\ firstOp[x] = (IF Kind[txPc[x]] = "csel" THEN "branch" ELSE "jump")
         /\ firstTo[x] # None
         /\ txPc[firstTo[x]] = SlotTarget(<<x, "first">>)
    /\ trueTo[x] # None =>
         /\ txPc[x] # None
         /\ Kind[txPc[x]] = "csel"
         /\ txPc[trueTo[x]] = Taken[txPc[x]]

PatchedExitInv == \A x \in Tx : ExitRight(x)

\* The other hosts' contexts inherit a chain() that does nothing.
Unpatched == \A x \in Tx : firstOp[x] = "auipc" /\ trueTo[x] = None

ChainInv == IF HostChains THEN PendingChainInv /\ PatchedExitInv ELSE Unpatched

-----------------------------------------------------------------------------
(* Safety, action and liveness properties *)

\* A guest address is translated at most once, however many threads miss the
\* cache on it at the same time (get_translation under big_fat_lock).
OneTranslationPerPc ==
    \A x, y \in Tx : txPc[x] # None /\ txPc[x] = txPc[y] => x = y

\* Whichever way a chained exit goes, the block it jumps to is the translation
\* of the guest address that the unchained exit would have stored in the PC
\* (chain() patches the block that was left, not another).
ChainSound ==
    \A x \in Tx : txPc[x] # None /\ Kind[txPc[x]] \in {"br", "csel"} =>
        \A c \in ExitConditions(x) :
            Chained(x, c) # None => txPc[Chained(x, c)] = ExitTarget(x, c)

Mirrors(fs, gs) ==
    /\ Len(fs) = Len(gs) + 1
    /\ \A i \in 1 .. Len(gs) : fs[i] # LoopFrame => gs[i] = NextPc[fs[i].at]

\* The host stack mirrors the guest's: one activation per guest call and, for
\* each static function that waits for its callee, the guest's return address
\* is the instruction after its call, where the host will resume it.
StackCorrespondence ==
    \A t \in Threads : ctl[t] # "off" => Mirrors(frames[t], gstack[t])

\* A patched exit keeps its destination for ever: no later call of chain(), by
\* this or another thread, redirects code that threads may be running.
PatchesStable ==
    [][\A x \in Tx : txPc[x] # None /\ Kind[txPc[x]] \in {"br", "csel"} =>
          \A c \in ExitConditions(x) :
              Chained(x, c) # None => Chained(x, c)' = Chained(x, c)]_vars

\* The lock that serialises translation is always given back, unless the
\* process ends: no path of invoke keeps it (a throw ends the process).
LockReleased == \A t \in Threads : lock = t ~> (lock # t \/ proc # "running")

\* The guest's threads as GuestMachine has them.
guestPcs == [t \in Threads |-> GuestPc(t)]

Guest == INSTANCE GuestMachine WITH pc <- guestPcs, stack <- gstack, proc <- proc

\* The guest sees the machine it was compiled for: the hybrid of static code,
\* translations, chained jumps and recursive MainLoops makes only steps of
\* GuestMachine.
GuestRefined == Guest!Spec
=============================================================================
