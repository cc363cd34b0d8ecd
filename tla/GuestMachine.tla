---------------------------- MODULE GuestMachine ----------------------------
(* What the translator promises: the threads of the guest process, each with *)
(* its program counter and its stack of return addresses, executing the      *)
(* guest program block by block and interleaved in any way.  Nothing here    *)
(* knows about translations, static functions or host stacks.                *)
EXTENDS GuestProgram

VARIABLES
    pc,      \* the block each thread executes next; None: not running
    stack,   \* return addresses, the innermost last
    proc     \* the process: "running", "exited" or "aborted"

vars == <<pc, stack, proc>>

Init == /\ pc = [t \in Threads |-> IF t = Main THEN Entry ELSE None]
        /\ stack = [t \in Threads |-> <<>>]
        /\ proc = "running"

Running(t) == proc = "running" /\ pc[t] # None

Goto(t, p) == pc' = [pc EXCEPT ![t] = p]

Jump(t) == /\ Running(t)
           /\ IsJump(pc[t])
           /\ \E p \in JumpTargets(pc[t]) : Goto(t, p)
           /\ UNCHANGED <<stack, proc>>

Call(t) == /\ Running(t)
           /\ IsCall(pc[t])
           /\ Len(stack[t]) < MaxDepth
           /\ \E p \in CallTargets(pc[t]) : Goto(t, p)
           /\ stack' = [stack EXCEPT ![t] = Append(@, NextPc[pc[t]])]
           /\ UNCHANGED proc

Return(t) == /\ Running(t)
             /\ Kind[pc[t]] = "ret"
             /\ stack[t] # <<>>
             /\ Goto(t, stack[t][Len(stack[t])])
             /\ stack' = [stack EXCEPT ![t] = [i \in 1 .. Len(@) - 1 |-> @[i]]]
             /\ UNCHANGED proc

\* The outermost function returns: the thread is over, and with the main
\* thread the process.
Finish(t) == /\ Running(t)
             /\ Kind[pc[t]] = "ret"
             /\ stack[t] = <<>>
             /\ Goto(t, None)
             /\ proc' = IF t = Main THEN "exited" ELSE proc
             /\ UNCHANGED stack

Syscall(t) == /\ Running(t)
              /\ Kind[pc[t]] = "sys"
              /\ Goto(t, NextPc[pc[t]])
              /\ UNCHANGED <<stack, proc>>

\* The child starts on a stack of its own, at the instruction after the call.
Clone(t, c) == /\ Running(t)
               /\ Kind[pc[t]] = "clone"
               /\ pc[c] = None
               /\ pc' = [pc EXCEPT ![t] = NextPc[pc[t]], ![c] = NextPc[pc[t]]]
               /\ stack' = [stack EXCEPT ![c] = <<>>]
               /\ UNCHANGED proc

ExitThread(t) == /\ Running(t)
                 /\ Kind[pc[t]] = "exit"
                 /\ Goto(t, None)
                 /\ stack' = [stack EXCEPT ![t] = <<>>]
                 /\ UNCHANGED proc

ExitProcess(t) == /\ Running(t)
                  /\ Kind[pc[t]] \in {"exitgroup", "unsup"}
                  /\ proc' = "exited"
                  /\ UNCHANGED <<pc, stack>>

\* An instruction the translator does not know ends the process, and so does
\* running out of memory for translations, at any time.
Fault(t) == /\ Running(t)
            /\ proc' = "aborted"
            /\ UNCHANGED <<pc, stack>>

Next == \E t \in Threads :
            \/ Jump(t) \/ Call(t) \/ Return(t) \/ Finish(t) \/ Syscall(t)
            \/ \E c \in Threads : Clone(t, c)
            \/ ExitThread(t) \/ ExitProcess(t) \/ Fault(t)

Spec == Init /\ [][Next]_vars
=============================================================================
