-------------------------- MODULE DbtRuntimeProofs --------------------------
(* Proofs about DbtRuntime, for every guest program, every choice of static  *)
(* functions, every number of threads and every size of the code arena.      *)
EXTENDS DbtRuntime, SequenceTheorems, TLAPS

-----------------------------------------------------------------------------
(* Stacks *)

\* Top and Pop take a non-empty stack apart.
LEMMA PopFacts ==
    ASSUME NEW S, NEW s \in Seq(S), s # <<>>
    PROVE  /\ Len(s) \in Nat \ {0}
           /\ Top(s) \in S
           /\ Pop(s) \in Seq(S)
           /\ Len(Pop(s)) = Len(s) - 1
           /\ \A i \in 1 .. Len(s) - 1 : Pop(s)[i] = s[i]
           /\ Pop(s) = <<>> <=> Len(s) = 1
<1>1. Len(s) \in Nat \ {0}
  BY SMT
<1>2. Top(s) \in S
  BY <1>1, SMT DEF Top
<1>3. Pop(s) \in Seq(S) /\ Len(Pop(s)) = Len(s) - 1
  BY <1>1, SMT DEF Pop
<1>4. \A i \in 1 .. Len(s) - 1 : Pop(s)[i] = s[i]
  BY <1>1, SMT DEF Pop
<1>5. Pop(s) = <<>> <=> Len(s) = 1
  <2>1. Pop(s) # <<>> => Len(Pop(s)) # 0
    BY <1>3, EmptySeq, Zenon
  <2>2. Len(<<>>) = 0
    BY SMT
  <2> QED  BY <1>1, <1>3, <2>1, <2>2, SMT
<1> QED  BY <1>1, <1>2, <1>3, <1>4, <1>5

\* SetTop replaces the last element and nothing else.
LEMMA SetTopFacts ==
    ASSUME NEW S, NEW s \in Seq(S), s # <<>>, NEW f \in S
    PROVE  /\ SetTop(s, f) \in Seq(S)
           /\ SetTop(s, f) # <<>>
           /\ Len(SetTop(s, f)) = Len(s)
           /\ Top(SetTop(s, f)) = f
           /\ \A i \in 1 .. Len(s) - 1 : SetTop(s, f)[i] = s[i]
<1>1. Len(s) \in Nat \ {0}
  BY SMT
<1>2. SetTop(s, f) \in Seq(S) /\ Len(SetTop(s, f)) = Len(s)
  BY <1>1, SMT DEF SetTop
<1>3. \A i \in 1 .. Len(s) - 1 : SetTop(s, f)[i] = s[i]
  BY <1>1, SMT DEF SetTop
<1>4. Top(SetTop(s, f)) = f
  BY <1>1, <1>2, SMT DEF SetTop, Top
<1>5. SetTop(s, f) # <<>>
  BY <1>1, <1>2, SMT
<1> QED  BY <1>2, <1>3, <1>4, <1>5

\* Append adds a new top above an unchanged stack.
LEMMA AppendFacts ==
    ASSUME NEW S, NEW s \in Seq(S), NEW f \in S
    PROVE  /\ Append(s, f) \in Seq(S)
           /\ Append(s, f) # <<>>
           /\ Len(Append(s, f)) = Len(s) + 1
           /\ Top(Append(s, f)) = f
           /\ \A i \in 1 .. Len(s) : Append(s, f)[i] = s[i]
  BY SMT DEF Top

-----------------------------------------------------------------------------
(* Type correctness *)

\* Frames of MainLoop and of static functions are told apart by their fields.
LEMMA FrameFacts ==
    /\ LoopFrame \in Frames
    /\ \A f \in StaticFns, p \in PCs : StaticFrame(f, p) \in Frames
    /\ \A f \in StaticFns, p \in PCs : StaticFrame(f, p) # LoopFrame
    /\ \A fr \in Frames : fr # LoopFrame => fr.fn \in StaticFns /\ fr.at \in PCs
  BY ProgramAssumption, StaticAssumption DEF Frames, LoopFrame, StaticFrame

\* Every target of a terminator is a block of the program.
LEMMA TargetFacts ==
    ASSUME NEW p \in PCs
    PROVE  /\ Taken[p] \in PCs /\ NextPc[p] \in PCs
           /\ Dyn[p] \subseteq PCs
           /\ JumpTargets(p) \subseteq PCs
           /\ CallTargets(p) \subseteq PCs
  BY ProgramAssumption DEF JumpTargets, CallTargets

\* The initial state is well typed.
LEMMA TypeInit == Init => TypeOK
  BY ProgramAssumption, StaticAssumption, FrameFacts
  DEF Init, TypeOK, StateTypes, ThreadTypes, Controls, Slots, Top

\* A return leaves well-typed stacks behind.
LEMMA ResumeFacts ==
    ASSUME NEW fs \in Seq(Frames)
    PROVE  /\ Resumed(fs) \in Seq(Frames)
           /\ Len(Resumed(fs)) = Len(fs)
           /\ \A i \in 1 .. Len(fs) - 1 : Resumed(fs)[i] = fs[i]
           /\ ResumedCtl(fs) \in {"off", "top", "static"}
           /\ ResumedCtl(fs) = "off" <=> fs = <<>>
           /\ ResumedCtl(fs) # "off" => Resumed(fs) # <<>>
           /\ ResumedCtl(fs) = "top" => Top(Resumed(fs)) = LoopFrame
           /\ ResumedCtl(fs) = "static" => Top(Resumed(fs)) # LoopFrame
<1>1. CASE fs = <<>> \/ Top(fs) = LoopFrame
  BY <1>1, Zenon DEF Resumed, ResumedCtl
<1>2. CASE ~(fs = <<>> \/ Top(fs) = LoopFrame)
  <2>1. Top(fs) \in Frames
    BY <1>2, PopFacts
  <2>2. Top(fs).fn \in StaticFns /\ NextPc[Top(fs).at] \in PCs
    BY <1>2, <2>1, FrameFacts, TargetFacts
  <2> DEFINE g == StaticFrame(Top(fs).fn, NextPc[Top(fs).at])
  <2>3. g \in Frames /\ g # LoopFrame
    BY <2>2, FrameFacts
  <2>4. Resumed(fs) = SetTop(fs, g)
    BY <1>2 DEF Resumed
  <2>5. ResumedCtl(fs) = "static"
    BY <1>2 DEF ResumedCtl
  <2> HIDE DEF g
  <2>6. /\ SetTop(fs, g) \in Seq(Frames)
        /\ SetTop(fs, g) # <<>>
        /\ Len(SetTop(fs, g)) = Len(fs)
        /\ Top(SetTop(fs, g)) = g
        /\ \A i \in 1 .. Len(fs) - 1 : SetTop(fs, g)[i] = fs[i]
    BY <1>2, <2>3, SetTopFacts
  <2> QED  BY <1>2, <2>3, <2>4, <2>5, <2>6, Zenon
<1> QED  BY <1>1, <1>2

\* MainLoop's and invoke's steps keep the types.
LEMMA TypeInvoke ==
    ASSUME TypeOK, NEW t \in Threads,
           CallStaticFn(t) \/ EnterInvoke(t) \/ LookupHit(t) \/ LookupMiss(t)
             \/ Translate(t) \/ TranslateFails(t) \/ ChainFails(t) \/ ChainAndRun(t),
           CacheInv
    PROVE  TypeOK'
<1> USE ProgramAssumption, StaticAssumption DEF TypeOK, StateTypes, ThreadTypes, At, Controls, code, host
<1>1. CASE CallStaticFn(t)
  <2>1. frames[t] \in Seq(Frames) /\ frames[t] # <<>>
    BY <1>1 DEF CallStaticFn
  <2>2. StaticFrame(spc[t], spc[t]) \in Frames /\ StaticFrame(spc[t], spc[t]) # LoopFrame
    BY <1>1, FrameFacts DEF CallStaticFn
  <2>3. /\ SetTop(frames[t], StaticFrame(spc[t], spc[t])) \in Seq(Frames)
        /\ SetTop(frames[t], StaticFrame(spc[t], spc[t])) # <<>>
        /\ Top(SetTop(frames[t], StaticFrame(spc[t], spc[t]))) # LoopFrame
    BY <2>1, <2>2, SetTopFacts
  <2> QED  BY <1>1, <2>3 DEF CallStaticFn
<1>2. CASE EnterInvoke(t)
  BY <1>2 DEF EnterInvoke
<1>3. CASE LookupHit(t)
  BY <1>3 DEF LookupHit, CacheInv
<1>4. CASE LookupMiss(t)
  BY <1>4 DEF LookupMiss
<1>5. CASE Translate(t)
  <2>1. FreshTx \in Tx /\ txPc[FreshTx] = None
    BY <1>5 DEF Translate, CanTranslate, FreshTx
  <2> QED  BY <1>5, <2>1 DEF Translate
<1>6. CASE TranslateFails(t) \/ ChainFails(t)
  BY <1>6 DEF TranslateFails, ChainFails
<1>7. CASE ChainAndRun(t)
  <2>1. cur[t] \in Tx
    BY <1>7 DEF ChainAndRun, Chains
  <2>2. /\ firstOp' \in [Tx -> {"auipc", "branch", "jump"}]
        /\ firstTo' \in [Tx -> Tx \cup {None}]
        /\ trueTo' \in [Tx -> Tx \cup {None}]
    BY <1>7, <2>1 DEF ChainAndRun, Chains, ChainTo, PatchFirst, PatchTrue, Slots
  <2> QED  BY <1>7, <2>2 DEF ChainAndRun, Chains
<1> QED  BY <1>1, <1>2, <1>3, <1>4, <1>5, <1>6, <1>7

\* A return of the host keeps the types, from translated and static code.
LEMMA TypeHostReturn ==
    ASSUME TypeOK, NEW t \in Threads, frames[t] # <<>>, HostReturn(t),
           UNCHANGED <<cur, code, lock>>,
           chainAt' \in [Threads -> Slots \cup {None}]
    PROVE  TypeOK'
<1> DEFINE fs == Pop(frames[t])
<1>1. frames[t] \in Seq(Frames) /\ gstack[t] \in Seq(PCs)
  BY DEF TypeOK, StateTypes
<1>2. fs \in Seq(Frames)
  BY <1>1, PopFacts
<1>3. /\ Resumed(fs) \in Seq(Frames)
      /\ ResumedCtl(fs) \in {"off", "top", "static"}
      /\ ResumedCtl(fs) # "off" => Resumed(fs) # <<>>
      /\ ResumedCtl(fs) = "top" => Top(Resumed(fs)) = LoopFrame
      /\ ResumedCtl(fs) = "static" => Top(Resumed(fs)) # LoopFrame
  BY <1>2, ResumeFacts
<1>4. gstack[t] # <<>> => Top(gstack[t]) \in PCs /\ Pop(gstack[t]) \in Seq(PCs)
  BY <1>1, PopFacts
<1>5. frames' = [frames EXCEPT ![t] = Resumed(fs)] /\ ctl' = [ctl EXCEPT ![t] = ResumedCtl(fs)]
  BY DEF HostReturn
<1> HIDE DEF fs
<1>6. StateTypes'
  <2>1. spc' \in [Threads -> PCs] /\ gstack' \in [Threads -> Seq(PCs)]
    BY <1>1, <1>4 DEF HostReturn, TypeOK, StateTypes
  <2>2. frames' \in [Threads -> Seq(Frames)] /\ ctl' \in [Threads -> Controls]
    BY <1>3, <1>5 DEF TypeOK, StateTypes, Controls
  <2>3. proc' \in {"running", "exited", "aborted"}
    BY DEF HostReturn, TypeOK, StateTypes
  <2> QED  BY <2>1, <2>2, <2>3 DEF TypeOK, StateTypes, code
<1>7. ASSUME NEW u \in Threads PROVE ThreadTypes(u)'
  BY <1>3, <1>5, <1>7 DEF TypeOK, StateTypes, ThreadTypes, code
<1> QED  BY <1>6, <1>7 DEF TypeOK

\* The steps that run a translation keep the types.
LEMMA TypeExec ==
    ASSUME TypeOK, LinkInv, NEW t \in Threads,
           ExecJump(t) \/ ExecIndirect(t) \/ ExecCall(t) \/ ExecReturn(t) \/ ExecSyscall(t)
    PROVE  TypeOK'
<1> DEFINE b == txPc[cur[t]]
<1>0. /\ cur[t] \in Tx /\ b \in PCs
      /\ ctl[t] = "exec"
      /\ frames[t] \in Seq(Frames) /\ frames[t] # <<>> /\ Top(frames[t]) = LoopFrame
      /\ gstack[t] \in Seq(PCs)
  BY DEF TypeOK, StateTypes, ThreadTypes, At, ExecJump, ExecIndirect, ExecCall,
         ExecReturn, ExecSyscall
<1>t. /\ Taken[b] \in PCs /\ NextPc[b] \in PCs /\ Dyn[b] \subseteq PCs
      /\ CallTargets(b) \subseteq PCs
  BY <1>0, TargetFacts
<1>1. CASE ExecJump(t)
  <2>1. PICK c \in ExitConditions(cur[t]) :
             IF Chained(cur[t], c) # None
               THEN /\ cur' = [cur EXCEPT ![t] = Chained(cur[t], c)]
                    /\ UNCHANGED <<spc, chainAt, ctl>>
               ELSE /\ spc' = [spc EXCEPT ![t] = ExitTarget(cur[t], c)]
                    /\ chainAt' = [chainAt EXCEPT ![t] = ExitSlot(cur[t], c)]
                    /\ ctl' = [ctl EXCEPT ![t] = "top"]
                    /\ UNCHANGED cur
    BY <1>1 DEF ExecJump
  <2>2. UNCHANGED <<gstack, frames, code, host>>
    BY <1>1 DEF ExecJump
  <2>3. CASE Chained(cur[t], c) # None
    <3>1. Chained(cur[t], c) \in Tx /\ txPc[Chained(cur[t], c)] \in PCs
      BY <1>0, <2>3 DEF Chained, LinkInv, TypeOK, StateTypes
    <3> QED  BY <1>0, <2>1, <2>2, <2>3, <3>1
             DEF TypeOK, StateTypes, ThreadTypes, Controls, code, host
  <2>4. CASE Chained(cur[t], c) = None
    <3>1. ExitTarget(cur[t], c) \in PCs
      BY <1>t DEF ExitTarget
    <3>2. ExitSlot(cur[t], c) \in Slots
      BY <1>0 DEF ExitSlot, Slots
    <3> QED  BY <1>0, <2>1, <2>2, <2>4, <3>1, <3>2
             DEF TypeOK, StateTypes, ThreadTypes, Controls, code, host
  <2> QED  BY <2>3, <2>4
<1>2. CASE ExecIndirect(t)
  BY <1>0, <1>2, <1>t DEF ExecIndirect, TypeOK, StateTypes, ThreadTypes, Controls, code, host
<1>3. CASE ExecCall(t)
  <2>1. /\ Append(frames[t], LoopFrame) \in Seq(Frames)
        /\ Append(frames[t], LoopFrame) # <<>>
        /\ Top(Append(frames[t], LoopFrame)) = LoopFrame
    BY <1>0, FrameFacts, AppendFacts
  <2>2. Append(gstack[t], NextPc[b]) \in Seq(PCs)
    BY <1>0, <1>t, AppendFacts
  <2> QED  BY <1>0, <1>3, <1>t, <2>1, <2>2
           DEF ExecCall, TypeOK, StateTypes, ThreadTypes, Controls, code, host
<1>4. CASE ExecReturn(t)
  <2>1. chainAt' \in [Threads -> Slots \cup {None}]
    BY <1>4 DEF ExecReturn, TypeOK, StateTypes
  <2> QED  BY <1>0, <1>4, <2>1, TypeHostReturn DEF ExecReturn
<1>5. CASE ExecSyscall(t)
  BY <1>0, <1>5, <1>t DEF ExecSyscall, TypeOK, StateTypes, ThreadTypes, Controls, code, host
<1> QED  BY <1>1, <1>2, <1>3, <1>4, <1>5

\* The steps of static functions keep the types.
LEMMA TypeStatic ==
    ASSUME TypeOK, NEW t \in Threads,
           StaticJump(t) \/ StaticCall(t) \/ StaticReturn(t) \/ StaticPoison(t)
    PROVE  TypeOK'
<1> DEFINE fr == Top(frames[t])
<1>0. /\ ctl[t] = "static"
      /\ frames[t] \in Seq(Frames) /\ frames[t] # <<>> /\ fr # LoopFrame
      /\ gstack[t] \in Seq(PCs)
  BY DEF TypeOK, StateTypes, ThreadTypes, At, InStatic, StaticJump, StaticCall,
         StaticReturn, StaticPoison
<1>1. fr.fn \in StaticFns /\ fr.at \in PCs
  BY <1>0, PopFacts, FrameFacts
<1>t. /\ NextPc[fr.at] \in PCs
      /\ JumpTargets(fr.at) \subseteq PCs
      /\ CallTargets(fr.at) \subseteq PCs
  BY <1>1, TargetFacts
<1>2. CASE StaticJump(t)
  <2>1. PICK p \in JumpTargets(fr.at) :
         IF p \in Chunk[fr.fn]
           THEN /\ frames' = [frames EXCEPT ![t] = SetTop(@, StaticFrame(Top(@).fn, p))]
                /\ UNCHANGED <<spc, ctl>>
           ELSE /\ spc' = [spc EXCEPT ![t] = p]
                /\ frames' = [frames EXCEPT ![t] = SetTop(@, LoopFrame)]
                /\ ctl' = [ctl EXCEPT ![t] = "top"]
    BY <1>2 DEF StaticJump
  <2>2. UNCHANGED <<gstack, cur, chainAt, code, host>>
    BY <1>2 DEF StaticJump
  <2>3. p \in PCs
    BY <1>t, <2>1
  <2>4. StaticFrame(fr.fn, p) \in Frames /\ StaticFrame(fr.fn, p) # LoopFrame
    BY <1>1, <2>3, FrameFacts
  <2>5. \A g \in Frames : /\ SetTop(frames[t], g) \in Seq(Frames)
                          /\ SetTop(frames[t], g) # <<>>
                          /\ Top(SetTop(frames[t], g)) = g
    BY <1>0, SetTopFacts
  <2>6. LoopFrame \in Frames
    BY FrameFacts
  <2> QED  BY <1>0, <2>1, <2>2, <2>3, <2>4, <2>5, <2>6
           DEF TypeOK, StateTypes, ThreadTypes, Controls, code, host
<1>3. CASE StaticCall(t)
  <2>1. PICK p \in CallTargets(fr.at) :
         /\ spc' = [spc EXCEPT ![t] = p]
         /\ IF IsDirect(fr.at, p)
              THEN /\ frames' = [frames EXCEPT ![t] = Append(@, StaticFrame(p, p))]
                   /\ UNCHANGED ctl
              ELSE /\ frames' = [frames EXCEPT ![t] = Append(@, LoopFrame)]
                   /\ ctl' = [ctl EXCEPT ![t] = "top"]
    BY <1>3 DEF StaticCall
  <2>2. /\ UNCHANGED <<cur, chainAt, code, host>>
        /\ gstack' = [gstack EXCEPT ![t] = Append(@, NextPc[fr.at])]
    BY <1>3 DEF StaticCall
  <2>3. p \in PCs
    BY <1>t, <2>1
  <2>4. IsDirect(fr.at, p) => StaticFrame(p, p) \in Frames /\ StaticFrame(p, p) # LoopFrame
    BY <2>3, FrameFacts DEF IsDirect
  <2>5. \A g \in Frames : /\ Append(frames[t], g) \in Seq(Frames)
                          /\ Append(frames[t], g) # <<>>
                          /\ Top(Append(frames[t], g)) = g
    BY <1>0, AppendFacts
  <2>6. LoopFrame \in Frames
    BY FrameFacts
  <2>7. Append(gstack[t], NextPc[fr.at]) \in Seq(PCs)
    BY <1>0, <1>t, AppendFacts
  <2>8. CASE IsDirect(fr.at, p)
    BY <1>0, <2>1, <2>2, <2>3, <2>4, <2>5, <2>7, <2>8
    DEF TypeOK, StateTypes, ThreadTypes, Controls, code, host
  <2>9. CASE ~IsDirect(fr.at, p)
    BY <1>0, <2>1, <2>2, <2>3, <2>5, <2>6, <2>7, <2>9
    DEF TypeOK, StateTypes, ThreadTypes, Controls, code, host
  <2> QED  BY <2>8, <2>9
<1>4. CASE StaticReturn(t)
  <2>1. chainAt' \in [Threads -> Slots \cup {None}]
    BY <1>4 DEF StaticReturn, TypeOK, StateTypes
  <2> QED  BY <1>0, <1>4, <2>1, TypeHostReturn DEF StaticReturn
<1>5. CASE StaticPoison(t)
  BY <1>5 DEF StaticPoison, TypeOK, StateTypes, ThreadTypes, code
<1> QED  BY <1>2, <1>3, <1>4, <1>5

\* An internal call finds the thread in a block of the program, with a PC to
\* go on at.
LEMMA InternalCallFacts ==
    ASSUME TypeOK, NEW t \in Threads, ctl[t] \in {"sys", "static"}
    PROVE  /\ SavedPc(t) \in PCs
           /\ frames[t] \in Seq(Frames) /\ frames[t] # <<>>
           /\ GuestPc(t) \in PCs
           /\ ctl[t] = "static" =>
                LET g == StaticFrame(Top(frames[t]).fn, NextPc[Top(frames[t]).at]) IN
                  /\ Top(frames[t]) \in Frames /\ Top(frames[t]) # LoopFrame
                  /\ g \in Frames /\ g # LoopFrame
                  /\ SetTop(frames[t], g) \in Seq(Frames)
                  /\ SetTop(frames[t], g) # <<>>
                  /\ Top(SetTop(frames[t], g)) = g
<1>1. frames[t] \in Seq(Frames) /\ frames[t] # <<>> /\ spc[t] \in PCs
  BY DEF TypeOK, StateTypes, ThreadTypes
<1>2. CASE ctl[t] = "sys"
  BY <1>1, <1>2 DEF SavedPc, GuestPc, TypeOK, ThreadTypes
<1>3. CASE ctl[t] = "static"
  <2>1. Top(frames[t]) \in Frames /\ Top(frames[t]) # LoopFrame
    BY <1>1, <1>3, PopFacts DEF TypeOK, ThreadTypes
  <2>2. Top(frames[t]).fn \in StaticFns /\ Top(frames[t]).at \in PCs
    BY <2>1, FrameFacts
  <2>3. NextPc[Top(frames[t]).at] \in PCs
    BY <2>2, TargetFacts
  <2> DEFINE g == StaticFrame(Top(frames[t]).fn, NextPc[Top(frames[t]).at])
  <2>4. g \in Frames /\ g # LoopFrame
    BY <2>2, <2>3, FrameFacts
  <2>5. /\ SetTop(frames[t], g) \in Seq(Frames)
        /\ SetTop(frames[t], g) # <<>>
        /\ Top(SetTop(frames[t], g)) = g
    <3> HIDE DEF g
    <3> QED  BY <1>1, <2>4, SetTopFacts
  <2> QED  BY <1>1, <1>3, <2>1, <2>2, <2>3, <2>4, <2>5 DEF SavedPc, GuestPc
<1> QED  BY <1>2, <1>3

\* Internal calls keep the types.
LEMMA TypeInternal ==
    ASSUME TypeOK, NEW t \in Threads,
           Syscall(t) \/ (\E c \in Threads : Clone(t, c)) \/ ExitThread(t) \/ ExitProcess(t)
    PROVE  TypeOK'
<1>0. ctl[t] \in {"sys", "static"}
  BY DEF Syscall, Clone, ExitThread, ExitProcess, InternalCall, At
<1> DEFINE g == StaticFrame(Top(frames[t]).fn, NextPc[Top(frames[t]).at])
<1>1. /\ SavedPc(t) \in PCs
      /\ ctl[t] = "static" => /\ g # LoopFrame
                              /\ SetTop(frames[t], g) \in Seq(Frames)
                              /\ SetTop(frames[t], g) # <<>>
                              /\ Top(SetTop(frames[t], g)) = g
  BY <1>0, InternalCallFacts
<1>f. /\ ctl[t] = "sys" => \A fs, cs : Continue(t, fs, cs) =>
              frames' = fs /\ ctl' = [cs EXCEPT ![t] = "top"]
      /\ ctl[t] = "static" => \A fs, cs : Continue(t, fs, cs) /\ fs[t] = frames[t] =>
              frames' = [fs EXCEPT ![t] = SetTop(frames[t], g)] /\ ctl' = cs
  BY DEF Continue
<1> HIDE DEF g
<1>2. CASE Syscall(t)
  <2>1. /\ cur' = cur /\ txPc' = txPc
        /\ ctl[t] = "sys" => frames' = frames /\ ctl' = [ctl EXCEPT ![t] = "top"]
        /\ ctl[t] = "static" => frames' = [frames EXCEPT ![t] = SetTop(frames[t], g)] /\ ctl' = ctl
    BY <1>2, <1>f DEF Syscall, code
  <2>2. frames' \in [Threads -> Seq(Frames)] /\ ctl' \in [Threads -> Controls]
    BY <1>0, <1>1, <2>1 DEF TypeOK, StateTypes, Controls
  <2>3. StateTypes'
    BY <1>1, <1>2, <2>2 DEF Syscall, TypeOK, StateTypes, code, host
  <2>4. ASSUME NEW u \in Threads PROVE ThreadTypes(u)'
    <3>1. CASE u = t /\ ctl[t] = "sys"
      BY <2>1, <3>1 DEF TypeOK, StateTypes, ThreadTypes
    <3>2. CASE u = t /\ ctl[t] = "static"
      BY <1>1, <2>1, <3>2 DEF TypeOK, StateTypes, ThreadTypes
    <3>3. CASE u # t
      BY <1>0, <2>1, <3>3 DEF TypeOK, StateTypes, ThreadTypes
    <3> QED  BY <1>0, <3>1, <3>2, <3>3
  <2> QED  BY <2>3, <2>4 DEF TypeOK
<1>3. ASSUME NEW c \in Threads, Clone(t, c) PROVE TypeOK'
  <2>1. <<LoopFrame>> \in Seq(Frames) /\ <<LoopFrame>> # <<>> /\ Top(<<LoopFrame>>) = LoopFrame
    BY FrameFacts DEF Top
  <2>2. c # t
    BY <1>0, <1>3 DEF Clone
  <2> DEFINE fs == [frames EXCEPT ![c] = <<LoopFrame>>]
             cs == [ctl EXCEPT ![c] = "top"]
  <2>3. fs[t] = frames[t] /\ Continue(t, fs, cs)
    BY <1>3, <2>2 DEF TypeOK, StateTypes, Clone
  <2>4. /\ fs \in [Threads -> Seq(Frames)] /\ cs \in [Threads -> Controls]
        /\ fs[c] = <<LoopFrame>> /\ cs[c] = "top"
        /\ \A u \in Threads \ {c} : fs[u] = frames[u] /\ cs[u] = ctl[u]
    BY <2>1 DEF TypeOK, StateTypes, Controls
  <2> HIDE DEF fs, cs
  <2>5. /\ cur' = cur /\ txPc' = txPc
        /\ ctl[t] = "sys" => frames' = fs /\ ctl' = [cs EXCEPT ![t] = "top"]
        /\ ctl[t] = "static" => frames' = [fs EXCEPT ![t] = SetTop(frames[t], g)] /\ ctl' = cs
    BY <1>3, <1>f, <2>3 DEF Clone, code
  <2>6. frames' \in [Threads -> Seq(Frames)] /\ ctl' \in [Threads -> Controls]
    BY <1>0, <1>1, <2>4, <2>5 DEF Controls
  <2>7. StateTypes'
    <3>1. spc' \in [Threads -> PCs]
      BY <1>1, <1>3 DEF Clone, TypeOK, StateTypes
    <3>2. gstack' \in [Threads -> Seq(PCs)] /\ chainAt' \in [Threads -> Slots \cup {None}]
      BY <1>3 DEF Clone, TypeOK, StateTypes
    <3>3. UNCHANGED <<cur, code, host>>
      BY <1>3 DEF Clone
    <3> QED  BY <2>6, <3>1, <3>2, <3>3 DEF TypeOK, StateTypes, code, host
  <2>8. ASSUME NEW u \in Threads PROVE ThreadTypes(u)'
    <3>1. CASE u = t /\ ctl[t] = "sys"
      <4>1. frames'[t] = frames[t] /\ ctl'[t] = "top"
        BY <2>2, <2>4, <2>5, <3>1
      <4> QED  BY <3>1, <4>1 DEF TypeOK, ThreadTypes
    <3>2. CASE u = t /\ ctl[t] = "static"
      <4>1. frames'[t] = SetTop(frames[t], g) /\ ctl'[t] = "static"
        BY <2>2, <2>4, <2>5, <3>2
      <4> QED  BY <1>1, <2>5, <3>2, <4>1 DEF ThreadTypes
    <3>3. CASE u = c
      <4>1. frames'[c] = <<LoopFrame>> /\ ctl'[c] = "top"
        BY <1>0, <2>2, <2>4, <2>5
      <4> QED  BY <2>1, <3>3, <4>1 DEF ThreadTypes
    <3>4. CASE u # t /\ u # c
      <4>1. frames'[u] = frames[u] /\ ctl'[u] = ctl[u]
        BY <1>0, <2>4, <2>5, <3>4
      <4> QED  BY <2>5, <4>1 DEF TypeOK, ThreadTypes
    <3> QED  BY <1>0, <3>1, <3>2, <3>3, <3>4
  <2> QED  BY <2>7, <2>8 DEF TypeOK
<1>4. CASE ExitThread(t)
  BY <1>4 DEF ExitThread, TypeOK, StateTypes, ThreadTypes, Controls, code, host
<1>5. CASE ExitProcess(t)
  BY <1>5 DEF ExitProcess, TypeOK, StateTypes, ThreadTypes, code
<1> QED  BY <1>2, <1>3, <1>4, <1>5

-----------------------------------------------------------------------------
(* The lock, the cache and the links *)

\* What the steps that do not concern the lock do to the controls: the thread
\* moves between states outside of the locked part of invoke.
LEMMA UnlockedSteps ==
    ASSUME TypeOK, NEW t \in Threads,
           \/ CallStaticFn(t)
           \/ ExecJump(t) \/ ExecIndirect(t) \/ ExecCall(t) \/ ExecReturn(t) \/ ExecSyscall(t)
           \/ StaticJump(t) \/ StaticCall(t) \/ StaticReturn(t) \/ StaticPoison(t)
           \/ Syscall(t) \/ (\E c \in Threads : Clone(t, c)) \/ ExitThread(t) \/ ExitProcess(t)
    PROVE  /\ lock' = lock /\ UNCHANGED code
           /\ ctl' \in [Threads -> Controls]
           /\ \A u \in Threads :
                 \/ ctl'[u] = ctl[u] /\ spc'[u] = spc[u] /\ cur'[u] = cur[u]
                 \/ /\ ctl[u] \notin {"locked", "missed", "found"}
                    /\ ctl'[u] \notin {"locked", "missed", "found"}
<1> USE DEF TypeOK, StateTypes, At, Controls
<1>1. CASE CallStaticFn(t)
  BY <1>1 DEF CallStaticFn, host
<1>2. CASE ExecJump(t)
  BY <1>2 DEF ExecJump, host
<1>3. CASE ExecIndirect(t) \/ ExecCall(t) \/ ExecSyscall(t)
  BY <1>3 DEF ExecIndirect, ExecCall, ExecSyscall, host
<1>4. CASE ExecReturn(t) \/ StaticReturn(t)
  <2>1. ResumedCtl(Pop(frames[t])) \in {"off", "top", "static"}
    BY DEF ResumedCtl
  <2> QED  BY <1>4, <2>1 DEF ExecReturn, StaticReturn, InStatic, HostReturn
<1>5. CASE StaticJump(t)
  BY <1>5 DEF StaticJump, InStatic, host
<1>6. CASE StaticCall(t)
  BY <1>6 DEF StaticCall, InStatic, host
<1>7. CASE StaticPoison(t) \/ ExitThread(t) \/ ExitProcess(t)
  BY <1>7 DEF StaticPoison, ExitThread, ExitProcess, InStatic, InternalCall, host
<1>8. CASE Syscall(t)
  BY <1>8 DEF Syscall, InternalCall, Continue, host
<1>9. ASSUME NEW c \in Threads, Clone(t, c)
      PROVE  /\ lock' = lock /\ UNCHANGED code
             /\ ctl' \in [Threads -> Controls]
             /\ \A u \in Threads :
                   \/ ctl'[u] = ctl[u] /\ spc'[u] = spc[u] /\ cur'[u] = cur[u]
                   \/ /\ ctl[u] \notin {"locked", "missed", "found"}
                      /\ ctl'[u] \notin {"locked", "missed", "found"}
  <2>1. lock' = lock /\ UNCHANGED code /\ cur' = cur /\ ctl[c] = "off" /\ ctl[t] \in {"sys", "static"}
    BY <1>9 DEF Clone, InternalCall, host
  <2>2. \/ ctl' = [[ctl EXCEPT ![c] = "top"] EXCEPT ![t] = "top"]
        \/ ctl' = [ctl EXCEPT ![c] = "top"]
    BY <1>9 DEF Clone, Continue
  <2>3. \A u \in Threads : u # t /\ u # c => spc'[u] = spc[u]
    BY <1>9 DEF Clone
  <2> QED  BY <2>1, <2>2, <2>3
<1> QED  BY <1>1, <1>2, <1>3, <1>4, <1>5, <1>6, <1>7, <1>8, <1>9

\* The invariant holds at the start.
LEMMA InvInit == Init => Inv
<1> SUFFICES ASSUME Init PROVE LockInv /\ CacheInv /\ LinkInv
  BY TypeInit DEF Inv
<1>1. LockInv
  BY ProgramAssumption DEF Init, LockInv
<1>2. CacheInv
  BY ProgramAssumption, StaticAssumption DEF Init, CacheInv
<1>3. LinkInv
  BY DEF Init, LinkInv
<1> QED  BY <1>1, <1>2, <1>3

\* The locked part of invoke keeps lock, cache and links in order.
LEMMA InvInvoke ==
    ASSUME Inv, NEW t \in Threads,
           EnterInvoke(t) \/ LookupHit(t) \/ LookupMiss(t)
             \/ Translate(t) \/ TranslateFails(t) \/ ChainFails(t) \/ ChainAndRun(t)
    PROVE  LockInv' /\ CacheInv' /\ LinkInv'
<1> USE ProgramAssumption, StaticAssumption DEF Inv, TypeOK, StateTypes, At, Controls
<1>1. CASE EnterInvoke(t)
  BY <1>1 DEF EnterInvoke, LockInv, CacheInv, LinkInv, code
<1>2. CASE LookupHit(t)
  BY <1>2 DEF LookupHit, LockInv, CacheInv, LinkInv, code, host
<1>3. CASE LookupMiss(t)
  BY <1>3 DEF LookupMiss, LockInv, CacheInv, LinkInv, code, host
<1>4. CASE Translate(t)
  <2>1. FreshTx \in Tx /\ txPc[FreshTx] = None
    BY <1>4 DEF Translate, CanTranslate, FreshTx
  <2>2. /\ lock = t /\ lock' = lock
        /\ ctl[t] = "missed" /\ ctl' = [ctl EXCEPT ![t] = "found"]
        /\ cur' = [cur EXCEPT ![t] = FreshTx]
        /\ cache[spc[t]] = None /\ spc' = spc /\ spc[t] \in PCs
        /\ txPc' = [txPc EXCEPT ![FreshTx] = spc[t]]
        /\ cache' = [cache EXCEPT ![spc[t]] = FreshTx]
        /\ UNCHANGED <<firstTo, trueTo>>
    BY <1>4 DEF Translate, LockInv, CacheInv, host
  <2> DEFINE x == FreshTx
  <2> HIDE DEF x
  <2>3. x \in Tx /\ txPc[x] = None /\ txPc' = [txPc EXCEPT ![x] = spc[t]]
        /\ cache' = [cache EXCEPT ![spc[t]] = x] /\ cur' = [cur EXCEPT ![t] = x]
    BY <2>1, <2>2 DEF x
  <2>4. LockInv'
    BY <2>2 DEF LockInv
  <2>5. \A u \in Threads : u # t => ctl[u] \notin {"locked", "missed", "found"}
    BY <2>2 DEF LockInv
  <2>6. CacheInv'
    <3>1. \A p \in PCs : cache'[p] # None => txPc'[cache'[p]] = p
      BY <2>2, <2>3 DEF CacheInv
    <3>2. \A y \in Tx : txPc'[y] # None => cache'[txPc'[y]] = y
      BY <2>2, <2>3 DEF CacheInv
    <3>3. \A u \in Threads : ctl'[u] # "missed"
      BY <2>2, <2>5
    <3>4. \A u \in Threads : ctl'[u] = "found" => txPc'[cur'[u]] = spc'[u]
      BY <2>2, <2>3, <2>5
    <3> QED  BY <3>1, <3>2, <3>3, <3>4 DEF CacheInv
  <2>7. LinkInv'
    BY <2>2, <2>3 DEF LinkInv
  <2> QED  BY <2>4, <2>6, <2>7
<1>5. CASE TranslateFails(t) \/ ChainFails(t)
  BY <1>5 DEF TranslateFails, ChainFails, LockInv, CacheInv, LinkInv, code
<1>6. CASE ChainAndRun(t)
  <2>1. LockInv' /\ CacheInv'
    BY <1>6 DEF ChainAndRun, Chains, LockInv, CacheInv
  <2>2. cur[t] \in Tx /\ txPc[cur[t]] # None /\ txPc' = txPc
    BY <1>6 DEF ChainAndRun, Chains, ThreadTypes
  <2>3. LinkInv'
    BY <1>6, <2>2 DEF ChainAndRun, Chains, ChainTo, PatchFirst, PatchTrue, LinkInv
  <2> QED  BY <2>1, <2>3
<1> QED  BY <1>1, <1>2, <1>3, <1>4, <1>5, <1>6

\* Every step keeps the invariant.
LEMMA InvNext == Inv /\ [Next]_vars => Inv'
<1> SUFFICES ASSUME Inv, [Next]_vars PROVE Inv'
  OBVIOUS
<1>1. CASE UNCHANGED vars
  BY <1>1 DEF vars, Inv, TypeOK, StateTypes, ThreadTypes, LockInv, CacheInv, LinkInv
<1>2. ASSUME NEW t \in Threads, ThreadStep(t) PROVE Inv'
  <2>1. TypeOK'
    BY <1>2, TypeInvoke, TypeExec, TypeStatic, TypeInternal DEF ThreadStep, Inv
  <2>2. CASE EnterInvoke(t) \/ LookupHit(t) \/ LookupMiss(t)
               \/ Translate(t) \/ TranslateFails(t) \/ ChainFails(t) \/ ChainAndRun(t)
    BY <2>1, <2>2, InvInvoke DEF Inv
  <2>3. CASE ~(EnterInvoke(t) \/ LookupHit(t) \/ LookupMiss(t)
               \/ Translate(t) \/ TranslateFails(t) \/ ChainFails(t) \/ ChainAndRun(t))
    <3>1. /\ lock' = lock /\ UNCHANGED code
          /\ \A u \in Threads :
                \/ ctl'[u] = ctl[u] /\ spc'[u] = spc[u] /\ cur'[u] = cur[u]
                \/ /\ ctl[u] \notin {"locked", "missed", "found"}
                   /\ ctl'[u] \notin {"locked", "missed", "found"}
      BY <1>2, <2>3, UnlockedSteps DEF ThreadStep, Inv
    <3> QED  BY <2>1, <3>1 DEF Inv, LockInv, CacheInv, LinkInv, code
  <2> QED  BY <2>2, <2>3
<1> QED  BY <1>1, <1>2 DEF Next, Over

\* Type correctness of the runtime: in every reachable state a thread about to
\* run translated code holds an existing translation, and MainLoop and static
\* code run exactly under their own activations.
THEOREM TypeCorrect == Spec => []TypeOK
<1>1. Inv => TypeOK
  BY DEF Inv
<1> QED  BY <1>1, InvInit, InvNext, PTL DEF Spec

\* No guest address is ever translated twice, whatever threads race for it:
\* big_fat_lock covers the lookup, the translation and the insertion.
THEOREM TranslatedOnce == Spec => []OneTranslationPerPc
<1>1. Inv => OneTranslationPerPc
  BY DEF Inv, CacheInv, OneTranslationPerPc
<1> QED  BY <1>1, InvInit, InvNext, PTL DEF Spec

-----------------------------------------------------------------------------
(* Host and guest stacks *)

\* What happens at the top of the host stack leaves the mirrored part alone.
LEMMA MirrorTop ==
    ASSUME NEW fs \in Seq(Frames), NEW gs \in Seq(PCs), fs # <<>>, Mirrors(fs, gs),
           NEW f \in Frames
    PROVE  Mirrors(SetTop(fs, f), gs)
<1>1. /\ Len(SetTop(fs, f)) = Len(fs)
      /\ \A i \in 1 .. Len(fs) - 1 : SetTop(fs, f)[i] = fs[i]
  BY SetTopFacts
<1>2. Len(gs) \in Nat
  BY SMT
<1> QED  BY <1>1, <1>2, SMT DEF Mirrors

\* A call pushes on both stacks; a static caller is to go on after its call.
LEMMA MirrorCall ==
    ASSUME NEW fs \in Seq(Frames), NEW gs \in Seq(PCs), fs # <<>>, Mirrors(fs, gs),
           NEW f \in Frames, NEW p \in PCs,
           Top(fs) # LoopFrame => p = NextPc[Top(fs).at]
    PROVE  Mirrors(Append(fs, f), Append(gs, p))
<1>1. /\ Len(Append(fs, f)) = Len(fs) + 1
      /\ \A i \in 1 .. Len(fs) : Append(fs, f)[i] = fs[i]
  BY AppendFacts
<1>2. /\ Len(Append(gs, p)) = Len(gs) + 1
      /\ \A i \in 1 .. Len(gs) : Append(gs, p)[i] = gs[i]
      /\ Append(gs, p)[Len(gs) + 1] = p
      /\ Len(gs) \in Nat
  BY SMT
<1>3. Len(fs) = Len(gs) + 1 /\ Top(fs) = fs[Len(gs) + 1]
  BY DEF Mirrors, Top
<1>4. ASSUME NEW i \in 1 .. Len(gs) + 1, fs[i] # LoopFrame
      PROVE  Append(gs, p)[i] = NextPc[fs[i].at]
  <2>1. CASE i = Len(gs) + 1
    BY <1>2, <1>3, <1>4, <2>1
  <2>2. CASE i \in 1 .. Len(gs)
    BY <1>2, <1>4, <2>2 DEF Mirrors
  <2> QED  BY <1>2, <2>1, <2>2, SMT
<1> QED  BY <1>1, <1>2, <1>3, <1>4 DEF Mirrors

\* A return pops both.
LEMMA MirrorReturn ==
    ASSUME NEW fs \in Seq(Frames), NEW gs \in Seq(PCs), fs # <<>>, Mirrors(fs, gs)
    PROVE  IF gs = <<>> THEN Pop(fs) = <<>> ELSE Mirrors(Resumed(Pop(fs)), Pop(gs))
<1>1. /\ Len(fs) \in Nat \ {0} /\ Pop(fs) \in Seq(Frames)
      /\ Len(Pop(fs)) = Len(fs) - 1
      /\ \A i \in 1 .. Len(fs) - 1 : Pop(fs)[i] = fs[i]
      /\ Pop(fs) = <<>> <=> Len(fs) = 1
  BY PopFacts
<1>2. CASE gs = <<>>
  BY <1>1, <1>2 DEF Mirrors
<1>3. CASE gs # <<>>
  <2>1. /\ Len(gs) \in Nat \ {0}
        /\ Len(Pop(gs)) = Len(gs) - 1
        /\ \A i \in 1 .. Len(gs) - 1 : Pop(gs)[i] = gs[i]
    BY <1>3, PopFacts
  <2>2. /\ Len(Resumed(Pop(fs))) = Len(Pop(fs))
        /\ \A i \in 1 .. Len(Pop(fs)) - 1 : Resumed(Pop(fs))[i] = Pop(fs)[i]
    BY <1>1, ResumeFacts
  <2>3. Len(fs) = Len(gs) + 1
    BY DEF Mirrors
  <2>4. ASSUME NEW i \in 1 .. Len(gs) - 1
        PROVE  Resumed(Pop(fs))[i] = fs[i] /\ Pop(gs)[i] = gs[i] /\ i \in 1 .. Len(gs)
    BY <1>1, <2>1, <2>2, <2>3, SMT
  <2>5. Len(Resumed(Pop(fs))) = Len(Pop(gs)) + 1
    BY <1>1, <2>1, <2>2, <2>3, SMT
  <2> QED  BY <1>3, <2>1, <2>4, <2>5 DEF Mirrors
<1> QED  BY <1>2, <1>3

\* Threads other than the one that steps, and the one it clones, keep their
\* stacks and stay on or off.
LEMMA OthersKeepStacks ==
    ASSUME TypeOK, NEW t \in Threads, ThreadStep(t), ~ \E c \in Threads : Clone(t, c)
    PROVE  \A u \in Threads \ {t} :
              frames'[u] = frames[u] /\ gstack'[u] = gstack[u] /\ ctl'[u] = ctl[u]
<1> USE DEF TypeOK, StateTypes
<1>1. CASE CallStaticFn(t) \/ EnterInvoke(t) \/ LookupHit(t) \/ LookupMiss(t)
             \/ Translate(t) \/ TranslateFails(t) \/ ChainFails(t) \/ ChainAndRun(t)
  BY <1>1 DEF CallStaticFn, EnterInvoke, LookupHit, LookupMiss, Translate,
              TranslateFails, ChainFails, ChainAndRun, Chains
<1>2. CASE ExecJump(t) \/ ExecIndirect(t) \/ ExecCall(t) \/ ExecSyscall(t)
  BY <1>2 DEF ExecJump, ExecIndirect, ExecCall, ExecSyscall
<1>3. CASE ExecReturn(t) \/ StaticReturn(t)
  BY <1>3 DEF ExecReturn, StaticReturn, HostReturn
<1>4. CASE StaticJump(t) \/ StaticPoison(t) \/ ExitThread(t) \/ ExitProcess(t)
  BY <1>4 DEF StaticJump, StaticPoison, ExitThread, ExitProcess
<1>5. CASE StaticCall(t)
  BY <1>5 DEF StaticCall
<1>6. CASE Syscall(t)
  BY <1>6 DEF Syscall, Continue
<1> QED  BY <1>1, <1>2, <1>3, <1>4, <1>5, <1>6 DEF ThreadStep

\* The steps of one thread keep its own stacks in correspondence.
LEMMA MirrorStep ==
    ASSUME Inv, StackCorrespondence, NEW t \in Threads, ThreadStep(t),
           ~ \E c \in Threads : Clone(t, c)
    PROVE  ctl'[t] # "off" => Mirrors(frames'[t], gstack'[t])
<1>0. /\ ctl[t] # "off" /\ frames[t] # <<>>
      /\ frames[t] \in Seq(Frames) /\ gstack[t] \in Seq(PCs) /\ spc[t] \in PCs
      /\ Mirrors(frames[t], gstack[t])
      /\ Top(frames[t]) \in Frames
  <2>1. ctl[t] # "off"
    BY DEF ThreadStep, At, InStatic, InternalCall, CallStaticFn, EnterInvoke, LookupHit,
           LookupMiss, Translate, TranslateFails, ChainFails, ChainAndRun, Chains, ExecJump, ExecIndirect,
           ExecCall, ExecReturn, ExecSyscall, StaticJump, StaticCall, StaticReturn,
           StaticPoison, Syscall, Clone, ExitThread, ExitProcess
  <2> QED  BY <2>1, PopFacts DEF Inv, TypeOK, StateTypes, ThreadTypes, StackCorrespondence
<1>1. CASE frames' = frames /\ gstack' = gstack
  BY <1>0, <1>1
<1>2. \A f \in Frames : frames' = [frames EXCEPT ![t] = SetTop(frames[t], f)] /\ gstack' = gstack
                          => Mirrors(frames'[t], gstack'[t])
  BY <1>0, MirrorTop DEF Inv, TypeOK, StateTypes
<1>3. CASE EnterInvoke(t) \/ LookupHit(t) \/ LookupMiss(t) \/ Translate(t)
             \/ TranslateFails(t) \/ ChainFails(t) \/ ChainAndRun(t) \/ ExecJump(t) \/ ExecIndirect(t)
             \/ ExecSyscall(t) \/ StaticPoison(t) \/ ExitProcess(t)
  BY <1>1, <1>3 DEF EnterInvoke, LookupHit, LookupMiss, Translate, TranslateFails, ChainFails,
     ChainAndRun, Chains, ExecJump, ExecIndirect, ExecSyscall, StaticPoison, ExitProcess
<1>4. CASE CallStaticFn(t)
  <2>1. StaticFrame(spc[t], spc[t]) \in Frames
    BY <1>0, <1>4, FrameFacts DEF CallStaticFn
  <2> QED  BY <1>2, <1>4, <2>1 DEF CallStaticFn
<1>5. CASE StaticJump(t)
  <2>1. Top(frames[t]).fn \in StaticFns /\ Top(frames[t]).at \in PCs
    BY <1>0, <1>5, FrameFacts DEF StaticJump, InStatic, At, Inv, TypeOK, ThreadTypes
  <2>2. PICK p \in JumpTargets(Top(frames[t]).at) :
            \/ frames' = [frames EXCEPT ![t] = SetTop(@, StaticFrame(Top(@).fn, p))]
            \/ frames' = [frames EXCEPT ![t] = SetTop(@, LoopFrame)]
    BY <1>5 DEF StaticJump
  <2>3. p \in PCs
    BY <2>1, <2>2, TargetFacts
  <2>4. StaticFrame(Top(frames[t]).fn, p) \in Frames /\ LoopFrame \in Frames
    BY <2>1, <2>3, FrameFacts
  <2>5. gstack' = gstack
    BY <1>5 DEF StaticJump
  <2> QED  BY <1>2, <2>2, <2>4, <2>5
<1>6. CASE Syscall(t)
  <2>1. CASE ctl[t] = "sys"
    BY <1>1, <1>6, <2>1 DEF Syscall, Continue
  <2>2. CASE ctl[t] = "static"
    <3> DEFINE g == StaticFrame(Top(frames[t]).fn, NextPc[Top(frames[t]).at])
    <3>1. g \in Frames
      BY <2>2, InternalCallFacts DEF Inv
    <3>2. frames' = [frames EXCEPT ![t] = SetTop(frames[t], g)] /\ gstack' = gstack
      BY <1>6, <2>2 DEF Syscall, Continue
    <3> HIDE DEF g
    <3> QED  BY <1>2, <3>1, <3>2
  <2> QED  BY <1>6, <2>1, <2>2 DEF Syscall, InternalCall, At
<1>7. CASE ExecCall(t)
  <2>1. txPc[cur[t]] \in PCs /\ Top(frames[t]) = LoopFrame
    BY <1>7 DEF ExecCall, At, Inv, TypeOK, ThreadTypes
  <2>2. Mirrors(Append(frames[t], LoopFrame), Append(gstack[t], NextPc[txPc[cur[t]]]))
    BY <1>0, <2>1, MirrorCall, TargetFacts, FrameFacts
  <2> QED  BY <1>7, <2>2 DEF ExecCall, Inv, TypeOK, StateTypes
<1>8. CASE StaticCall(t)
  <2> DEFINE q == Top(frames[t]).at
  <2>1. Top(frames[t]) # LoopFrame /\ q \in PCs /\ NextPc[q] \in PCs
    BY <1>0, <1>8, FrameFacts, TargetFacts DEF StaticCall, InStatic, At, Inv, TypeOK, ThreadTypes
  <2>2. PICK p \in CallTargets(q) :
            \/ /\ IsDirect(q, p)
               /\ frames' = [frames EXCEPT ![t] = Append(@, StaticFrame(p, p))]
            \/ frames' = [frames EXCEPT ![t] = Append(@, LoopFrame)]
    BY <1>8 DEF StaticCall
  <2>3. LoopFrame \in Frames /\ (IsDirect(q, p) => StaticFrame(p, p) \in Frames)
    BY <2>1, <2>2, FrameFacts, TargetFacts DEF IsDirect
  <2>4. gstack' = [gstack EXCEPT ![t] = Append(@, NextPc[q])]
    BY <1>8 DEF StaticCall
  <2>5. \A f \in Frames : Mirrors(Append(frames[t], f), Append(gstack[t], NextPc[q]))
    BY <1>0, <2>1, MirrorCall
  <2> QED  BY <2>2, <2>3, <2>4, <2>5 DEF Inv, TypeOK, StateTypes
<1>9. CASE ExecReturn(t) \/ StaticReturn(t)
  <2>1. HostReturn(t)
    BY <1>9 DEF ExecReturn, StaticReturn
  <2>2. IF gstack[t] = <<>> THEN Pop(frames[t]) = <<>>
                            ELSE Mirrors(Resumed(Pop(frames[t])), Pop(gstack[t]))
    BY <1>0, MirrorReturn
  <2>3. CASE gstack[t] = <<>>
    BY <2>1, <2>2, <2>3 DEF HostReturn, ResumedCtl, Inv, TypeOK, StateTypes
  <2>4. CASE gstack[t] # <<>>
    BY <2>1, <2>2, <2>4 DEF HostReturn, Inv, TypeOK, StateTypes
  <2> QED  BY <2>3, <2>4
<1>10. CASE ExitThread(t)
  BY <1>10 DEF ExitThread, Inv, TypeOK, StateTypes
<1> QED  BY <1>3, <1>4, <1>5, <1>6, <1>7, <1>8, <1>9, <1>10 DEF ThreadStep

\* A clone starts a mirrored pair of stacks and leaves the parent's in step.
LEMMA MirrorClone ==
    ASSUME Inv, StackCorrespondence, NEW t \in Threads, NEW c \in Threads, Clone(t, c)
    PROVE  StackCorrespondence'
<1> DEFINE g == StaticFrame(Top(frames[t]).fn, NextPc[Top(frames[t]).at])
<1>1. /\ ctl[t] \in {"sys", "static"} /\ ctl[c] = "off" /\ t # c
      /\ gstack' = [gstack EXCEPT ![c] = <<>>]
      /\ gstack[t] \in Seq(PCs)
  BY DEF Clone, InternalCall, At, Inv, TypeOK, StateTypes
<1>2. /\ frames[t] \in Seq(Frames) /\ frames[t] # <<>>
      /\ ctl[t] = "static" => g \in Frames
      /\ Mirrors(frames[t], gstack[t])
  BY <1>1, InternalCallFacts DEF Inv, StackCorrespondence
<1>3. ctl[t] = "static" => Mirrors(SetTop(frames[t], g), gstack[t])
  <2> HIDE DEF g
  <2> QED  BY <1>1, <1>2, MirrorTop
<1>4. frames'[t] = IF ctl[t] = "sys" THEN frames[t] ELSE SetTop(frames[t], g)
  BY <1>1 DEF Clone, Continue, Inv, TypeOK, StateTypes
<1>5. \A u \in Threads \ {t, c} : frames'[u] = frames[u] /\ ctl'[u] = ctl[u]
  BY <1>1 DEF Clone, Continue, Inv, TypeOK, StateTypes
<1>6. frames'[c] = <<LoopFrame>>
  BY <1>1 DEF Clone, Continue, Inv, TypeOK, StateTypes
<1>7. Mirrors(<<LoopFrame>>, <<>>)
  BY DEF Mirrors
<1> HIDE DEF g
<1> SUFFICES ASSUME NEW u \in Threads, ctl'[u] # "off"
             PROVE  Mirrors(frames'[u], gstack'[u])
  BY DEF StackCorrespondence
<1>8. CASE u = t
  BY <1>1, <1>2, <1>3, <1>4, <1>8 DEF Inv, TypeOK, StateTypes
<1>9. CASE u = c
  BY <1>1, <1>6, <1>7, <1>9 DEF Inv, TypeOK, StateTypes
<1>10. CASE u # t /\ u # c
  BY <1>1, <1>5, <1>10 DEF StackCorrespondence, Inv, TypeOK, StateTypes
<1> QED  BY <1>8, <1>9, <1>10

\* The host returns where the guest does: MainLoop's recursion, the tail calls
\* between MainLoop and static functions and the direct calls of static code
\* keep one activation per guest call, and each waiting static function is
\* resumed at the address the guest returns to.
THEOREM HostMirrorsGuest == Spec => []StackCorrespondence
<1>1. Init => StackCorrespondence
  BY DEF Init, StackCorrespondence, Mirrors
<1>2. Inv /\ StackCorrespondence /\ [Next]_vars => StackCorrespondence'
  <2> SUFFICES ASSUME Inv, StackCorrespondence, [Next]_vars PROVE StackCorrespondence'
    OBVIOUS
  <2>1. CASE UNCHANGED vars
    BY <2>1 DEF vars, StackCorrespondence
  <2>2. ASSUME NEW t \in Threads, ThreadStep(t) PROVE StackCorrespondence'
    <3>1. CASE \E c \in Threads : Clone(t, c)
      BY <3>1, MirrorClone
    <3>2. CASE ~ \E c \in Threads : Clone(t, c)
      <4>1. \A u \in Threads \ {t} :
               frames'[u] = frames[u] /\ gstack'[u] = gstack[u] /\ ctl'[u] = ctl[u]
        BY <2>2, <3>2, OthersKeepStacks DEF Inv
      <4>2. ctl'[t] # "off" => Mirrors(frames'[t], gstack'[t])
        BY <2>2, <3>2, MirrorStep
      <4> QED  BY <4>1, <4>2 DEF StackCorrespondence
    <3> QED  BY <3>1, <3>2
  <2> QED  BY <2>1, <2>2 DEF Next, Over
<1> QED  BY <1>1, <1>2, InvInit, InvNext, PTL DEF Spec

-----------------------------------------------------------------------------
(* Chaining *)

\* Steps that patch nothing and leave a block by no chainable exit: a pending
\* exit is dropped or stays pending for the same address.
Quiet ==
    \A u \in Threads :
        \/ chainAt'[u] = None
        \/ /\ chainAt'[u] = chainAt[u] /\ spc'[u] = spc[u]
           /\ \/ ctl'[u] = ctl[u]
              \/ ctl[u] \in {"top", "locked", "missed"} /\ ctl'[u] \in {"locked", "missed", "found"}
        \/ ctl'[u] \in {"exec", "off"}

\* Quiet steps keep pending exits right.
LEMMA QuietPending ==
    ASSUME PendingChainInv, Quiet, UNCHANGED code PROVE PendingChainInv'
  BY DEF PendingChainInv, Quiet, code, SlotTarget, ExitTarget

\* A pending exit of a safe program does not lead into a static function.
LEMMA PendingNotStatic ==
    ASSUME Inv, PendingChainInv, HostChains, ChainSafe, NEW t \in Threads,
           CallStaticFn(t)
    PROVE  chainAt[t] = None
<1> SUFFICES ASSUME chainAt[t] # None PROVE FALSE
  OBVIOUS
<1> DEFINE x == chainAt[t][1]
<1>1. ctl[t] = "top" /\ spc[t] \in StaticFns
  BY DEF CallStaticFn, At
<1>2. chainAt[t] \in Slots
  BY DEF Inv, TypeOK, StateTypes
<1>3. x \in Tx /\ chainAt[t][2] \in {"first", "true"}
  BY <1>2 DEF Slots
<1>4. /\ txPc[x] \in PCs /\ Kind[txPc[x]] \in {"br", "csel"}
      /\ spc[t] = SlotTarget(chainAt[t])
      /\ chainAt[t][2] = "true" => Kind[txPc[x]] = "csel"
  BY <1>1, <1>3 DEF PendingChainInv, Inv, TypeOK, StateTypes
<1>5. spc[t] \in JumpTargets(txPc[x])
  BY <1>3, <1>4 DEF SlotTarget, ExitTarget, JumpTargets
<1> QED  BY <1>1, <1>4, <1>5 DEF ChainSafe

\* All steps but those that leave by a chainable exit, translate or patch.
LEMMA QuietSteps ==
    ASSUME Inv, PendingChainInv, HostChains, ChainSafe, NEW t \in Threads,
           \/ CallStaticFn(t) \/ EnterInvoke(t) \/ LookupHit(t) \/ LookupMiss(t)
           \/ TranslateFails(t) \/ ChainFails(t)
           \/ ExecIndirect(t) \/ ExecCall(t) \/ ExecReturn(t) \/ ExecSyscall(t)
           \/ StaticJump(t) \/ StaticCall(t) \/ StaticReturn(t) \/ StaticPoison(t)
           \/ Syscall(t) \/ (\E c \in Threads : Clone(t, c)) \/ ExitThread(t) \/ ExitProcess(t)
    PROVE  Quiet /\ UNCHANGED code
<1> USE DEF Inv, TypeOK, StateTypes, At
<1>1. CASE CallStaticFn(t)
  BY <1>1, PendingNotStatic DEF CallStaticFn, Quiet
<1>2. CASE EnterInvoke(t) \/ LookupHit(t) \/ LookupMiss(t) \/ TranslateFails(t) \/ ChainFails(t)
  BY <1>2 DEF EnterInvoke, LookupHit, LookupMiss, TranslateFails, ChainFails, Quiet
<1>3. CASE ExecIndirect(t) \/ ExecCall(t) \/ ExecSyscall(t)
  BY <1>3 DEF ExecIndirect, ExecCall, ExecSyscall, Quiet
<1>4. CASE ExecReturn(t)
  BY <1>4 DEF ExecReturn, HostReturn, Quiet
<1>s. ctl[t] \in {"static", "sys"} => chainAt[t] = None
  BY DEF PendingChainInv
<1>5. CASE StaticJump(t) \/ StaticCall(t) \/ StaticReturn(t) \/ StaticPoison(t)
  <2>1. chainAt[t] = None /\ chainAt' = chainAt /\ UNCHANGED code
    BY <1>5, <1>s DEF StaticJump, StaticCall, StaticReturn, StaticPoison, InStatic
  <2>2. \A u \in Threads \ {t} : spc'[u] = spc[u] /\ ctl'[u] = ctl[u]
    BY <1>5 DEF StaticJump, StaticCall, StaticReturn, StaticPoison, HostReturn
  <2> QED  BY <2>1, <2>2 DEF Quiet
<1>6. CASE Syscall(t) \/ ExitThread(t) \/ ExitProcess(t)
  <2>1. chainAt[t] = None /\ chainAt' = chainAt /\ UNCHANGED code
    BY <1>6, <1>s DEF Syscall, ExitThread, ExitProcess, InternalCall
  <2>2. \A u \in Threads \ {t} : spc'[u] = spc[u] /\ ctl'[u] = ctl[u]
    BY <1>6 DEF Syscall, ExitThread, ExitProcess, Continue
  <2> QED  BY <2>1, <2>2 DEF Quiet
<1>7. ASSUME NEW c \in Threads, Clone(t, c) PROVE Quiet /\ UNCHANGED code
  <2>1. chainAt[t] = None /\ chainAt' = [chainAt EXCEPT ![c] = None] /\ UNCHANGED code
    BY <1>7, <1>s DEF Clone, InternalCall
  <2>2. \A u \in Threads \ {t, c} : spc'[u] = spc[u] /\ ctl'[u] = ctl[u]
    BY <1>7 DEF Clone, Continue
  <2> QED  BY <2>1, <2>2 DEF Quiet
<1> QED  BY <1>1, <1>2, <1>3, <1>4, <1>5, <1>6, <1>7

\* Leaving by an exit: it is unpatched, and the thread goes where it leads.
LEMMA ChainJump ==
    ASSUME Inv, PendingChainInv, PatchedExitInv, NEW t \in Threads, ExecJump(t)
    PROVE  PendingChainInv' /\ PatchedExitInv'
<1> DEFINE x == cur[t]
<1>t. /\ x \in Tx /\ txPc[x] \in PCs /\ ctl[t] = "exec"
      /\ Kind[txPc[x]] \in {"br", "csel"}
      /\ spc \in [Threads -> PCs] /\ ctl \in [Threads -> Controls]
      /\ chainAt \in [Threads -> Slots \cup {None}] /\ firstOp[x] \in {"auipc", "branch", "jump"}
      /\ UNCHANGED code
  BY DEF Inv, TypeOK, StateTypes, ThreadTypes, ExecJump, At
<1>p. PatchedExitInv'
  BY <1>t DEF PatchedExitInv, ExitRight, code, SlotTarget, ExitTarget
<1>n. x # None
  BY <1>t, StaticAssumption
<1>1. PICK c \in ExitConditions(x) :
         IF Chained(x, c) # None
           THEN UNCHANGED <<spc, chainAt, ctl>>
           ELSE /\ spc' = [spc EXCEPT ![t] = ExitTarget(x, c)]
                /\ chainAt' = [chainAt EXCEPT ![t] = ExitSlot(x, c)]
                /\ ctl' = [ctl EXCEPT ![t] = "top"]
  BY DEF ExecJump
<1>2. CASE Chained(x, c) # None
  BY <1>1, <1>2, <1>t, <1>p DEF PendingChainInv, code, SlotTarget, ExitTarget
<1>3. CASE Chained(x, c) = None
  <2>0. /\ spc' = [spc EXCEPT ![t] = ExitTarget(x, c)]
        /\ chainAt' = [chainAt EXCEPT ![t] = ExitSlot(x, c)]
        /\ ctl' = [ctl EXCEPT ![t] = "top"]
    BY <1>1, <1>3
  <2>1. c \in BOOLEAN /\ (Kind[txPc[x]] = "br" => c = TRUE)
    BY DEF ExitConditions
  <2>2. CASE Kind[txPc[x]] = "csel" /\ c
    <3>1. ExitSlot(x, c) = <<x, "true">> /\ ExitTarget(x, c) = SlotTarget(<<x, "true">>)
      BY <2>1, <2>2 DEF ExitSlot, SlotTarget, ExitTarget
    <3>2. chainAt'[t] = <<x, "true">> /\ spc'[t] = SlotTarget(<<x, "true">>) /\ ctl'[t] = "top"
      BY <3>1, <2>0, <1>t
    <3>3. \A u \in Threads \ {t} : chainAt'[u] = chainAt[u] /\ spc'[u] = spc[u] /\ ctl'[u] = ctl[u]
      BY <2>0, <1>t
    <3> QED  BY <3>2, <3>3, <2>2, <1>t, <1>p, ProgramAssumption DEF PendingChainInv, code, SlotTarget, ExitTarget
  <2>3. CASE ~(Kind[txPc[x]] = "csel" /\ c)
    <3>1. ExitSlot(x, c) = <<x, "first">> /\ ExitTarget(x, c) = SlotTarget(<<x, "first">>)
      BY <2>1, <2>3, <1>t DEF ExitSlot, SlotTarget, ExitTarget
    <3>2. chainAt'[t] = <<x, "first">> /\ spc'[t] = SlotTarget(<<x, "first">>) /\ ctl'[t] = "top"
      BY <3>1, <2>0, <1>t
    <3>3. \A u \in Threads \ {t} : chainAt'[u] = chainAt[u] /\ spc'[u] = spc[u] /\ ctl'[u] = ctl[u]
      BY <2>0, <1>t
    <3>4. Kind[txPc[x]] = "csel" => firstOp[x] = "auipc"
      <4> SUFFICES ASSUME Kind[txPc[x]] = "csel", firstOp[x] # "auipc" PROVE FALSE
        OBVIOUS
      <4>1. firstOp[x] = "branch" /\ firstTo[x] # None
        BY <1>t DEF PatchedExitInv, ExitRight
      <4>2. c = FALSE
        BY <2>1, <2>3
      <4> QED  BY <4>1, <4>2, <1>3 DEF Chained
    <3> QED  BY <3>2, <3>3, <3>4, <2>3, <1>t, <1>p, ProgramAssumption DEF PendingChainInv, code, SlotTarget, ExitTarget
  <2> QED  BY <2>2, <2>3
<1> QED  BY <1>2, <1>3, <1>p

\* A new translation takes arena space no exit belongs or leads to.
LEMMA ChainTranslate ==
    ASSUME Inv, PendingChainInv, PatchedExitInv, NEW t \in Threads, Translate(t)
    PROVE  PendingChainInv' /\ PatchedExitInv'
<1> DEFINE f == FreshTx
<1>1. f \in Tx /\ txPc[f] = None
  BY DEF Translate, CanTranslate, FreshTx
<1>2. /\ txPc \in [Tx -> PCs \cup {None}] /\ firstTo \in [Tx -> Tx \cup {None}]
      /\ trueTo \in [Tx -> Tx \cup {None}] /\ ctl \in [Threads -> Controls]
      /\ chainAt \in [Threads -> Slots \cup {None}]
      /\ spc \in [Threads -> PCs] /\ LinkInv
  BY DEF Inv, TypeOK, StateTypes
<1>3. /\ txPc' = [txPc EXCEPT ![f] = spc[t]] /\ ctl[t] = "missed"
      /\ ctl' = [ctl EXCEPT ![t] = "found"]
      /\ UNCHANGED <<spc, chainAt, firstOp, firstTo, trueTo>>
  BY DEF Translate, At
<1> HIDE DEF f
<1>4. \A x \in Tx : txPc[x] # None => txPc'[x] = txPc[x]
  BY <1>1, <1>2, <1>3
<1>5. \A x \in Tx : /\ firstTo[x] # None => firstTo[x] \in Tx /\ txPc'[firstTo[x]] = txPc[firstTo[x]]
                    /\ trueTo[x] # None => trueTo[x] \in Tx /\ txPc'[trueTo[x]] = txPc[trueTo[x]]
  BY <1>2, <1>4 DEF LinkInv
<1>6. PatchedExitInv'
  BY <1>3, <1>4, <1>5 DEF PatchedExitInv, ExitRight, SlotTarget, ExitTarget
<1>7. \A u \in Threads : ctl'[u] = ctl[u] \/ (ctl[u] = "missed" /\ ctl'[u] = "found")
  BY <1>2, <1>3
<1>8. \A u \in Threads : chainAt[u] # None => chainAt[u][1] \in Tx
  BY <1>2 DEF Slots
<1>9. PendingChainInv'
  BY <1>3, <1>4, <1>7, <1>8 DEF PendingChainInv, SlotTarget, ExitTarget
<1> QED  BY <1>6, <1>9

\* Patching: the exit the thread came by is made to lead to the translation
\* of the address it leads to; no other thread has that exit pending.
LEMMA ChainPatch ==
    ASSUME Inv, PendingChainInv, PatchedExitInv, HostChains, ChainSafe,
           NEW t \in Threads, ChainAndRun(t)
    PROVE  PendingChainInv' /\ PatchedExitInv'
<1> DEFINE x == chainAt[t][1]
           s == chainAt[t][2]
           to == cur[t]
<1>1. /\ txPc \in [Tx -> PCs \cup {None}] /\ firstTo \in [Tx -> Tx \cup {None}]
      /\ trueTo \in [Tx -> Tx \cup {None}] /\ ctl \in [Threads -> Controls]
      /\ firstOp \in [Tx -> {"auipc", "branch", "jump"}]
      /\ chainAt \in [Threads -> Slots \cup {None}]
      /\ to \in Tx /\ to # None /\ txPc[to] = spc[t]
  BY StaticAssumption DEF Inv, TypeOK, StateTypes, ThreadTypes, CacheInv, ChainAndRun, Chains, At
<1>2. /\ ctl[t] = "found" /\ ctl' = [ctl EXCEPT ![t] = "exec"]
      /\ UNCHANGED <<spc, chainAt, txPc>>
  BY DEF ChainAndRun, Chains, At
<1>3. \A u \in Threads \ {t} : ctl'[u] = ctl[u]
  BY <1>1, <1>2
<1>4. ctl'[t] = "exec"
  BY <1>1, <1>2
<1>5. CASE chainAt[t] = None
  <2>1. UNCHANGED <<firstOp, firstTo, trueTo>>
    BY <1>5 DEF ChainAndRun, Chains
  <2> QED  BY <2>1, <1>2, <1>3, <1>4 DEF PendingChainInv, PatchedExitInv, ExitRight, SlotTarget, ExitTarget
<1>6. CASE chainAt[t] # None
  <2>1. chainAt[t] \in Slots
    BY <1>6, <1>1
  <2>2. chainAt[t] = <<x, s>> /\ x \in Tx /\ s \in {"first", "true"}
    BY <2>1 DEF Slots
  <2>3. /\ txPc[x] # None /\ Kind[txPc[x]] \in {"br", "csel"}
        /\ s = "true" => Kind[txPc[x]] = "csel"
        /\ s = "first" /\ Kind[txPc[x]] = "csel" => firstOp[x] = "auipc"
        /\ spc[t] = SlotTarget(<<x, s>>)
    <3> HIDE DEF to
    <3>1. LET z == chainAt[t][1] IN
             /\ txPc[z] # None
             /\ Kind[txPc[z]] \in {"br", "csel"}
             /\ chainAt[t][2] = "true" => Kind[txPc[z]] = "csel"
             /\ chainAt[t][2] = "first" /\ Kind[txPc[z]] = "csel" => firstOp[z] = "auipc"
             /\ spc[t] = SlotTarget(chainAt[t])
      BY <1>2, <1>6 DEF PendingChainInv
    <3> QED  BY <3>1, <2>2
  <2>4. ChainTo(<<x, s>>, to)
    BY <1>6, <2>2 DEF ChainAndRun, Chains
  <2> HIDE DEF x, s, to
  <2>5. CASE s = "first"
    <3>1. PatchFirst(x, to)
      BY <2>4, <2>5 DEF ChainTo
    <3>2. /\ firstOp'[x] = (IF Kind[txPc[x]] = "csel" THEN "branch" ELSE "jump")
          /\ firstTo'[x] = to
          /\ \A y \in Tx \ {x} : firstOp'[y] = firstOp[y] /\ firstTo'[y] = firstTo[y]
          /\ trueTo' = trueTo
      BY <3>1, <2>2, <2>3, <2>5, <1>1 DEF PatchFirst, FollowedByBranch
    <3>3. txPc[to] = SlotTarget(<<x, "first">>)
      BY <2>3, <2>5, <1>1
    <3>4. PatchedExitInv'
      <4> SUFFICES ASSUME NEW y \in Tx PROVE ExitRight(y)'
        BY DEF PatchedExitInv, ExitRight
      <4>1. CASE y = x
        BY <4>1, <3>2, <3>3, <2>2, <2>3, <1>1, <1>2
           DEF PatchedExitInv, ExitRight, SlotTarget, ExitTarget
      <4>2. CASE y # x
        BY <4>2, <3>2, <1>1, <1>2 DEF PatchedExitInv, ExitRight, SlotTarget, ExitTarget
      <4> QED  BY <4>1, <4>2
    <3>5. \A u \in Threads \ {t} : \A p \in PCs : Kind[p] # "csel"
      <4>1. Threads = {Main} \/ \A p \in PCs : Kind[p] # "csel"
        BY DEF ChainSafe
      <4> QED  BY <4>1
    <3>6. PendingChainInv'
      <4> SUFFICES ASSUME NEW u \in Threads \ {t},
                          ctl[u] \in {"top", "locked", "missed", "found"}, chainAt[u] # None,
                          chainAt[u][2] = "first" /\ Kind[txPc[chainAt[u][1]]] = "csel"
                   PROVE  FALSE
        BY <1>2, <1>3, <1>4 DEF PendingChainInv, SlotTarget, ExitTarget
      <4>1. chainAt[u][1] \in Tx
        BY <1>1 DEF Slots
      <4>2. txPc[chainAt[u][1]] \in PCs
        BY <4>1, <1>1 DEF PendingChainInv
      <4> QED  BY <4>2, <3>5
    <3> QED  BY <3>4, <3>6
  <2>6. CASE s = "true"
    <3>1. PatchTrue(x, to)
      BY <2>4, <2>6 DEF ChainTo
    <3>2. /\ trueTo'[x] = to
          /\ \A y \in Tx \ {x} : trueTo'[y] = trueTo[y]
          /\ firstOp' = firstOp /\ firstTo' = firstTo
      BY <3>1, <2>2, <1>1 DEF PatchTrue
    <3>3. txPc[to] = Taken[txPc[x]]
      BY <2>3, <2>6, <1>1 DEF SlotTarget, ExitTarget
    <3>4. PatchedExitInv'
      <4> SUFFICES ASSUME NEW y \in Tx PROVE ExitRight(y)'
        BY DEF PatchedExitInv, ExitRight
      <4>1. CASE y = x
        BY <4>1, <3>2, <3>3, <2>2, <2>3, <2>6, <1>1, <1>2
           DEF PatchedExitInv, ExitRight, SlotTarget, ExitTarget
      <4>2. CASE y # x
        BY <4>2, <3>2, <1>1, <1>2 DEF PatchedExitInv, ExitRight, SlotTarget, ExitTarget
      <4> QED  BY <4>1, <4>2
    <3>5. PendingChainInv'
      BY <3>2, <1>2, <1>3, <1>4 DEF PendingChainInv, SlotTarget, ExitTarget
    <3> QED  BY <3>4, <3>5
  <2> QED  BY <2>2, <2>5, <2>6
<1> QED  BY <1>5, <1>6

LEMMA ChainInit == Init => ChainInv
  BY DEF Init, ChainInv, PendingChainInv, PatchedExitInv, ExitRight, Unpatched

LEMMA ChainNext ==
    ASSUME ChainSafe, Inv, ChainInv, [Next]_vars PROVE ChainInv'
<1>1. CASE UNCHANGED vars
  BY <1>1 DEF vars, ChainInv, PendingChainInv, PatchedExitInv, ExitRight, Unpatched,
              SlotTarget, ExitTarget
<1>2. CASE Over
  BY <1>1, <1>2 DEF Over
<1>3. ASSUME NEW t \in Threads, ThreadStep(t), HostChains PROVE ChainInv'
  <2>1. PendingChainInv /\ PatchedExitInv
    BY <1>3 DEF ChainInv
  <2>2. CASE ExecJump(t)
    BY <2>1, <2>2, <1>3, ChainJump DEF ChainInv
  <2>3. CASE Translate(t)
    BY <2>1, <2>3, <1>3, ChainTranslate DEF ChainInv
  <2>4. CASE ChainAndRun(t)
    BY <2>1, <2>4, <1>3, ChainPatch DEF ChainInv
  <2>5. CASE ~(ExecJump(t) \/ Translate(t) \/ ChainAndRun(t))
    <3>1. Quiet /\ UNCHANGED code
      BY <2>1, <2>5, <1>3, QuietSteps DEF ThreadStep
    <3>2. PendingChainInv'
      BY <2>1, <3>1, QuietPending
    <3>3. PatchedExitInv'
      BY <2>1, <3>1 DEF PatchedExitInv, ExitRight, code, SlotTarget, ExitTarget
    <3> QED  BY <3>2, <3>3, <1>3 DEF ChainInv
  <2> QED  BY <2>2, <2>3, <2>4, <2>5
<1>4. ASSUME NEW t \in Threads, ThreadStep(t), ~HostChains PROVE ChainInv'
  <2>1. UNCHANGED <<firstOp, trueTo>>
    <3>1. CASE ChainAndRun(t)
      BY <3>1, <1>4 DEF ChainAndRun, Chains
    <3>2. CASE ~ChainAndRun(t)
      BY <3>2, <1>4 DEF ThreadStep, code, CallStaticFn, EnterInvoke, LookupHit, LookupMiss,
             Translate, TranslateFails, ChainFails, ExecJump, ExecIndirect, ExecCall, ExecReturn,
             ExecSyscall, StaticJump, StaticCall, StaticReturn, StaticPoison,
             Syscall, Clone, ExitThread, ExitProcess
    <3> QED  BY <3>1, <3>2
  <2> QED  BY <2>1, <1>4 DEF ChainInv, Unpatched
<1> QED  BY <1>1, <1>2, <1>3, <1>4 DEF Next

\* What the inductive invariant says of chained exits.
LEMMA ChainInvSound == ASSUME Inv, ChainInv PROVE ChainSound
<1> SUFFICES ASSUME NEW x \in Tx, txPc[x] # None,
                    Kind[txPc[x]] \in {"br", "csel"}, NEW c \in ExitConditions(x),
                    Chained(x, c) # None
             PROVE  txPc[Chained(x, c)] = ExitTarget(x, c)
  BY DEF ChainSound
<1>1. c \in BOOLEAN /\ (Kind[txPc[x]] = "br" => c = TRUE)
  BY DEF ExitConditions
<1>2. firstOp[x] \in {"auipc", "branch", "jump"}
  BY DEF Inv, TypeOK, StateTypes
<1>3. CASE HostChains
  <2> USE <1>1 DEF SlotTarget, ExitTarget
  <2>1. PatchedExitInv
    BY <1>3 DEF ChainInv
  <2>2. CASE firstOp[x] = "jump"
    <3>1. Kind[txPc[x]] = "br" /\ Chained(x, c) = firstTo[x]
      BY <2>1, <2>2 DEF PatchedExitInv, ExitRight, Chained
    <3>2. txPc[firstTo[x]] = SlotTarget(<<x, "first">>)
      BY <2>1, <2>2 DEF PatchedExitInv, ExitRight
    <3> QED  BY <3>1, <3>2
  <2>3. CASE firstOp[x] = "branch" /\ ~c
    <3>1. Kind[txPc[x]] = "csel" /\ Chained(x, c) = firstTo[x]
      BY <2>1, <2>3 DEF PatchedExitInv, ExitRight, Chained
    <3>2. txPc[firstTo[x]] = SlotTarget(<<x, "first">>)
      BY <2>1, <2>3 DEF PatchedExitInv, ExitRight
    <3> QED  BY <3>1, <3>2, <2>3
  <2>4. CASE firstOp[x] # "jump" /\ ~(firstOp[x] = "branch" /\ ~c)
    <3>1. Kind[txPc[x]] = "csel" /\ c /\ Chained(x, c) = trueTo[x]
      BY <2>4 DEF Chained
    <3> QED  BY <3>1, <2>1 DEF PatchedExitInv, ExitRight
  <2> QED  BY <2>2, <2>3, <2>4
<1>4. CASE ~HostChains
  <2>1. firstOp[x] = "auipc" /\ trueTo[x] = None
    BY <1>4 DEF ChainInv, Unpatched
  <2> QED  BY <2>1 DEF Chained
<1> QED  BY <1>3, <1>4, StaticAssumption

\* In a safe program a chained jump leads to the translation of the address
\* that the unchained exit would have stored, on either side of a conditional
\* exit: ChainSound for every such program, every arena and every host.
THEOREM ChainingCorrect == ASSUME ChainSafe PROVE Spec => []ChainSound
<1>1. Inv /\ ChainInv => ChainSound
  BY ChainInvSound
<1> QED  BY <1>1, InvInit, InvNext, ChainInit, ChainNext, PTL DEF Spec

\* Code is only ever added to: translations and patches stay.
LEMMA CodeGrows ==
    ASSUME Inv, [Next]_vars, NEW x \in Tx
    PROVE  /\ txPc[x] # None => txPc'[x] = txPc[x]
           /\ firstOp[x] # "auipc" => firstOp'[x] # "auipc"
           /\ trueTo[x] # None => trueTo'[x] # None
<1> USE DEF Inv, TypeOK, StateTypes
<1>1. CASE UNCHANGED code
  BY <1>1 DEF code
<1>2. ASSUME NEW t \in Threads, Translate(t)
      PROVE  txPc[x] # None => txPc'[x] = txPc[x]
  <2>1. txPc[FreshTx] = None /\ txPc' = [txPc EXCEPT ![FreshTx] = spc[t]]
    BY <1>2 DEF Translate, CanTranslate, FreshTx
  <2> QED  BY <2>1
<1>3. ASSUME NEW t \in Threads, Translate(t)
      PROVE  UNCHANGED <<firstOp, firstTo, trueTo>>
  BY <1>3 DEF Translate
<1>4. ASSUME NEW t \in Threads, ChainAndRun(t)
      PROVE  /\ UNCHANGED txPc
             /\ firstOp[x] # "auipc" => firstOp'[x] # "auipc"
             /\ trueTo[x] # None => trueTo'[x] # None
  <2>1. cur[t] # None
    BY <1>4, StaticAssumption DEF ThreadTypes, ChainAndRun, Chains, At
  <2>2. CASE UNCHANGED <<firstOp, firstTo, trueTo>>
    BY <1>4, <2>2 DEF ChainAndRun, Chains
  <2>3. CASE ChainTo(chainAt[t], cur[t])
    <3>1. CASE PatchFirst(chainAt[t][1], cur[t])
      BY <1>4, <3>1 DEF PatchFirst, ChainAndRun, Chains
    <3>2. CASE PatchTrue(chainAt[t][1], cur[t])
      BY <1>4, <2>1, <3>2 DEF PatchTrue, ChainAndRun, Chains
    <3> QED  BY <2>3, <3>1, <3>2 DEF ChainTo
  <2> QED  BY <1>4, <2>2, <2>3 DEF ChainAndRun, Chains
<1>5. ASSUME NEW t \in Threads, ThreadStep(t), ~Translate(t), ~ChainAndRun(t)
      PROVE  UNCHANGED code
  BY <1>5 DEF ThreadStep, CallStaticFn, EnterInvoke, LookupHit, LookupMiss,
         TranslateFails, ChainFails, ExecJump, ExecIndirect, ExecCall, ExecReturn,
         ExecSyscall, StaticJump, StaticCall, StaticReturn, StaticPoison,
         Syscall, Clone, ExitThread, ExitProcess
<1> QED  BY <1>1, <1>2, <1>3, <1>4, <1>5 DEF Next, Over, vars, code

\* In a safe program a patched exit keeps its destination: the translation of
\* an address is unique, so a second patch of an exit changes nothing.
THEOREM PatchesPermanent == ASSUME ChainSafe PROVE Spec => PatchesStable
<1>1. ASSUME Inv, ChainInv, [Next]_vars, Inv', ChainInv', ChainSound',
             NEW x \in Tx, txPc[x] # None, Kind[txPc[x]] \in {"br", "csel"},
             NEW c \in ExitConditions(x), Chained(x, c) # None
      PROVE  Chained(x, c)' = Chained(x, c)
  <2>1. c \in BOOLEAN /\ (Kind[txPc[x]] = "br" => c = TRUE)
    BY DEF ExitConditions
  <2>2. txPc'[x] = txPc[x]
    BY <1>1, CodeGrows
  <2>3. /\ firstOp[x] \in {"auipc", "branch", "jump"} /\ firstOp'[x] \in {"auipc", "branch", "jump"}
        /\ firstTo[x] \in Tx \cup {None} /\ firstTo'[x] \in Tx \cup {None}
        /\ trueTo[x] \in Tx \cup {None} /\ trueTo'[x] \in Tx \cup {None}
    BY <1>1 DEF Inv, TypeOK, StateTypes
  <2>4. HostChains /\ ExitRight(x) /\ ExitRight(x)'
    <3>1. HostChains
      BY <1>1 DEF ChainInv, Unpatched, Chained
    <3> QED  BY <3>1, <1>1 DEF ChainInv, PatchedExitInv
  <2>5. Chained(x, c) \in Tx /\ Chained(x, c)' \in Tx \cup {None}
    BY <1>1, <2>3 DEF Chained
  <2>6. Chained(x, c)' # None
    <3>1. CASE firstOp[x] # "auipc" /\ (Kind[txPc[x]] = "br" \/ ~c)
      <4>1. firstOp'[x] # "auipc"
        BY <1>1, <3>1, CodeGrows
      <4>2. /\ firstOp'[x] = (IF Kind[txPc[x]] = "csel" THEN "branch" ELSE "jump")
            /\ firstTo'[x] # None
        BY <4>1, <2>2, <2>4 DEF ExitRight
      <4>3. Chained(x, c)' = firstTo'[x]
        <5>1. CASE Kind[txPc[x]] = "br"
          <6>1. firstOp'[x] = "jump"
            BY <4>2, <5>1
          <6> QED  BY <6>1 DEF Chained
        <5>2. CASE Kind[txPc[x]] = "csel"
          <6>1. firstOp'[x] = "branch" /\ c = FALSE
            BY <4>2, <5>2, <3>1, <2>1
          <6> QED  BY <6>1 DEF Chained
        <5> QED  BY <5>1, <5>2, <1>1
      <4> QED  BY <4>2, <4>3
    <3>2. CASE ~(firstOp[x] # "auipc" /\ (Kind[txPc[x]] = "br" \/ ~c))
      <4>1. Kind[txPc[x]] = "csel" /\ c /\ Chained(x, c) = trueTo[x]
        BY <3>2, <2>1, <2>3, <2>4, <1>1 DEF Chained, ExitRight
      <4>2. trueTo'[x] # None
        BY <4>1, <1>1, CodeGrows
      <4>3. firstOp'[x] # "jump"
        BY <4>1, <2>2, <2>4 DEF ExitRight
      <4>4. Chained(x, c)' = trueTo'[x]
        BY <4>1, <4>3, <2>1, <2>2, <2>3 DEF Chained
      <4> QED  BY <4>2, <4>4
    <3> QED  BY <3>1, <3>2
  <2>7. txPc[Chained(x, c)] = ExitTarget(x, c)
    BY <1>1, ChainInvSound DEF ChainSound
  <2>8. txPc'[Chained(x, c)'] = ExitTarget(x, c)
    <3>1. c \in ExitConditions(x)' /\ ExitTarget(x, c)' = ExitTarget(x, c)
      BY <2>2 DEF ExitConditions, ExitTarget
    <3> QED  BY <1>1, <2>2, <2>6, <3>1 DEF ChainSound
  <2>9. ExitTarget(x, c) \in PCs
    BY <1>1, ProgramAssumption DEF ExitTarget, Inv, TypeOK, StateTypes
  <2>10. txPc'[Chained(x, c)] = ExitTarget(x, c)
    BY <2>5, <2>7, <2>9, <1>1, CodeGrows, ProgramAssumption
  <2> QED
    BY <2>5, <2>6, <2>8, <2>9, <2>10, <1>1, ProgramAssumption DEF Inv, CacheInv
<1>2. Inv /\ ChainInv => ChainSound
  BY ChainInvSound
<1>3. Inv /\ ChainInv /\ [Next]_vars /\ Inv' /\ ChainInv' /\ ChainSound' =>
        [\A x \in Tx : txPc[x] # None /\ Kind[txPc[x]] \in {"br", "csel"} =>
            \A c \in ExitConditions(x) :
                Chained(x, c) # None => Chained(x, c)' = Chained(x, c)]_vars
  BY <1>1
<1> QED  BY <1>2, <1>3, InvInit, InvNext, ChainInit, ChainNext, PTL DEF Spec, PatchesStable

-----------------------------------------------------------------------------
(* The guest machine *)

\* Where a thread is, by what its host thread does.
LEMMA GuestPcIs ==
    ASSUME NEW t
    PROVE  /\ ctl[t] \in {"exec", "sys"} => GuestPc(t) = txPc[cur[t]]
           /\ ctl[t] = "static" => GuestPc(t) = Top(frames[t]).at
           /\ ctl[t] = "off" => GuestPc(t) = None
           /\ ctl[t] \notin {"exec", "sys", "static", "off"} => GuestPc(t) = spc[t]
           /\ ctl'[t] \in {"exec", "sys"} => GuestPc(t)' = txPc'[cur'[t]]
           /\ ctl'[t] = "static" => GuestPc(t)' = Top(frames'[t]).at
           /\ ctl'[t] = "off" => GuestPc(t)' = None
           /\ ctl'[t] \notin {"exec", "sys", "static", "off"} => GuestPc(t)' = spc'[t]
  BY Zenon DEF GuestPc, Top

\* A step leaves the registers of the threads that do not take it alone, and
\* the blocks they are in keep their translations.
LEMMA OthersKeepBlocks ==
    ASSUME Inv, NEW t \in Threads, ThreadStep(t), ~ \E c \in Threads : Clone(t, c),
           NEW u \in Threads \ {t}
    PROVE  GuestPc(u)' = GuestPc(u) /\ gstack'[u] = gstack[u]
<1>1. frames'[u] = frames[u] /\ gstack'[u] = gstack[u] /\ ctl'[u] = ctl[u]
  BY OthersKeepStacks DEF Inv
<1>2. spc'[u] = spc[u] /\ cur'[u] = cur[u]
  <2> USE DEF Inv, TypeOK, StateTypes
  <2>1. CASE CallStaticFn(t) \/ EnterInvoke(t) \/ LookupHit(t) \/ LookupMiss(t)
               \/ Translate(t) \/ TranslateFails(t) \/ ChainFails(t) \/ ChainAndRun(t)
    BY <2>1 DEF CallStaticFn, EnterInvoke, LookupHit, LookupMiss, Translate,
                TranslateFails, ChainFails, ChainAndRun
  <2>2. CASE ExecJump(t) \/ ExecIndirect(t) \/ ExecCall(t) \/ ExecSyscall(t)
    BY <2>2 DEF ExecJump, ExecIndirect, ExecCall, ExecSyscall
  <2>3. CASE ExecReturn(t) \/ StaticReturn(t)
    BY <2>3 DEF ExecReturn, StaticReturn, HostReturn
  <2>4. CASE StaticJump(t) \/ StaticCall(t) \/ StaticPoison(t) \/ ExitThread(t) \/ ExitProcess(t)
    BY <2>4 DEF StaticJump, StaticCall, StaticPoison, ExitThread, ExitProcess
  <2>5. CASE Syscall(t)
    BY <2>5 DEF Syscall
  <2> QED  BY <2>1, <2>2, <2>3, <2>4, <2>5 DEF ThreadStep
<1>3. ctl[u] \in {"exec", "sys"} => txPc'[cur[u]] = txPc[cur[u]]
  <2> SUFFICES ASSUME ctl[u] \in {"exec", "sys"} PROVE txPc'[cur[u]] = txPc[cur[u]]
    OBVIOUS
  <2>1. cur[u] \in Tx /\ txPc[cur[u]] # None
    BY ProgramAssumption DEF Inv, TypeOK, ThreadTypes
  <2> QED  BY <2>1, CodeGrows DEF Next
<1> QED  BY <1>1, <1>2, <1>3 DEF GuestPc

\* A running thread is in a block of the program.
LEMMA GuestPcFacts ==
    ASSUME TypeOK, NEW t \in Threads
    PROVE  /\ ctl[t] # "off" => GuestPc(t) \in PCs
           /\ GuestPc(t) = None <=> ctl[t] = "off"
<1>1. ASSUME ctl[t] # "off" PROVE GuestPc(t) \in PCs
  <2>1. CASE ctl[t] = "static"
    <3>1. Top(frames[t]) \in Frames /\ Top(frames[t]) # LoopFrame
      BY <1>1, <2>1, PopFacts DEF TypeOK, StateTypes, ThreadTypes
    <3> QED  BY <2>1, <3>1, FrameFacts DEF GuestPc
  <2>2. CASE ctl[t] \in {"exec", "sys"}
    BY <2>2 DEF GuestPc, TypeOK, ThreadTypes
  <2>3. CASE ctl[t] \notin {"exec", "sys", "static"}
    BY <1>1, <2>3 DEF GuestPc, TypeOK, StateTypes
  <2> QED  BY <2>1, <2>2, <2>3
<1>2. ctl[t] = "off" => GuestPc(t) = None
  BY DEF GuestPc
<1> QED  BY <1>1, <1>2, ProgramAssumption

\* One thread goes to block p, or ends, and no other moves.
LEMMA GotoFacts ==
    ASSUME NEW t \in Threads, NEW p, GuestPc(t)' = p,
           \A u \in Threads \ {t} : GuestPc(u)' = GuestPc(u)
    PROVE  Guest!Goto(t, p)
<1>1. guestPcs' = [u \in Threads |-> GuestPc(u)']
  BY DEF guestPcs
<1>2. [guestPcs EXCEPT ![t] = p] = [u \in Threads |-> GuestPc(u)']
  BY DEF guestPcs
<1> QED  BY <1>1, <1>2 DEF Guest!Goto

\* A thread that takes a step is running, as far as the guest can tell.
LEMMA Runs ==
    ASSUME TypeOK, NEW t \in Threads, proc = "running", ctl[t] # "off"
    PROVE  Guest!Running(t) /\ guestPcs[t] = GuestPc(t) /\ GuestPc(t) \in PCs
<1>1. GuestPc(t) \in PCs /\ guestPcs[t] = GuestPc(t)
  BY GuestPcFacts DEF guestPcs
<1> QED  BY <1>1, ProgramAssumption DEF Guest!Running

\* The steps of the dispatcher are none of the guest's, but for the exceptions.
LEMMA InvokeRefined ==
    ASSUME Inv, NEW t \in Threads, ThreadStep(t), ~ \E c \in Threads : Clone(t, c),
           CallStaticFn(t) \/ EnterInvoke(t) \/ LookupHit(t) \/ LookupMiss(t)
             \/ Translate(t) \/ TranslateFails(t) \/ ChainFails(t) \/ ChainAndRun(t)
    PROVE  [Guest!Next]_(Guest!vars)
<1>1. \A u \in Threads \ {t} : GuestPc(u)' = GuestPc(u)
  BY OthersKeepBlocks
<1>2. gstack' = gstack
  BY DEF CallStaticFn, EnterInvoke, LookupHit, LookupMiss, Translate, TranslateFails,
         ChainFails, ChainAndRun
<1>3. GuestPc(t)' = GuestPc(t)
  <2> USE DEF Inv, TypeOK, StateTypes, At
  <2>1. CASE CallStaticFn(t)
    <3>1. StaticFrame(spc[t], spc[t]) \in Frames
      BY <2>1, FrameFacts DEF CallStaticFn
    <3>2. frames[t] \in Seq(Frames) /\ frames[t] # <<>>
      BY <2>1 DEF CallStaticFn, ThreadTypes
    <3>3. Top(SetTop(frames[t], StaticFrame(spc[t], spc[t]))) = StaticFrame(spc[t], spc[t])
      BY <3>1, <3>2, SetTopFacts
    <3>4. frames'[t] = SetTop(frames[t], StaticFrame(spc[t], spc[t])) /\ ctl'[t] = "static" /\ ctl[t] = "top"
      BY <2>1 DEF CallStaticFn
    <3> QED  BY <3>3, <3>4 DEF GuestPc, StaticFrame
  <2>2. CASE EnterInvoke(t) \/ LookupHit(t) \/ LookupMiss(t) \/ Translate(t)
    BY <2>2 DEF EnterInvoke, LookupHit, LookupMiss, Translate, GuestPc
  <2>3. CASE TranslateFails(t) \/ ChainFails(t)
    BY <2>3 DEF TranslateFails, ChainFails, GuestPc, code
  <2>4. CASE ChainAndRun(t)
    <3>1. ctl[t] = "found" /\ ctl'[t] = "exec" /\ cur' = cur /\ txPc' = txPc
      BY <2>4 DEF ChainAndRun
    <3>2. txPc[cur[t]] = spc[t]
      BY <3>1 DEF CacheInv
    <3> QED  BY <3>1, <3>2 DEF GuestPc
  <2> QED  BY <2>1, <2>2, <2>3, <2>4
<1>4. guestPcs' = guestPcs
  BY <1>1, <1>3 DEF guestPcs
<1>5. CASE TranslateFails(t) \/ ChainFails(t)
  <2>1. proc = "running" /\ ctl[t] # "off" /\ proc' = "aborted"
    BY <1>5 DEF TranslateFails, ChainFails, At
  <2>2. Guest!Running(t)
    BY <2>1, Runs DEF Inv
  <2>3. Guest!Fault(t)
    BY <1>2, <1>4, <2>1, <2>2 DEF Guest!Fault
  <2> QED  BY <2>3 DEF Guest!Next
<1>6. CASE ~(TranslateFails(t) \/ ChainFails(t))
  <2>1. proc' = proc
    BY <1>6 DEF CallStaticFn, EnterInvoke, LookupHit, LookupMiss, Translate, ChainAndRun, host
  <2> QED  BY <1>2, <1>4, <2>1 DEF Guest!vars
<1> QED  BY <1>5, <1>6

\* A return: the guest goes to the address it pushed, or the thread is over.
LEMMA ReturnRefined ==
    ASSUME Inv, StackCorrespondence, NEW t \in Threads, proc = "running", ctl[t] # "off",
           Kind[GuestPc(t)] = "ret", HostReturn(t),
           \A u \in Threads \ {t} : GuestPc(u)' = GuestPc(u)
    PROVE  Guest!Next
<1> DEFINE fs == frames[t]
           gs == gstack[t]
           below == Pop(fs)
<1>1. /\ fs \in Seq(Frames) /\ fs # <<>> /\ gs \in Seq(PCs)
      /\ Mirrors(fs, gs)
  BY DEF Inv, TypeOK, StateTypes, ThreadTypes, StackCorrespondence
<1>2. Guest!Running(t) /\ guestPcs[t] = GuestPc(t)
  BY Runs DEF Inv
<1>3. /\ gstack' = [gstack EXCEPT ![t] = IF gs = <<>> THEN gs ELSE Pop(gs)]
      /\ frames'[t] = Resumed(below)
      /\ ctl'[t] = ResumedCtl(below)
      /\ proc' = IF Len(fs) = 1 /\ t = Main THEN "exited" ELSE proc
  BY DEF HostReturn, Inv, TypeOK, StateTypes
<1>4. gs # <<>> => spc'[t] = Top(gs)
  BY DEF HostReturn, Inv, TypeOK, StateTypes
<1>5. /\ Len(fs) \in Nat \ {0} /\ below \in Seq(Frames) /\ Len(below) = Len(fs) - 1
      /\ \A i \in 1 .. Len(fs) - 1 : below[i] = fs[i]
      /\ below = <<>> <=> Len(fs) = 1
  BY <1>1, PopFacts
<1>6. Len(fs) = Len(gs) + 1 /\ \A i \in 1 .. Len(gs) : fs[i] # LoopFrame => gs[i] = NextPc[fs[i].at]
  BY <1>1 DEF Mirrors
<1> HIDE DEF fs, gs, below
<1>7. gs = <<>> <=> Len(gs) = 0
  BY <1>1, EmptySeq
<1>8. CASE gs = <<>>
  <2>1. below = <<>> /\ Len(fs) = 1
    BY <1>5, <1>6, <1>7, <1>8
  <2>2. ctl'[t] = "off"
    BY <1>3, <2>1, Zenon DEF ResumedCtl
  <2>3. GuestPc(t)' = None
    BY <2>2, GuestPcIs
  <2>4. Guest!Goto(t, None)
    BY <2>3, GotoFacts
  <2>5. gstack' = gstack
    BY <1>3, <1>8 DEF gs, Inv, TypeOK, StateTypes
  <2>6. Guest!Finish(t)
    BY <1>2, <1>3, <1>8, <2>1, <2>4, <2>5 DEF Guest!Finish, gs
  <2> QED  BY <2>6 DEF Guest!Next
<1>9. CASE gs # <<>>
  <2>1. Len(gs) \in Nat \ {0} /\ below # <<>> /\ Len(below) = Len(gs)
    BY <1>1, <1>5, <1>6, <1>7, <1>9
  <2>2. Top(below) = fs[Len(gs)] /\ Top(below) \in Frames
    BY <1>5, <1>6, <2>1, PopFacts DEF Top
  <2>3. GuestPc(t)' = Top(gs)
    <3>1. CASE Top(below) = LoopFrame
      <4>1. ctl'[t] = "top"
        BY <1>3, <2>1, <3>1, Zenon DEF ResumedCtl
      <4> QED  BY <1>4, <1>9, <4>1, GuestPcIs
    <3>2. CASE Top(below) # LoopFrame
      <4> DEFINE g == StaticFrame(Top(below).fn, NextPc[Top(below).at])
      <4>1. ctl'[t] = "static" /\ frames'[t] = SetTop(below, g)
        BY <1>3, <2>1, <3>2, Zenon DEF ResumedCtl, Resumed
      <4>2. Top(below).fn \in StaticFns /\ NextPc[Top(below).at] \in PCs
        BY <2>2, <3>2, FrameFacts, TargetFacts
      <4>3. g \in Frames /\ g.at = NextPc[Top(below).at]
        BY <4>2, FrameFacts DEF StaticFrame
      <4>4. gs[Len(gs)] = NextPc[Top(below).at]
        BY <1>6, <2>1, <2>2, <3>2
      <4> HIDE DEF g
      <4>5. Top(SetTop(below, g)) = g
        BY <1>5, <2>1, <4>3, SetTopFacts
      <4>6. GuestPc(t)' = g.at
        BY <4>1, <4>5, GuestPcIs
      <4> QED  BY <4>3, <4>4, <4>6 DEF Top
    <3> QED  BY <3>1, <3>2
  <2>4. Guest!Goto(t, gs[Len(gs)])
    BY <2>3, GotoFacts DEF Top
  <2>5. proc' = proc
    BY <1>3, <1>6, <2>1
  <2>6. Guest!Return(t)
    BY <1>2, <1>3, <1>9, <2>4, <2>5 DEF Guest!Return, gs, Pop
  <2> QED  BY <2>6 DEF Guest!Next
<1> QED  BY <1>8, <1>9

\* What translated code does, by chained jumps, exits to MainLoop and return codes.
LEMMA ExecRefined ==
    ASSUME Inv, StackCorrespondence, ChainSound, NEW t \in Threads, ThreadStep(t),
           ~ \E c \in Threads : Clone(t, c),
           ExecJump(t) \/ ExecIndirect(t) \/ ExecCall(t) \/ ExecReturn(t) \/ ExecSyscall(t)
    PROVE  [Guest!Next]_(Guest!vars)
<1> DEFINE x == cur[t]
           b == txPc[x]
<1>1. \A u \in Threads \ {t} : GuestPc(u)' = GuestPc(u)
  BY OthersKeepBlocks
<1>2. /\ proc = "running" /\ ctl[t] = "exec" /\ x \in Tx /\ b \in PCs /\ b # None
      /\ spc \in [Threads -> PCs] /\ ctl \in [Threads -> Controls]
      /\ cur \in [Threads -> Tx \cup {None}]
  BY ProgramAssumption DEF ExecJump, ExecIndirect, ExecCall, ExecReturn, ExecSyscall, At,
        Inv, TypeOK, StateTypes, ThreadTypes
<1>3. GuestPc(t) = b
  BY <1>2, GuestPcIs
<1>4. Guest!Running(t) /\ guestPcs[t] = b
  BY <1>2, <1>3, Runs DEF Inv
<1>5. CASE ExecJump(t)
  <2>0. Kind[b] \in {"br", "csel"} /\ UNCHANGED <<gstack, frames, txPc, proc>>
    BY <1>5 DEF ExecJump, code, host
  <2>1. PICK c \in ExitConditions(x) :
             IF Chained(x, c) # None
               THEN /\ cur' = [cur EXCEPT ![t] = Chained(x, c)]
                    /\ UNCHANGED <<spc, chainAt, ctl>>
               ELSE /\ spc' = [spc EXCEPT ![t] = ExitTarget(x, c)]
                    /\ ctl' = [ctl EXCEPT ![t] = "top"]
    BY <1>5 DEF ExecJump
  <2>2. c \in BOOLEAN /\ (Kind[b] = "br" => c = TRUE)
    BY DEF ExitConditions
  <2>3. ExitTarget(x, c) \in JumpTargets(b)
    BY <2>0, <2>2 DEF ExitTarget, JumpTargets
  <2>4. GuestPc(t)' = ExitTarget(x, c)
    <3>1. CASE Chained(x, c) # None
      <4>1. cur'[t] = Chained(x, c) /\ ctl'[t] = "exec"
        BY <1>2, <2>1, <3>1
      <4>2. txPc[Chained(x, c)] = ExitTarget(x, c)
        BY <1>2, <2>0, <3>1 DEF ChainSound
      <4> QED  BY <2>0, <4>1, <4>2, GuestPcIs
    <3>2. CASE Chained(x, c) = None
      <4>1. spc'[t] = ExitTarget(x, c) /\ ctl'[t] = "top"
        BY <1>2, <2>1, <3>2
      <4> QED  BY <4>1, GuestPcIs
    <3> QED  BY <3>1, <3>2
  <2>5. Guest!Goto(t, ExitTarget(x, c))
    BY <1>1, <2>4, GotoFacts
  <2>6. ExitTarget(x, c) \in Guest!JumpTargets(b) /\ Guest!IsJump(b)
    BY <2>0, <2>3 DEF Guest!JumpTargets, JumpTargets, Guest!IsJump
  <2>7. Guest!Jump(t)
    BY <1>4, <2>0, <2>5, <2>6 DEF Guest!Jump
  <2> QED  BY <2>7 DEF Guest!Next
<1>6. CASE ExecIndirect(t)
  <2>0. Kind[b] = "ijmp" /\ UNCHANGED <<gstack, proc>> /\ ctl'[t] = "top"
    BY <1>2, <1>6 DEF ExecIndirect, host
  <2>1. PICK p \in Dyn[b] : spc' = [spc EXCEPT ![t] = p]
    BY <1>6 DEF ExecIndirect
  <2>2. GuestPc(t)' = p
    BY <1>2, <2>0, <2>1, GuestPcIs
  <2>3. Guest!Goto(t, p)
    BY <1>1, <2>2, GotoFacts
  <2>4. p \in Guest!JumpTargets(b) /\ Guest!IsJump(b)
    BY <2>0, <2>1 DEF Guest!JumpTargets, Guest!IsJump
  <2>5. Guest!Jump(t)
    BY <1>4, <2>0, <2>3, <2>4 DEF Guest!Jump
  <2> QED  BY <2>5 DEF Guest!Next
<1>7. CASE ExecCall(t)
  <2>0. /\ IsCall(b) /\ Len(gstack[t]) < MaxDepth
        /\ gstack' = [gstack EXCEPT ![t] = Append(@, NextPc[b])]
        /\ proc' = proc /\ ctl'[t] = "top"
    BY <1>2, <1>7 DEF ExecCall, host
  <2>1. PICK p \in CallTargets(b) : spc' = [spc EXCEPT ![t] = p]
    BY <1>7 DEF ExecCall
  <2>2. GuestPc(t)' = p
    BY <1>2, <2>0, <2>1, GuestPcIs
  <2>3. Guest!Goto(t, p)
    BY <1>1, <2>2, GotoFacts
  <2>4. p \in Guest!CallTargets(b) /\ Guest!IsCall(b)
    BY <2>0, <2>1 DEF Guest!CallTargets, CallTargets, Guest!IsCall, IsCall
  <2>5. Guest!Call(t)
    BY <1>4, <2>0, <2>3, <2>4 DEF Guest!Call
  <2> QED  BY <2>5 DEF Guest!Next
<1>8. CASE ExecReturn(t)
  <2>1. Kind[GuestPc(t)] = "ret" /\ HostReturn(t)
    BY <1>3, <1>8 DEF ExecReturn
  <2> QED  BY <1>1, <1>2, <2>1, ReturnRefined
<1>9. CASE ExecSyscall(t)
  <2>1. /\ ctl'[t] = "sys" /\ cur' = cur /\ txPc' = txPc
        /\ UNCHANGED <<gstack, proc>>
    BY <1>2, <1>9 DEF ExecSyscall, code, host
  <2>2. GuestPc(t)' = GuestPc(t)
    BY <1>3, <2>1, GuestPcIs
  <2>3. guestPcs' = guestPcs
    BY <1>1, <2>2 DEF guestPcs
  <2> QED  BY <2>1, <2>3 DEF Guest!vars
<1> QED  BY <1>5, <1>6, <1>7, <1>8, <1>9

\* What static functions do, among themselves and through MainLoop.
LEMMA StaticRefined ==
    ASSUME Inv, StackCorrespondence, NEW t \in Threads, ThreadStep(t),
           ~ \E c \in Threads : Clone(t, c),
           StaticJump(t) \/ StaticCall(t) \/ StaticReturn(t) \/ StaticPoison(t)
    PROVE  [Guest!Next]_(Guest!vars)
<1> DEFINE fr == Top(frames[t])
           b == fr.at
<1>1. \A u \in Threads \ {t} : GuestPc(u)' = GuestPc(u)
  BY OthersKeepBlocks
<1>2. /\ proc = "running" /\ ctl[t] = "static"
      /\ frames[t] \in Seq(Frames) /\ frames[t] # <<>> /\ fr # LoopFrame
      /\ spc \in [Threads -> PCs] /\ ctl \in [Threads -> Controls]
      /\ frames \in [Threads -> Seq(Frames)]
  BY DEF StaticJump, StaticCall, StaticReturn, StaticPoison, InStatic, At,
        Inv, TypeOK, StateTypes, ThreadTypes
<1>3. fr.fn \in StaticFns /\ b \in PCs
  BY <1>2, PopFacts, FrameFacts
<1>4. GuestPc(t) = b
  BY <1>2, GuestPcIs
<1>5. Guest!Running(t) /\ guestPcs[t] = b
  BY <1>2, <1>4, Runs DEF Inv
<1>6. JumpTargets(b) \subseteq PCs /\ CallTargets(b) \subseteq PCs
  BY <1>3, TargetFacts
<1>7. CASE StaticJump(t)
  <2>0. Kind[b] \in {"br", "csel", "ijmp"} /\ UNCHANGED <<gstack, proc>>
    BY <1>7 DEF StaticJump, InStatic, host
  <2>1. PICK p \in JumpTargets(b) :
         IF p \in Chunk[fr.fn]
           THEN /\ frames' = [frames EXCEPT ![t] = SetTop(@, StaticFrame(Top(@).fn, p))]
                /\ UNCHANGED <<spc, ctl>>
           ELSE /\ spc' = [spc EXCEPT ![t] = p]
                /\ ctl' = [ctl EXCEPT ![t] = "top"]
    BY <1>7 DEF StaticJump
  <2>2. GuestPc(t)' = p
    <3>1. CASE p \in Chunk[fr.fn]
      <4> DEFINE g == StaticFrame(fr.fn, p)
      <4>1. g \in Frames /\ g.at = p
        BY <1>3, <1>6, <2>1, FrameFacts DEF StaticFrame
      <4>2. frames'[t] = SetTop(frames[t], g) /\ ctl'[t] = "static"
        BY <1>2, <2>1, <3>1
      <4> HIDE DEF g
      <4>3. Top(SetTop(frames[t], g)) = g
        BY <1>2, <4>1, SetTopFacts
      <4> QED  BY <4>1, <4>2, <4>3, GuestPcIs
    <3>2. CASE p \notin Chunk[fr.fn]
      <4>1. spc'[t] = p /\ ctl'[t] = "top"
        BY <1>2, <2>1, <3>2
      <4> QED  BY <4>1, GuestPcIs
    <3> QED  BY <3>1, <3>2
  <2>3. Guest!Goto(t, p)
    BY <1>1, <2>2, GotoFacts
  <2>4. p \in Guest!JumpTargets(b) /\ Guest!IsJump(b)
    BY <2>0, <2>1 DEF Guest!JumpTargets, JumpTargets, Guest!IsJump
  <2>5. Guest!Jump(t)
    BY <1>5, <2>0, <2>3, <2>4 DEF Guest!Jump
  <2> QED  BY <2>5 DEF Guest!Next
<1>8. CASE StaticCall(t)
  <2>0. /\ Kind[b] \in {"call", "icall"} /\ Len(gstack[t]) < MaxDepth
        /\ gstack' = [gstack EXCEPT ![t] = Append(@, NextPc[b])]
        /\ proc' = proc
    BY <1>8 DEF StaticCall, InStatic, host
  <2>1. PICK p \in CallTargets(b) :
         /\ spc' = [spc EXCEPT ![t] = p]
         /\ IF IsDirect(b, p)
              THEN /\ frames' = [frames EXCEPT ![t] = Append(@, StaticFrame(p, p))]
                   /\ UNCHANGED ctl
              ELSE ctl' = [ctl EXCEPT ![t] = "top"]
    BY <1>8 DEF StaticCall
  <2>2. GuestPc(t)' = p
    <3>1. CASE IsDirect(b, p)
      <4> DEFINE g == StaticFrame(p, p)
      <4>1. g \in Frames /\ g.at = p
        BY <1>6, <2>1, <3>1, FrameFacts DEF StaticFrame, IsDirect
      <4>2. frames'[t] = Append(frames[t], g) /\ ctl'[t] = "static"
        BY <1>2, <2>1, <3>1
      <4> HIDE DEF g
      <4>3. Top(Append(frames[t], g)) = g
        BY <1>2, <4>1, AppendFacts
      <4>4. GuestPc(t)' = Top(frames'[t]).at
        BY <4>2, GuestPcIs
      <4> QED  BY <4>1, <4>2, <4>3, <4>4
    <3>2. CASE ~IsDirect(b, p)
      <4>1. spc'[t] = p /\ ctl'[t] = "top"
        BY <1>2, <2>1, <3>2
      <4> QED  BY <4>1, GuestPcIs
    <3> QED  BY <3>1, <3>2
  <2>3. Guest!Goto(t, p)
    BY <1>1, <2>2, GotoFacts
  <2>4. p \in Guest!CallTargets(b) /\ Guest!IsCall(b)
    BY <2>0, <2>1 DEF Guest!CallTargets, CallTargets, Guest!IsCall
  <2>5. Guest!Call(t)
    BY <1>5, <2>0, <2>3, <2>4 DEF Guest!Call
  <2> QED  BY <2>5 DEF Guest!Next
<1>9. CASE StaticReturn(t)
  <2>1. Kind[GuestPc(t)] = "ret" /\ HostReturn(t)
    BY <1>4, <1>9 DEF StaticReturn, InStatic
  <2> QED  BY <1>1, <1>2, <2>1, ReturnRefined
<1>10. CASE StaticPoison(t)
  <2>1. proc' = "aborted" /\ UNCHANGED <<spc, gstack, frames, ctl, cur, code>>
    BY <1>10 DEF StaticPoison
  <2>2. guestPcs' = guestPcs
    BY <1>1, <1>2, <1>4, <2>1, GuestPcIs DEF guestPcs
  <2>3. Guest!Fault(t)
    BY <1>5, <2>1, <2>2 DEF Guest!Fault
  <2> QED  BY <2>3 DEF Guest!Next
<1> QED  BY <1>7, <1>8, <1>9, <1>10

\* Where an internal call leaves the thread that made it: after the call.
LEMMA CallContinues ==
    ASSUME Inv, SyscallPcInv, NEW t \in Threads, ctl[t] \in {"sys", "static"}
    PROVE  /\ SavedPc(t) = NextPc[GuestPc(t)]
           /\ ctl[t] = "static" =>
                Top(SetTop(frames[t],
                           StaticFrame(Top(frames[t]).fn, NextPc[Top(frames[t]).at]))).at
                  = NextPc[GuestPc(t)]
<1>1. CASE ctl[t] = "sys"
  <2>1. GuestPc(t) = txPc[cur[t]] /\ SavedPc(t) = spc[t]
    BY <1>1, GuestPcIs DEF SavedPc
  <2> QED  BY <1>1, <2>1 DEF SyscallPcInv
<1>2. CASE ctl[t] = "static"
  <2>1. GuestPc(t) = Top(frames[t]).at /\ SavedPc(t) = NextPc[Top(frames[t]).at]
    BY <1>2, GuestPcIs DEF SavedPc
  <2> DEFINE g == StaticFrame(Top(frames[t]).fn, NextPc[Top(frames[t]).at])
  <2>2. Top(SetTop(frames[t], g)) = g
    BY <1>2, InternalCallFacts DEF Inv
  <2>3. g.at = NextPc[Top(frames[t]).at]
    BY DEF StaticFrame
  <2> QED  BY <1>2, <2>1, <2>2, <2>3
<1> QED  BY <1>1, <1>2

\* Internal calls, but for clone.
LEMMA InternalRefined ==
    ASSUME Inv, SyscallPcInv, NEW t \in Threads, ThreadStep(t),
           ~ \E c \in Threads : Clone(t, c),
           Syscall(t) \/ ExitThread(t) \/ ExitProcess(t)
    PROVE  [Guest!Next]_(Guest!vars)
<1> DEFINE b == GuestPc(t)
<1>1. \A u \in Threads \ {t} : GuestPc(u)' = GuestPc(u)
  BY OthersKeepBlocks
<1>2. /\ proc = "running" /\ ctl[t] \in {"sys", "static"}
      /\ spc \in [Threads -> PCs] /\ ctl \in [Threads -> Controls]
      /\ frames \in [Threads -> Seq(Frames)]
  BY DEF Syscall, ExitThread, ExitProcess, InternalCall, At, Inv, TypeOK, StateTypes
<1>3. Guest!Running(t) /\ guestPcs[t] = b
  BY <1>2, Runs DEF Inv
<1>4. CASE Syscall(t)
  <2> DEFINE g == StaticFrame(Top(frames[t]).fn, NextPc[Top(frames[t]).at])
  <2>1. /\ spc'[t] = SavedPc(t) /\ UNCHANGED <<gstack, proc>> /\ Kind[b] = "sys"
        /\ ctl[t] = "sys" => ctl'[t] = "top"
        /\ ctl[t] = "static" => ctl'[t] = "static" /\ frames'[t] = SetTop(frames[t], g)
    BY <1>2, <1>4 DEF Syscall, InternalCall, Continue, host
  <2>2. /\ SavedPc(t) = NextPc[b]
        /\ ctl[t] = "static" => Top(SetTop(frames[t], g)).at = NextPc[b]
    BY <1>2, CallContinues
  <2> HIDE DEF g
  <2>3. GuestPc(t)' = NextPc[b]
    BY <1>2, <2>1, <2>2, GuestPcIs
  <2>4. Guest!Goto(t, NextPc[b])
    BY <1>1, <2>3, GotoFacts
  <2>5. Guest!Syscall(t)
    BY <1>3, <2>1, <2>4 DEF Guest!Syscall
  <2> QED  BY <2>5 DEF Guest!Next
<1>5. CASE ExitThread(t)
  <2>1. /\ ctl'[t] = "off" /\ gstack' = [gstack EXCEPT ![t] = <<>>] /\ proc' = proc
        /\ Kind[b] = "exit"
    BY <1>2, <1>5 DEF ExitThread, InternalCall, host
  <2>2. GuestPc(t)' = None
    BY <2>1, GuestPcIs
  <2>3. Guest!Goto(t, None)
    BY <1>1, <2>2, GotoFacts
  <2>4. Guest!ExitThread(t)
    BY <1>3, <2>1, <2>3 DEF Guest!ExitThread
  <2> QED  BY <2>4 DEF Guest!Next
<1>6. CASE ExitProcess(t)
  <2>1. /\ UNCHANGED <<spc, gstack, frames, ctl, cur, txPc>> /\ proc' = "exited"
        /\ Kind[b] \in {"exitgroup", "unsup"}
    BY <1>6 DEF ExitProcess, InternalCall, code
  <2>2. guestPcs' = guestPcs
    BY <1>1, <1>2, <2>1, GuestPcIs DEF guestPcs
  <2>3. Guest!ExitProcess(t)
    BY <1>3, <2>1, <2>2 DEF Guest!ExitProcess
  <2> QED  BY <2>3 DEF Guest!Next
<1> QED  BY <1>4, <1>5, <1>6

\* Parent and child go on after the call, the child with a stack of its own.
LEMMA CloneRefined ==
    ASSUME Inv, SyscallPcInv, NEW t \in Threads, NEW c \in Threads, Clone(t, c)
    PROVE  Guest!Next
<1> DEFINE b == GuestPc(t)
           g == StaticFrame(Top(frames[t]).fn, NextPc[Top(frames[t]).at])
<1>1. /\ proc = "running" /\ ctl[t] \in {"sys", "static"} /\ ctl[c] = "off" /\ c # t
      /\ Kind[b] = "clone"
      /\ gstack' = [gstack EXCEPT ![c] = <<>>] /\ UNCHANGED <<proc, cur, txPc>>
      /\ spc' = [spc EXCEPT ![t] = SavedPc(t), ![c] = SavedPc(t)]
      /\ Continue(t, [frames EXCEPT ![c] = <<LoopFrame>>], [ctl EXCEPT ![c] = "top"])
  BY DEF Clone, InternalCall, At, code, host
<1>2. /\ spc \in [Threads -> PCs] /\ ctl \in [Threads -> Controls]
      /\ frames \in [Threads -> Seq(Frames)]
  BY DEF Inv, TypeOK, StateTypes
<1>3. Guest!Running(t) /\ guestPcs[t] = b /\ guestPcs[c] = None
  <2>1. Guest!Running(t) /\ guestPcs[t] = b
    BY <1>1, Runs DEF Inv
  <2>2. GuestPc(c) = None
    BY <1>1, GuestPcIs
  <2> QED  BY <2>1, <2>2 DEF guestPcs
<1>4. /\ SavedPc(t) = NextPc[b]
      /\ ctl[t] = "static" => Top(SetTop(frames[t], g)).at = NextPc[b]
  BY <1>1, CallContinues
<1>5. /\ ctl[t] = "sys" => ctl'[t] = "top"
      /\ ctl[t] = "static" => ctl'[t] = "static" /\ frames'[t] = SetTop(frames[t], g)
      /\ ctl'[c] = "top"
      /\ \A u \in Threads \ {t, c} : ctl'[u] = ctl[u] /\ frames'[u] = frames[u]
  BY <1>1, <1>2 DEF Continue
<1>6. /\ spc'[t] = SavedPc(t) /\ spc'[c] = SavedPc(t)
      /\ \A u \in Threads \ {t, c} : spc'[u] = spc[u]
  BY <1>1, <1>2
<1> HIDE DEF g
<1>7. GuestPc(t)' = NextPc[b]
  <2>1. CASE ctl[t] = "sys"
    <3>1. GuestPc(t)' = spc'[t]
      BY <1>5, <2>1, GuestPcIs
    <3> QED  BY <1>4, <1>6, <3>1
  <2>2. CASE ctl[t] = "static"
    <3>1. GuestPc(t)' = Top(frames'[t]).at
      BY <1>5, <2>2, GuestPcIs
    <3> QED  BY <1>4, <1>5, <2>2, <3>1
  <2> QED  BY <1>1, <2>1, <2>2
<1>8. GuestPc(c)' = NextPc[b]
  BY <1>4, <1>5, <1>6, GuestPcIs
<1>9. ASSUME NEW u \in Threads \ {t, c} PROVE GuestPc(u)' = GuestPc(u)
  <2>1. UNCHANGED <<cur, txPc>> /\ ctl'[u] = ctl[u] /\ frames'[u] = frames[u] /\ spc'[u] = spc[u]
    BY <1>1, <1>5, <1>6
  <2> QED  BY <2>1 DEF GuestPc
<1>10. guestPcs' = [guestPcs EXCEPT ![t] = NextPc[b], ![c] = NextPc[b]]
  <2>1. guestPcs' = [u \in Threads |-> GuestPc(u)']
    BY DEF guestPcs
  <2>2. \A u \in Threads : [guestPcs EXCEPT ![t] = NextPc[b], ![c] = NextPc[b]][u] = GuestPc(u)'
    BY <1>7, <1>8, <1>9 DEF guestPcs
  <2>3. [guestPcs EXCEPT ![t] = NextPc[b], ![c] = NextPc[b]]
           = [u \in Threads |-> [guestPcs EXCEPT ![t] = NextPc[b], ![c] = NextPc[b]][u]]
    BY DEF guestPcs
  <2> QED  BY <2>1, <2>2, <2>3, Zenon
<1>11. Guest!Clone(t, c)
  BY <1>1, <1>3, <1>10 DEF Guest!Clone
<1> QED  BY <1>11 DEF Guest!Next

\* A return code of 1 finds the PC past the block's last instruction, and
\* nobody moves it before the call is made.
LEMMA SyscallPcNext ==
    ASSUME Inv, SyscallPcInv, [Next]_vars PROVE SyscallPcInv'
<1>1. CASE UNCHANGED vars
  BY <1>1 DEF vars, SyscallPcInv
<1>2. ASSUME NEW t \in Threads, ThreadStep(t), NEW u \in Threads, ctl'[u] = "sys"
      PROVE  spc'[u] = NextPc[txPc'[cur'[u]]]
  <2> USE DEF Inv, TypeOK, StateTypes
  <2>1. CASE ExecSyscall(t) /\ u = t
    BY <1>2, <2>1 DEF ExecSyscall, code
  <2>2. CASE ~(ExecSyscall(t) /\ u = t)
    <3>1. ctl[u] = "sys" /\ spc'[u] = spc[u] /\ cur'[u] = cur[u]
      <4>1. CASE CallStaticFn(t) \/ EnterInvoke(t) \/ LookupHit(t) \/ LookupMiss(t)
                   \/ Translate(t) \/ TranslateFails(t) \/ ChainFails(t) \/ ChainAndRun(t)
        BY <1>2, <4>1 DEF CallStaticFn, EnterInvoke, LookupHit, LookupMiss, Translate,
                    TranslateFails, ChainFails, ChainAndRun, At
      <4>2. CASE ExecJump(t) \/ ExecIndirect(t) \/ ExecCall(t) \/ ExecSyscall(t)
        BY <1>2, <2>2, <4>2 DEF ExecJump, ExecIndirect, ExecCall, ExecSyscall, At
      <4>3. CASE ExecReturn(t) \/ StaticReturn(t)
        <5>1. HostReturn(t) /\ cur' = cur
          BY <4>3 DEF ExecReturn, StaticReturn
        <5>2. ResumedCtl(Pop(frames[t])) # "sys"
          BY Zenon DEF ResumedCtl
        <5> QED  BY <1>2, <5>1, <5>2 DEF HostReturn
      <4>4. CASE StaticJump(t) \/ StaticCall(t) \/ StaticPoison(t)
        BY <1>2, <4>4 DEF StaticJump, StaticCall, StaticPoison, InStatic, At
      <4>5. CASE ExitThread(t) \/ ExitProcess(t)
        BY <1>2, <4>5 DEF ExitThread, ExitProcess
      <4>6. CASE Syscall(t)
        BY <1>2, <4>6 DEF Syscall, Continue, InternalCall, At
      <4>7. ASSUME NEW c \in Threads, Clone(t, c)
            PROVE  ctl[u] = "sys" /\ spc'[u] = spc[u] /\ cur'[u] = cur[u]
        <5>1. /\ cur' = cur /\ ctl[c] = "off" /\ c # t /\ ctl[t] \in {"sys", "static"}
              /\ spc' = [spc EXCEPT ![t] = SavedPc(t), ![c] = SavedPc(t)]
              /\ \/ ctl[t] = "sys" /\ ctl' = [ctl EXCEPT ![c] = "top", ![t] = "top"]
                 \/ ctl[t] = "static" /\ ctl' = [ctl EXCEPT ![c] = "top"]
          BY <4>7 DEF Clone, Continue, InternalCall, At
        <5> QED  BY <1>2, <5>1
      <4> QED  BY <1>2, <4>1, <4>2, <4>3, <4>4, <4>5, <4>6, <4>7 DEF ThreadStep
    <3>2. cur[u] \in Tx /\ txPc[cur[u]] # None
      BY <3>1, ProgramAssumption DEF ThreadTypes
    <3>3. txPc'[cur[u]] = txPc[cur[u]]
      BY <1>2, <3>2, CodeGrows DEF Next
    <3> QED  BY <3>1, <3>3 DEF SyscallPcInv
  <2> QED  BY <2>1, <2>2
<1> QED  BY <1>1, <1>2 DEF Next, Over, SyscallPcInv

LEMMA SyscallPcInit == Init => SyscallPcInv
  BY DEF Init, SyscallPcInv

\* The process starts as the guest does.
LEMMA GuestInit == Init => Guest!Init
<1> SUFFICES ASSUME Init PROVE Guest!Init
  OBVIOUS
<1>1. ASSUME NEW t \in Threads PROVE GuestPc(t) = IF t = Main THEN Entry ELSE None
  <2>1. spc[t] = Entry /\ ctl[t] = (IF t = Main THEN "top" ELSE "off")
    BY DEF Init
  <2> QED  BY <2>1, GuestPcIs
<1>2. guestPcs = [t \in Threads |-> IF t = Main THEN Entry ELSE None]
  BY <1>1 DEF guestPcs
<1> QED  BY <1>2 DEF Init, Guest!Init

LEMMA GuestStep ==
    ASSUME Inv, StackCorrespondence, ChainSound, SyscallPcInv, [Next]_vars
    PROVE  [Guest!Next]_(Guest!vars)
<1>1. CASE UNCHANGED vars
  <2>1. guestPcs' = guestPcs
    BY <1>1 DEF vars, guestPcs, GuestPc
  <2> QED  BY <1>1, <2>1 DEF vars, Guest!vars
<1>2. ASSUME NEW t \in Threads, ThreadStep(t) PROVE [Guest!Next]_(Guest!vars)
  <2>1. CASE \E c \in Threads : Clone(t, c)
    BY <2>1, CloneRefined
  <2>2. CASE ~ \E c \in Threads : Clone(t, c)
    <3>1. CASE CallStaticFn(t) \/ EnterInvoke(t) \/ LookupHit(t) \/ LookupMiss(t)
                 \/ Translate(t) \/ TranslateFails(t) \/ ChainFails(t) \/ ChainAndRun(t)
      BY <1>2, <2>2, <3>1, InvokeRefined
    <3>2. CASE ExecJump(t) \/ ExecIndirect(t) \/ ExecCall(t) \/ ExecReturn(t) \/ ExecSyscall(t)
      BY <1>2, <2>2, <3>2, ExecRefined
    <3>3. CASE StaticJump(t) \/ StaticCall(t) \/ StaticReturn(t) \/ StaticPoison(t)
      BY <1>2, <2>2, <3>3, StaticRefined
    <3>4. CASE Syscall(t) \/ ExitThread(t) \/ ExitProcess(t)
      BY <1>2, <2>2, <3>4, InternalRefined
    <3> QED  BY <1>2, <2>2, <3>1, <3>2, <3>3, <3>4 DEF ThreadStep
  <2> QED  BY <2>1, <2>2
<1> QED  BY <1>1, <1>2 DEF Next, Over

\* The hybrid process implements the guest machine: with the program counters
\* that the host threads' places stand for, every step of static functions,
\* dispatcher, translations and chained exits is a step of one guest thread or
\* none of the guest's, for every program that ChainSafe admits, every choice
\* of static functions, any number of threads and any size of the arena.
THEOREM GuestImplemented == ASSUME ChainSafe PROVE Spec => GuestRefined
<1>1. Init => Guest!Init
  BY GuestInit
<1>2. Inv /\ StackCorrespondence /\ ChainSound /\ SyscallPcInv /\ [Next]_vars
        => [Guest!Next]_(Guest!vars)
  BY GuestStep
<1>3. Spec => []Inv
  BY InvInit, InvNext, PTL DEF Spec
<1>4. Spec => []SyscallPcInv
  <2>1. Inv /\ SyscallPcInv /\ [Next]_vars => SyscallPcInv'
    BY SyscallPcNext
  <2> QED  BY <1>3, <2>1, SyscallPcInit, PTL DEF Spec
<1> QED
  BY <1>1, <1>2, <1>3, <1>4, HostMirrorsGuest, ChainingCorrect, PTL
  DEF Spec, GuestRefined, Guest!Spec
=============================================================================
