--------------------------- MODULE RegSyncProofs ---------------------------
(* Every register that the calling convention lets the guest read is passed  *)
(* on between static functions and the CPU state, for every set of values    *)
(* and any depth of calls, while no more than two floating-point arguments   *)
(* are passed in registers.                                                  *)
EXTENDS RegSync, TLAPS

-----------------------------------------------------------------------------
(* The sets of registers *)

\* What the called function may read is saved before the call, and copied into
\* its locals.
LEMMA CallSets ==
    ASSUME FloatArgs <= 2
    PROVE  /\ EntryLive \subseteq Saved(TRUE) \cup {X87Base}
           /\ EntryLive \ Args \subseteq Saved(FALSE) \cup {X87Base}
           /\ EntryLive \ Args \subseteq Restored(FALSE)
<1>1. \A i \in 0 .. FloatArgs - 1 : i = 0 \/ i = 1
  BY RegAssumption
<1>2. Zmm(0) .. Zmm(FloatArgs - 1) \subseteq Zmm(0) .. Zmm(1)
  BY RegAssumption DEF Zmm
<1>3. Zmm(0) .. Zmm(1) \subseteq Zmm(0) .. Zmm(7)
  BY DEF Zmm
<1> QED  BY <1>2, <1>3 DEF EntryLive, Preserved, Saved, Restored

\* What the caller may read after a return is saved before it, and copied into
\* its locals.
LEMMA ReturnSets ==
    /\ ReturnLive \ Rets \subseteq Saved(FALSE) \cup {X87Base}
    /\ ReturnLive \ Rets \subseteq Restored(FALSE)
    /\ ReturnLive \subseteq Restored(TRUE)
    /\ Rets \subseteq Restored(TRUE)
<1>1. Zmm(0) .. Zmm(1) \subseteq Zmm(0) .. Zmm(7)
  BY DEF Zmm
<1> QED  BY <1>1 DEF ReturnLive, Preserved, Saved, Restored

\* The x87 base is restored and always readable, but never saved, passed,
\* returned or changed by a system call.
LEMMA BaseSets ==
    /\ X87Base \in EntryLive /\ X87Base \in ReturnLive
    /\ X87Base \notin Args /\ X87Base \notin Rets /\ X87Base \notin SyscallRegs
    /\ \A b \in BOOLEAN : X87Base \notin Saved(b) /\ X87Base \in Restored(b)
  BY DEF EntryLive, ReturnLive, Preserved, Args, Rets, SyscallRegs, Saved,
         Restored, CalleeGprs, Permanent, X87Base, Zmm, RAX, RDX, PC

-----------------------------------------------------------------------------
(* The host stack *)

LEMMA StackFacts ==
    ASSUME TypeOK, frames # <<>>
    PROVE  Len(frames) \in Nat \ {0} /\ Top \in Frames
<1>1. Len(frames) \in Nat \ {0}
  BY DEF TypeOK
<1> QED  BY <1>1 DEF TypeOK, Top

\* The condition of StackInv on calls, at position i of a stack s.
Linked(s, i) == s[i].via = "direct" => i > 1 /\ s[i - 1].kind = "static"

LEMMA LinkedStack ==
    ASSUME TypeOK, StackInv
    PROVE  \A i \in 1 .. Len(frames) : Linked(frames, i)
  BY DEF StackInv, Linked

LEMMA StackFromLinked ==
    ASSUME frames' \in Seq(Frames), \A i \in 1 .. Len(frames') : Linked(frames', i),
           frames' # <<>> /\ ~back' => Top'.kind # "tail"
    PROVE  StackInv'
<1>1. Len(frames') \in Nat
  OBVIOUS
<1>2. SUFFICES ASSUME NEW i \in 1 .. Len(frames'), frames'[i].kind = "tail"
               PROVE  i < Len(frames') \/ back'
  BY DEF StackInv, Linked
<1>3. CASE i = Len(frames')
  <2>1. frames' # <<>>
    BY <1>1
  <2>2. Top' = frames'[i]
    BY <1>3 DEF Top
  <2> QED  BY <1>2, <2>1, <2>2
<1> QED  BY <1>1, <1>3

\* t is s, or the beginning of it, with a new last activation.
LEMMA NewLast ==
    ASSUME NEW s, NEW t, NEW n \in Nat \ {0},
           \A i \in 1 .. n - 1 : t[i] = s[i] /\ Linked(s, i),
           t[n].via = "direct" => n > 1 /\ s[n - 1].kind = "static"
    PROVE  \A i \in 1 .. n : Linked(t, i)
<1> SUFFICES ASSUME NEW i \in 1 .. n  PROVE Linked(t, i)
  OBVIOUS
<1>1. i > 1 => i - 1 \in 1 .. n - 1
  OBVIOUS
<1>2. CASE i = n
  BY <1>1, <1>2 DEF Linked
<1>3. CASE i < n
  <2>1. i \in 1 .. n - 1
    BY <1>3
  <2>2. t[i] = s[i] /\ Linked(s, i) /\ (i > 1 => t[i - 1] = s[i - 1])
    BY <1>1, <2>1
  <2> QED  BY <2>2 DEF Linked
<1> QED  BY <1>2, <1>3

LEMMA SetTopFacts ==
    ASSUME NEW s \in Seq(Frames), s # <<>>, NEW f \in Frames
    PROVE  /\ SetTop(s, f) \in Seq(Frames) /\ Len(SetTop(s, f)) = Len(s)
           /\ SetTop(s, f)[Len(s)] = f
           /\ \A i \in 1 .. Len(s) - 1 : SetTop(s, f)[i] = s[i]
<1>1. Len(s) \in Nat \ {0}
  OBVIOUS
<1> QED  BY <1>1 DEF SetTop

LEMMA AppendFacts ==
    ASSUME NEW s \in Seq(Frames), NEW f \in Frames
    PROVE  /\ Append(s, f) \in Seq(Frames) /\ Len(Append(s, f)) = Len(s) + 1
           /\ Append(s, f)[Len(s) + 1] = f
           /\ \A i \in 1 .. Len(s) : Append(s, f)[i] = s[i]
  OBVIOUS

\* The innermost activation changes.
LEMMA ReplaceTop ==
    ASSUME TypeOK, StackInv, frames # <<>>, NEW f \in Frames,
           f.via = Top.via \/ f.via = "loop"
    PROVE  \A i \in 1 .. Len(frames) : Linked(SetTop(frames, f), i)
<1>1. Len(frames) \in Nat \ {0} /\ frames \in Seq(Frames)
  BY StackFacts DEF TypeOK
<1>2. \A i \in 1 .. Len(frames) : Linked(frames, i)
  BY LinkedStack
<1>3. \A i \in 1 .. Len(frames) - 1 :
        SetTop(frames, f)[i] = frames[i] /\ Linked(frames, i)
  <2>1. \A i \in 1 .. Len(frames) - 1 : SetTop(frames, f)[i] = frames[i]
    BY <1>1, SetTopFacts
  <2> QED  BY <1>1, <1>2, <2>1
<1>4. f.via = "direct" => /\ Len(frames) > 1
                          /\ frames[Len(frames) - 1].kind = "static"
  BY <1>1, <1>2 DEF Linked, Top
<1>5. SetTop(frames, f)[Len(frames)] = f
  BY <1>1, SetTopFacts
<1> QED  BY <1>1, <1>3, <1>4, <1>5, NewLast

LEMMA Replaced ==
    ASSUME TypeOK, StackInv, frames # <<>>, NEW f \in Frames,
           f.via = Top.via \/ f.via = "loop", f.kind # "tail",
           frames' = SetTop(frames, f)
    PROVE  frames' \in Seq(Frames) /\ frames' # <<>> /\ Top' = f /\ StackInv'
<1>1. Len(frames) \in Nat \ {0} /\ frames \in Seq(Frames)
  BY StackFacts DEF TypeOK
<1>2. frames' \in Seq(Frames) /\ Len(frames') = Len(frames) /\ frames'[Len(frames)] = f
  BY <1>1, SetTopFacts
<1>3. frames' # <<>> /\ Top' = f
  BY <1>1, <1>2 DEF Top
<1>4. \A i \in 1 .. Len(frames') : Linked(frames', i)
  BY <1>2, ReplaceTop
<1>5. StackInv'
  BY <1>2, <1>3, <1>4, StackFromLinked
<1> QED  BY <1>2, <1>3, <1>5

\* A new activation on top of one that has become g.
LEMMA Pushed ==
    ASSUME TypeOK, StackInv, frames # <<>>, NEW g \in Frames, NEW f \in Frames,
           g.via = Top.via, f.kind # "tail", f.via = "direct" => g.kind = "static",
           frames' = Append(SetTop(frames, g), f)
    PROVE  frames' \in Seq(Frames) /\ frames' # <<>> /\ Top' = f /\ StackInv'
<1> DEFINE t == SetTop(frames, g)
<1>1. Len(frames) \in Nat \ {0} /\ frames \in Seq(Frames)
  BY StackFacts DEF TypeOK
<1>2. t \in Seq(Frames) /\ Len(t) = Len(frames) /\ t[Len(frames)] = g
  BY <1>1, SetTopFacts
<1>3. \A i \in 1 .. Len(frames) : Linked(t, i)
  BY ReplaceTop
<1> HIDE DEF t
<1>4. /\ Append(t, f) \in Seq(Frames) /\ Len(Append(t, f)) = Len(frames) + 1
      /\ Append(t, f)[Len(frames) + 1] = f
      /\ \A i \in 1 .. Len(frames) : Append(t, f)[i] = t[i]
  <2>1. /\ Append(t, f) \in Seq(Frames) /\ Len(Append(t, f)) = Len(t) + 1
        /\ Append(t, f)[Len(t) + 1] = f
        /\ \A i \in 1 .. Len(t) : Append(t, f)[i] = t[i]
    BY <1>2, AppendFacts
  <2> QED  BY <1>2, <2>1
<1>5. \A i \in 1 .. Len(frames) + 1 : Linked(Append(t, f), i)
  <2> DEFINE n == Len(frames) + 1
  <2>1. n \in Nat \ {0} /\ n - 1 = Len(frames) /\ n > 1
    BY <1>1
  <2>2. \A i \in 1 .. n - 1 : Append(t, f)[i] = t[i] /\ Linked(t, i)
    BY <1>3, <1>4, <2>1
  <2>3. Append(t, f)[n].via = "direct" => n > 1 /\ t[n - 1].kind = "static"
    BY <1>2, <1>4, <2>1
  <2> HIDE DEF n
  <2>4. \A i \in 1 .. n : Linked(Append(t, f), i)
    BY <2>1, <2>2, <2>3, NewLast
  <2> QED  BY <2>4 DEF n
<1>6. frames' = Append(t, f)
  BY DEF t
<1>7. frames' # <<>> /\ Top' = f
  BY <1>1, <1>4, <1>6 DEF Top
<1>8. StackInv'
  BY <1>4, <1>5, <1>6, <1>7, StackFromLinked
<1> QED  BY <1>4, <1>6, <1>7, <1>8

LEMMA SameTop ==
    ASSUME TypeOK, frames # <<>>
    PROVE  SetTop(frames, Top) = frames
<1>1. Len(frames) \in Nat \ {0}
  BY StackFacts
<1> QED  BY <1>1 DEF TypeOK, SetTop, Top

LEMMA PopFacts ==
    ASSUME TypeOK, StackInv, frames # <<>>
    PROVE  /\ Pop \in Seq(Frames) /\ Len(Pop) = Len(frames) - 1
           /\ \A i \in 1 .. Len(frames) - 1 : Pop[i] = frames[i] /\ Linked(frames, i)
<1>1. Len(frames) \in Nat \ {0}
  BY StackFacts
<1>2. Pop \in Seq(Frames) /\ Len(Pop) = Len(frames) - 1
  BY <1>1 DEF TypeOK, Pop
<1>3. \A i \in 1 .. Len(frames) - 1 : Pop[i] = frames[i]
  BY <1>1 DEF TypeOK, Pop
<1> QED  BY <1>1, <1>2, <1>3, LinkedStack

\* MainLoop or a static function that it has called returns.
LEMMA Popped ==
    ASSUME TypeOK, StackInv, frames # <<>>, frames' = Pop, back' = TRUE
    PROVE  frames' \in Seq(Frames) /\ StackInv'
<1>1. Len(frames) \in Nat \ {0}
  BY StackFacts
<1>2. \A i \in 1 .. Len(frames') : Linked(frames', i)
  <2> SUFFICES ASSUME NEW i \in 1 .. Len(frames) - 1  PROVE Linked(Pop, i)
    BY <1>1, PopFacts
  <2>1. i > 1 => i - 1 \in 1 .. Len(frames) - 1
    BY <1>1
  <2> QED  BY <1>1, <2>1, PopFacts DEF Linked
<1> QED  BY <1>2, PopFacts, StackFromLinked

\* The innermost activation returns to the static function that called it.
LEMMA PoppedToCaller ==
    ASSUME TypeOK, StackInv, frames # <<>>, Top.via = "direct", NEW v \in Values,
           frames' = SetTop(Pop, [Below EXCEPT !.loc = v])
    PROVE  /\ frames' \in Seq(Frames) /\ frames' # <<>> /\ StackInv'
           /\ Top'.kind = "static" /\ Top'.loc = v
<1> DEFINE n == Len(frames) - 1  g == [Below EXCEPT !.loc = v]
<1>1. Len(frames) \in Nat \ {0} /\ frames \in Seq(Frames)
  BY StackFacts DEF TypeOK
<1>2. Len(frames) > 1 /\ Below.kind = "static"
  BY <1>1, LinkedStack DEF Linked, Top, Below
<1>3. Below \in Frames
  BY <1>1, <1>2 DEF Below
<1>4. g \in Frames /\ g.kind = "static" /\ g.via = Below.via /\ g.loc = v
  BY <1>2, <1>3 DEF Frames
<1>5. n \in Nat \ {0} /\ n = Len(Pop) /\ Pop \in Seq(Frames) /\ Pop # <<>>
  BY <1>1, <1>2, PopFacts
<1>6. Below = frames[n] /\ \A i \in 1 .. n : Pop[i] = frames[i] /\ Linked(frames, i)
  BY PopFacts DEF Below
<1> HIDE DEF n, g
<1>7. SetTop(Pop, g) \in Seq(Frames) /\ Len(SetTop(Pop, g)) = n /\ SetTop(Pop, g)[n] = g
  BY <1>4, <1>5, SetTopFacts
<1>8. \A i \in 1 .. n - 1 : SetTop(Pop, g)[i] = frames[i] /\ Linked(frames, i)
  <2>1. \A i \in 1 .. n - 1 : SetTop(Pop, g)[i] = Pop[i]
    BY <1>4, <1>5, SetTopFacts
  <2> QED  BY <1>5, <1>6, <2>1
<1>9. g.via = "direct" => n > 1 /\ frames[n - 1].kind = "static"
  BY <1>4, <1>5, <1>6 DEF Linked
<1>10. \A i \in 1 .. n : Linked(SetTop(Pop, g), i)
  BY <1>5, <1>7, <1>8, <1>9, NewLast
<1>11. frames' = SetTop(Pop, g)
  BY DEF g
<1>12. frames' # <<>> /\ Top' = g
  BY <1>5, <1>7, <1>11 DEF Top
<1>13. StackInv'
  BY <1>4, <1>7, <1>10, <1>11, <1>12, StackFromLinked
<1> QED  BY <1>4, <1>7, <1>11, <1>12, <1>13

-----------------------------------------------------------------------------
(* The values that are copied *)

LEMMA CopyTypes ==
    ASSUME TypeOK, NEW m \in Values, NEW l \in Values, NEW r \in Values, NEW b \in BOOLEAN
    PROVE  /\ Save(l, b) \in Values /\ Restore(m, l, b) \in Values
           /\ Entered(m, r) \in Values /\ Returned(m, l, r) \in Values
  BY RegAssumption DEF TypeOK, Save, Restore, Entered, Returned

\* A static function that is called reads what its caller has left.
LEMMA EnteredRight ==
    ASSUME FloatArgs <= 2, reg \in EntryLive, NEW m, NEW r,
           reg \in Args => r = guest, reg \notin Args => m = guest
    PROVE  Entered(m, r) = guest
  BY CallSets DEF Entered, Restore

\* What is saved when the locals are right.
LEMMA SavedRight ==
    ASSUME FloatArgs <= 2, BaseInv, NEW l, l = guest
    PROVE  /\ reg \in EntryLive => Save(l, TRUE) = guest
           /\ reg \in EntryLive \ Args => Save(l, FALSE) = guest
           /\ reg \in ReturnLive \ Rets => Save(l, FALSE) = guest
  BY CallSets, ReturnSets DEF BaseInv, Save

LEMMA BaseEntry ==
    ASSUME BaseInv, AtEntry, UNCHANGED <<reg, guest>>,
           \/ mem' = mem
           \/ \E b \in BOOLEAN : \E l : mem' = Save(l, b)
    PROVE  BaseInv'
  BY BaseSets DEF BaseInv, AtEntry, Save

-----------------------------------------------------------------------------
(* Initially and after every step *)

LEMMA SyncInit == Init => SyncInv
<1> SUFFICES ASSUME Init  PROVE SyncInv
  OBVIOUS
<1>1. Loop \in Frames /\ frames = <<Loop>>
  BY RegAssumption DEF Init, Loop, Frames
<1>2. frames \in Seq(Frames) /\ Len(frames) = 1 /\ frames[1] = Loop /\ Top = Loop
  BY <1>1 DEF Top
<1>3. StackInv
  BY <1>2 DEF StackInv, Loop
<1> QED  BY <1>2, <1>3 DEF Init, SyncInv, TypeOK, ReturnInv, BaseInv, MemoryCurrent,
           ArgumentsArrive, InStatic, InTranslated, Loop

LEMMA SyncWrite ==
    ASSUME SyncInv, NEW v \in Values, Write(v)
    PROVE  SyncInv'
<1>1. TypeOK /\ StackInv /\ frames # <<>> /\ ~back /\ Top \in Frames
  BY StackFacts DEF SyncInv, Write, InStatic, InTranslated
<1>2. CASE InStatic
  <2> DEFINE f == [Top EXCEPT !.loc = v]
  <2>1. f \in Frames /\ f.via = Top.via /\ f.kind = "static" /\ f.loc = v
    BY <1>1, <1>2 DEF Frames, InStatic
  <2>2. frames' \in Seq(Frames) /\ frames' # <<>> /\ Top' = f /\ StackInv'
    BY <1>1, <1>2, <2>1, Replaced DEF Write
  <2> QED  BY <1>1, <1>2, <2>1, <2>2 DEF Write, SyncInv, TypeOK, ReturnInv, BaseInv,
             MemoryCurrent, ArgumentsArrive, InStatic, InTranslated
<1>3. CASE ~InStatic
  <2>1. InTranslated /\ mem' = v /\ UNCHANGED <<frames, back>> /\ Top' = Top
    BY <1>3 DEF Write, Top
  <2> QED  BY <1>1, <2>1 DEF Write, SyncInv, TypeOK, StackInv, ReturnInv, BaseInv,
             MemoryCurrent, ArgumentsArrive, InStatic, InTranslated
<1> QED  BY <1>2, <1>3

LEMMA SyncEnterStatic ==
    ASSUME FloatArgs <= 2, SyncInv, EnterStatic
    PROVE  SyncInv'
<1> DEFINE f == [kind |-> "static", via |-> "loop", loc |-> Entered(mem, mem)]
<1>1. /\ TypeOK /\ StackInv /\ BaseInv /\ frames # <<>> /\ ~back
      /\ defined => mem = guest
  BY DEF SyncInv, ArgumentsArrive, EnterStatic, InTranslated
<1>2. f \in Frames
  BY <1>1, CopyTypes DEF Frames, TypeOK
<1>3. frames' \in Seq(Frames) /\ frames' # <<>> /\ Top' = f /\ StackInv'
  BY <1>1, <1>2, Replaced DEF EnterStatic
<1>4. defined' => Entered(mem, mem) = guest
  BY <1>1, EnteredRight DEF EnterStatic, AtEntry
<1>5. BaseInv'
  BY <1>1, BaseEntry DEF EnterStatic
<1> QED  BY <1>1, <1>3, <1>4, <1>5 DEF EnterStatic, AtEntry, SyncInv, TypeOK, ReturnInv,
           MemoryCurrent, ArgumentsArrive, InStatic, InTranslated

LEMMA SyncCallTranslated ==
    ASSUME SyncInv, CallTranslated
    PROVE  SyncInv'
<1>1. /\ TypeOK /\ StackInv /\ BaseInv /\ frames # <<>> /\ ~back /\ Top \in Frames
      /\ defined => mem = guest
  BY StackFacts DEF SyncInv, ArgumentsArrive, CallTranslated, InTranslated
<1>2. Loop \in Frames
  BY RegAssumption DEF Loop, Frames
<1>3. frames' \in Seq(Frames) /\ frames' # <<>> /\ Top' = Loop /\ StackInv'
  BY <1>1, <1>2, SameTop, Pushed DEF CallTranslated, Loop
<1>4. BaseInv'
  BY <1>1, BaseEntry DEF CallTranslated
<1> QED  BY <1>1, <1>3, <1>4 DEF CallTranslated, AtEntry, SyncInv, TypeOK, ReturnInv,
           MemoryCurrent, ArgumentsArrive, InStatic, InTranslated, Loop

LEMMA SyncReturnTranslated ==
    ASSUME SyncInv, ReturnTranslated
    PROVE  SyncInv'
<1>1. TypeOK /\ StackInv /\ BaseInv /\ frames # <<>> /\ (defined => mem = guest)
  BY DEF SyncInv, ArgumentsArrive, ReturnTranslated, InTranslated
<1>2. frames' \in Seq(Frames) /\ StackInv'
  BY <1>1, Popped DEF ReturnTranslated
<1> QED  BY <1>1, <1>2, BaseSets DEF ReturnTranslated, AtReturn, SyncInv, TypeOK,
           ReturnInv, BaseInv, MemoryCurrent, ArgumentsArrive, InStatic, InTranslated

\* A static function's locals, and what it saves of them.
LEMMA StaticFacts ==
    ASSUME SyncInv, InStatic
    PROVE  /\ TypeOK /\ StackInv /\ BaseInv /\ frames # <<>> /\ ~back
           /\ Top \in Frames /\ Top.kind = "static" /\ Top.loc \in Values
           /\ defined => Top.loc = guest
           /\ \A b \in BOOLEAN : Save(Top.loc, b) \in Values
<1>1. /\ TypeOK /\ StackInv /\ BaseInv /\ frames # <<>> /\ ~back
      /\ Top \in Frames /\ Top.kind = "static"
      /\ defined => Top.loc = guest
  BY StackFacts DEF SyncInv, ArgumentsArrive, InStatic
<1>2. Top.loc \in Values
  BY <1>1 DEF Frames
<1>3. \A b \in BOOLEAN : Save(Top.loc, b) \in Values
  BY <1>1, <1>2 DEF Save, TypeOK
<1> QED  BY <1>1, <1>2, <1>3

LEMMA SyncCallDirect ==
    ASSUME FloatArgs <= 2, SyncInv, CallDirect
    PROVE  SyncInv'
<1> DEFINE f == [kind |-> "static", via |-> "direct", loc |-> Entered(mem', Top.loc)]
<1>1. /\ TypeOK /\ StackInv /\ BaseInv /\ frames # <<>> /\ ~back
      /\ Top \in Frames /\ Top.kind = "static" /\ Top.loc \in Values
      /\ defined => Top.loc = guest
      /\ Save(Top.loc, FALSE) \in Values
  BY StaticFacts DEF CallDirect
<1>2. mem' = Save(Top.loc, FALSE) /\ mem' \in Values /\ Entered(mem', Top.loc) \in Values
  BY <1>1, CopyTypes DEF CallDirect
<1>3. f \in Frames
  BY <1>2 DEF Frames
<1>4. frames' \in Seq(Frames) /\ frames' # <<>> /\ Top' = f /\ StackInv'
  BY <1>1, <1>3, SameTop, Pushed DEF CallDirect
<1>5. defined' => Entered(mem', Top.loc) = guest
  <2> SUFFICES ASSUME defined'  PROVE Entered(mem', Top.loc) = guest
    OBVIOUS
  <2>1. reg \in EntryLive /\ Top.loc = guest
    BY <1>1 DEF CallDirect, AtEntry
  <2>2. reg \notin Args => mem' = guest
    BY <1>1, <1>2, <2>1, SavedRight
  <2> QED  BY <2>1, <2>2, EnteredRight
<1>6. BaseInv'
  BY <1>1, <1>2, BaseEntry DEF CallDirect
<1> QED  BY <1>1, <1>2, <1>4, <1>5, <1>6 DEF CallDirect, AtEntry, SyncInv, TypeOK,
           ReturnInv, MemoryCurrent, ArgumentsArrive, InStatic, InTranslated

\* MainLoop is called with everything saved, from a static function that stays
\* one or waits for the end of what it has jumped to.
LEMMA SyncLeaveStatic ==
    ASSUME FloatArgs <= 2, SyncInv, InStatic, mem' = Save(Top.loc, TRUE),
           NEW k \in {"static", "tail"},
           frames' = Append(SetTop(frames, [Top EXCEPT !.kind = k]), Loop),
           AtEntry, UNCHANGED <<reg, guest, back>>
    PROVE  SyncInv'
<1> DEFINE g == [Top EXCEPT !.kind = k]
<1>1. /\ TypeOK /\ StackInv /\ BaseInv /\ frames # <<>> /\ ~back
      /\ Top \in Frames /\ (defined => Top.loc = guest)
      /\ mem' \in Values
  BY StaticFacts
<1>2. g \in Frames /\ Loop \in Frames /\ g.via = Top.via
  BY <1>1, RegAssumption DEF Loop, Frames
<1>3. frames' \in Seq(Frames) /\ frames' # <<>> /\ Top' = Loop /\ StackInv'
  BY <1>1, <1>2, Pushed DEF Loop
<1>4. defined' => mem' = guest
  BY <1>1, SavedRight DEF AtEntry
<1>5. BaseInv'
  BY <1>1, BaseEntry
<1> QED  BY <1>1, <1>3, <1>4, <1>5 DEF AtEntry, SyncInv, TypeOK, ReturnInv,
           MemoryCurrent, ArgumentsArrive, InStatic, InTranslated, Loop

LEMMA SyncCallIndirect ==
    ASSUME FloatArgs <= 2, SyncInv, CallIndirect
    PROVE  SyncInv'
<1>1. TypeOK /\ frames # <<>> /\ Top \in Frames /\ Top.kind = "static" /\ InStatic
  BY StaticFacts DEF CallIndirect
<1>2. [Top EXCEPT !.kind = "static"] = Top
  BY <1>1 DEF Frames
<1>3. frames' = Append(SetTop(frames, [Top EXCEPT !.kind = "static"]), Loop)
  BY <1>1, <1>2, SameTop DEF CallIndirect
<1> QED  BY <1>1, <1>3, SyncLeaveStatic DEF CallIndirect

\* The end of an activation: what may be read afterwards is in m or returned.
LEMMA SyncGiveBack ==
    ASSUME SyncInv, frames # <<>>, NEW m \in Values, NEW ret \in Values, GiveBack(m, ret),
           UNCHANGED <<reg, guest>>, defined' \in BOOLEAN,
           defined' => reg \in ReturnLive,
           defined' => IF reg \in Rets THEN ret = guest ELSE m = guest,
           reg = X87Base => defined' /\ m = guest
    PROVE  SyncInv'
<1>1. TypeOK /\ StackInv
  BY DEF SyncInv
<1>2. CASE Top.via = "direct"
  <2> DEFINE v == Returned(m, Below.loc, ret)
  <2>1. Below.loc \in Values
    <3>1. Len(frames) \in Nat \ {0} /\ frames \in Seq(Frames)
      BY <1>1, StackFacts DEF TypeOK
    <3>2. Len(frames) > 1
      BY <1>2, <3>1 DEF StackInv, Top, SyncInv
    <3>3. Below \in Frames
      BY <3>1, <3>2 DEF Below
    <3> QED  BY <3>3 DEF Frames
  <2>2. v \in Values
    BY <1>1, <2>1, CopyTypes
  <2>3. /\ frames' \in Seq(Frames) /\ frames' # <<>> /\ StackInv'
        /\ Top'.kind = "static" /\ Top'.loc = v
    BY <1>1, <1>2, <2>2, PoppedToCaller DEF GiveBack
  <2>4. mem' = m /\ back' = FALSE
    BY <1>2 DEF GiveBack
  <2>5. defined' => v = guest
    BY ReturnSets DEF Returned, Restore
  <2> QED  BY <1>1, <2>3, <2>4, <2>5 DEF SyncInv, TypeOK, ReturnInv, BaseInv,
             MemoryCurrent, ArgumentsArrive, InStatic, InTranslated
<1>3. CASE Top.via # "direct"
  <2>1. /\ frames' = Pop /\ back' = TRUE
        /\ mem' = IF reg \in Rets THEN ret ELSE m
    BY <1>3 DEF GiveBack
  <2>2. frames' \in Seq(Frames) /\ StackInv'
    BY <1>1, <2>1, Popped
  <2> QED  BY <1>1, <2>1, <2>2, BaseSets DEF SyncInv, TypeOK, ReturnInv, BaseInv,
             MemoryCurrent, ArgumentsArrive, InStatic, InTranslated
<1> QED  BY <1>2, <1>3

LEMMA SyncReturnStatic ==
    ASSUME FloatArgs <= 2, SyncInv, ReturnStatic
    PROVE  SyncInv'
<1> DEFINE m == Save(Top.loc, FALSE)
<1>1. /\ TypeOK /\ BaseInv /\ frames # <<>> /\ Top.loc \in Values /\ m \in Values
      /\ defined => Top.loc = guest
  BY StaticFacts DEF ReturnStatic
<1>2. defined' \in BOOLEAN /\ (defined' => defined /\ reg \in ReturnLive)
  BY DEF ReturnStatic, AtReturn
<1>3. defined' => IF reg \in Rets THEN Top.loc = guest ELSE m = guest
  BY <1>1, <1>2, SavedRight
<1>4. reg = X87Base => defined' /\ m = guest
  BY <1>1, BaseSets DEF BaseInv, ReturnStatic, AtReturn, Save
<1>5. GiveBack(m, Top.loc) /\ UNCHANGED <<reg, guest>>
  BY DEF ReturnStatic
<1> HIDE DEF m
<1> QED  BY <1>1, <1>2, <1>3, <1>4, <1>5, SyncGiveBack

LEMMA SyncReturnAfterJump ==
    ASSUME SyncInv, ReturnAfterJump
    PROVE  SyncInv'
<1> DEFINE ret == Restore(mem, Top.loc, TRUE)
<1>1. /\ TypeOK /\ BaseInv /\ ReturnInv /\ frames # <<>> /\ Top \in Frames /\ back
      /\ defined => mem = guest
  BY StackFacts DEF ReturnAfterJump, SyncInv, MemoryCurrent
<1>2. mem \in Values /\ ret \in Values
  <2>1. Top.loc \in Values /\ mem \in Values
    BY <1>1 DEF Frames, TypeOK
  <2> QED  BY <2>1 DEF Restore
<1>3. defined' \in BOOLEAN /\ (defined' => reg \in ReturnLive)
  BY <1>1 DEF ReturnAfterJump, ReturnInv, TypeOK
<1>4. defined' => IF reg \in Rets THEN ret = guest ELSE mem = guest
  BY <1>1, ReturnSets DEF ReturnAfterJump, Restore
<1>5. reg = X87Base => defined' /\ mem = guest
  BY <1>1 DEF BaseInv, ReturnAfterJump
<1>6. GiveBack(mem, ret) /\ UNCHANGED <<reg, guest>>
  BY DEF ReturnAfterJump
<1> HIDE DEF ret
<1> QED  BY <1>1, <1>2, <1>3, <1>4, <1>5, <1>6, SyncGiveBack

LEMMA SyncResume ==
    ASSUME SyncInv, Resume
    PROVE  SyncInv'
<1> DEFINE f == [Top EXCEPT !.loc = Restore(mem, Top.loc, TRUE)]
<1>1. /\ TypeOK /\ StackInv /\ BaseInv /\ ReturnInv /\ frames # <<>> /\ Top \in Frames
      /\ back /\ (defined => mem = guest) /\ back' = FALSE
      /\ UNCHANGED <<reg, guest, defined, mem>>
  BY StackFacts DEF Resume, SyncInv, MemoryCurrent
<1>2. CASE Top.kind = "loop"
  <2>1. UNCHANGED frames /\ Top' = Top
    BY <1>2 DEF Resume, Top
  <2>2. frames[Len(frames)].kind # "tail"
    BY <1>2 DEF Top
  <2>3. StackInv'
    <3>1. Len(frames) \in Nat \ {0}
      BY <1>1, StackFacts
    <3> QED  BY <1>1, <2>1, <2>2, <3>1 DEF StackInv, TypeOK
  <2> QED  BY <1>1, <1>2, <2>1, <2>3 DEF SyncInv, TypeOK, ReturnInv, BaseInv,
             MemoryCurrent, ArgumentsArrive, InStatic, InTranslated
<1>3. CASE Top.kind = "static"
  <2>1. f \in Frames /\ f.via = Top.via /\ f.kind = "static" /\ f.loc = Restore(mem, Top.loc, TRUE)
    <3>1. Top.loc \in Values /\ mem \in Values
      BY <1>1 DEF Frames, TypeOK
    <3>2. Restore(mem, Top.loc, TRUE) \in Values
      BY <3>1 DEF Restore
    <3> QED  BY <1>1, <1>3, <3>2 DEF Frames
  <2>2. frames' = SetTop(frames, f)
    BY <1>3 DEF Resume
  <2> HIDE DEF f
  <2>3. frames' \in Seq(Frames) /\ frames' # <<>> /\ Top' = f /\ StackInv'
    BY <1>1, <2>1, <2>2, Replaced
  <2>4. defined => f.loc = guest
    BY <1>1, <2>1, ReturnSets DEF ReturnInv, Restore
  <2> QED  BY <1>1, <2>1, <2>3, <2>4 DEF SyncInv, TypeOK, ReturnInv, BaseInv,
             MemoryCurrent, ArgumentsArrive, InStatic, InTranslated
<1> QED  BY <1>2, <1>3 DEF Resume

LEMMA SyncStaticSyscall ==
    ASSUME SyncInv, NEW v \in Values, NEW child \in BOOLEAN, StaticSyscall(v, child)
    PROVE  SyncInv'
<1> DEFINE f == [Top EXCEPT !.loc = mem']
<1>1. /\ TypeOK /\ StackInv /\ BaseInv /\ frames # <<>> /\ ~back
      /\ Top \in Frames /\ Top.kind = "static" /\ Top.loc \in Values
      /\ defined => Top.loc = guest
      /\ UNCHANGED <<reg, back>>
  BY StaticFacts DEF StaticSyscall
<1>2. /\ mem' \in Values /\ guest' \in Values /\ defined' \in BOOLEAN
      /\ defined' => mem' = guest'
      /\ BaseInv'
  <2>1. CASE reg \in SyscallRegs
    BY <1>1, <2>1, BaseSets DEF StaticSyscall, BaseInv
  <2>2. CASE reg \notin SyscallRegs
    BY <1>1, <2>2 DEF StaticSyscall, BaseInv, TypeOK
  <2> QED  BY <2>1, <2>2
<1>3. CASE child
  <2>1. frames' = <<Loop>> /\ Loop \in Frames
    BY <1>3, RegAssumption DEF StaticSyscall, Loop, Frames
  <2>2. frames' \in Seq(Frames) /\ Len(frames') = 1 /\ frames'[1] = Loop /\ Top' = Loop
    BY <2>1 DEF Top
  <2>3. StackInv'
    BY <2>2 DEF StackInv, Loop
  <2> QED  BY <1>1, <1>2, <2>2, <2>3 DEF SyncInv, TypeOK, ReturnInv,
             MemoryCurrent, ArgumentsArrive, InStatic, InTranslated, Loop
<1>4. CASE ~child
  <2>1. f \in Frames /\ f.via = Top.via /\ f.kind = "static" /\ f.loc = mem'
    BY <1>1, <1>2 DEF Frames
  <2>2. frames' = SetTop(frames, f)
    BY <1>4 DEF StaticSyscall
  <2> HIDE DEF f
  <2>3. frames' \in Seq(Frames) /\ frames' # <<>> /\ Top' = f /\ StackInv'
    BY <1>1, <2>1, <2>2, Replaced
  <2> QED  BY <1>1, <1>2, <2>1, <2>3 DEF SyncInv, TypeOK, ReturnInv,
             MemoryCurrent, ArgumentsArrive, InStatic, InTranslated
<1> QED  BY <1>3, <1>4

LEMMA SyncStep ==
    ASSUME FloatArgs <= 2, SyncInv, [Next]_vars
    PROVE  SyncInv'
<1>1. ASSUME NEW v \in Values, Write(v)  PROVE SyncInv'
  BY <1>1, SyncWrite
<1>2. ASSUME NEW v \in Values, NEW c \in BOOLEAN, StaticSyscall(v, c)  PROVE SyncInv'
  BY <1>2, SyncStaticSyscall
<1>3. CASE EnterStatic
  BY <1>3, SyncEnterStatic
<1>4. CASE CallTranslated
  BY <1>4, SyncCallTranslated
<1>5. CASE ReturnTranslated
  BY <1>5, SyncReturnTranslated
<1>6. CASE CallDirect
  BY <1>6, SyncCallDirect
<1>7. CASE CallIndirect
  BY <1>7, SyncCallIndirect
<1>8. CASE JumpOut
  BY <1>8, SyncLeaveStatic DEF JumpOut
<1>9. CASE ReturnStatic
  BY <1>9, SyncReturnStatic
<1>10. CASE Resume
  BY <1>10, SyncResume
<1>11. CASE ReturnAfterJump
  BY <1>11, SyncReturnAfterJump
<1>12. CASE UNCHANGED vars
  BY <1>12 DEF vars, SyncInv, TypeOK, StackInv, ReturnInv, BaseInv, MemoryCurrent,
     ArgumentsArrive, InStatic, InTranslated, Top
<1> QED  BY <1>1, <1>2, <1>3, <1>4, <1>5, <1>6, <1>7, <1>8, <1>9, <1>10, <1>11, <1>12
         DEF Next, Over

LEMMA SyncInvariant ==
    ASSUME FloatArgs <= 2
    PROVE  Spec => []SyncInv
<1>1. Init => SyncInv
  BY SyncInit
<1>2. SyncInv /\ [Next]_vars => SyncInv'
  BY SyncStep
<1> QED  BY <1>1, <1>2, PTL DEF Spec

\* With at most two floating-point arguments in registers, the code that runs
\* reads the right value of every register that the calling convention lets the
\* guest read (save_callee_regs, restore_callee_regs, load_args, unwrap_ret).
THEOREM RegistersArrive ==
    ASSUME FloatArgs <= 2
    PROVE  Spec => []ArgumentsArrive
<1>1. SyncInv => ArgumentsArrive
  BY DEF SyncInv
<1> QED  BY <1>1, SyncInvariant, PTL

\* With at most two floating-point arguments in registers, the CPU state is
\* right whenever MainLoop returns to its caller (save_callee_regs, wrap_ret).
THEOREM ReturnsArrive ==
    ASSUME FloatArgs <= 2
    PROVE  Spec => []MemoryCurrent
<1>1. SyncInv => MemoryCurrent
  BY DEF SyncInv
<1> QED  BY <1>1, SyncInvariant, PTL
=============================================================================
