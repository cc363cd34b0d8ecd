----------------------------- MODULE StaticTls -----------------------------
(* Thread-local storage of a guest program and its libraries.  txlat writes  *)
(* the size of each module's segment into its binary; the constructors of    *)
(* the libraries assign offsets below the thread pointer, one after the      *)
(* other (init_lib.c); initialise_dynamic_runtime numbers the modules and    *)
(* lays out the main thread's block.  Three programs thus have to agree on   *)
(* one layout.                                                               *)
EXTENDS Integers, Sequences, SequencesExt, FiniteSets, FiniteSetsExt

CONSTANTS
    App,         \* the executable
    Libs,        \* the libraries
    Segments,    \* TLS segments: [len, size, align, image]; size 0 is none
    DescSize,    \* sizeof(guest_pthread)
    DescAlign,   \* alignof(guest_pthread)
    Word,        \* sizeof(void *)
    Blocks       \* addresses that new[] may return

Modules == {App} \cup Libs

Alignments == {DescAlign} \cup {s.align : s \in Segments}

\* Alignments are powers of two, of which only this matters: one of any two
\* divides the other.  A segment that exists has data, as the runtime skips a
\* library whose segment is all zeroes (entry.cpp:354).
ASSUME TlsAssumption ==
    /\ App \notin Libs /\ IsFiniteSet(Libs)
    /\ DescSize \in Nat /\ Word \in Nat /\ Blocks \subseteq Nat
    /\ \A a \in Alignments : a \in Nat \ {0}
    /\ \A a, b \in Alignments : a % b = 0 \/ b % a = 0
    /\ \A s \in Segments :
          /\ s.image \in Nat /\ s.size \in Nat
          /\ s.len \in 0 .. s.size
          /\ s.size > 0 => s.len > 0

VARIABLES
    seg,         \* the modules' segments
    tls_offset,  \* the space assigned so far
    loaded,      \* lib_info_list
    offset,      \* tls_offset in the modules' records
    tpSlot,      \* what the TP-relative relocations of a library hold
    phase,
    modules,     \* __libc.tls_head
    tls_cnt,
    tls_align,
    dtp_mod,     \* what the DTPMOD relocations of a library hold
    block,       \* the main thread's block: where it begins and ends
    td,          \* the thread pointer, FS
    dtv

vars == <<seg, tls_offset, loaded, offset, tpSlot, phase, modules, tls_cnt,
          tls_align, dtp_mod, block, td, dtv>>

AlignUp(n, a) == n + ((0 - n) % a)

\* txlat assumes the worst for the executable's segment.
Init == /\ seg \in [Modules -> Segments]
        /\ tls_offset = IF seg[App].size > 0 THEN seg[App].size + seg[App].align - 1 ELSE 0
        /\ loaded = <<>>
        /\ offset = [m \in Modules |-> IF m = App THEN tls_offset ELSE 0]
        /\ tpSlot = [l \in Libs |-> 0]
        /\ phase = "constructors"
        /\ modules = <<>> /\ tls_cnt = 0 /\ tls_align = DescAlign
        /\ dtp_mod = [l \in Libs |-> 0]
        /\ block = [from |-> 0, to |-> 0] /\ td = 0 /\ dtv = <<>>

\* (mutant) the offset is rounded without room for that
ReservedTight(s) ==
    IF s.size = 0 THEN tls_offset
    ELSE LET o == tls_offset + s.size IN o - ((o + s.image) % s.align)

\* (mutant) the image's own misalignment is forgotten
ReservedUnbiased(s) ==
    IF s.size = 0 THEN tls_offset
    ELSE LET o == tls_offset + s.size + s.align - 1 IN o - (o % s.align)

\* Space for one more segment, such that it is aligned as its image is.
Reserved(s) ==
    IF s.size = 0 THEN tls_offset
    ELSE LET o == tls_offset + s.size + s.align - 1
         IN o - ((o + s.image) % s.align)

\* init_lib: the constructors run in any order the host's linker chooses.
InitLib(l) ==
    /\ phase = "constructors"
    /\ ~Contains(loaded, l)
    /\ tls_offset' = Reserved(seg[l])
    /\ offset' = [offset EXCEPT ![l] = tls_offset']
    /\ loaded' = Append(loaded, l)
    /\ tpSlot' = [tpSlot EXCEPT ![l] = tls_offset']
    /\ UNCHANGED <<seg, phase, modules, tls_cnt, tls_align, dtp_mod, block, td, dtv>>

\* The executable's segment: "Correct over alignment".
InitApp ==
    /\ phase = "constructors"
    /\ Len(loaded) = Cardinality(Libs)
    /\ phase' = "modules"
    /\ IF seg[App].size > 0
         THEN /\ tls_cnt' = 1
              /\ offset' = [offset EXCEPT ![App] =
                    @ - (seg[App].align - 1
                         - ((0 - seg[App].image - seg[App].size) % seg[App].align))]
              /\ modules' = <<App>>
              /\ tls_align' = Max({tls_align, seg[App].align})
         ELSE UNCHANGED <<tls_cnt, offset, modules, tls_align>>
    /\ UNCHANGED <<seg, tls_offset, loaded, tpSlot, dtp_mod, block, td, dtv>>

\* (mutant) the number before the library is counted
InitModuleFromZero ==
    /\ phase = "modules" /\ loaded # <<>>
    /\ LET l == Head(loaded) IN
         IF seg[l].len > 0
           THEN /\ tls_cnt' = tls_cnt + 1
                /\ dtp_mod' = [dtp_mod EXCEPT ![l] = tls_cnt]
                /\ tls_align' = Max({tls_align, seg[l].align})
                /\ modules' = Append(modules, l)
           ELSE UNCHANGED <<tls_cnt, dtp_mod, tls_align, modules>>
    /\ loaded' = Tail(loaded)
    /\ UNCHANGED <<seg, tls_offset, offset, tpSlot, phase, block, td, dtv>>

\* The next library of the list.
InitModule ==
    /\ phase = "modules" /\ loaded # <<>>
    /\ LET l == Head(loaded) IN
         IF seg[l].len > 0
           THEN /\ tls_cnt' = tls_cnt + 1
                /\ dtp_mod' = [dtp_mod EXCEPT ![l] = tls_cnt']
                /\ tls_align' = Max({tls_align, seg[l].align})
                /\ modules' = Append(modules, l)
           ELSE UNCHANGED <<tls_cnt, dtp_mod, tls_align, modules>>
    /\ loaded' = Tail(loaded)
    /\ UNCHANGED <<seg, tls_offset, offset, tpSlot, phase, block, td, dtv>>

tls_size == AlignUp((1 + tls_cnt) * Word + tls_offset + DescSize + tls_align * 2, tls_align)

\* The main thread's block, its thread descriptor and its dtv.
AllocateBlock(b) ==
    /\ phase = "modules" /\ loaded = <<>>
    /\ phase' = "running"
    /\ block' = [from |-> b, to |-> b + tls_size]
    /\ td' = LET p == b + tls_size - DescSize IN p - (p % tls_align)
    /\ dtv' = [i \in 1 .. Len(modules) |-> td' - offset[modules[i]]]
    /\ UNCHANGED <<seg, tls_offset, loaded, offset, tpSlot, modules, tls_cnt,
                   tls_align, dtp_mod>>

Running == phase = "running" /\ UNCHANGED vars

Next == \/ \E l \in Libs : InitLib(l)
        \/ InitApp \/ InitModule
        \/ \E b \in Blocks : AllocateBlock(b)
        \/ Running

Spec == Init /\ [][Next]_vars

-----------------------------------------------------------------------------
\* The bytes of a module's variables in the main thread's block.
Start(m) == td - offset[m]
HasTls(m) == seg[m].size > 0
Bytes(m) == Start(m) .. Start(m) + seg[m].size - 1

\* Whatever the sizes and alignments of the modules and the order of the
\* constructors, the modules' variables overlap neither each other nor the dtv
\* nor the descriptor, and the block holds them all: the sum that
\* initialise_dynamic_runtime makes covers what init_lib and txlat have reserved.
SegmentsDisjoint ==
    phase = "running" =>
        /\ \A m \in Modules : HasTls(m) =>
              /\ Start(m) >= block.from + (1 + tls_cnt) * Word
              /\ Start(m) + seg[m].size <= td
        /\ td + DescSize <= block.to
        /\ \A m, n \in Modules : m # n => Bytes(m) \cap Bytes(n) = {}

\* Each module's variables, in the executable with its corrected offset and in
\* the libraries, are as aligned as their image is, in any block new[] returns.
SegmentsAligned ==
    phase = "running" =>
        \A m \in Modules : HasTls(m) => (Start(m) - seg[m].image) % seg[m].align = 0

\* __tls_get_addr with the module number of a library's relocations finds that
\* library's variables.
DtvFindsModule ==
    phase = "running" =>
        \A l \in Libs : HasTls(l) =>
            /\ dtp_mod[l] \in DOMAIN dtv
            /\ dtv[dtp_mod[l]] = Start(l)

-----------------------------------------------------------------------------
(* The inductive invariant *)

Typed ==
    /\ seg \in [Modules -> Segments]
    /\ tls_offset \in Nat /\ offset \in [Modules -> Nat]
    /\ phase \in {"constructors", "modules", "running"}
    /\ loaded \in Seq(Libs) /\ modules \in Seq(Modules)
    /\ tls_cnt \in Nat /\ tls_align \in Alignments
    /\ dtp_mod \in [Libs -> Nat]
    /\ td \in Int /\ block \in [from : Nat, to : Int]

\* While constructors run nothing is numbered, each library of the list is there
\* once, and the executable has the worst case reserved.
Constructing ==
    phase = "constructors" =>
        /\ tls_cnt = 0 /\ modules = <<>>
        /\ \A i, j \in DOMAIN loaded : loaded[i] = loaded[j] => i = j
        /\ offset[App] = IF HasTls(App) THEN seg[App].size + seg[App].align - 1 ELSE 0

Assigned(l) == phase = "constructors" => Contains(loaded, l)

\* Each segment has room between its offset and the executable's, below the
\* space assigned in all; no two libraries have the same room.
Apart ==
    /\ seg[App].size <= offset[App] /\ offset[App] <= tls_offset
    /\ \A l \in Libs : Assigned(l) =>
          /\ offset[App] + seg[l].size <= offset[l] /\ offset[l] <= tls_offset
          /\ \A m \in Libs \ {l} : Assigned(m) =>
                \/ offset[m] + seg[l].size <= offset[l]
                \/ offset[l] + seg[m].size <= offset[m]

\* Rounded so that the image is aligned; the executable's offset by InitApp.
Rounded(m) == HasTls(m) => (offset[m] + seg[m].image) % seg[m].align = 0
AllRounded ==
    /\ phase # "constructors" => Rounded(App)
    /\ \A l \in Libs : Assigned(l) => Rounded(l)

\* Modules that are no longer in the list have a number and a say in tls_align.
Numbered ==
    phase # "constructors" =>
        /\ Len(modules) = tls_cnt
        /\ HasTls(App) => seg[App].align <= tls_align
        /\ \A l \in Libs : HasTls(l) /\ ~Contains(loaded, l) =>
              /\ dtp_mod[l] \in 1 .. tls_cnt /\ modules[dtp_mod[l]] = l
              /\ seg[l].align <= tls_align

\* The thread pointer is aligned, above all the space and below the descriptor.
Placed ==
    phase = "running" =>
        /\ loaded = <<>>
        /\ block.from + (1 + tls_cnt) * Word + tls_offset <= td /\ td + DescSize <= block.to
        /\ td % tls_align = 0
        /\ dtv = [i \in 1 .. Len(modules) |-> td - offset[modules[i]]]

TlsInv == Typed /\ Constructing /\ Apart /\ AllRounded /\ Numbered /\ Placed
=============================================================================
