-------------------------- MODULE StaticTlsProofs --------------------------
(* The layout of thread-local storage is right for every number of           *)
(* libraries, every order of their constructors, all segments and all        *)
(* addresses of the block: from TlsInv, which says what the space assigned   *)
(* so far holds, and what of it the runtime has numbered.                    *)
EXTENDS StaticTls, FiniteSetTheorems, TLAPS

-----------------------------------------------------------------------------
(* Remainders *)

LEMMA Remainder ==
    ASSUME NEW n \in Int, NEW a \in Nat \ {0}
    PROVE  n % a \in 0 .. a - 1
  OBVIOUS

LEMMA Quotient ==
    ASSUME NEW n \in Int, NEW a \in Nat \ {0}
    PROVE  \E q \in Int : n = q * a + (n % a)
<1>1. n \div a \in Int
  OBVIOUS
<1>2. n = (n \div a) * a + (n % a)
  OBVIOUS
<1> QED  BY <1>1, <1>2

LEMMA MultipleOf ==
    ASSUME NEW n \in Int, NEW a \in Nat \ {0}, n % a = 0
    PROVE  \E q \in Int : n = q * a
<1>1. PICK q \in Int : n = q * a + (n % a)
  BY Quotient
<1>2. q * a \in Int
  OBVIOUS
<1>3. n = q * a
  BY <1>1, <1>2
<1> QED  BY <1>3

LEMMA Multiple ==
    ASSUME NEW q \in Int, NEW a \in Nat \ {0}
    PROVE  (q * a) % a = 0
  OBVIOUS

\* Rounding down gives a multiple.
LEMMA RoundedDown ==
    ASSUME NEW n \in Int, NEW a \in Nat \ {0}
    PROVE  (n - (n % a)) % a = 0 /\ n - (n % a) \in Int
<1>1. PICK q \in Int : n = q * a + (n % a)
  BY Quotient
<1>2. n % a \in Int
  BY Remainder
<1>3. q * a \in Int
  OBVIOUS
<1>4. n - (n % a) = q * a
  BY <1>1, <1>2, <1>3
<1> QED  BY <1>3, <1>4, Multiple

\* What is added to reach the next multiple.
LEMMA RoundedUp ==
    ASSUME NEW n \in Int, NEW a \in Nat \ {0}
    PROVE  (n + ((0 - n) % a)) % a = 0
<1> DEFINE m == 0 - n
<1>1. m \in Int /\ n = 0 - m
  OBVIOUS
<1>2. PICK q \in Int : m = q * a + (m % a)
  BY <1>1, Quotient
<1>3. m % a \in Int /\ q * a \in Int /\ (0 - q) * a = 0 - q * a
  BY <1>1, Remainder
<1> HIDE DEF m
<1>4. n + (m % a) = (0 - q) * a
  BY <1>1, <1>2, <1>3
<1>5. (n + (m % a)) % a = 0
  BY <1>4, Multiple
<1> QED  BY <1>5 DEF m

LEMMA MultiplesDiffer ==
    ASSUME NEW m \in Int, NEW n \in Int, NEW a \in Nat \ {0}, m % a = 0, n % a = 0
    PROVE  (m - n) % a = 0
<1>1. PICK q \in Int : m = q * a
  BY MultipleOf
<1>2. PICK r \in Int : n = r * a
  BY MultipleOf
<1>3. m - n = (q - r) * a
  BY <1>1, <1>2
<1> QED  BY <1>3, Multiple

LEMMA MultipleOfMultiple ==
    ASSUME NEW n \in Int, NEW a \in Nat \ {0}, NEW b \in Nat \ {0}, n % b = 0, b % a = 0
    PROVE  n % a = 0
<1>1. PICK q \in Int : n = q * b
  BY MultipleOf
<1>2. PICK r \in Int : b = r * a
  BY MultipleOf
<1>3. n = (q * r) * a /\ q * r \in Int
  BY <1>1, <1>2
<1> QED  BY <1>3, Multiple

\* The greater of two alignments is a multiple of the other.
LEMMA GreaterIsMultiple ==
    ASSUME NEW a \in Alignments, NEW b \in Alignments, a <= b
    PROVE  b % a = 0
<1>1. a \in Nat \ {0} /\ b \in Nat \ {0} /\ (a % b = 0 \/ b % a = 0)
  BY TlsAssumption
<1>2. CASE a = b
  BY <1>1, <1>2
<1>3. CASE a < b
  BY <1>1, <1>3
<1> QED  BY <1>1, <1>2, <1>3

LEMMA MaxOfTwo ==
    ASSUME NEW a \in Int, NEW b \in Int
    PROVE  /\ Max({a, b}) \in {a, b}
           /\ a <= Max({a, b}) /\ b <= Max({a, b})
<1>1. \E x \in {a, b} : \A y \in {a, b} : x >= y
  OBVIOUS
<1> QED  BY <1>1 DEF Max

-----------------------------------------------------------------------------
LEMMA SegmentFacts ==
    ASSUME Typed, NEW m \in Modules
    PROVE  /\ seg[m] \in Segments /\ seg[m].size \in Nat /\ seg[m].image \in Nat
           /\ seg[m].align \in Alignments /\ seg[m].align \in Nat \ {0}
           /\ HasTls(m) => seg[m].len > 0
           /\ offset[m] \in Nat
  BY TlsAssumption DEF Typed, Alignments, HasTls

LEMMA ModuleSets ==
    /\ App \in Modules /\ \A l \in Libs : l \in Modules /\ l # App
    /\ \A m \in Modules : m = App \/ m \in Libs
  BY TlsAssumption DEF Modules

LEMMA TlsInit == Init => TlsInv
<1> SUFFICES ASSUME Init  PROVE TlsInv
  OBVIOUS
<1>1. seg \in [Modules -> Segments] /\ seg[App] \in Segments
  BY ModuleSets DEF Init
<1>2. seg[App].size \in Nat /\ seg[App].align \in Nat \ {0}
  BY <1>1, TlsAssumption DEF Alignments
<1>3. tls_offset \in Nat /\ seg[App].size <= tls_offset
  BY <1>2 DEF Init
<1>4. Typed
  BY <1>1, <1>3, TlsAssumption DEF Init, Typed, Alignments
<1>5. ~ \E l \in Libs : Contains(loaded, l)
  BY DEF Init, Contains
<1>6. offset[App] = tls_offset
  BY ModuleSets DEF Init
<1>7. Constructing
  BY <1>6 DEF Init, Constructing, HasTls
<1>8. Apart
  BY <1>3, <1>5, <1>6 DEF Init, Apart, Assigned
<1>9. AllRounded /\ Numbered /\ Placed
  BY <1>5 DEF Init, AllRounded, Numbered, Placed, Assigned
<1> QED  BY <1>4, <1>7, <1>8, <1>9 DEF TlsInv

\* A library gets room above what is assigned, enough for its segment, and an
\* offset at which its image is aligned.
LEMMA ReservedFacts ==
    ASSUME Typed, NEW l \in Libs
    PROVE  /\ Reserved(seg[l]) \in Nat
           /\ tls_offset + seg[l].size <= Reserved(seg[l])
           /\ HasTls(l) => (Reserved(seg[l]) + seg[l].image) % seg[l].align = 0
<1> DEFINE s == seg[l]
           o == tls_offset + s.size + s.align - 1
           n == o + s.image
<1>1. /\ s.size \in Nat /\ s.image \in Nat /\ s.align \in Nat \ {0} /\ tls_offset \in Nat
  BY SegmentFacts, ModuleSets DEF Typed
<1>2. o \in Nat /\ n \in Int
  BY <1>1
<1>3. CASE s.size = 0
  BY <1>1, <1>3 DEF Reserved, HasTls
<1>4. CASE s.size # 0
  <2>1. Reserved(s) = o - (n % s.align)
    BY <1>4 DEF Reserved
  <2>2. n % s.align \in 0 .. s.align - 1
    BY <1>1, <1>2, Remainder
  <2>3. (n - (n % s.align)) % s.align = 0
    BY <1>1, <1>2, RoundedDown
  <2>4. Reserved(s) + s.image = n - (n % s.align)
    BY <1>1, <1>2, <2>1, <2>2
  <2>5. Reserved(s) \in Nat /\ tls_offset + s.size <= Reserved(s)
    BY <1>1, <2>1, <2>2
  <2> QED  BY <2>3, <2>4, <2>5
<1> QED  BY <1>3, <1>4

LEMMA TlsInitLib ==
    ASSUME TlsInv, NEW l \in Libs, InitLib(l)
    PROVE  TlsInv'
<1>1. /\ Typed /\ phase = "constructors" /\ phase' = phase /\ ~Contains(loaded, l)
      /\ tls_offset' = Reserved(seg[l])
      /\ offset' = [offset EXCEPT ![l] = tls_offset']
      /\ loaded' = Append(loaded, l)
      /\ UNCHANGED <<seg, phase, modules, tls_cnt, tls_align, dtp_mod, block, td, dtv>>
  BY DEF InitLib, TlsInv
<1>2. /\ tls_offset' \in Nat /\ tls_offset + seg[l].size <= tls_offset'
      /\ HasTls(l) => (tls_offset' + seg[l].image) % seg[l].align = 0
  BY <1>1, ReservedFacts
<1>3. l \in Modules /\ l # App /\ App \in Modules
  BY ModuleSets
<1>4. /\ offset' \in [Modules -> Nat] /\ offset'[l] = tls_offset'
      /\ \A m \in Modules \ {l} : offset'[m] = offset[m]
  BY <1>1, <1>2, <1>3 DEF Typed
<1>5. /\ loaded \in Seq(Libs) /\ loaded' \in Seq(Libs) /\ Len(loaded') = Len(loaded) + 1
      /\ loaded'[Len(loaded) + 1] = l
      /\ \A i \in 1 .. Len(loaded) : loaded'[i] = loaded[i]
      /\ DOMAIN loaded' = 1 .. Len(loaded) + 1 /\ Len(loaded) \in Nat
  BY <1>1 DEF Typed
<1>6. \A m \in Libs : m # l /\ Contains(loaded', m) => Contains(loaded, m)
  <2> SUFFICES ASSUME NEW m \in Libs, m # l, NEW i \in 1 .. Len(loaded'), loaded'[i] = m
               PROVE  Contains(loaded, m)
    BY DEF Contains
  <2>1. i \in 1 .. Len(loaded)
    BY <1>5
  <2> QED  BY <1>5, <2>1 DEF Contains
<1>7. Typed'
  BY <1>1, <1>2, <1>4, <1>5 DEF Typed
<1>8. Constructing'
  <2>1. ASSUME NEW i \in DOMAIN loaded', NEW j \in DOMAIN loaded', loaded'[i] = loaded'[j]
        PROVE  i = j
    <3>1. \A h \in 1 .. Len(loaded) : loaded[h] # l
      BY <1>1 DEF Contains
    <3>2. DOMAIN loaded = 1 .. Len(loaded)
      BY <1>5
    <3>3. i \in 1 .. Len(loaded) \/ i = Len(loaded) + 1
      BY <1>5
    <3>4. j \in 1 .. Len(loaded) \/ j = Len(loaded) + 1
      BY <1>5
    <3> QED  BY <1>1, <1>5, <2>1, <3>1, <3>2, <3>3, <3>4 DEF TlsInv, Constructing
  <2> QED  BY <1>1, <1>3, <1>4, <2>1 DEF TlsInv, Constructing, HasTls
<1>9. Apart'
  <2>1. seg[App].size \in Nat /\ seg[l].size \in Nat /\ offset[App] \in Nat /\ tls_offset \in Nat
    BY <1>1, <1>3, SegmentFacts DEF Typed
  <2>2. /\ seg[App].size <= offset[App] /\ offset[App] <= tls_offset
    BY DEF TlsInv, Apart
  <2>3. ASSUME NEW k \in Libs \ {l}, Contains(loaded', k)
        PROVE  /\ offset[App] + seg[k].size <= offset[k] /\ offset[k] <= tls_offset
               /\ offset'[k] = offset[k] /\ k \in Modules /\ Contains(loaded, k)
               /\ offset[k] \in Nat /\ seg[k].size \in Nat
    <3>1. Contains(loaded, k) /\ k \in Modules
      BY <1>6, <2>3, ModuleSets
    <3>2. offset[k] \in Nat /\ seg[k].size \in Nat
      BY <1>1, <3>1, SegmentFacts
    <3> QED  BY <1>1, <1>4, <3>1, <3>2 DEF TlsInv, Apart, Assigned
  <2>4. ASSUME NEW k \in Libs, Contains(loaded', k)
        PROVE  /\ offset'[App] + seg[k].size <= offset'[k] /\ offset'[k] <= tls_offset'
               /\ \A m \in Libs \ {k} : Contains(loaded', m) =>
                    \/ offset'[m] + seg[k].size <= offset'[k]
                    \/ offset'[k] + seg[m].size <= offset'[m]
    <3>1. CASE k = l
      <4>1. offset'[App] + seg[k].size <= offset'[k]
        BY <1>2, <1>3, <1>4, <2>1, <2>2, <3>1
      <4>2. ASSUME NEW m \in Libs \ {k}, Contains(loaded', m)
            PROVE  offset'[m] + seg[k].size <= offset'[k]
        BY <1>2, <1>4, <2>1, <2>3, <3>1, <4>2
      <4> QED  BY <1>2, <1>4, <3>1, <4>1, <4>2
    <3>2. CASE k # l
      <4>1. offset'[App] + seg[k].size <= offset'[k] /\ offset'[k] <= tls_offset'
        BY <1>2, <1>3, <1>4, <2>1, <2>3, <2>4, <3>2
      <4>2. ASSUME NEW m \in Libs \ {k}, Contains(loaded', m)
            PROVE  \/ offset'[m] + seg[k].size <= offset'[k]
                   \/ offset'[k] + seg[m].size <= offset'[m]
        <5>1. CASE m = l
          BY <1>2, <1>4, <2>1, <2>3, <2>4, <3>2, <5>1
        <5>2. CASE m # l
          BY <1>1, <2>3, <2>4, <3>2, <4>2, <5>2 DEF TlsInv, Apart, Assigned
        <5> QED  BY <5>1, <5>2
      <4> QED  BY <4>1, <4>2
    <3> QED  BY <3>1, <3>2
  <2>5. seg[App].size <= offset'[App] /\ offset'[App] <= tls_offset'
    BY <1>2, <1>3, <1>4, <2>1, <2>2
  <2> QED  BY <1>1, <2>4, <2>5 DEF Apart, Assigned
<1>10. AllRounded'
  <2>1. ASSUME NEW k \in Libs, Contains(loaded', k), HasTls(k)
        PROVE  (offset'[k] + seg[k].image) % seg[k].align = 0
    <3>1. CASE k = l
      BY <1>2, <1>4, <2>1, <3>1
    <3>2. CASE k # l
      <4>1. Contains(loaded, k) /\ offset'[k] = offset[k]
        BY <1>4, <1>6, <2>1, <3>2, ModuleSets
      <4> QED  BY <1>1, <2>1, <4>1 DEF TlsInv, AllRounded, Assigned, Rounded
    <3> QED  BY <3>1, <3>2
  <2> QED  BY <1>1, <2>1 DEF AllRounded, Assigned, Rounded, HasTls
<1>11. Numbered' /\ Placed'
  BY <1>1 DEF Numbered, Placed
<1> QED  BY <1>7, <1>8, <1>9, <1>10, <1>11 DEF TlsInv

\* When the constructors have run, every library is in the list.
LEMMA AllLoaded ==
    ASSUME TlsInv, phase = "constructors", Len(loaded) = Cardinality(Libs)
    PROVE  \A l \in Libs : Contains(loaded, l)
<1> DEFINE n == Len(loaded)
<1>1. loaded \in [1 .. n -> Libs] /\ n \in Nat
  BY DEF TlsInv, Typed
<1>2. loaded \in Injection(1 .. n, Libs)
  BY <1>1 DEF TlsInv, Constructing, Injection, IsInjective
<1>3. Cardinality(1 .. n) = n
  BY <1>1, FS_Interval
<1>4. loaded \in Surjection(1 .. n, Libs)
  BY <1>2, <1>3, FS_Injection, TlsAssumption
<1>5. \A l \in Libs : \E i \in 1 .. n : loaded[i] = l
  BY <1>4 DEF Surjection
<1> QED  BY <1>5 DEF Contains

\* The executable's offset shrinks from the worst case to what its alignment takes.
LEMMA Corrected ==
    ASSUME TlsInv, phase = "constructors", HasTls(App),
           NEW o, o = offset[App] - (seg[App].align - 1
                    - ((0 - seg[App].image - seg[App].size) % seg[App].align))
    PROVE  /\ o \in Nat /\ seg[App].size <= o /\ o <= offset[App]
           /\ (o + seg[App].image) % seg[App].align = 0
<1> DEFINE s == seg[App]
           n == s.image + s.size
           r == (0 - n) % s.align
<1>1. s.size \in Nat /\ s.image \in Nat /\ s.align \in Nat \ {0} /\ n \in Int
  BY SegmentFacts, ModuleSets DEF TlsInv
<1>2. offset[App] = s.size + s.align - 1
  BY DEF TlsInv, Constructing
<1>3. r \in 0 .. s.align - 1
  <2> HIDE DEF n, s
  <2>1. 0 - n \in Int /\ s.align \in Nat \ {0}
    BY <1>1
  <2> QED  BY <2>1, Remainder
<1>4. (n + r) % s.align = 0
  BY <1>1, RoundedUp
<1>5. 0 - s.image - s.size = 0 - n
  BY <1>1
<1>6. o = offset[App] - (s.align - 1 - r)
  BY <1>5
<1> HIDE DEF r
<1>7. o = s.size + r /\ o + s.image = n + r
  BY <1>1, <1>2, <1>3, <1>6
<1> HIDE DEF n
<1>8. (o + s.image) % s.align = 0
  BY <1>4, <1>7
<1> QED  BY <1>1, <1>2, <1>3, <1>7, <1>8

LEMMA TlsInitApp ==
    ASSUME TlsInv, InitApp
    PROVE  TlsInv'
<1>1. /\ Typed /\ phase = "constructors" /\ phase' = "modules"
      /\ UNCHANGED <<seg, tls_offset, loaded, dtp_mod, block, td, dtv>>
  BY DEF InitApp, TlsInv
<1>2. \A l \in Libs : Contains(loaded, l)
  BY <1>1, AllLoaded DEF InitApp
<1>3. tls_cnt = 0 /\ modules = <<>>
  BY <1>1 DEF TlsInv, Constructing
<1>4. /\ App \in Modules /\ \A l \in Libs : l \in Modules /\ l # App
  BY ModuleSets
<1>5. /\ seg[App].size \in Nat /\ seg[App].align \in Alignments
      /\ tls_align \in Alignments /\ Alignments \subseteq Nat
      /\ offset \in [Modules -> Nat]
  BY <1>1, <1>4, SegmentFacts, TlsAssumption DEF Typed
<1>6. /\ offset' \in [Modules -> Nat]
      /\ seg[App].size <= offset'[App] /\ offset'[App] <= offset[App]
      /\ \A l \in Libs : offset'[l] = offset[l]
      /\ HasTls(App) => (offset'[App] + seg[App].image) % seg[App].align = 0
      /\ HasTls(App) => seg[App].align <= tls_align'
      /\ tls_align' \in Alignments
      /\ modules' \in Seq(Modules) /\ tls_cnt' \in Nat /\ Len(modules') = tls_cnt'
  <2>1. CASE HasTls(App)
    <3>1. /\ tls_cnt' = 1 /\ modules' = <<App>>
          /\ tls_align' = Max({tls_align, seg[App].align})
          /\ offset' = [offset EXCEPT ![App] =
                    @ - (seg[App].align - 1
                         - ((0 - seg[App].image - seg[App].size) % seg[App].align))]
      BY <2>1 DEF InitApp, HasTls
    <3>2. offset'[App] = offset[App] - (seg[App].align - 1
                    - ((0 - seg[App].image - seg[App].size) % seg[App].align))
      BY <1>4, <1>5, <3>1
    <3>3. /\ offset'[App] \in Nat /\ seg[App].size <= offset'[App]
          /\ offset'[App] <= offset[App]
          /\ (offset'[App] + seg[App].image) % seg[App].align = 0
      BY <1>1, <2>1, <3>2, Corrected
    <3>4. offset' \in [Modules -> Nat] /\ \A l \in Libs : offset'[l] = offset[l]
      <4>1. offset' = [offset EXCEPT ![App] = offset'[App]]
        BY <1>4, <1>5, <3>1
      <4> QED  BY <1>4, <1>5, <3>3, <4>1
    <3>5. tls_align' \in Alignments /\ seg[App].align <= tls_align'
      <4>1. tls_align \in Int /\ seg[App].align \in Int
        BY <1>5
      <4>2. /\ tls_align' \in {tls_align, seg[App].align}
            /\ seg[App].align <= tls_align'
        BY <3>1, <4>1, MaxOfTwo
      <4> QED  BY <1>5, <4>2
    <3>6. modules' \in Seq(Modules) /\ tls_cnt' \in Nat /\ Len(modules') = tls_cnt'
      BY <1>4, <3>1
    <3> QED  BY <3>3, <3>4, <3>5, <3>6
  <2>2. CASE ~HasTls(App)
    <3>1. UNCHANGED <<tls_cnt, offset, modules, tls_align>>
      BY <2>2 DEF InitApp, HasTls
    <3>2. seg[App].size <= offset[App] /\ offset[App] \in Nat
      BY <1>4, <1>5 DEF TlsInv, Apart
    <3> QED  BY <1>1, <1>3, <1>5, <2>2, <3>1, <3>2 DEF Typed
  <2> QED  BY <2>1, <2>2
<1>7. Typed'
  BY <1>1, <1>6 DEF Typed
<1>8. Constructing' /\ Placed'
  BY <1>1 DEF Constructing, Placed
<1>9. Apart'
  <2>1. offset[App] \in Nat /\ offset'[App] \in Nat /\ tls_offset \in Nat
    BY <1>1, <1>4, <1>5, <1>6 DEF Typed
  <2>2. ASSUME NEW l \in Libs
        PROVE  /\ offset[App] + seg[l].size <= offset[l] /\ offset[l] <= tls_offset
               /\ \A m \in Libs \ {l} : \/ offset[m] + seg[l].size <= offset[l]
                                        \/ offset[l] + seg[m].size <= offset[m]
               /\ offset[l] \in Nat /\ seg[l].size \in Nat
    <3>1. offset[l] \in Nat /\ seg[l].size \in Nat
      BY <1>1, <1>4, SegmentFacts
    <3> QED  BY <1>2, <3>1 DEF TlsInv, Apart, Assigned
  <2>3. ASSUME NEW l \in Libs
        PROVE  offset'[App] + seg[l].size <= offset'[l]
    BY <1>6, <2>1, <2>2
  <2>4. offset'[App] <= tls_offset
    BY <1>6, <2>1 DEF TlsInv, Apart
  <2> QED  BY <1>1, <1>6, <2>2, <2>3, <2>4 DEF Apart
<1>10. AllRounded'
  <2>1. \A l \in Libs : Rounded(l)
    BY <1>2 DEF TlsInv, AllRounded, Assigned
  <2> QED  BY <1>1, <1>6, <2>1 DEF AllRounded, Rounded, HasTls
<1>11. Numbered'
  BY <1>1, <1>2, <1>6 DEF Numbered, HasTls
<1> QED  BY <1>7, <1>8, <1>9, <1>10, <1>11 DEF TlsInv

LEMMA TlsInitModule ==
    ASSUME TlsInv, InitModule
    PROVE  TlsInv'
<1> DEFINE l == Head(loaded)
<1>1. /\ Typed /\ phase = "modules" /\ phase' = phase /\ loaded # <<>>
      /\ loaded' = Tail(loaded)
      /\ UNCHANGED <<seg, tls_offset, offset, block, td, dtv>>
  BY DEF InitModule, TlsInv
<1>2. /\ l \in Libs /\ l \in Modules /\ Tail(loaded) \in Seq(Libs)
  BY <1>1, ModuleSets DEF Typed
<1>3. \A k \in Libs : Contains(loaded, k) => k = l \/ Contains(loaded', k)
  <2> SUFFICES ASSUME NEW k \in Libs, NEW i \in 1 .. Len(loaded), loaded[i] = k, k # l
               PROVE  Contains(loaded', k)
    BY DEF Contains
  <2>1. loaded \in Seq(Libs) /\ i # 1
    BY <1>1 DEF Typed
  <2>2. i - 1 \in 1 .. Len(loaded') /\ loaded'[i - 1] = k
    BY <1>1, <2>1
  <2> QED  BY <2>2 DEF Contains
<1>4. /\ tls_cnt \in Nat /\ modules \in Seq(Modules) /\ Len(modules) = tls_cnt
      /\ tls_align \in Alignments /\ seg[l].align \in Alignments
      /\ Alignments \subseteq Nat /\ dtp_mod \in [Libs -> Nat]
  BY <1>1, <1>2, SegmentFacts, TlsAssumption DEF Typed, TlsInv, Numbered
<1>5. /\ HasTls(App) => seg[App].align <= tls_align
      /\ \A k \in Libs : HasTls(k) /\ ~Contains(loaded, k) =>
              /\ dtp_mod[k] \in 1 .. tls_cnt /\ modules[dtp_mod[k]] = k
              /\ seg[k].align <= tls_align
  BY <1>1 DEF TlsInv, Numbered
<1>6. /\ modules' \in Seq(Modules) /\ tls_cnt' \in Nat /\ Len(modules') = tls_cnt'
      /\ dtp_mod' \in [Libs -> Nat]
      /\ tls_align' \in Alignments /\ tls_align <= tls_align'
      /\ tls_cnt <= tls_cnt'
      /\ \A k \in 1 .. tls_cnt : modules'[k] = modules[k]
      /\ \A k \in Libs \ {l} : dtp_mod'[k] = dtp_mod[k]
      /\ HasTls(l) => /\ dtp_mod'[l] \in 1 .. tls_cnt' /\ modules'[dtp_mod'[l]] = l
                      /\ seg[l].align <= tls_align'
  <2>1. CASE seg[l].len > 0
    <3>1. /\ tls_cnt' = tls_cnt + 1
          /\ dtp_mod' = [dtp_mod EXCEPT ![l] = tls_cnt']
          /\ tls_align' = Max({tls_align, seg[l].align})
          /\ modules' = Append(modules, l)
      BY <2>1 DEF InitModule
    <3>2. tls_align \in Int /\ seg[l].align \in Int
      <4>1. \A x \in Alignments : x \in Int
        BY TlsAssumption
      <4> QED  BY <1>1, <1>2, <4>1, SegmentFacts DEF Typed
    <3>3. /\ tls_align' \in {tls_align, seg[l].align}
          /\ tls_align <= tls_align' /\ seg[l].align <= tls_align'
      BY <3>1, <3>2, MaxOfTwo
    <3>4. tls_align' \in Alignments
      BY <1>4, <3>3
    <3>5. dtp_mod'[l] = tls_cnt + 1 /\ dtp_mod' \in [Libs -> Nat]
          /\ \A k \in Libs \ {l} : dtp_mod'[k] = dtp_mod[k]
      BY <1>2, <1>4, <3>1
    <3>6. /\ modules' \in Seq(Modules) /\ Len(modules') = tls_cnt + 1
          /\ modules'[tls_cnt + 1] = l /\ \A k \in 1 .. tls_cnt : modules'[k] = modules[k]
      BY <1>2, <1>4, <3>1
    <3> QED  BY <1>4, <3>1, <3>3, <3>4, <3>5, <3>6
  <2>2. CASE ~(seg[l].len > 0)
    <3>1. UNCHANGED <<tls_cnt, dtp_mod, tls_align, modules>>
      BY <2>2 DEF InitModule
    <3>2. ~HasTls(l)
      BY <1>1, <1>2, <2>2, SegmentFacts
    <3> QED  BY <1>4, <3>1, <3>2
  <2> QED  BY <2>1, <2>2
<1>7. Typed'
  BY <1>1, <1>2, <1>6 DEF Typed
<1>8. Constructing' /\ Placed'
  BY <1>1 DEF Constructing, Placed
<1>9. Apart' /\ AllRounded'
  BY <1>1 DEF TlsInv, Apart, AllRounded, Assigned, Rounded, HasTls
<1>10. Numbered'
  <2>1. HasTls(App) => seg[App].align <= tls_align'
    <3>1. seg[App].align \in Nat /\ tls_align \in Nat /\ tls_align' \in Nat
      BY <1>1, <1>4, <1>6, ModuleSets, SegmentFacts
    <3> QED  BY <1>5, <1>6, <3>1
  <2>2. ASSUME NEW k \in Libs, HasTls(k), ~Contains(loaded', k)
        PROVE  /\ dtp_mod'[k] \in 1 .. tls_cnt' /\ modules'[dtp_mod'[k]] = k
               /\ seg[k].align <= tls_align'
    <3>1. CASE k = l
      BY <1>6, <2>2, <3>1
    <3>2. CASE k # l
      <4>1. ~Contains(loaded, k)
        BY <1>3, <2>2, <3>2
      <4>2. seg[k].align \in Nat /\ tls_align \in Nat /\ tls_align' \in Nat
        BY <1>1, <1>4, <1>6, ModuleSets, SegmentFacts
      <4> QED  BY <1>4, <1>5, <1>6, <2>2, <3>2, <4>1, <4>2
    <3> QED  BY <3>1, <3>2
  <2> QED  BY <1>1, <1>6, <2>1, <2>2 DEF Numbered, HasTls
<1> QED  BY <1>7, <1>8, <1>9, <1>10 DEF TlsInv

LEMMA TlsAllocate ==
    ASSUME TlsInv, NEW b \in Blocks, AllocateBlock(b)
    PROVE  TlsInv'
<1> DEFINE a == tls_align
           n == (1 + tls_cnt) * Word + tls_offset + DescSize + a * 2
           p == b + tls_size - DescSize
<1>1. /\ Typed /\ phase = "modules" /\ phase' = "running" /\ loaded = <<>>
      /\ block' = [from |-> b, to |-> b + tls_size]
      /\ td' = p - (p % a)
      /\ dtv' = [i \in 1 .. Len(modules) |-> td' - offset[modules[i]]]
      /\ UNCHANGED <<seg, tls_offset, loaded, offset, modules, tls_cnt, tls_align, dtp_mod>>
  BY DEF AllocateBlock, TlsInv
<1>2. /\ b \in Nat /\ DescSize \in Nat /\ Word \in Nat /\ a \in Nat \ {0}
      /\ tls_cnt \in Nat /\ tls_offset \in Nat
  BY <1>1, TlsAssumption DEF Typed
<1>3. (1 + tls_cnt) * Word \in Nat
  BY <1>2
<1>4. n \in Nat
  BY <1>2, <1>3
<1>5. (0 - n) % a \in 0 .. a - 1
  BY <1>2, <1>4, Remainder
<1>6. tls_size = n + ((0 - n) % a)
  BY DEF tls_size, AlignUp
<1>7. tls_size \in Nat /\ n <= tls_size
  BY <1>4, <1>5, <1>6
<1>8. p \in Int
  BY <1>2, <1>7
<1>9. p % a \in 0 .. a - 1 /\ td' % a = 0 /\ td' \in Int
  BY <1>1, <1>2, <1>8, Remainder, RoundedDown
<1>10. /\ b + (1 + tls_cnt) * Word + tls_offset <= td'
       /\ td' + DescSize <= b + tls_size
  <2> DEFINE w == (1 + tls_cnt) * Word
             r == p % a
  <2>1. w \in Nat /\ n = w + tls_offset + DescSize + a * 2 /\ r \in 0 .. a - 1
        /\ td' = p - r /\ p = b + tls_size - DescSize
    BY <1>1, <1>3, <1>9
  <2> HIDE DEF w, r, n, p, a
  <2>2. a \in Nat \ {0}
    BY <1>2
  <2> QED  BY <1>2, <1>7, <2>1, <2>2 DEF w
<1>11. Typed'
  BY <1>1, <1>2, <1>7, <1>9 DEF Typed
<1>12. Constructing'
  BY <1>1 DEF Constructing
<1>13. Apart' /\ AllRounded'
  BY <1>1 DEF TlsInv, Apart, AllRounded, Assigned, Rounded, HasTls
<1>14. Numbered'
  BY <1>1 DEF TlsInv, Numbered, HasTls
<1>15. Placed'
  BY <1>1, <1>9, <1>10 DEF Placed
<1> QED  BY <1>11, <1>12, <1>13, <1>14, <1>15 DEF TlsInv

LEMMA TlsStep == TlsInv /\ [Next]_vars => TlsInv'
<1> SUFFICES ASSUME TlsInv, [Next]_vars  PROVE TlsInv'
  OBVIOUS
<1>1. CASE UNCHANGED vars
  BY <1>1 DEF vars, TlsInv, Typed, Constructing, Apart, AllRounded, Numbered, Placed,
              Assigned, Rounded, HasTls
<1>2. CASE Running
  BY <1>1, <1>2 DEF Running
<1> QED  BY <1>1, <1>2, TlsInitLib, TlsInitApp, TlsInitModule, TlsAllocate DEF Next

LEMMA TlsAlways == Spec => []TlsInv
  BY TlsInit, TlsStep, PTL DEF Spec

-----------------------------------------------------------------------------
\* The modules' variables overlap neither each other nor the dtv nor the
\* descriptor, though constructors, txlat and the runtime each compute a part.
THEOREM LayoutDisjoint == Spec => []SegmentsDisjoint
<1>1. TlsInv => SegmentsDisjoint
  <2> SUFFICES ASSUME TlsInv, phase = "running"  PROVE SegmentsDisjoint
    BY DEF SegmentsDisjoint
  <2>1. /\ td \in Int /\ tls_offset \in Nat /\ block.from \in Nat /\ (1 + tls_cnt) * Word \in Nat
        /\ block.from + (1 + tls_cnt) * Word + tls_offset <= td /\ td + DescSize <= block.to
    BY TlsAssumption DEF TlsInv, Typed, Placed
  <2>2. ASSUME NEW m \in Modules
        PROVE  /\ offset[m] \in Nat /\ seg[m].size \in Nat
               /\ seg[m].size <= offset[m] /\ offset[m] <= tls_offset
    <3>1. offset[m] \in Nat /\ seg[m].size \in Nat /\ offset[App] \in Nat
      BY SegmentFacts, ModuleSets DEF TlsInv
    <3> QED  BY <3>1, ModuleSets DEF TlsInv, Apart, Assigned
  <2>3. ASSUME NEW m \in Modules, HasTls(m)
        PROVE  /\ Start(m) >= block.from + (1 + tls_cnt) * Word
               /\ Start(m) + seg[m].size <= td
    BY <2>1, <2>2 DEF Start
  <2>4. ASSUME NEW m \in Modules, NEW k \in Modules, m # k
        PROVE  Bytes(m) \cap Bytes(k) = {}
    <3>1. \/ offset[k] + seg[m].size <= offset[m]
          \/ offset[m] + seg[k].size <= offset[k]
      BY <2>4, ModuleSets DEF TlsInv, Apart, Assigned
    <3> QED  BY <2>1, <2>2, <3>1 DEF Bytes, Start
  <2> QED  BY <2>1, <2>3, <2>4 DEF SegmentsDisjoint
<1> QED  BY <1>1, TlsAlways, PTL

\* Each module's variables are aligned as their image is, though the block's
\* alignment is the greatest of all and each offset is rounded for itself.
THEOREM LayoutAligned == Spec => []SegmentsAligned
<1>1. TlsInv => SegmentsAligned
  <2> SUFFICES ASSUME TlsInv, phase = "running", NEW m \in Modules, HasTls(m)
               PROVE  (Start(m) - seg[m].image) % seg[m].align = 0
    BY DEF SegmentsAligned
  <2> DEFINE a == seg[m].align
             o == offset[m] + seg[m].image
  <2>1. /\ a \in Alignments /\ a \in Nat \ {0} /\ o \in Int /\ td \in Int
        /\ offset[m] \in Nat /\ seg[m].image \in Nat
        /\ tls_align \in Alignments /\ tls_align \in Nat \ {0}
    BY SegmentFacts, TlsAssumption DEF TlsInv, Typed
  <2>2. loaded = <<>> /\ td % tls_align = 0
    BY DEF TlsInv, Placed
  <2>3. \A l \in Libs : ~Contains(loaded, l)
    BY <2>2 DEF Contains
  <2>4. a <= tls_align
    BY <2>3, ModuleSets DEF TlsInv, Numbered
  <2>5. td % a = 0
    BY <2>1, <2>2, <2>4, GreaterIsMultiple, MultipleOfMultiple
  <2>6. o % a = 0
    BY ModuleSets DEF TlsInv, AllRounded, Rounded, Assigned
  <2>7. (td - o) % a = 0
    BY <2>1, <2>5, <2>6, MultiplesDiffer
  <2>8. Start(m) - seg[m].image = td - o
    BY <2>1 DEF Start
  <2> QED  BY <2>7, <2>8
<1> QED  BY <1>1, TlsAlways, PTL

\* A library's relocations hold the number under which its variables are found.
THEOREM NumbersFound == Spec => []DtvFindsModule
<1>1. TlsInv => DtvFindsModule
  <2> SUFFICES ASSUME TlsInv, phase = "running", NEW l \in Libs, HasTls(l)
               PROVE  dtp_mod[l] \in DOMAIN dtv /\ dtv[dtp_mod[l]] = Start(l)
    BY DEF DtvFindsModule
  <2>1. loaded = <<>> /\ dtv = [i \in 1 .. Len(modules) |-> td - offset[modules[i]]]
    BY DEF TlsInv, Placed
  <2>2. ~Contains(loaded, l)
    BY <2>1 DEF Contains
  <2>3. dtp_mod[l] \in 1 .. Len(modules) /\ modules[dtp_mod[l]] = l
    BY <2>2 DEF TlsInv, Numbered
  <2> QED  BY <2>1, <2>3 DEF Start
<1> QED  BY <1>1, TlsAlways, PTL
=============================================================================
