----------------------------- MODULE CodeArena -----------------------------
(* The machine code of all translations: arena_machine_code_allocator hands  *)
(* out consecutive pieces of one arena, of which only the last one can grow, *)
(* and machine_code_writer fills that piece while a block is translated.     *)
(* Addresses are byte offsets into the arena.                                *)
EXTENDS Integers

CONSTANTS
    ArenaSize,   \* bytes in the arena
    Emits,       \* sizes of what output engines copy in: 2 and 4 bytes on
                 \* riscv64, an instruction on x86, a whole block on arm64
    MaxCode      \* bounds the code of one block

ASSUME ArenaAssumption ==
    ArenaSize \in Nat /\ Emits \subseteq Nat /\ MaxCode \in Nat

Null == -1

VARIABLES
    next,         \* next_allocation_
    current,      \* current_allocation_
    currentSize,  \* current_allocation_size_
    codePtr,      \* code_ptr_ of the writer
    codeSize,     \* code_size_
    allocSize,    \* alloc_size_
    txs,          \* code of the translations made so far: [ptr, size]
    error         \* the exception thrown, if any

allocator == <<next, current, currentSize>>
arenaVars == <<next, current, currentSize, codePtr, codeSize, allocSize, txs, error>>

ArenaInit == /\ next = 0 /\ current = Null /\ currentSize = 0
             /\ codePtr = Null /\ codeSize = 0 /\ allocSize = 0
             /\ txs = {}
             /\ error = "none"

-----------------------------------------------------------------------------
(* arena_machine_code_allocator::allocate *)

\* (mutant) rounds down
AlignDown(n) == (n \div 16) * 16

AlignUp(n) == ((n + 15) \div 16) * 16

\* original == nullptr: the piece after the current one.
NewPiece(size) ==
    /\ next' = next + AlignUp(currentSize)
    /\ next' <= ArenaSize
    /\ current' = next'
    /\ currentSize' = size

\* original is the current piece: its size changes.
Resize(size) ==
    /\ codePtr = current
    /\ currentSize' = size
    /\ UNCHANGED <<next, current>>

Allocate(size) == IF codePtr = Null THEN NewPiece(size) ELSE Resize(size)

AllocateError ==
    CASE codePtr = Null /\ next + AlignUp(currentSize) > ArenaSize -> "out of memory"
      [] codePtr # Null /\ codePtr # current -> "multiple allocations"
      [] OTHER -> "none"

-----------------------------------------------------------------------------
(* machine_code_writer *)

Fits(n) == codeSize + n <= allocSize

\* ensure_capacity: doubled once, however much is needed.
Grown == IF allocSize = 0 THEN 64 ELSE 2 * allocSize

\* copy_in of n bytes.
CopyIn(n) ==
    /\ error = "none"
    /\ codeSize + n <= MaxCode
    /\ \/ /\ Fits(n)
          /\ UNCHANGED <<allocator, codePtr, allocSize>>
       \/ /\ ~Fits(n)
          /\ Allocate(Grown)
          /\ codePtr' = current'
          /\ allocSize' = Grown
    /\ codeSize' = codeSize + n
    /\ UNCHANGED <<txs, error>>

\* (mutant) the piece is not cut to the size of the code
FinaliseUncut ==
    /\ error = "none"
    /\ codePtr # Null
    /\ txs' = txs \cup {[ptr |-> codePtr, size |-> codeSize]}
    /\ codePtr' = Null /\ codeSize' = 0 /\ allocSize' = 0
    /\ UNCHANGED <<allocator, error>>

\* create_translation: finalise and reset.
Finalise ==
    /\ error = "none"
    /\ Allocate(codeSize)
    /\ txs' = txs \cup {[ptr |-> current', size |-> codeSize]}
    /\ codePtr' = Null /\ codeSize' = 0 /\ allocSize' = 0
    /\ UNCHANGED error

\* An exception of allocate(), from copy_in or from finalise, ends the process;
\* the next piece has been moved on and the size doubled by then.
Throw ==
    /\ error = "none"
    /\ AllocateError # "none"
    /\ \/ (\E n \in Emits : ~Fits(n)) /\ allocSize' = Grown
       \/ UNCHANGED allocSize
    /\ next' = IF codePtr = Null THEN next + AlignUp(currentSize) ELSE next
    /\ error' = AllocateError
    /\ UNCHANGED <<current, currentSize, codePtr, codeSize, txs>>

Over == error # "none" /\ UNCHANGED arenaVars

ArenaNext == (\E n \in Emits : CopyIn(n)) \/ Finalise \/ Throw \/ Over

ArenaSpec == ArenaInit /\ [][ArenaNext]_arenaVars

-----------------------------------------------------------------------------
TypeOK ==
    /\ next \in Nat /\ currentSize \in Nat /\ codeSize \in Nat /\ allocSize \in Nat
    /\ current \in Nat \cup {Null} /\ codePtr \in Nat \cup {Null}
    /\ txs \subseteq [ptr : Nat, size : Nat]
    /\ error \in {"none", "out of memory", "multiple allocations"}

\* The inductive invariant: everything made so far lies before the piece that
\* is being written or, if there is none, before the next one.
Frontier == IF codePtr = Null /\ error = "none" THEN next + AlignUp(currentSize) ELSE next

WriterInv == /\ codePtr # Null => codePtr = next /\ current = next
             /\ codePtr = Null => codeSize = 0
             /\ codePtr = Null /\ error = "none" => allocSize = 0

BehindFrontier == \A x \in txs : x.ptr + x.size <= Frontier

Disjoint(x, y) == x.ptr + x.size <= y.ptr \/ y.ptr + y.size <= x.ptr

\* No two translations share a byte of code, although blocks of any length
\* are laid out one after another and the writer only ever doubles its
\* allocation once (copy_in, finalise and allocate).
CodeDisjoint == \A x, y \in txs : x = y \/ Disjoint(x, y)

ArenaInv == TypeOK /\ WriterInv /\ BehindFrontier /\ CodeDisjoint

\* Code that is being written never runs into a finished translation, even
\* when it has outgrown the allocation it was given.
FinishedCodeIntact ==
    codePtr # Null =>
        \A x \in txs : Disjoint(x, [ptr |-> codePtr, size |-> codeSize])
=============================================================================
