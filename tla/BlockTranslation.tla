-------------------------- MODULE BlockTranslation --------------------------
(***************************************************************************)
(* The translation of guest blocks to riscv64 code: the translation        *)
(* context lowers the nodes of each packet, action by action, and the      *)
(* builder then allocates registers from the last instruction to the       *)
(* first.                                                                  *)
(***************************************************************************)
EXTENDS RegAlloc, Riscv64Meaning

CONSTANTS
  Blocks,    \* the blocks to translate: sequences of packets
  Guests,    \* guests to run them for
  Junk       \* contents of the machine registers that hold nothing

VARIABLES
  block,     \* the block being translated
  packet,    \* the packet being lowered, past the last one in the allocation
  todo,      \* the actions of the packet that are not lowered yet
  context    \* the state of the translation context

lowering == <<block, packet, todo, context>>

(* begin_block and the first begin_instruction. *)
InitBlock ==
  /\ block \in Blocks
  /\ packet = 1
  /\ todo = ActionsOf(block[1])
  /\ context = begin_instruction(block[1], Context)

TranslationInit == InitBlock /\ Init

Lowers == packet <= Len(block)

LowerAction ==
  /\ Lowers
  /\ todo # <<>>
  /\ context' = materialise(block[packet], Head(todo), context)
  /\ todo' = Tail(todo)
  /\ UNCHANGED <<block, packet, vars>>

EndInstruction ==
  /\ packet < Len(block)
  /\ todo = <<>>
  /\ packet' = packet + 1
  /\ todo' = ActionsOf(block[packet + 1])
  /\ context' = begin_instruction(block[packet + 1], end_instruction(context))
  /\ UNCHANGED <<block, vars>>

EndBlock ==
  /\ packet = Len(block)
  /\ todo = <<>>
  /\ packet' = packet + 1
  /\ context' = end_block(end_instruction(context))
  /\ Begin(context'.code)
  /\ UNCHANGED <<block, todo>>

Allocate == AllocateInstruction /\ UNCHANGED lowering

Emitted == ~ Lowers /\ pos = 0 /\ ~ thrown

(* The code has been emitted, or the translation has failed. *)
Ended == (Emitted \/ thrown) /\ UNCHANGED <<vars, lowering>>

TranslationNext == LowerAction \/ EndInstruction \/ EndBlock \/ Allocate \/ Ended

TranslationSpec == TranslationInit /\ [][TranslationNext]_<<vars, lowering>>

-----------------------------------------------------------------------------
(***************************************************************************)
(* Properties.                                                             *)
(***************************************************************************)

(* A compare-and-exchange whose flags something reads: the registers of its
   flags differ between its two ways. *)
SplitFlags(b) ==
  \E p \in DOMAIN b : \E n \in DOMAIN b[p] :
    /\ b[p][n].kind = "cmpxchg"
    /\ \E f \in {"zero", "carry", "overflow", "negative"} : targets(b[p], <<n, f>>) > 0

(* The lowering gives the allocator only code that it allocates rightly: of
   the two places where a chainable exit leaves its address in A1 the second
   does not end the life of the first (materialise_write_pc), copies that keep
   their destination stand before a label and copy a guest register
   (materialise_csel), and no register is read before the node
   that it belongs to has been lowered, on one way at least. *)
CodeAllocatable ==
  \/ Lowers
  \/ pos < Len(code)
  \/ /\ Allocatable(code)
     /\ Orderly(code)
     /\ ~ SplitFlags(block) => ReadsDefined(code)

(* The code that is emitted does to every guest what the nodes of the block
   mean: registers, flags, memory, the PC, the kind of exit in A0 and the
   exit to chain in A1, whatever the free registers hold and however often a
   store-conditional fails.  Lazily lowered values, values shared between
   packets' branches, copies that are killed and registers that are given
   back too early would all show. *)
TranslationAgrees ==
  Emitted /\ ~ SplitFlags(block) =>
    \A guest \in Guests, junk \in Junk : Agrees(block, code, guest, junk, junk % 4)
=============================================================================
