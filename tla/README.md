# A TLA+ model of Arancini

Arancini is a hybrid binary translator.  `txlat` translates the functions of an
x86-64 program ahead of time to host code, through LLVM; whatever is not found
there is translated block by block at run time, by a dynamic translator for
riscv64, arm64 or x86-64 hosts.  The two kinds of code run in one process and
call each other.  This directory models

* how that process is run: who executes what, on which host stack, in which order of
  threads, and how running code is patched;
* how the two kinds of code share the guest's registers and its thread-local storage;
* how an x86 instruction becomes nodes of the intermediate representation, what the
  static engine makes of them, which flag writes are eliminated, and what the riscv64
  engine and its register allocator make of them;
* the x87 unit that the translated code emulates.

## 1. Inventory

| Part | State | Operations | Interacts with |
|---|---|---|---|
| Execution context (`runtime/exec`, `runtime/entry.cpp`) | `threads_`, `chain_address_` of each thread, `big_fat_lock`, `brk_` | `invoke`, `internal_call`, thread creation | called by MainLoop and static functions; calls the translation engine |
| Translation engine and cache (`runtime/dbt`) | guest PC -> translation | `get_translation`, `translate`, `chain` | front end, output engine, code arena |
| MainLoop and static functions (emitted by `output/static/llvm`) | host stack, registers in local variables | lookup of static functions, call, jump, return, system call | `invoke_code`, `execute_internal_call`, each other |
| riscv64 output engine | ports' registers, loaded and written guest registers, labels, instructions; the allocator's map | `materialise_*`, `InstructionBuilder::allocate`, `chain` | assembler, machine code writer |
| arm64, x86 output engines | register allocator | lowering | machine code writer |
| Machine code memory | arena position, size of the current piece | `allocate`, `copy_in`, `finalise`, `reset` | all output engines, one after the other under the lock |
| x86 front end | current packet | `translate_chunk`, one translator per instruction class | IR builder |
| IR and its optimiser | node graph; flags seen and live | builders, `deadflags_opt_visitor` | both output sides |
| Static engine (`output/static/llvm`) | LLVM values of nodes, kept per packet | `materialise_port`, `lower_node` | LLVM |
| Guest memory | `memory_`, `brk_`, `brk_limit_` | `add_memory_region`, brk, mmap | system calls |
| Thread creation (`clone`, `MainLoopWrapper`) | mutex, condition variable and arguments on the parent's stack; the address the kernel clears | clone, exit, futex wait | host kernel, other threads |
| Thread-local storage (`txlat`, `init_lib.c`, `entry.cpp`) | sizes in the binaries, `tls_offset`, list of modules, the block with its dtv | constructors of libraries, `initialise_dynamic_runtime` | guest's libc, relocations |
| x87 unit (`fpu.cpp`, `fpu_*` of `translator.cpp`) | TOP and condition bits, tag word, eight doubles | one translator per instruction | IR: values are computed when an action needs them |
| txlat driver, ELF reader, native library IDL, logging | files | translation of whole programs | |

What makes each part correct:

* dispatch and chaining: the hybrid process executes the guest's control flow,
  nothing is translated twice, a patched exit leads to its own target for ever;
* machine code: what has been written stays as it is, until `chain()` changes
  exactly one exit;
* static functions: what the calling convention lets the guest read is where the
  running code looks for it;
* clone: each parent learns its own child's identifier, and both sides use the
  handshake's objects only while they exist;
* thread-local storage: three programs that never see each other's results
  compute one layout, without overlap and aligned;
* x87: an instruction reads its operands before it changes registers, tags or TOP;
* translators and static engine: the code of an instruction does what the manual says,
  whatever the widths and the order in which values are computed;
* dead flags: a flag write disappears exactly if nobody can see it;
* riscv64 lowering and allocator: the code of a block does what its nodes mean, and two
  live values never share a register.

What is hard here:

* **Concurrency.** Every guest thread is a host thread; cache, arena and code are
  shared.  Lookup and translation happen under one lock, execution and the
  recording of the exit that is to be patched do not.
* **Self-modifying code.** `chain()` decodes the code it finds, which earlier
  patches have changed, and overwrites or moves instructions of two sizes.
* **Two stacks.** A guest call is a host call and a guest return a host return,
  through static functions, recursive activations of MainLoop, and tail jumps.
* **Boundaries.** Offset limits of branches, the end of the arena, a buffer that
  is doubled only once.
* **Call-by-need.** A translated instruction is a list of actions; the values
  they use are computed when the first of them needs them, which may be after a
  register that the value is computed from has changed, or behind a branch that
  other users of the value go around.
* **Agreement at a distance.** Calling convention and storage layout are computed
  by several programs at several times and nowhere compared.

`PROJECT.json` lists these as hazards, at their lines, with the properties that cover them.

## 2. Modules

| Module | Models |
|---|---|
| `GuestProgram` | the guest as a control-flow graph: blocks named by address, one terminator each |
| `GuestMachine` | **the abstract specification**: threads that execute that graph, nothing else |
| `DbtRuntime` | MainLoop, `invoke`, cache, translation, chaining, static functions, system calls |
| `DbtRuntimeProofs` | theorems about `DbtRuntime` |
| `ChainPatch` | the riscv64 exit and `chain()`, half-word by half-word |
| `CodeArena` | allocator and writer of machine code |
| `MachineCodeProofs` | theorems about `CodeArena` and `ChainPatch` |
| `RegSync`, `RegSyncProofs` | which registers static functions copy from and to the CPU state, and theorems |
| `ThreadSpawn`, `ThreadSpawnProofs` | clone, its handshake with the child, exit, waiting for a thread, and theorems |
| `StaticTls`, `StaticTlsProofs` | the layout of thread-local storage, from txlat to the running program, and theorems |
| `FpuStack` | **abstract specification** of the x87: registers named from the top |
| `X87`, `X87Proofs` | the x87 as translated: TOP, tags, memory, order of evaluation, and theorems |
| `Words` | machine words as sequences of bytes, with their arithmetic |
| `IrNodes` | nodes, their types, the builder's functions and the checks of the constructors |
| `X86Operands` | operands, addresses, flags, conditions: what the translators share |
| `X86Integer`, `X86Shifts`, `X86Moves`, `X86Vector` | the translators: an instruction's packet of actions |
| `X86Translators` | the factory, the switches of the translators, and the chunk around an instruction |
| `LlvmValues` | what the LLVM code of a value node computes, with LLVM's types and poison |
| `StaticEngine` | the lowering of a packet and the run of its code |
| `X86Manual` | **reference**: what the instructions do according to the manual |
| `Translation` | the properties that compare the two |
| `DeadFlags`, `DeadFlagsProofs` | the elimination of dead flag writes, the run of what is left, and theorems |
| `Riscv64Code` | the instructions of the riscv64 builder and what the allocator asks of them |
| `Riscv64Lowering` | the riscv64 translation context: from nodes to instructions |
| `Riscv64Meaning` | **reference**: what a block means; and the machine that executes its code |
| `RegAlloc`, `RegAllocProofs` | `InstructionBuilder::allocate`, and theorems |
| `BlockTranslation` | composes lowering and allocation of a block |
| `MC*` | guest programs, instructions, distances, sizes and numbers for TLC |

`DbtRuntime` instantiates `GuestMachine` and `X87` instantiates `FpuStack`; each
is shown to implement it.  Operators marked "mutant" are plausible errors, each
next to the definition it changes; `PROJECT.json` says which property notices.

### DbtRuntime

The state of a thread: the PC in its CPU state (`spc`), the return addresses on
the guest stack (`gstack`), the host stack (`frames`), where in the dispatch
loop it is (`ctl`), the translation it found or runs (`cur`), and
`chain_address_` (`chainAt`).  Shared: `lock`, the cache, the translations
(`txPc`) and what has been patched into their exits (`firstOp`, `firstTo`, `trueTo`).

| Action | Code |
|---|---|
| `CallStaticFn` | `lower_static_fn_lookup`; MainLoop returns after the call, so its activation is replaced |
| `EnterInvoke`, `LookupHit`, `LookupMiss`, `Translate`, `TranslateFails` | `execution_context::invoke`, `get_translation` |
| `ChainAndRun`, `ChainFails` | the rest of `invoke` under the lock: `chain()`, unlock, entry into the code |
| `ExecJump`, `ExecIndirect`, `ExecCall`, `ExecReturn`, `ExecSyscall` | execution of a block up to its next one or its return code, and MainLoop's dispatch on the code |
| `StaticJump`, `StaticCall`, `StaticReturn`, `StaticPoison` | `lower_chunk` |
| `Syscall`, `Clone`, `ExitThread`, `ExitProcess` | `internal_call`, from MainLoop or from static code |

A step that touches only a thread's own registers and stack is merged with the
step before it; every access to something shared is a step of its own, except
that what happens under the lock after the lookup is one step (nobody else
writes it, and `LockInv` is proved).  A conditional exit has two patchable
places: the first one, shared by the jump and the not-taken side, and the one of
the taken side; `chain()` recognises which of them it is given by looking for a
branch after it, which is what `FollowedByBranch` says.

Chunks are assumed to contain the instruction after each of their calls and
system calls (`StaticAssumption`); a chunk that ends in a call falls off its
end in the code and returns to its caller.  The guest pairs calls and returns.

### ChainPatch

An exit is a function from half-word positions to half-words.  `Emitted` is what
`materialise_write_pc` writes, for every choice of alignment, register class and
size of the constant load and store; `PatchBranch`, `PatchJump` and `Move` are `chain()`.
Offset limits are those the assembler tests (`IsCBImm` and so on), which are half of what
the instructions can encode; offsets are truncated as they are encoded (`JBits`, `IBits`).

| Action | Code |
|---|---|
| `ExecAuipc`, `ExecLoad`, `ExecStore`, `ExecNop`, `ExecJump`, `ExecBranch` | the hart executes the instruction it decodes at its position |
| `Chain` | the block ends; `invoke` has its exit chained, at the address in A1, towards the block found for the PC |
| `Enter` | the thread comes back to the exit, for either side |

`Fetch` is disabled on anything but a whole instruction, and `ExitCorrect` says there always
is one.  `Move` is `chain()`'s loop over words in closed form: the position of the first jump
(`Terminator`), the words up to it shifted, the jump emitted again.
One thread executes the block; races between threads are `DbtRuntime`'s subject.

What chain() relies on without testing it is named in three operators on the constants:

* `InReach`: behind an inverted branch of full size the false side's block is within a J's
  reach.  The offset is tested only behind a compressed branch (1858, not 2086), and
  beyond it is truncated: with `DistancesBig <- FarJumps` TLC violates `ExitCorrect`.  The
  comment of `chain()` (1821-1825) promises the long form there too.
* `RoomToMove`: the false side loads its address by two half-words or more.  A single
  compressed instruction loads only addresses below 128 KiB (C.LI, C.LUI); the true
  side, moved by a word, then overwrites a half-word behind the exit: with
  `Loads <- OneShort` TLC violates `SurroundingsIntact`.
* `LowMovable`: the offset of a JR that has replaced the true side can be decreased by four
  bytes.  It cannot for two of the 2048 low parts; `EncodeITypeImm` asserts that the
  offset fits and otherwise truncates it.

The three are true of the constants of the run `ChainPatch`.

### CodeArena

Addresses are byte offsets.  `CopyIn` is `ensure_capacity` and `copy_in`,
`Finalise` is `create_translation`, `Throw` an exception of `allocate`.  The specification is
`ArenaSpec`, of the variables `arenaVars`.

### RegSync

No step relates two registers, so that the model follows one register `reg`,
chosen in `Init`, with the value it has for the guest (`guest`), whether the
calling convention lets the guest read it now (`defined`), its field in the CPU
state (`mem`), and the host stack, where each static function has its own copy
(`loc`).

| Action | Code |
|---|---|
| `Write` | an instruction, in static code (a local variable) or translated code (the CPU state) |
| `EnterStatic`, `CallTranslated`, `ReturnTranslated` | MainLoop's lookup, call and return blocks |
| `CallDirect`, `CallIndirect`, `JumpOut`, `ReturnStatic` | `lower_chunk`: `call` to a known or unknown function, `dyn`, `ret` |
| `Resume`, `ReturnAfterJump` | what follows a call of MainLoop in `lower_chunk` |
| `StaticSyscall` | `save_all_regs`, the system call, `restore_all_regs`; clone's child starts in MainLoop |

`Saved` and `Restored` are the lists in `save_callee_regs` and `restore_callee_regs`.
What the guest may rely on (`EntryLive`, `ReturnLive`) is the System V convention
as the code reads it: six integer arguments, RAX and RDX, ZMM0 and ZMM1 returned.

### ThreadSpawn

| Action | Code |
|---|---|
| `Clone`, `PthreadCreate`, `CondWait`, `WakeUp`, `FinishClone` | the case clone of `internal_call`: lock, create, wait, return |
| `LockArgs`, `Report`, `UnlockArgs` | `MainLoopWrapper` in the child: lock, identifiers and `set_tid_address`, signal, unlock |
| `Exit`, `Join`, `Joined` | exit, and futex waits for the word that the kernel clears |

`Spurious` says whether `pthread_cond_wait` may return without a signal.  The
code waits without a predicate, so that with `Spurious = TRUE` the parent leaves
clone while the child still uses its arguments and `ArgsAlive` fails.  The C
library's documentation allows such returns; nothing in this repository claims
that the code copes with them, so that this is a hazard and not a finding.
A failing `pthread_create` is left out.

### StaticTls

`Init` is what txlat writes for the executable; `InitLib` a library's constructor
(`init_lib.c`), in any order; `InitApp`, `InitModule`, `AllocateBlock` are
`initialise_dynamic_runtime`.  Addresses are integers, `Blocks` are the addresses
that `new[]` may return.  `TlsAssumption` says of alignments only that of any two one
divides the other, as powers of two do, and excludes segments without initialised
data: a library that has only such a segment gets space but no module number.
TP-relative relocations are computed as the code does (`tpSlot`); that they point
above the thread pointer is a known failure (section 3).

### X87

`x` is TOP, which registers are in use, and the doubles.  Each instruction is one
action, whose `LET`s are the states between the actions of the translated
instruction: a value is read from the state in which the first action that needs
it is executed.  Numbers, their order and the functions that instructions compute
are arbitrary (`Numbers`, `Less`, `Unary`, `Binary`), so that instructions that
differ only in the function are one action (`Fun1`, `Fun2`, `Arith`, `ArithReg`,
`Fsin` with FCOS, `Fsincos` with FPTAN, `Fyl2x` with FYL2XP1).  Tags are reduced
to "empty or not", as no instruction looks for more.  TOP and the condition bits
are arbitrary at first: the CPU state is malloc'ed and the status word not
initialised.

`Reads` is an assumption about the guest: it neither reads empty registers, which
the code does not detect, nor stores with FST ST(i) into one, whose tag the code
leaves "empty".  `FpuStack` has the same assumption.  Infinities, denormals and
exceptions are outside; comparisons with a NaN may answer anything in
`FpuStack`, as the code answers "greater".  FLDCW, FNCLEX, FNSTCW, FNSTSW, FWAIT and
FNOP neither change nor need what is modelled.

### Translators and static engine

An instruction of the guest is a record: class, operands, length.  The operators of
`X86Integer` to `X86Vector` follow the translators case by case and yield the packet,
a sequence of actions whose operands are trees of nodes.  Two nodes that a packet can
tell apart, such as a register read before and after a write, carry different tags.

| Action of `StaticEngine` | Code |
|---|---|
| `WriteRegister`, `WriteMemory`, `WriteCounter`, `WriteLocalVariable`, `AtomicUpdate`, `CompareExchange`, `CallInternal` | `lower_node` for the action, with `materialise_port` and `lower_port` for the values it needs first |
| `PassLabel`, `Jump`, `Branch` | `label`, `br`, `cond_br` nodes inside a packet |
| `GiveUp`, and `Fails` in the others | an exception of a translator or of the engine, or LLVM code that LLVM rejects |

A value that depends on when it is computed (a read) belongs to the first action, in
the packet's order, that uses it; later actions use what that action has computed
(`values`), which is the memo of `lower_port`.  Values have their LLVM type, which is
not always the node's.  `X86Manual` is written from the manual and not from the code.
Both sides use the 64-bit words of the code, as sequences of bytes; floats are
the multiples of a half up to `FloatBound`, and any other bytes are not a number.

Where the code is known not to do what the manual says, `Translation` lists the form of
instruction and the registers that may be wrong (`Deviating*`), one line each, with the
reason; `Rejected` lists the forms that get no code.  The lists are short
and everything else is compared in full.  They are what a maintainer
should read first: flags of MUL, IMUL, ADC, SBB and of locked operations, IDIV as
an unsigned division, operands AH to DH, bit offsets beyond the register, some packed
instructions, POP into RSP.

### DeadFlags

A packet is reduced to the flag that each action writes and the flags it reads.
`VisitChunk`, `VisitAction`, `LeavePacket` are the visitor, backwards; `Run`, `Step`,
`NextPacket`, `Leave` execute what is left.  `behind` holds the flags whose last write
was eliminated, so that reading one would see a stale value.
`last_se`, `live_flags` and `new_live_flags` are the visitor's sets: a read becomes
live when its packet is left, so that a write of the same packet does not satisfy it.
`ReadsFirst` is what the translators guarantee, and what the run `Translate` checks of
their packets (`SuitsElimination`).

### Riscv64Lowering, RegAlloc, BlockTranslation

The context is a record that the `materialise_*` operators thread through: the
builder's instructions, next register and label, the guest registers loaded and
written, the registers of ports and locals, and what has to stay alive around a loop.
`BlockTranslation` has `LowerAction` (one node of `nodes_`), `EndInstruction` and
`EndBlock`, and then `Allocate`, one instruction of the reverse scan.

`RegAlloc` keeps the allocator's own variables.  Its recursion (`allocate_instruction`
for the linked copy) goes one level deep, since the copy is unlinked first: it is
`AllocateLinked`.  `Destination` and `Operand` are the two halves of an instruction, and
`KillCopy` ends it.  Two history variables stand for no code: `source` is the
instructions before the scan, and `places` says, for each place between two
instructions that the scan has passed, which values are needed there and which
register has each.  A copy that waits leaves open where its values will be; when it is
decided, the places from there to the copy are amended (`Settled`).  `CodeFollows`
compares `source` and `code` under `places`, and `JumpsMeet` compares the places at jumps
and labels.  Together they are what TLC's `TranslationAgrees` sees of the allocator when
it executes the code.

Words have four bits, 64-bit nodes only; the guest's registers beyond the eight
that stay in x16 to x23, and its flags, are in the register file.  `Meaning` evaluates
every node where it stands; `Machine` and `Run` execute the instructions that are left, in
registers that hold `Junk` at first.

Not modelled of the riscv64 engine: other widths and their extensions, casts, shifts,
multiplication, division, bit operations and vectors.

## 3. Runs

| Run | Expect | Shows |
|---|---|---|
| `Hybrid` | pass | two threads in and out of static functions, or in loops and conditional jumps whose sides are patched in both orders, `chain()` and the translator failing: type correctness, host stack mirrors guest stack, one translation per address, sound and permanent patches, refinement of `GuestMachine`, the lock is always released (liveness) |
| `ChainPatch` | pass | all layouts and both orders of patching, to blocks on both sides of each limit: whole instructions, each side to its own block, nothing written around the exit |
| `CodeArena` | pass | blocks that outgrow their allocation do not overwrite others |
| `RegSync` | pass | arguments, results and preserved registers arrive through four nested activations |
| `ThreadSpawn` | pass | three threads: arguments outlive their use, each clone returns its child, no signal is lost (liveness), ended threads' words are cleared |
| `StaticTls` | pass | no overlap, aligned, dtv right, for all combinations of segments and orders of constructors |
| `X87` | pass | every instruction from every state of four registers implements `FpuStack`, FYL2X only as to where its result goes |
| `Translate` | pass | instructions of every class, at the limits of their widths: what the static engine's code does is what the manual says, every form gets through the engine, packets are well formed and suit the elimination of flags |
| `DeadFlags` | pass | every short chunk: exactly the dead writes go, and no stale flag is seen |
| `RegAlloc` | pass | 910 blocks: lowering and allocation keep what the nodes mean; distinct registers; each instruction uses the registers that have its values, at jumps too; nothing left allocated at the start of a block |
| `TailJump` | violation | finding: block 2 jumps to a static function, which returns to block 4; `chain_address_`, stale by then, makes block 2 jump to block 4 for good, and the function is not run again |
| `Race` | violation | finding: two threads patch the same conditional exit and the true side is lost |

Bounds.  The program of `Hybrid` has 29 blocks in two parts, to one of which
its first block jumps: one with every way in which the two kinds of code can call or jump to
each other, one with loops and conditional jumps.  `MaxDepth` 3 lets static code call
translated code that is called from static code.  Two threads suffice for every
pairwise race on the cache, the lock and an exit, as no protocol there involves
three parties.  There are eight translations, fewer than blocks, so that the translator
fails too, and one pair of them is out of reach of a jump (`FarSeven`).  The distances of
`ChainPatch` lie on both sides of each limit of each instruction that can be
chosen, with a low part of zero and otherwise; for full-size branches they end
where a single jump does (`InReach`).  Its loads are of one to three half-words, with a
full-size instruction in either place: no more is needed, as `Move` tells apart only whether a
word starts with an instruction, and the theorems have loads of any length.  The sizes of `CodeArena` make a
block exceed the first and the doubled allocation, and exhaust the arena.
`RegSync` has one register of each kind that any of its sets tells apart, and four
activations, so that each kind can be below, between and above others.
`ThreadSpawn` has three identifiers, so that a child clones while its parent does,
two words and both flags in every combination.  `StaticTls` has an executable and
two libraries with nine segments: none, shorter or longer than their alignment,
with images at the start of it or not, and two addresses of the block.  `X87` has four
registers instead of eight (`N` is a constant, and instructions name at most two, the next to be overwritten
and those two below), two numbers, a NaN, two unary functions and a binary one
that is not commutative.  Its `VIEW` is the registers: the last instruction, the
condition bits and what was stored do not influence what comes next, while each
step is compared in full with `FpuStack`.

`Translate` runs each instruction once, from states with 0, 1, -1, the least and the
greatest number of each width under bytes that must not matter, 64 bytes of memory,
floats up to four in steps of a half, and NaN.  Not among the cases are PCMPEQB, PCMPGTB,
REPE CMPSB, HLT, and XORPS and XORPD, for which the translator reads an operand that does not exist.
`DeadFlags` has all chunks of up to three packets of two actions over one flag, of up to
two packets of three actions over one flag, and of three packets of one action over
two flags; the visitor keeps its state from one chunk to the next.
`RegAlloc` pairs every two of 26 instruction bodies and every body with eight ways to end a
block, and fills the registers with eight loads before each body, so that some blocks
have no register left (`thrown`).  Each code runs for four guests (all registers
different, about to overflow, all equal, flags set), with two contents of free
registers, and with no or two failures of store-conditional.  500 steps are far more
than any of the blocks takes; a code that loops is not equal to its meaning.

Fairness.  `FairSpec` of `DbtRuntime` and of `ThreadSpawn` says that a thread that
can take a step does so in the end (weak fairness per thread): threads are
scheduled by the host's operating
system; in `ThreadSpawn` only for the steps of the handshake, as a guest may run
for ever.  No fairness of a mutex is assumed, so that nothing is claimed about a
thread that waits for `big_fat_lock`; `LockReleased` is about its owner.
`CloneReturns` needs none either: only two threads share a mutex, and each
takes it once more after the other has.  `Translate`, `DeadFlags` and `RegAlloc` are about what
translation does and state no fairness.

Known failures without a run.  They are hazards in `PROJECT.json`, with the
bounds that keep them out of the passing runs: jumps that `chain()` truncates, and code it
overwrites (`InReach`, `RoomToMove`, `LowMovable`); the exception that `chain()` throws under the lock (`ChainFails` ends the process);
code written past the end of the arena; floating-point arguments after the second
(`FloatArgs`); FST ST(i) into an empty register (`Reads`); and

* FYL2X multiplies by the register below its operand (`fpu.cpp:920`): with
  `LogExact = TRUE` the run `X87` violates `StackRefined`;
* TP-relative relocations of libraries receive `tls_offset + addend` where the
  variables are `tls_offset` below (`init_lib.c:72`);
* the elimination of flags runs on static functions, which have jumps inside
  (`txlat-engine.cpp:679`): with `Chunks <- Skipping` and `Targets <- OverTheThird` of
  `MCDeadFlags` TLC violates `FlagsAgree`;
* a shift by CL writes its flags behind a branch (`shifts.cpp:82`), which the elimination takes
  for a write (the exception `ByRegister` of `SuitsElimination`, which therefore does not cover
  it), and which the riscv64 engine stores back at the end of the block although nothing has
  loaded them;
* the riscv64 engine counts a flag's register from its result's (`register.h:80`), but
  locked operations allocate a temporary in between
  (`riscv64-translation-context.cpp:651`): flags of LOCK ADD, SUB, XADD, AND, OR and XOR are
  one register off.  The blocks of `RegAlloc` do not use them;
* CMPXCHG's flags are in other registers on success than on failure
  (`riscv64-translation-context.cpp:570`); the blocks that use them are `SplitFlags`.
  With only some of them used, `none_reg` is passed to `mv_liveness`;
* LOCK SUB of 32 bits adds its operand without negating it
  (`riscv64-translation-context.cpp:706`), outside the modelled width;
* XADD between registers whose flags nothing needs writes its first operand before the sum
  is computed, which then reads the new value (`binop.cpp:266`, lowered lazily);
* a `mv_keep(t, f)` that waits, since `f` is a virtual register that nothing later reads, has
  its operands replaced first: its second one, `t` itself, is a register of the machine when
  the label before it ends the wait, so that `is_rd_use` (`instruction.h:256`), which compares
  it with the virtual `t`, says no, `t`'s register is freed, and the `mv` of the other way is
  killed (`builder.h:1000`).  `builder.h:287` says "MV but keeps dependency on previous Rd".
  CMOVcc of 32-bit registers and other csel nodes whose false value is not a guest register are lowered
  so (`riscv64-translation-context.cpp:1663`), and locals written twice (`:513`).  With the packet
  `<<Read(ZF), Read(RAX), Read(RBX), Load(V(3)), Select(V(1), V(2), V(4)), Write(RAX, V(5))>>`
  before `Jmp` TLC violates `TranslationAgrees`;
* a `mv_keep(t, ZERO)`, a csel whose false value is the constant 0 (`binop.cpp:217`), counts as
  a copy of `t` onto itself, as `in_reg` takes the second operand when the first is ZERO, and is killed
  (`builder.h:1092`).  With
  `<<Read(ZF), Read(RBX), Const(0), Select(V(1), V(2), V(3)), Write(RAX, V(4))>>` before `Jz` TLC
  violates `TranslationAgrees`.  `Orderly`, the hypothesis of the theorems about the code,
  excludes both, and the blocks of `RegAlloc` have neither;
* AND, OR and XOR of the static engine with a scalar float as the right operand take the left
  operand twice (`llvm-static-output-engine.cpp:778`), and carry and overflow of a shift node
  ask `vector.extract` for an i1 (`:1350`, `:1368`), which LLVM's verifier rejects: no modelled
  instruction has either (`RightBits`, `LowerShiftFlag`);
* `allocate_in_order` relies on the order in which the compiler evaluates function
  arguments (`riscv64-translation-context.cpp:33`); the model has left to right;
* the riscv64 allocator does not spill: a block that needs too many registers throws.

## 4. Proofs

TLAPS proves, for every value of the constants, in `DbtRuntimeProofs`,
`MachineCodeProofs`, `RegSyncProofs`, `ThreadSpawnProofs`, `StaticTlsProofs`, `X87Proofs`,
`DeadFlagsProofs` and `RegAllocProofs`:

* `TypeCorrect`, `TranslatedOnce`: from `Inv == TypeOK /\ LockInv /\ CacheInv /\
  LinkInv`.  `TypeOK` is not inductive alone: that a thread which is about to
  run a translation has one needs that cache entries are translated, that the
  owner of the lock is the only thread between lookup and entry, and that
  patched exits lead to existing translations.
* `HostMirrorsGuest`: `StackCorrespondence`, from `Inv`: every action that pushes
  or pops one stack does so with the other, and a static function that waits
  keeps its position.
* `ChainingCorrect`, `PatchesPermanent`: under `ChainSafe` (direct jumps do not
  enter static functions; one thread, or no conditional jumps) patched exits
  lead where they should and stay.  `ChainInv` adds that the exit a thread is
  about to have patched is still unpatched and leads to the thread's PC.
  `TailJump` and `Race` show that neither half of `ChainSafe` can be dropped.
* `GuestImplemented`: `GuestRefined`, under `ChainSafe`.  Each action is one step of
  `GuestMachine`, or a stutter, under the mapping `guestPcs`, for any number of threads.
  A return needs `StackCorrespondence` (what the host goes back to is what the guest's
  stack holds), a step through a patched exit `ChainSound`, a static function's
  call that runs no host frame `Inv`, and a system call `SyscallPcInv`: the PC it will
  be resumed at is fixed before it runs.
* `TranslationsDisjoint`, `FinishedCodeKept`: from `ArenaInv`, which says that
  everything finished lies before the piece that is being written.
* `ExitIsCorrect`, `ChainIsEffective`, `SurroundingsStay`: the three properties of `ChainPatch`,
  for every layout, every encoding of the two addresses, every distance within `InReach`,
  `RoomToMove` and `LowMovable`, and any order of entering and patching.  None is
  inductive: `chain()` acts on what it decodes, so that the invariant has to say what
  the exit looks like after each history of patches (`Code`) and where in it the thread may
  be (`Where`).  `Code` has the false side as emitted, or a branch to its block with a NOP
  (`FalseBranches`), or an inverted branch over a jump, with the true side
  where it was or one word further (`FalseSkipped`, `Moved`); and the true side as emitted or
  replaced by a jump, which as long as the false side may still move it keeps an offset that can
  be decreased (`Movable`).  `Where` places the thread in one of those parts with the
  registers it has loaded so far.  Each instruction then finds what it needs (`ExecStep`,
  `InvExit`), and `PatchJumpInv` and `PatchBranchInv` re-establish `Code`: the
  former for the four places a J or AUIPC + JR may go to, the latter for a near branch
  (`PatchNear`), a jump in reach (`PatchSkip`) and the move (`PatchFar`, from `MoveFacts`,
  `MovedEmitted`, `MovedDirect`).
* `RegistersArrive`, `ReturnsArrive`: from `SyncInv`, if `FloatArgs <= 2`.  Besides
  the two properties it says that what is called directly has a static caller,
  that after a return only what returns preserve is still relied on, and that the
  x87 base, which is restored but never saved, never changes.
* `ArgumentsAlive`, `ClonesAnswered`: from `SpawnInv == TypeOK /\ Paired /\ Excluded /\
  Reported`, without spurious wake-ups.  Parent and child belong to each other,
  a mutex has the owner its holder's place says, and a signalled parent has
  its child's identifier.
* `WordsCleared`: `EndedCleared`, from `SpawnInv` and `Watched`: for every word that holds
  a thread's identifier either the pending clone of its parent names the word, or the
  kernel has been told to clear it when the thread ends.
* `LayoutDisjoint`, `LayoutAligned`, `NumbersFound`: from `TlsInv`.  While constructors run,
  the libraries' spaces are apart and below `tls_offset` (`Constructing`, `Apart`), each rounded
  to its alignment (`AllRounded`); then modules are numbered in the list's order
  (`Numbered`), and the block ends at a thread pointer with the greatest alignment (`Placed`).
* `FlagsTypeCorrect`, `PassIsExact`, `EliminationUnseen`: from `FlagsInv`.  Its
  `PassFacts` say what the visitor's sets mean for the part of the chunk it has visited
  (`last_se`: written there; `live_flags`: read there before being written),
  for chunks of any length; `RunInv`, under the
  hypothesis `StraightLine`, that a flag that is behind is written again before it is read.
* `AllocatorTypeCorrect`, `RegistersStayDistinct`: from `AllocInv`.  `TypeOK` and
  `RegistersDistinct` are not inductive: A0 and A1 become free when the scan passes the
  instruction that sets them, and would be free while in use if it happened twice.
  The invariant carries the pool `P` of registers that are in play so far (`Pooled`), says
  that an unscanned instruction which sets A0 or A1 finds it outside the
  pool, and that the linked copy lies behind the scan (`LinkedFrom`).  The hypothesis
  `CodeAssumption`, that A0 and A1 are set at most once, is what `CodeAllocatable` checks of the lowering's code.
* `AllocatedCodeFollows`: `CodeFollows`, under `AllOrderlyCodes`.  The code that may be
  given is `Orderly`: instructions are alive, write no register that values are given, set A0
  and A1 before they read them, and copies name what they copy; `CodeAllocatable` checks this of
  each block that the run `RegAlloc` lowers.  `CodeFollows` is not inductive: it says
  nothing of a copy that waits.  `FollowInv` (through `Scanned`) adds that the code before
  the scan is as it was, that A0 and A1 are in the pool only once they have been set
  (`PoolSet`), that the places here have registers that the allocator still has, and, of a copy that
  waits (`Waits`): what it copies and its target have their places all the way to it, and
  no instruction in between has to do with either (`Untouched`), which is why the target may
  take the place of what is copied, or the other way round.  A step is a chain of stages: the
  wait ends (`AllocateLinkedPasses`), the copy is inlined (`InlinePasses`) or another is linked
  (`LinkPasses`), the destination is defined (`DestinationPasses`), operands get their
  registers (`OperandPasses`), and a copy onto itself is killed (`KillFinishes`); `RememberedIs`
  says that the history of the specification is the one these stages lead to.
* `AllocatedJumpsMeet`: `JumpsMeet`, from the same invariant.  Its last part, `Branching`, says
  that no copy waits across a label or a jump and that the guest registers with a register of their own are
  in it there.  A value that nothing between jump and label writes has one place there, as
  each instruction keeps it (`Steady`), and one that is needed later is alive back
  to where it was written (`NeededAlive`).  Both go down a sequence of instructions, which is done by
  its least element (`Least`, from `WFMin`).  `JumpsMeet` does not claim more than the scan
  gives: a value that both ways of a forward jump write must be kept by the
  lowering (`mv_keep`, `auipc_keep`), and one that only the next round of a loop reads by
  `mv_liveness`; both are `TranslationAgrees`.
* `AllocatorLeavesNothing`: `NothingLeftOver`, for all code of `CodeAssumption`, from
  `AllocInv` and `RootInv`: a virtual register that is allocated, or that the waiting copy
  copies, is among those that an instruction still to come defines without reading it
  (`Rooted`, `DefinedIn`), or is the target of that copy.
* `UnitTyped`: `X87`'s `TypeOK`, which is inductive.
* `UnitImplementsStack`: if `~LogExact`, `X87` implements `FpuStack` under the mapping
  `Seen` (a register in use has its contents, others are empty), with one
  step per instruction, from lemmas that say what `Push`, `Pop`, `Set` and a rotation of
  `x` do to `Seen`.  With `LogExact` it is false (section 3).

Assumptions are those of the modules (`ProgramAssumption`, `StaticAssumption`,
`RegAssumption`, `SpawnAssumption`, `X87Assumption` and so on), which TLC evaluates in
each run, and the hypotheses named above.

Only model-checked: the liveness properties `LockReleased` and `CloneReturns`
(out of the prover's reach); all of `Translate`, whose words and nodes are defined by recursion; and
of `RegAlloc` the properties of the composition, `TranslationAgrees` and
`CodeAllocatable`, since lowering and meaning recurse over nodes.  `CodeAllocatable` is what the
theorems about the allocator assume of the lowering, so that the two together speak of whole blocks.

## 5. Not modelled, and what would come next

* The riscv64 engine's other widths, casts, shifts, multiplication, vectors: they add
  cases to `Riscv64Lowering`, and words of several widths to `Riscv64Meaning`.
* The arm64 and x86 engines.  Their allocators resemble the one modelled; neither engine
  chains blocks.
* `GuestMemory`: `add_memory_region`, brk and its races, mmap's hint; the initial stack.
* The instruction-level race between `chain()` and a thread inside the exit, and the
  fences of `llvm-fence-combine.h`: both need a memory model of the host.
* The x87 in two threads, whose registers clone lets them share.
* `gen_wrapper`, which passes arguments to native library functions.

Left out for good: decoding (XED), LLVM itself, keystone and fadec, ELF parsing,
the IDL parser, logging and DOT output: they have no state that outlives a call,
or are not this repository's.
