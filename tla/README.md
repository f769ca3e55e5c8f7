# Verification of the RV32 emulator and its Tensix coprocessor

The repository emulates a Tenstorrent tile: five RISC-V cores (BRISC, NCRISC and
the three TRISCs T0, T1, T2) that run as coroutines of one process, each interpreted
by rv32emu, and a Tensix coprocessor with three threads, one per TRISC. This directory
holds TLA+ models of the parts where an order of steps, a retry, a stale copy or a
transformation of the program can go wrong, TLC runs that check them on small
instances, and TLAPS proofs of what matters most for all instances.

## The system and its parts

| Part | Code | Modelled in |
|---|---|---|
| SrcA/SrcB banks: data-valid flags, bank pointers, hand-over between unpacker and matrix unit | `tt_cop/tt_insn.c`, `tt_cop/tensix.h` | `SrcBanks`, abstract: `BankQueue` |
| Semaphores and mutexes | `tt_cop/tt_insn.c`, `tt_cop/tensix_impl.c` | `SyncUnit` |
| Coprocessor front end: FIFO, wait gate, direct issue, data-valid auto-wait; when a MOP or a replay starts, blocks, resumes | `tt_cop/tensix_cop.c`, `do_ttinsn` and `rv_step` in `rv32emu/src/emulate.c`, INSTRN_BUF in `tt_cop/tensix_impl.c` | `TensixCop` |
| MOP expander: what a macro-operation expands to | `tt_cop/tensix_cop.c`, `ttmop`, `ttmop_cfg` | `MopExpander` |
| Row counters, address modes, matrix unit | `tt_cop/tt_insn.c` | `RowCounters`, `MatrixUnit` |
| Vector unit: lane flags, flag stack, predication | `tt_cop/tt_insn.c` | `Sfpu` |
| Mailboxes | `tt_cop/mailbox.c`, `do_lw_mailbox`, `rv32sim.c` | `Mailbox` |
| Kernel life cycle: `cores_in_kernel`, `tensix_clear` | `rv_step`, `tt_cop/tensix_impl.c` | `KernelLifecycle` |
| Translated blocks across kernels | `rv_step`, `block_map_clear`, block chaining | `CodeCache` |
| Translation into blocks, constant folding, fusion, execution | `rv32emu/src/emulate.c`, `rv32_template.c`, `rv32_constopt.c` | `BlockOpt` over `RvExec` and `Alu`; abstract: `PlainRv`, `RvIsa` |
| Map container | `rv32emu/src/map.c` | `RbMap`, abstract: `SortedMap` |
| Scalar unit, packers and unpackers, decoder, loader, system calls, softfloat, JIT and other parts of rv32emu | | see "Not modelled" |

How they interact: the unpack thread (T0) fills banks, the math thread (T1) consumes
them and posts a semaphore, the pack thread (T2) waits for it. A TRISC's Tensix
instructions reach its thread either by a store to INSTRN_BUF (through a FIFO) or
directly from its instruction stream, in which case the core retries the instruction
until the coprocessor reports it done. Most of what a thread executes comes out of its
MOP expander, which drives the row counters and the matrix unit. Cores yield between
translated blocks only. `TensixCop` composes `SrcBanks` and `SyncUnit` with three
threads and their cores; `MatrixUnit` composes `MopExpander` and `RowCounters`;
`BlockOpt` runs the instructions of `RvExec` out of blocks.

## Modules

**SrcBanks.** `src[s]` holds `dvalid`, `data`, `unp` and `math` of SrcA or SrcB
(`srca_dvalid[2]`, `unp_srca_bank`, `math_srca_bank`, ...), `srcb_zeroed` and
`dest_dvalid` as in `tensix_t`. One action per instruction that touches them. An
instruction that returns false is retried by its thread: its action is not enabled.
`Stalled` names the instructions the kernel puts behind a STALLWAIT for the bank.
The contents of a bank are one value; ELWADD, ELWSUB and ELWMUL are one action, and
so are GMPOOL and GAPOOL, since they differ only in arithmetic. MOVA2D's
`mova2d_latched_bank` is cleared by the code and never read. `BankQueue` is what the
banks promise: a queue of two places per source.

**SyncUnit.** `sem`, `sem_max`, `mutex` and one operator per instruction.

**TensixCop.** `th[t]` is `tensix_thread_cop_t` and the thread's replay state: `fifo`,
`cur` (`current_insn` if `has_current_insn`), `gate`, `mop`, `rec` and `exp` (recording
and replay), `buf`. A program is a sequence of operations of a core, fixed by `Init`.
A call of `tensix_cop_step_direct` is a run of steps through the phases `mopEntry`,
`drain`, `mopDrain`, `exec`, `mop`, `replay`, named after its sections; each step is at
most one call of `tensix_cop_step` (`StepTrue`, `StepFalse`: its result). No other core
moves meanwhile (`Alone`), as the code yields between blocks only. The
histories `done` and `pushed` name executed and pushed instructions by core, operation,
place in the MOP and place in the replay. A MOP carries its expansion here; how the
expansion comes about is `MopExpander`. The replay buffer and the recorder are as in
the code.

**MopExpander.** `cfg` is `mop_cfg` of a thread, `zmask` is `zmask_hi16`, `st` the
generator's `mop_state`. Every call of the generator (`mop_generate_next_t0`, `_t1`)
is a step that yields one instruction and reads the registers again, as the lazy code
does. A MOP issued directly holds its core (`held`); one that came through the FIFO
does not, and the core may then rewrite registers under the expansion (`dirty`).
A mask is the set of its bits that are set, a loop count the low seven bits of its
register. `want` and `got` are histories, a sequence for each iteration of the outer
loop: the loop nest the MOP stood for, and what was generated.

**RowCounters, MatrixUnit.** `rwc` is the counters of the math thread with their
carriage returns and the fidelity phase; `ApplyAddrMod` is `apply_addr_mod`, SETRWC and
INCRWC are operators. `acc[r][p]` counts how often a product was added to row r of Dst
in phase p by MVMUL, ELWMUL or GAPOOL; ZEROACC clears. Products themselves are floating
point and abstract. A kernel is a configuration of the expander and what it is meant to
compute.

**Sfpu.** `use`, `flag` and `stack` are `use_lane_flags`, `lane_flags` and
`flag_stack`; `lreg` is the vector registers. One action per family of instructions
that the code implements; integer and bitwise results are exact on words of `Width`
bits, a floating-point result is some word. A kernel is "structured" (built from
SFPPUSHC, conditions, SFPCOMPC and SFPPOPC as if, else and endif; `frames` is the
history of the branches it is in) or "raw" (any instruction at any time).

**Mailbox.** The rings `slot`, `head`, `count`, the flags `stall`, and the scheduling:
`active` is the core inside `rv_step`, `waiting[c]` the mailbox its stalled load has to
be retried on. The n-th message of a ring carries n. `Coroutine` chooses between
`rv32_run_co` and `rv_run`. `PlainPop` is a load that `block_translate` does not recognise
as a mailbox load; `phantom` remembers that one found its mailbox empty.

**KernelLifecycle.** Per core, the side of the kernel threshold PC and `pre_pc` are on;
`mask` is `cores_in_kernel`. `TrackHead` is the head of `rv_step`'s loop, which sees a
core enter or leave a kernel, wipes, drops blocks and enters a block (`running`). A block
ends by a jump (`JumpTo`) back to the head, or directly into an area of which blocks are
`kept`, so that a core may leave its kernel, and report, unseen. Firmware is external: a
launch names its cores, each looks for it (`looked`), calls its kernel, returns and
reports; the next launch waits for all reports. `dirty` names
what kernels left in the shared state and `tensix_clear` wipes. A BRISC-only launch
leaves nothing there, as the code's comment on dispatch tiles has it.

**CodeCache.** `block_map[c][p]` is the binary from which the block at place p (firmware,
the first block of a kernel, a later one) was translated. `Head` is the head of
`rv_step`'s loop, which drops blocks and then finds or translates the next one; a block
may also go on into the next kept block directly, past the head (`Direct`: jal along
`branch_taken`, jalr along its history table). A full map is cleared. The host is
external; it gives an NCRISC a new binary at another address than its last one, the
assumption stated by the comment in `rv_step`.

**Alu, RvExec, PlainRv, RvIsa, BlockOpt.** `Alu` has the integer operations of
`rv32_template.c` and, apart from them, the copies of these operations in
`rv32_constopt.c`, on words of `XLEN` bits (a byte is a quarter of a word). `RvExec` is
what one decoded instruction does to `X`, `mem` and a mailbox `fifo`: RV32I, M, A, Zba,
Zbb, Zbc, Zbs. `PlainRv` is the processor a program is written for: one instruction
after the other, straight from `code`. `BlockOpt` is how rv32emu runs it, in phases:
`head` (block lookup), `fetch` (one iteration of `block_translate`: `irs`,
`lui_const`), `fold` (one iteration of `optimize_constant`: `out`, `info`), `fuse` (one
iteration of `match_pattern`: `groups`; `Cursor` is where `remove_next_nth_ir` leaves the
list), `run` (one part of one ir). `blocks` is the block map, cleared when full.
`ghost` keeps what was known of the registers before each instruction. `ArchPc` is
what stands for the plain processor's program counter. `RvIsa` states what the manual
asks of M and Zb* results by their defining equations and by sets of bits, without the
code's algorithms.

**RbMap, SortedMap.** `root` is the left-leaning red-black tree as a value, `size` its
count, `it` an iterator. Insert, find, first, last, next, prev, erase and clear are
actions; what the code does along the path it stored, from the leaf back to the root,
happens on the way back from a recursion. `SortedMap` is a set of keys with an
iterator.

`MC*` modules give the constants their values for TLC. Definitions introduced by
"Faulty form, for comparison" are plausible mistakes in the definition that follows
them; each of them makes TLC report a property as violated.

## Runs

Passing runs:

| Run | States | Shows |
|---|---|---|
| `BanksStalled` | 23 328 | unguarded instructions behind STALLWAIT: `BankSync`, `NoStandoff`, a bank the matrix unit owns never changes (`OwnedStable`), the refinement `ImplementsQueue` of `BankQueue`, types |
| `CopStreams` | 917 793 | all programs of up to 4 operations, each pushed or direct, and directly issued MOPs, recordings and replays that block, beside a BRISC: `FifoConservation`, `DirectOnce`, `GateStable`, `GateRespected`, types and array bounds |
| `CopPipeline` | 7 987 | unpack, math, pack: `AllFinish`, `SemWithinMax`, `PostsAwaited` (each SEMPOST is executed after a SEMWAIT of its own), `MutexByHolder` |
| `MailboxCo` | 102 033 | `RingHoldsPending`, `DeliveredInOrder`, `QueryHolds`, `StalledLoadCompletes`, types |
| `KernelTriscs` | 33 932 | `MaskExact`; nothing is left while the mask is empty (`WipedWhenEmpty`), and no wipe takes from a core in the midst of its kernel (`WipeSparesRunning`), with jumps past the head of `rv_step` |
| `CodeOneTile` | 379 236 | `CodeIsFresh`: a tracked core and an NCRISC, blocks chained past the head of `rv_step` |
| `BlockRun` | 275 842 | `ImplementsPlain`: blocks, folding and fusion preserve the program; `ConstantsHold`, `ZeroIsZero` (the code's assertion), `IsaResults` |
| `MapTree` | 43 000 | `BalancedAndCounted`, `ImplementsSorted` |
| `MatrixMop` | 79 921 | `ExpansionExact`, `EachProductOnce`, `ExpansionEnds`, types |
| `SfpuBranches` | 74 836 | `LanesFollowBranches`, `BranchIsIsolated`, `ConstantsStay`, `FlagStackBounded` |

Runs in which the code contradicts a comment or an assertion of its own (the
quotations are in `PROJECT.json` under "findings"):

| Run | Property violated | What happens |
|---|---|---|
| `KernelEarly` | `ClearIsSafe` | the state is wiped before all cores of a launch have entered |
| `BlockZeroLoad` | `ZeroIsZero` | a load into x0 leaves its word there; the next translation meets `assert(rv->X[0] == 0)` |

Further configurations are kept beside the runs. Each is checked with
`tlc -config <name>.cfg <module>` and ends in a counterexample:

| Configuration | Module | Property violated | What happens |
|---|---|---|---|
| `BanksReuse` | `MCSrcBanks` | `ZeroedIsCleared` | `srcb_zeroed` is reset by UNPACR and by the skip of MVMUL only; MOVD2B (`tt_insn.c:1016`, comment at 1011) writes SrcB and leaves it set |
| `CopForget` | `MCTensixCop` | `FifoConservation` | a direct MOP clears `has_current_insn` (`tensix_cop.c:1668`) while a blocked pushed instruction waits there |
| `CopReplayTwice` | `MCTensixCop` | `DirectOnce` | a blocked replay starts over when its core retries (`tensix_cop.c:1364`, `tt_insn.c:538`) |
| `MailboxRvRun` | `MCMailbox` | `RingHoldsPending` | under `rv_run` nothing clears the stall flag (`emulate.c:476`) and a retried load discards a message |
| `KernelLate` | `MCKernelLifecycle` | `NoLeak` | the last core of a launch returns by a direct jump (`rv32_template.c:253`) and reports before `rv_step` sees it leave; the next launch enters over the state it left, and its late exit wipes nothing, as the mask is no longer empty (`emulate.c:1284`; comments at `tensix.h:450` and `tensix_impl.c:633`) |
| `CodeTwoTiles` | `MCCodeCache` | `CodeIsFresh` | all NCRISCs share the static `ncrisc_prev_kernel_pc` (`emulate.c:1292`) |

What the passing runs leave out, and why:

- `BanksStalled`: the form of UNPACR_NOP that clears both banks after a look at one flag
  (it overwrites an owned bank), and what the instructions of `Unguarded` do without
  their STALLWAIT: MOVD2B (`BanksReuse`), or GAPOOL, which does not wait for SrcB.
- `CopStreams`: pushed instructions beside MOPs and REPLAYs (`CopForget`; a direct MOP
  that finds the expansion of a pushed one is itself never expanded), replays that block
  outside a MOP (`CopReplayTwice`), execute-while-loading behind a closed gate (it is
  executed). Nothing is claimed about the order between pushed and direct instructions:
  a direct one overtakes a pushed one that is blocked.
- `MailboxCo`: the ring properties hold until the first load that `block_translate` does
  not recognise finds its mailbox empty (`phantom`). Writes to a full ring are in the
  run; the code drops them.
- `KernelTriscs`: launches that use BRISC together with TRISCs. There an early wipe resets
  `had_trisc_in_kernel`, and what BRISC leaves stays behind. That a kernel finds nothing
  of an earlier launch is not claimed (`KernelLate`); it follows from `WipedWhenEmpty`
  when the mask is empty as the launch's first core enters.
- `BlockRun`: loads into x0 (`BlockZeroLoad`); SC.W, whose destination the folder goes on
  taking for a constant (`CONSTOPT(scw, {})`, `rv32_constopt.c:576`); a load of an empty
  mailbox that is fused with a `lw` before it or whose address was not in the register at
  translation, which then does not stall; misaligned accesses inside fuse3 and fuse4,
  which trap with the address of the first; runs of 257 and more instructions, whose
  length does not fit `remove_next_nth_ir`'s `uint8_t`. Jumps to a misaligned target
  are in the model (`Landing`: the trap resumes four bytes behind the target), but what
  lies there is misaligned again and not in `Pcs`, so the model stops; the run has none.
- `MatrixMop`: `ExpansionExact` speaks of MOPs whose registers are not rewritten under
  them, which the code ensures only for directly issued ones.

### Bounds

- `Tiles`: two tiles and the cleared content tell a lost, repeated or overtaken tile in a
  queue of two.
- `FifoSize = 2` (32 in the code), `ReplaySize = 2` (32), `SemCap = 2` (15), two
  semaphores: full, wrap and saturation are all reached; programs of four operations
  overfill FIFO and current instruction.
- `Depth = 2`, `MaxMsgs` 3 for the ring from B to T0, 2 or 1 for the others: rings fill,
  empty, drop and wrap. Two cores give four
  rings, two of them from a core to itself.
- `MaxLaunches = 3`, two TRISCs and BRISC. `CodeCache`: two addresses and two binaries,
  enough for a binary to be overwritten and for an entry address to come back.
- `BlockRun`: words of 8 bits, 4 registers, 8 bytes of memory, one mailbox of depth 1, six
  addresses of code, a block map of 2 entries (so that it fills and is cleared). Programs:
  all bodies of three basic instructions, looped so that a kept block is entered with
  other registers; bodies of two instructions of every kind ended by a branch; every
  operation that may be folded, and every M and Zb* operation, on the operands 0, 1,
  127, 128 and 255.
- `MapTree`: eleven keys; trees of four levels, with all rotations and flips of removal.
- `MatrixMop`: Dst of 4 rows in blocks of 2, counters that wrap at 8, 1 to 3 blocks, 1, 2
  or 4 phases, three MOPs and one rewrite of the registers. A MOP with one outer and no
  inner iteration, no start and some end instruction runs 128 outer iterations more in the
  code, `Wrapped = 2` more here. The run stops after three MOPs, so deadlock is not checked.
- `SfpuBranches`: two lanes, two general, one hardwired and one programmable register,
  words of two bits, a stack of two: every split of the lanes by two nested branches. The
  general registers are one group of SFPTRANSP, where the code has two.
- `CopStreams` switches deadlock checking off: a program may really stop, at a gate
  nobody opens or at the assertion of the push loop.

### Fairness

`CopFairness`: `rv32_run_co` yields after a bounded number of `rv_step` calls and its
caller resumes all cores in turn, so each core takes its step again and again (strong
fairness, since another core inside a call disables it for a while), and blocks keep
ending on a core whose program is over, because firmware then spins. `MailboxFairness`:
the same for `Resume`; a resumed core retries its stalled load first, since PC points at
it, and leaves `rv_step` when its cycles are used up. `MatrixMop` assumes weak fairness
of the generator's step only: after every block the core retries its MOP or steps the
thread, so an expansion that can go on does.

## Proofs

Checked by TLAPS for every value of the constants, from the named assumptions only.

- `TensixCopProofs`, the banks: `BanksType` for every instruction mix. `BanksInSync` and
  `BanksNoStandoff` under `Careful`: unguarded instructions stand behind a STALLWAIT.
  `InSync` is the inductive invariant: if the pointers differ exactly the matrix unit's
  bank is valid, if they meet both banks are valid or both free. Flags alone would not
  do: a flip of a bank one does not own keeps their types and breaks only the relation.
  `BanksImplementQueue`, the refinement of `BankQueue`, and `BanksOwnedStable` hold
  under `Careful` and `OneBank` (no instruction clears both banks of a source after a
  look at one). With `InSync`, what an unpacker writes is never among the pending banks,
  so a step of an unpacker appends one or changes none, and a step of the matrix unit
  removes the first.
- `TensixCopProofs`, the front end: `CopType`, `CopGateStable`, `CopGateRespected` and
  `CopMutexByHolder` for any programs of all cores, any FIFO size and any replay buffer.
  The assumptions on `Programs` only say that the fields of an instruction word have
  values the word can hold, that a MOP's body holds no MOP and that a core issues
  directly to its own thread. `CopInv` is the inductive invariant: where the
  instructions in the FIFO, in `cur` and in the expanders came from (`KindsOK`), that a
  core inside `tensix_cop_step_direct` is at a direct operation, and that what was
  pushed comes from operations the core has left behind. Each action is first reduced to
  what it does to a thread (`Effect`: the passage stays, gains an expanded instruction
  or a direct one, or the gate moves), and the properties are proved from these few
  effects. The gate theorems rest on `GateBlocks`: a latched gate blocks something and a
  wait instruction is in every class, so no wait instruction passes a closed gate.
- `TensixOrderProofs`: `CopFifoOrder` under `MopsAlone` (nothing is pushed to a thread
  whose core issues MOPs directly; `CopForget` is the counterexample without it). The
  types of the queues alone do not carry the order: to see that an instruction is not
  pushed twice one has to know that its operation is behind the program counter, and to
  see that a direct call drops none, that what waits in `cur` when a MOP starts is not a
  pushed one.
- `TensixOnceProofs`, with the lemmas on expansions in `TensixOrderProofs`:
  `CopDirectOnce`, that is `DirectOnce` under `PlainPushes` (MOP and REPLAY are issued
  directly, never pushed) and as long as `Smooth` holds: no REPLAY is blocked half way,
  since it would start over (`CopReplayTwice`), and what is recorded is neither MOP nor
  REPLAY and, with execute_while_loading, need not wait. Both hold in all states of
  `CopStreams`. `OnceInv` is the inductive invariant. The places of an expansion are
  pairs, the place in a MOP's body and the place in a replay; `Unfolding` says that the
  expanders hold exactly the places after some point of the instruction at the program
  counter, and `Once` that what was executed of it is what lies before that point
  (`Ahead`), of earlier instructions everything, and of later ones nothing. `DirectOnce`
  says only that what was executed of the current instruction has no hole, which a step
  does not preserve unless the expanders continue where the execution stands. The proof
  goes over the rows of `OnceInv`: a core's own steps, and steps of its thread that
  other cores cause.
- `TensixSemProofs`: `CopSemaphores`, that is `SemWithinMax` for any
  programs that are `Disciplined` (`TensixCop`) with some assignment of an owner to each
  semaphore: only the owner's thread raises it, a SEMINIT starts at or below the maximum,
  a SEMPOST is executed after a SEMWAIT for room that no other raise has used, and what
  is recorded for a replay neither raises nor waits. By MMIO the cores only take
  (`OnlyGets`). `CopPipeline` checks these hypotheses of its kernel as `PostsAwaited`.
  That the gate is closed until there is room is not enough and not even true when the
  SEMPOST arrives: an older instruction of a blocked class may have passed the gate and
  cleared it. `SemInv` therefore says that between SEMWAIT and SEMPOST the gate awaits the
  semaphore or the semaphore is below its maximum; the second survives because nobody
  else raises it. `NamesInv` says that an instruction in a FIFO or an expander is the one
  its place in the program stands for, which ties the order in `done` to what is executed.
- `CoreProofs`, the mailboxes: `MailboxType` and `MailboxQuery` in all modes.
  `MailboxRings` and `MailboxDelivery` under `Cooperative` (`rv32_run_co`). The inductive invariant is the conjunction: order in the ring is
  needed for the delivery, and the absence of stale flags (`NoFlagSet`) for the ring, because a load
  that finds a flag pops and discards. `ModDistinct` and `ModShift` carry the arithmetic
  of the wrap.
- `CoreProofs`, the translated blocks: `CodeStaysFresh` when there is at most one
  NCRISC. Freshness of what runs is not inductive: back in the firmware, unseen by the
  head of the loop, a core may keep stale blocks. `TrackedOK` says that it then has been
  seen in the kernel and will be seen to leave it before the next call, because the
  firmware's poll ends in a conditional branch; `NcriscOK` that an NCRISC keeps blocks
  only of the kernel it was last seen to enter.
- `CoreProofs`, the kernels' life cycle: `KernelType`, `KernelMask`, `KernelWipeSpares`,
  and `KernelWiped` under `Unmixed` (no launch uses BRISC together with a TRISC).
  `CoresInv` says where a core can be: blocks of a kernel are kept only while the core was
  last seen in one, so that a direct jump never takes it into a kernel unseen. `DirtyInv`
  says that as long as something is dirty a TRISC was seen, some core's bit is set, and so
  its exit will wipe. `Unmixed` is needed: in a mixed launch the early wipe forgets that a
  TRISC was seen. `UsedInv` says that a core that has used the shared state in this launch
  and has not returned is in its kernel with its bit set.
- `BlockOptProofs`: `ConstantsAlwaysHold`, `ZeroStaysZero` and `BlocksImplementPlain`,
  for every word width, program, block map size and register set. `Disciplined` programs
  neither load into x0 nor use SC.W; `ShortBlock` says that a block fits
  `remove_next_nth_ir`'s counter; for the refinement, `AccessesTame` says that only the
  first access of a fused instruction is misaligned and that loads of the empty mailbox
  are executed by `do_lw_mailbox`. All of them hold on `BlockRun`'s programs. `BlockInv`
  says of each phase what the block in the making is: a fetched list of the program's
  instructions (`FetchOK`), folded up to here with what was known before each of them
  (`FoldOK`), cut into adjacent groups (`FuseOK`), and of a block in execution that the
  registers agree with what was known before the current instruction (`RunOK`); the
  agreement is passed on from one instruction to the next (`FoldConsistent`), whatever
  the registers were when the block was translated. `FoldIsResult` compares the folder's
  copies of the operations with the operations case by case.
- `SfpuProofs`: `LanesFollow`, `BranchesIsolated`, `ConstantsKept` and `FlagStack`, for
  any lanes, registers and stack depth. `BranchInv` ties the flags and every entry of
  the stack to the branches the kernel is in (`FlagsOf`): the current flags alone are
  not enough, since SFPPOPC brings back what was pushed some instructions ago.
- `MatrixUnitProofs`, the expander: `ExpansionIsExact` and `MopType`, for any registers,
  operands, masks and kernels (`MopAssumption` and `KernelAssumption`: loop counts are
  numbers, masks sets of bits). `GenInv` is the inductive invariant: what `got` holds of
  the current iteration together with what the state of the generator still stands for is
  what `want` says of it. `MaskedInv` says so of the masked loop: the mask has been
  shifted by the iterations done, the pending instructions are the rest of the current
  one. `NestedInv` says it of the nested loops: `Sofar` is what an iteration has in each
  phase of `mop_generate_next_t1`, and `Alternates` which of the two loop instructions
  comes next: the code swaps them on every step, which comes out even at the end of an
  iteration.
  `ExpansionExact` alone says nothing of what comes next.
- `MatrixUnitProofs`, the products: `ProductsOnce`, that is `EachProductOnce` for every
  kernel that `Walks`: the loop instruction goes on to the next fidelity phase, the last
  one of a block to the first phase of the next block, by its address mode (`GoesOn`), by
  one that also rewinds at the end (`Rewinds`), or by a SETRWC or INCRWC at the end of the
  outer loop (`StepsAtEnd`). All kernels of `MatrixMop` that multiply do, except the one
  with ZEROACC. `RowsAssumption` says that Dst is made of whole blocks and that its size
  divides the range of the counters. `WalkInv` is the inductive invariant: phase and row
  counter are functions of the place in the loop nest, and `acc` counts the visits of the
  finished MOPs and of this one so far. `EachProductOnce` speaks of finished MOPs only;
  which row an instruction comes to is decided by all the instructions before it.

Only model-checked: `EachProductOnce` for the kernel with ZEROACC; `RbMap`, whose
operators are recursive; `IsaResults`, where the arithmetic of bits is beyond the prover; and all liveness properties (`AllFinish`,
`StalledLoadCompletes`, `ExpansionEnds`). Liveness under fairness and ENABLED are
beyond the prover, as is induction over recursively computed data.

## Not modelled

The map from definitions to code covers about a tenth of the lines of the repository.
Most of the rest is not code of this system or not part of what is built: of 76 500
lines 43 400 are the vendored softfloat library and 17 900 the test programs of rv32emu,
and the JIT, the second-tier compiler, the GDB stub, the system mode with its devices and
the compressed instructions are switched off in the build of the simulator. Of the
parts that are built these are left out:

- Packers and unpackers: address arithmetic over tile layouts and conversions between
  floating-point formats, without waits of their own; the hand-over of banks and Dst
  is in `SrcBanks` and `TensixCop`. The ADC address counters belong to them.
- Floating-point results of the matrix and vector unit and the F extension: out of TLC's
  reach. The seven-row broadcast form of MVMUL, SFPSTORE and the random number generator
  are left out too.
- The scalar unit (DMA registers, configuration writes, XMOV, atomics): sequential
  register arithmetic of one thread that completes at once.
- Configuration words and stream registers behind the MMIO window: plain storage, except
  for INSTRN_BUF, the semaphores and the MOP registers.
- The decoder: slicing of bit fields without state, except for the rule that a
  computation into x0 is a nop.
- CSR instructions, ECALL and EBREAK, ELF loading and system calls: input and output of
  the host. `rdcycle` inside a block reads the count of the block's start.
- Debugging entry points of the coprocessor (halt, run until wait, statistics), and
  which fields survive `tensix_clear`.
- The memory pool, and the hash table of the block map, which is a function from
  addresses to blocks here.
