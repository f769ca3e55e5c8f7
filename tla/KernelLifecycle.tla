-------------------------- MODULE KernelLifecycle --------------------------
(***************************************************************************)
(* How a tile's shared Tensix state is wiped between kernels.  rv_step     *)
(* compares, at the head of its loop, a core's previous and present        *)
(* program counter with the kernel address threshold, keeps the mask       *)
(* cores_in_kernel, and calls tensix_clear when the last core comes back.  *)
(* A jalr into a block that is kept goes there past that head, so a core   *)
(* may be back in firmware, and report, before its exit is seen.           *)
(* The firmware that launches kernels is external: a launch picks the      *)
(* cores that take part, each of them calls its kernel in its own time,    *)
(* reports when it has returned, and the next launch waits for all.        *)
(***************************************************************************)
EXTENDS Naturals

CONSTANTS
    TRISCs,      \* T0, T1 and T2
    BRISC,
    Launches,    \* the sets of cores a launch may use
    MaxLaunches  \* bound on the number of launches

VARIABLES
    area,       \* area[c]: where PC is, "fw" or "kernel"
    running,    \* the core executes blocks; else rv_step's loop is at its head
    prev,       \* prev[c]: where pre_pc is, or "none" before the first iteration
    kept,       \* the areas of which block_map may hold blocks
    mask,       \* cores_in_kernel
    had_trisc,  \* had_trisc_in_kernel
    todo,       \* cores of the present launch that have not reported yet
    looked,     \* cores whose firmware has looked for a launch since the last one
    back,       \* cores that have returned from their kernel
    launch,     \* number of launches so far
    withTrisc,  \* the present launch uses a TRISC
    dirty       \* the shared state left by kernels: pairs <<core, launch>>

seenVars == <<prev, kept, mask, had_trisc>>
launchVars == <<launch, withTrisc>>
kernelVars == <<area, running, seenVars, todo, looked, back, launchVars, dirty>>

TileCores == TRISCs \cup {BRISC}
Areas == {"fw", "kernel"}

ASSUME LaunchesAssumption == Launches \subseteq (SUBSET TileCores) \ {{}}
ASSUME BriscAssumption == BRISC \notin TRISCs
ASSUME MaxLaunchesAssumption == MaxLaunches \in Nat

KernelInit ==
    /\ area = [c \in TileCores |-> "fw"]
    /\ running = [c \in TileCores |-> FALSE]
    /\ prev = [c \in TileCores |-> "none"]
    /\ kept = [c \in TileCores |-> {}]
    /\ mask = {}
    /\ had_trisc = FALSE
    /\ todo = {}
    /\ looked = {}
    /\ back = {}
    /\ launch = 0
    /\ withTrisc = FALSE
    /\ dirty = {}
-----------------------------------------------------------------------------
\* The firmware launches a kernel on the cores of S.
Launch(S) ==
    /\ todo = {}
    /\ launch < MaxLaunches
    /\ launch' = launch + 1
    /\ todo' = S
    /\ looked' = {}
    /\ withTrisc' = (S \cap TRISCs # {})
    /\ UNCHANGED <<area, running, seenVars, back, dirty>>
-----------------------------------------------------------------------------
(* The head of rv_step's loop. *)

Enters(c) == prev[c] = "fw" /\ area[c] = "kernel"
Leaves(c) == prev[c] = "kernel" /\ area[c] = "fw"

\* Faulty forms, for comparison: the mask is looked at before the bit is cleared, or
\* not at all.
ClearsBefore(c) == Leaves(c) /\ mask = {} /\ had_trisc
ClearsEachTime(c) == Leaves(c) /\ had_trisc

\* tensix_clear is called.
Clears(c) == Leaves(c) /\ mask \ {c} = {} /\ had_trisc

\* Faulty form, for comparison: one exit clears every bit.
MaskAfterReset(c) ==
    IF Enters(c) THEN mask \cup {c} ELSE IF Leaves(c) THEN {} ELSE mask

MaskAfter(c) ==
    IF Enters(c) THEN mask \cup {c} ELSE IF Leaves(c) THEN mask \ {c} ELSE mask

\* kernel_exit_core_cleanup drops the blocks of a core that leaves its kernel; then the
\* block at PC is found or translated.
KeptAfter(c) == (IF Leaves(c) THEN {} ELSE kept[c]) \cup {area[c]}

TrackHead(c) ==
    /\ ~running[c]
    /\ running' = [running EXCEPT ![c] = TRUE]
    /\ mask' = MaskAfter(c)
    /\ had_trisc' = IF Clears(c) THEN FALSE
                    ELSE had_trisc \/ (Enters(c) /\ c \in TRISCs)
    /\ dirty' = IF Clears(c) THEN {} ELSE dirty
    /\ prev' = [prev EXCEPT ![c] = area[c]]
    /\ kept' = [kept EXCEPT ![c] = KeptAfter(c)]
    /\ looked' = IF area[c] = "fw" THEN looked \cup {c} ELSE looked
    /\ UNCHANGED <<area, todo, back, launchVars>>
-----------------------------------------------------------------------------
(***************************************************************************)
(* The blocks that follow.  A jump goes on in a block that is kept, or     *)
(* returns to the head of the loop.  Firmware spins, calls the kernel, or  *)
(* reports; its poll for a launch ends in a conditional branch, which      *)
(* always returns.  A kernel uses the shared state, and returns to the     *)
(* firmware or goes on.                                                    *)
(***************************************************************************)
JumpTo(c, p) ==
    /\ running[c]
    /\ area' = [area EXCEPT ![c] = p]
    /\ \/ p \in kept[c] /\ UNCHANGED running
       \/ running' = [running EXCEPT ![c] = FALSE]
    /\ UNCHANGED <<seenVars, looked, launchVars>>

Spin(c) ==
    /\ area[c] = "fw"
    /\ JumpTo(c, "fw")
    /\ UNCHANGED <<todo, back, dirty>>

EnterKernel(c) ==
    /\ area[c] = "fw"
    /\ c \in (todo \cap looked) \ back
    /\ JumpTo(c, "kernel")
    /\ UNCHANGED <<todo, back, dirty>>

Report(c) ==
    /\ area[c] = "fw"
    /\ c \in back
    /\ JumpTo(c, "fw")
    /\ todo' = todo \ {c}
    /\ back' = back \ {c}
    /\ UNCHANGED dirty

KernelRuns(c, returns) ==
    /\ area[c] = "kernel"
    /\ JumpTo(c, IF returns THEN "fw" ELSE "kernel")
    /\ dirty' = IF withTrisc THEN dirty \cup {<<c, launch>>} ELSE dirty
    /\ back' = IF returns THEN back \cup {c} ELSE back
    /\ UNCHANGED todo

Block(c) == Spin(c) \/ EnterKernel(c) \/ Report(c) \/ \E r \in BOOLEAN : KernelRuns(c, r)

KernelNext ==
    \/ \E S \in Launches : Launch(S)
    \/ \E c \in TileCores : TrackHead(c) \/ Block(c)

KernelSpec == KernelInit /\ [][KernelNext]_kernelVars
-----------------------------------------------------------------------------
(* Properties. *)

KernelTypeOK ==
    /\ area \in [TileCores -> Areas]
    /\ running \in [TileCores -> BOOLEAN]
    /\ prev \in [TileCores -> Areas \cup {"none"}]
    /\ kept \in [TileCores -> SUBSET Areas]
    /\ mask \in SUBSET TileCores
    /\ had_trisc \in BOOLEAN
    /\ todo \in SUBSET TileCores
    /\ looked \in SUBSET TileCores
    /\ back \in SUBSET TileCores
    /\ launch \in 0..MaxLaunches
    /\ withTrisc \in BOOLEAN
    /\ dirty \in SUBSET (TileCores \X (0..MaxLaunches))

\* The mask is exact across tensix_clear and any order of entries and exits: a core's
\* bit is set if and only if its last iteration began in kernel code.
MaskExact == mask = {c \in TileCores : prev[c] = "kernel"}

\* While no core's bit is set, nothing is left in the shared state by kernels of a launch
\* that used a TRISC: however late the exits are seen, the last of them wipes
\* (cores_in_kernel and had_trisc_in_kernel in rv_step), so a launch whose first core
\* enters when the mask is empty starts from a clean state.
WipedWhenEmpty == mask = {} => dirty = {}

\* tensix_clear takes nothing from a core in the midst of its kernel: what a core has put
\* into the shared state in this launch is wiped only after that core is back in firmware.
WipeSparesRunning ==
    [][\A d \in dirty \ dirty' : d[2] = launch => area[d[1]] = "fw"]_kernelVars

\* A kernel that runs finds nothing of an earlier launch in the shared state ("reset
\* per-kernel state when all cores return to firmware", tensix_clear).  It does if a core
\* of that launch has reported before rv_step has seen it leave.
NoLeak ==
    (\E c \in TileCores : area[c] = "kernel") => \A d \in dirty : d[2] = launch

\* The comment in rv_step: all cores are back in firmware, so that it is safe to reset
\* the shared kernel state.  A core of the launch that has yet to call its kernel, or
\* is in it, still needs what the others left there.
ClearIsSafe ==
    [][had_trisc /\ ~had_trisc' => todo \subseteq back]_kernelVars
=============================================================================
