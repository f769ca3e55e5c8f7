----------------------------- MODULE CodeCache -----------------------------
(***************************************************************************)
(* Translated blocks across kernels.  Every core keeps the blocks it has   *)
(* translated; the host overwrites kernel binaries between launches, so    *)
(* the head of rv_step's loop drops a core's blocks when it sees the core  *)
(* leave a kernel, and on the NCRISCs, which have no Tensix, when it sees  *)
(* one enter a kernel at another address than the last one it saw entered. *)
(* A jump into a block that is kept goes there directly, past that head:   *)
(* the core changes between firmware and kernel unseen.  The host and the  *)
(* firmware are external.                                                  *)
(***************************************************************************)
EXTENDS Naturals

CONSTANTS
    Tracked,   \* cores with a Tensix: BRISC and the TRISCs
    NCRISCs,   \* cores with core_id 3, of one or more tiles
    Addrs,     \* kernel entry addresses
    Versions   \* kernel binaries

VARIABLES
    mem,         \* mem[c][a]: the binary that lies at a
    target,      \* the kernel the firmware is to call, or None
    last,        \* the kernel it was given last, or None
    polled,      \* the firmware has looked for a kernel since it was given the last one
    at,          \* the place PC is at
    inside,      \* the block at that place is in execution; else rv_step's loop is at its head
    pre,         \* the place pre_pc is at
    block_map,   \* block_map[c][p]: what the block at p was translated from, or None
    ncrisc_prev_kernel_pc

codeVars == <<mem, target, last, polled, at, inside, pre, block_map, ncrisc_prev_kernel_pc>>

None == "none"
CodeCores == Tracked \cup NCRISCs

\* A place is the first block of a kernel, a later one, or in the firmware.
FW == [addr |-> None, part |-> "fw"]
KernelPlaces == [addr : Addrs, part : {"entry", "body"}]
Places == KernelPlaces \cup {FW}
Entry(a) == [addr |-> a, part |-> "entry"]
Body(a) == [addr |-> a, part |-> "body"]
NoBlocks == [p \in Places |-> None]

ASSUME AddrsAssumption == None \notin Addrs
ASSUME VersionsAssumption == None \notin Versions
ASSUME KindsAssumption == Tracked \cap NCRISCs = {}

CodeInit ==
    /\ mem \in [CodeCores -> {[a \in Addrs |-> v] : v \in Versions}]
    /\ target = [c \in CodeCores |-> None]
    /\ last = [c \in CodeCores |-> None]
    /\ polled = [c \in CodeCores |-> FALSE]
    /\ at = [c \in CodeCores |-> FW]
    /\ inside = [c \in CodeCores |-> FALSE]
    /\ pre = [c \in CodeCores |-> FW]
    /\ block_map = [c \in CodeCores |-> NoBlocks]
    /\ ncrisc_prev_kernel_pc = FW

\* The host puts binary v at address a and has c's firmware call it.  An NCRISC
\* gets a new binary at another address than its last one (the comment in rv_step:
\* the entry address changes with a "different binary or load offset").
Load(c, a, v) ==
    /\ at[c] = FW /\ target[c] = None
    /\ c \in NCRISCs /\ v # mem[c][a] => a # last[c]
    /\ mem' = [mem EXCEPT ![c][a] = v]
    /\ target' = [target EXCEPT ![c] = a]
    /\ last' = [last EXCEPT ![c] = a]
    /\ polled' = [polled EXCEPT ![c] = FALSE]
    /\ UNCHANGED <<at, inside, pre, block_map, ncrisc_prev_kernel_pc>>
-----------------------------------------------------------------------------
(***************************************************************************)
(* The head of rv_step's loop and block_find_or_translate.                 *)
(***************************************************************************)
EntersNew(c) == c \in NCRISCs /\ pre[c] = FW /\ at[c] # FW /\ ncrisc_prev_kernel_pc # at[c]

\* Faulty form, for comparison: no block_map_clear on the way back to firmware.
DropsOnEntry(c) == EntersNew(c)

Drops(c) == EntersNew(c) \/ (c \in Tracked /\ pre[c] # FW /\ at[c] = FW)
Kept(c) == IF Drops(c) THEN NoBlocks ELSE block_map[c]

\* What the block at p would be translated from.
Content(c, p) == IF p = FW THEN "firmware" ELSE mem[c][p.addr]

\* A block that is not kept is translated; a full map is cleared first.
Found(c) == Kept(c)[at[c]] # None /\ block_map' = [block_map EXCEPT ![c] = Kept(c)]

Translated(c) ==
    /\ Kept(c)[at[c]] = None
    /\ \E rest \in {Kept(c), NoBlocks} :
          block_map' = [block_map EXCEPT ![c] = [rest EXCEPT ![at[c]] = Content(c, at[c])]]

Head(c) ==
    /\ ~inside[c]
    /\ ncrisc_prev_kernel_pc' = IF EntersNew(c) THEN at[c] ELSE ncrisc_prev_kernel_pc
    /\ pre' = [pre EXCEPT ![c] = at[c]]
    /\ Found(c) \/ Translated(c)
    /\ inside' = [inside EXCEPT ![c] = TRUE]
    /\ polled' = [polled EXCEPT ![c] = @ \/ at[c] = FW]
    /\ UNCHANGED <<mem, target, last, at>>
-----------------------------------------------------------------------------
(***************************************************************************)
(* The end of a block.  jal goes on along branch_taken, jalr along its     *)
(* history table or block_find, when the next block is kept; a conditional *)
(* branch always returns to rv_step.  Kernels are called and return by     *)
(* jalr.  The firmware's poll for a kernel ends in a conditional branch.   *)
(***************************************************************************)
Direct(c, p) == block_map[c][p] # None /\ inside' = inside
Return(c, p) == inside' = [inside EXCEPT ![c] = FALSE]

GoTo(c, p) ==
    /\ inside[c]
    /\ at' = [at EXCEPT ![c] = p]
    /\ UNCHANGED <<mem, last, polled, pre, block_map, ncrisc_prev_kernel_pc>>

RunFirmware(c) ==
    /\ at[c] = FW
    /\ GoTo(c, FW)
    /\ Direct(c, FW) \/ Return(c, FW)
    /\ UNCHANGED target

CallKernel(c) ==
    LET p == Entry(target[c])
    IN  /\ at[c] = FW /\ target[c] # None /\ polled[c]
        /\ GoTo(c, p)
        /\ Direct(c, p) \/ (block_map[c][p] = None /\ Return(c, p))
        /\ UNCHANGED target

RunKernel(c) ==
    LET p == Body(at[c].addr)
    IN  /\ at[c] # FW
        /\ GoTo(c, p)
        /\ Direct(c, p) \/ Return(c, p)
        /\ UNCHANGED target

\* The firmware has several blocks: the one returned to may be kept or not.
LeaveKernel(c) ==
    /\ at[c] # FW
    /\ GoTo(c, FW)
    /\ Direct(c, FW) \/ Return(c, FW)
    /\ target' = [target EXCEPT ![c] = None]

CodeNext ==
    \E c \in CodeCores :
        \/ \E a \in Addrs, v \in Versions : Load(c, a, v)
        \/ Head(c)
        \/ RunFirmware(c)
        \/ CallKernel(c)
        \/ RunKernel(c)
        \/ LeaveKernel(c)

CodeSpec == CodeInit /\ [][CodeNext]_codeVars
-----------------------------------------------------------------------------
\* A core in a kernel executes the binary that lies in memory, never one that lay
\* there during an earlier launch: block_map_clear is called often enough, although
\* jumps from block to block pass the place where it is called.
CodeIsFresh ==
    \A c \in CodeCores :
        inside[c] /\ at[c] # FW => block_map[c][at[c]] = mem[c][at[c].addr]
=============================================================================
