------------------------------ MODULE BlockOpt ------------------------------
(***************************************************************************)
(* How rv32emu runs a program.  rv_step looks up the block that starts at  *)
(* PC; a block that is not there yet is translated up to its first branch, *)
(* its constants are folded (optimize_constant), runs of instructions are  *)
(* fused (match_pattern), and it is kept.  The loops of these functions    *)
(* are steps here, one per iteration, and so are the parts of a fused      *)
(* instruction, so that every step executes at most one instruction of the *)
(* program and can be compared with PlainRv.                               *)
(***************************************************************************)
EXTENDS PlainRv, RvIsa

CONSTANTS
    Capacity,      \* entries of the block map
    RemoveLimit    \* remove_next_nth_ir counts modulo this: 2^8

VARIABLES
    phase,       \* where rv_step is
    PC,          \* rv->PC: the block that is translated or run
    irs,         \* the block as translated
    lui_const,   \* block_translate's guess of registers, 0 for none
    out,         \* the block with constants folded
    info,        \* constopt_info_t: a constant or Unknown for every register
    ghost,       \* history: info as it was before each instruction
    groups,      \* the block with runs fused: which instructions lie in one ir
    blocks,      \* the block map; a block keeps its instructions as fetched, for comparison
    gi, base, i  \* the ir in execution, the local PC, and the part of the ir

transVars == <<irs, lui_const, out, info, ghost, groups>>
runVars == <<gi, base, i>>
blockVars == <<X, mem, fifo, code, phase, PC, transVars, blocks, runVars>>

Unknown == -1
Shifts == {"slli", "srli", "srai"}
\* insn_is_branch, and the Tensix instruction that block_translate ends a block with.
Enders == Branches \cup {"jal", "jalr", "fence", "tt"}

ASSUME RemoveAssumption == RemoveLimit \in Nat \ {0}
ASSUME CapacityAssumption == Capacity \in Nat

NoConstants == [r \in Regs |-> IF r = 0 THEN 0 ELSE Unknown]
NoLui == [r \in Regs |-> 0]

BlockInit ==
    /\ phase = "head" /\ PlainInit(PC)
    /\ irs = <<>> /\ lui_const = NoLui
    /\ out = <<>> /\ info = NoConstants /\ ghost = <<>> /\ groups = <<>>
    /\ blocks = [a \in {} |-> <<>>]
    /\ gi = 1 /\ base = 0 /\ i = 0
-----------------------------------------------------------------------------
(***************************************************************************)
(* rv_step and block_find_or_translate.                                    *)
(***************************************************************************)
Enter == phase' = "run" /\ gi' = 1 /\ base' = PC /\ i' = 0

Find ==
    /\ phase = "head" /\ PC \in DOMAIN blocks
    /\ Enter
    /\ UNCHANGED <<execVars, code, PC, transVars, blocks>>

MapFull == 5 * Cardinality(DOMAIN blocks) > 4 * Capacity

Miss ==
    /\ phase = "head" /\ PC \in Pcs \ DOMAIN blocks
    /\ blocks' = IF MapFull THEN [a \in {} |-> <<>>] ELSE blocks
    /\ phase' = "fetch" /\ irs' = <<>> /\ lui_const' = NoLui
    /\ UNCHANGED <<execVars, code, PC, out, info, ghost, groups, runVars>>

\* The load whose address block_translate takes for the mailbox's.
LooksLikeMailbox(insn) ==
    /\ insn.op = "lw"
    /\ LET guess == IF lui_const[insn.rs1] # 0 THEN lui_const[insn.rs1] ELSE X[insn.rs1]
       IN  Wrap(guess + insn.imm) = Mailbox

Ir(insn, at, mbox) ==
    [op |-> insn.op, rd |-> insn.rd, rs1 |-> insn.rs1, rs2 |-> insn.rs2, imm |-> insn.imm,
     pc |-> at, mbox |-> mbox]

FetchEnd ==
    phase' = "fold" /\ out' = <<>> /\ info' = NoConstants /\ ghost' = <<>>

\* One iteration of block_translate.
Fetch ==
    LET at == PC + 4 * Len(irs)
        insn == Decoded(code[at])
    IN  /\ phase = "fetch" /\ at \in Pcs
        /\ irs' = Append(irs, Ir(insn, at, LooksLikeMailbox(insn)))
        /\ lui_const' = [lui_const EXCEPT ![insn.rd] = IF insn.op = "lui" THEN insn.imm ELSE 0]
        /\ IF LooksLikeMailbox(insn) \/ insn.op \in Enders
           THEN FetchEnd ELSE UNCHANGED <<phase, out, info, ghost>>
        /\ UNCHANGED <<execVars, code, PC, groups, blocks, runVars>>
-----------------------------------------------------------------------------
(***************************************************************************)
(* optimize_constant.  A folded instruction becomes lui of its result, a   *)
(* decided branch a jal.                                                   *)
(***************************************************************************)
Known(c, r) == c[r] # Unknown

FoldsToValue(ir, c) ==
    \/ ir.op = "auipc"
    \/ ir.op \in ImmOps /\ Known(c, ir.rs1)
    \/ ir.op \in RegOps \cup MulOps /\ Known(c, ir.rs1) /\ Known(c, ir.rs2)

FoldValue(ir, c) ==
    IF ir.op = "auipc" THEN Wrap(ir.imm + ir.pc)
    ELSE IF ir.op \in ImmOps THEN FoldImm(ir.op, c[ir.rs1], ir.imm)
    ELSE IF ir.op \in RegOps THEN FoldReg(ir.op, c[ir.rs1], c[ir.rs2])
    ELSE FoldMul(ir.op, c[ir.rs1], c[ir.rs2])

FoldsBranch(ir, c) == ir.op \in Branches /\ Known(c, ir.rs1) /\ Known(c, ir.rs2)

FoldIr(ir, c) ==
    IF FoldsToValue(ir, c) THEN [ir EXCEPT !.op = "lui", !.imm = FoldValue(ir, c)]
    ELSE IF FoldsBranch(ir, c)
    THEN [ir EXCEPT !.op = "jal",
                    !.imm = IF FoldSkips(ir.op, c[ir.rs1], c[ir.rs2]) THEN 4 ELSE @]
    ELSE ir

\* Instructions after which nothing is known of rd; scw is not among them.
Forgets(ir) ==
    \/ ir.op \in Computes \cup Loads
    \/ ir.op \in AmoOps \cup {"lrw"} /\ ir.rd # 0

\* Faulty form, for comparison: a load leaves what was known of rd.
FoldInfoKeepsLoads(ir, c) ==
    IF ir.op = "lui" THEN [c EXCEPT ![ir.rd] = ir.imm]
    ELSE IF FoldsToValue(ir, c) THEN [c EXCEPT ![ir.rd] = FoldValue(ir, c)]
    ELSE IF ir.op \in Computes THEN [c EXCEPT ![ir.rd] = Unknown]
    ELSE c

FoldInfo(ir, c) ==
    IF ir.op = "lui" THEN [c EXCEPT ![ir.rd] = ir.imm]
    ELSE IF FoldsToValue(ir, c) THEN [c EXCEPT ![ir.rd] = FoldValue(ir, c)]
    ELSE IF ir.op \in {"jal", "jalr"} /\ ir.rd # 0 THEN [c EXCEPT ![ir.rd] = Wrap(ir.pc + 4)]
    ELSE IF Forgets(ir) THEN [c EXCEPT ![ir.rd] = Unknown]
    ELSE c

\* One iteration of optimize_constant.
Fold ==
    LET ir == irs[Len(out) + 1]
    IN  /\ phase = "fold"
        /\ out' = Append(out, FoldIr(ir, info))
        /\ ghost' = Append(ghost, info)
        /\ info' = FoldInfo(ir, info)
        /\ phase' = IF Len(out) + 1 = Len(irs) THEN "fuse" ELSE "fold"
        /\ groups' = <<>>
        /\ UNCHANGED <<execVars, code, PC, irs, lui_const, blocks, runVars>>
-----------------------------------------------------------------------------
(***************************************************************************)
(* match_pattern.  An ir stands for n instructions of the block, from lo.  *)
(***************************************************************************)
Fused(op) ==
    IF op = "lui" THEN [kind |-> "fuse1", class |-> {"lui"}]
    ELSE IF op = "sw" THEN [kind |-> "fuse3", class |-> {"sw"}]
    ELSE IF op = "lw" THEN [kind |-> "fuse4", class |-> {"lw"}]
    ELSE IF op \in Shifts THEN [kind |-> "fuse5", class |-> Shifts]
    ELSE [kind |-> "one", class |-> {}]

\* The instruction match_pattern looks at next.
Cursor ==
    IF groups = <<>> THEN 1
    ELSE LET g == groups[Len(groups)] IN g.lo + 1 + ((g.n - 1) % RemoveLimit)

Group(kind, n) == groups' = Append(groups, [kind |-> kind, lo |-> Cursor, n |-> n])

\* lui rd; add with rd among its operands.
LuiAdd(p) ==
    /\ p < Len(out)
    /\ out[p].op = "lui" /\ out[p + 1].op = "add"
    /\ out[p].rd \in {out[p + 1].rs1, out[p + 1].rs2}

\* The longest run from p of instructions of a class has n members.
IsRun(p, n, class) ==
    /\ \A q \in p .. p + n - 1 : out[q].op \in class
    /\ p + n > Len(out) \/ out[p + n].op \notin class

\* One iteration of match_pattern.  Without memory for the parts it leaves the ir alone.
Match ==
    /\ phase = "fuse" /\ Cursor <= Len(out)
    /\ LET p == Cursor
           f == Fused(out[p].op)
       IN  \/ LuiAdd(p) /\ Group("fuse2", 2)
           \/ \E n \in 2 .. Len(out) - p + 1 : IsRun(p, n, f.class) /\ Group(f.kind, n)
           \/ ~LuiAdd(p) /\ Group("one", 1)
    /\ UNCHANGED <<execVars, code, phase, PC, irs, lui_const, out, info, ghost, blocks, runVars>>

Insert ==
    /\ phase = "fuse" /\ Cursor > Len(out)
    /\ blocks' = [a \in DOMAIN blocks \cup {PC} |->
          IF a = PC THEN [irs |-> out, orig |-> irs, ghost |-> ghost, groups |-> groups] ELSE blocks[a]]
    /\ Enter
    /\ UNCHANGED <<execVars, code, PC, transVars>>
-----------------------------------------------------------------------------
(***************************************************************************)
(* Execution of a block: the tail calls from ir to ir, and the loops of    *)
(* do_fuse1 to do_fuse5.                                                   *)
(***************************************************************************)
CurGroup == blocks[PC].groups[gi]
CurIr == blocks[PC].irs[CurGroup.lo + i]
At == base + 4 * i
ByMailboxHandler == CurGroup.kind = "one" /\ CurIr.mbox

Leave(target) == phase' = "head" /\ PC' = target /\ UNCHANGED runVars

\* A trap takes the local PC for the address of the instruction.
RunTrap ==
    /\ phase = "run" /\ Misaligned(CurIr) /\ ~ByMailboxHandler
    /\ Leave(base + 4)
    /\ UNCHANGED <<execVars, code, transVars, blocks>>

\* do_lw_mailbox finds the FIFO empty.
RunWait ==
    /\ phase = "run" /\ ByMailboxHandler /\ ReadsMailbox(CurIr) /\ fifo = <<>>
    /\ X' = [X EXCEPT ![CurIr.rd] = 0, ![CurIr.rs1] = X[CurIr.rs1]]
    /\ Leave(At)
    /\ UNCHANGED <<mem, fifo, code, transVars, blocks>>

\* do_ttinsn finds the wait gate closed.
RunBlocked ==
    /\ phase = "run" /\ CurIr.op = "tt"
    /\ Leave(At)
    /\ UNCHANGED <<execVars, code, transVars, blocks>>

\* Faulty form, for comparison: the operand that is the lui's own is not told apart.
OtherFirst(lui, add) == add.rs1

\* The second half of do_fuse2: the other operand of the add was kept in rs1.
Other(lui, add) == IF lui.rd = add.rs2 THEN add.rs1 ELSE add.rs2

AddLui(lui, add) ==
    /\ X' = [X EXCEPT ![add.rd] = IF lui.rd = add.rs2 THEN Wrap(X[Other(lui, add)] + X[lui.rd])
                                  ELSE Wrap(X[lui.rd] + X[Other(lui, add)])]
    /\ UNCHANGED <<mem, fifo>>

DoPart ==
    IF CurGroup.kind = "fuse2" /\ i = 1
    THEN AddLui(blocks[PC].irs[CurGroup.lo], CurIr)
    ELSE Do(CurIr, At)

Advance ==
    IF i + 1 < CurGroup.n
    THEN i' = i + 1 /\ UNCHANGED <<phase, PC, gi, base>>
    ELSE IF gi < Len(blocks[PC].groups)
    THEN gi' = gi + 1 /\ base' = base + 4 * CurGroup.n /\ i' = 0 /\ UNCHANGED <<phase, PC>>
    ELSE Leave(NextPc(CurIr, At))

RunPart ==
    /\ phase = "run"
    /\ Misaligned(CurIr) => ByMailboxHandler
    /\ ByMailboxHandler /\ ReadsMailbox(CurIr) => fifo # <<>>
    /\ DoPart
    /\ Advance
    /\ UNCHANGED <<code, transVars, blocks>>

Arrive ==
    /\ \E v \in Words : Push(v)
    /\ UNCHANGED <<code, phase, PC, transVars, blocks, runVars>>

BlockNext ==
    \/ Find \/ Miss \/ Fetch \/ Fold \/ Match \/ Insert
    \/ RunTrap \/ RunWait \/ RunBlocked \/ RunPart
    \/ Arrive

BlockSpec == BlockInit /\ [][BlockNext]_blockVars
-----------------------------------------------------------------------------
\* The address of the instruction that is executed next.
ArchPc == IF phase = "run" THEN At ELSE PC

archVars == <<X, mem, fifo, code, ArchPc>>

\* A program does under translation, folding and fusion what it does when it is
\* interpreted one instruction at a time, whatever the registers are when a kept
\* block is run again: optimize_constant and match_pattern change nothing that the
\* program can see, and a load of the empty mailbox waits.
ImplementsPlain == PlainInit(ArchPc) /\ [][PlainNext(ArchPc, ArchPc')]_archVars

\* Whatever the registers were when a kept block is entered, every register that
\* optimize_constant took for a constant before an instruction of the block holds that
\* constant when the instruction is executed, inside a fused instruction too.
ConstantsHold ==
    phase = "run" =>
        LET c == blocks[PC].ghost[CurGroup.lo + i]
        IN  \A r \in Regs : Known(c, r) => X[r] = c[r]

\* Every M and Zb* instruction the emulator executes computes what the RISC-V manual asks
\* for its operands, at the edges of the word too: division by zero, the quotient that
\* overflows, rotation by zero, the halves of a carry-less product.
IsaResults ==
    phase = "run" /\ CurIr.op \in MulOps \cup ZbOps =>
        LET a == X[CurIr.rs1]
            b == IF CurIr.op \in ImmediateZb THEN CurIr.imm ELSE X[CurIr.rs2]
            v == Result(CurIr, At)
        IN  IF CurIr.op \in MulOps THEN MeetsM(CurIr.op, a, b, v) ELSE MeetsZb(CurIr.op, a, b, v)

\* optimize_constant's assert(rv->X[0] == 0): x0 is zero whenever a block is translated
\* or entered, which is what makes it a constant of every block.
ZeroIsZero == phase \in {"head", "fetch", "fold", "fuse"} => X[0] = 0
=============================================================================
