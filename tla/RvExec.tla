------------------------------- MODULE RvExec -------------------------------
(***************************************************************************)
(* What one decoded instruction does: the bodies of rv32_template.c.  The  *)
(* program counter is left to the modules that extend this one, which      *)
(* differ in how they find the next instruction.  A mailbox is one more    *)
(* address, behind which a FIFO of words lies; tensix.c's dispatch of      *)
(* other devices is left out.                                              *)
(***************************************************************************)
EXTENDS Alu, Sequences

CONSTANTS
    Regs,      \* register numbers, 0 among them
    Ram,       \* byte addresses of memory
    Mailbox,   \* the address whose load pops the FIFO
    Depth      \* words the FIFO holds: 4

VARIABLES
    X,      \* the integer registers
    mem,    \* mem[a]: the byte at a
    fifo    \* the words waiting in the mailbox

execVars == <<X, mem, fifo>>

ASSUME RegsAssumption == 0 \in Regs
ASSUME RamAssumption == Ram \subseteq Word /\ Mailbox \in Word \ Ram /\ Mailbox % 4 = 0

ByteSize == 2 ^ (XLEN \div 4)
Byte == 0 .. ByteSize - 1

Loads == {"lb", "lh", "lw", "lbu", "lhu"}
Stores == {"sb", "sh", "sw"}
AmoOps == {"amoswapw", "amoaddw", "amoxorw", "amoandw", "amoorw",
           "amominw", "amomaxw", "amominuw", "amomaxuw"}
\* Instructions that put a value computed from registers into rd.
Computes == ImmOps \cup RegOps \cup MulOps \cup ZbOps \cup {"lui", "auipc"}
\* Instructions that leave registers and memory alone; "tt" is an inline Tensix instruction.
Effectless == Branches \cup {"fence", "tt"}
Ops == Computes \cup Loads \cup Stores \cup AmoOps \cup Effectless
         \cup {"nop", "lrw", "scw", "jal", "jalr"}

Insns == [op : Ops, rd : Regs, rs1 : Regs, rs2 : Regs, imm : Word]

\* Faulty form, for comparison: x0 as destination is not looked for.
DecodedAsIs(insn) == insn

\* decode.c turns an instruction whose only effect is to write x0 into a nop; the
\* decoders of stores and branches leave rd zero.
Decoded(insn) ==
    IF insn.op \in Computes /\ insn.rd = 0 THEN [insn EXCEPT !.op = "nop"]
    ELSE IF insn.op \in Stores \cup Branches \cup {"fence"} THEN [insn EXCEPT !.rd = 0]
    ELSE insn
-----------------------------------------------------------------------------
Address(ir) ==
    IF ir.op \in Loads \cup Stores THEN Wrap(X[ir.rs1] + ir.imm) ELSE X[ir.rs1]

\* How many bytes a memory access covers.
Width(op) == IF op \in {"lb", "lbu", "sb"} THEN 1 ELSE IF op \in {"lh", "lhu", "sh"} THEN 2 ELSE 4

\* RV_EXC_MISALIGN_HANDLER finds the address of a memory access misaligned.
Misaligned(ir) ==
    /\ ir.op \in Loads \cup Stores \cup AmoOps \cup {"lrw", "scw"}
    /\ Address(ir) % Width(ir.op) # 0

ReadsMailbox(ir) == ir.op = "lw" /\ Address(ir) = Mailbox

\* mem_read_b, mem_read_s and mem_read_w: little endian, zero where there is no memory.
Read(a, n) ==
    MapThenSumSet(LAMBDA k : IF a + k \in Ram THEN mem[a + k] * ByteSize ^ k ELSE 0, 0 .. n - 1)

Written(a, n, v) ==
    [b \in DOMAIN mem |-> IF b \in a .. a + n - 1 THEN (v \div ByteSize ^ (b - a)) % ByteSize ELSE mem[b]]

\* The value of a load: sign_extend_b and sign_extend_h, or zeroes.
Loaded(ir) ==
    LET n == Width(ir.op)
        v == Read(Address(ir), n)
        signed == ir.op \in {"lb", "lh"} /\ 2 * v >= ByteSize ^ n
    IN  IF ReadsMailbox(ir) THEN (IF fifo = <<>> THEN 0 ELSE Head(fifo))
        ELSE IF signed THEN Wrap(v - ByteSize ^ n) ELSE v

AmoResult(op, v, b) ==
    CASE op = "amoswapw" -> b
      [] op = "amoaddw" -> Wrap(v + b)
      [] op = "amoxorw" -> Xor(v, b)
      [] op = "amoandw" -> And(v, b)
      [] op = "amoorw" -> Or(v, b)
      [] op = "amominw" -> IF Sgn(v) < Sgn(b) THEN v ELSE b
      [] op = "amomaxw" -> IF Sgn(v) > Sgn(b) THEN v ELSE b
      [] op = "amominuw" -> IF v < b THEN v ELSE b
      [] op = "amomaxuw" -> IF v > b THEN v ELSE b

\* What a computing instruction at address at puts into rd.
Result(ir, at) ==
    IF ir.op = "lui" THEN ir.imm
    ELSE IF ir.op = "auipc" THEN Wrap(ir.imm + at)
    ELSE IF ir.op \in ImmOps THEN ImmResult(ir.op, X[ir.rs1], ir.imm)
    ELSE IF ir.op \in RegOps THEN RegResult(ir.op, X[ir.rs1], X[ir.rs2])
    ELSE IF ir.op \in MulOps THEN MulResult(ir.op, X[ir.rs1], X[ir.rs2])
    ELSE ZbResult(ir.op, X[ir.rs1], IF ir.op \in ImmediateZb THEN ir.imm ELSE X[ir.rs2])

SetReg(r, v) == X' = [X EXCEPT ![r] = v]
SetRegUnlessZero(r, v) == IF r = 0 THEN X' = X ELSE SetReg(r, v)

\* nop resets x0, which a load may have overwritten.
DoNop(ir) == ir.op = "nop" /\ SetReg(0, 0) /\ UNCHANGED <<mem, fifo>>

DoCompute(ir, at) ==
    ir.op \in Computes /\ SetReg(ir.rd, Result(ir, at)) /\ UNCHANGED <<mem, fifo>>

DoJump(ir, at) ==
    ir.op \in {"jal", "jalr"} /\ SetRegUnlessZero(ir.rd, Wrap(at + 4)) /\ UNCHANGED <<mem, fifo>>

DoLoad(ir) ==
    /\ ir.op \in Loads
    /\ SetReg(ir.rd, Loaded(ir))
    /\ fifo' = IF ReadsMailbox(ir) /\ fifo # <<>> THEN Tail(fifo) ELSE fifo
    /\ UNCHANGED mem

DoStore(ir) ==
    /\ ir.op \in Stores
    /\ mem' = Written(Address(ir), Width(ir.op), X[ir.rs2])
    /\ UNCHANGED <<X, fifo>>

\* LR.W keeps no reservation and SC.W always succeeds.
DoReserved(ir) ==
    \/ /\ ir.op = "lrw"
       /\ SetRegUnlessZero(ir.rd, Read(Address(ir), 4))
       /\ UNCHANGED <<mem, fifo>>
    \/ /\ ir.op = "scw"
       /\ mem' = Written(Address(ir), 4, X[ir.rs2])
       /\ SetReg(ir.rd, 0)
       /\ UNCHANGED fifo

DoAmo(ir) ==
    /\ ir.op \in AmoOps
    /\ LET v == Read(Address(ir), 4)
       IN  /\ SetRegUnlessZero(ir.rd, v)
           /\ mem' = Written(Address(ir), 4, AmoResult(ir.op, v, X[ir.rs2]))
    /\ UNCHANGED fifo

Do(ir, at) ==
    \/ DoNop(ir)
    \/ DoCompute(ir, at)
    \/ DoJump(ir, at)
    \/ DoLoad(ir)
    \/ DoStore(ir)
    \/ DoReserved(ir)
    \/ DoAmo(ir)
    \/ ir.op \in Effectless /\ UNCHANGED execVars

\* A jump to t: a misaligned target traps once PC is t, so that rv_trap_default_handler
\* resumes behind the target, not behind the jump.
Landing(t) == IF t % 4 = 0 THEN t ELSE Wrap(t + 4)

\* Where execution goes after an instruction whose data access did not trap.
NextPc(ir, at) ==
    IF ir.op = "jal" \/ (ir.op \in Branches /\ ~Skips(ir.op, X[ir.rs1], X[ir.rs2]))
    THEN Landing(Wrap(at + ir.imm))
    ELSE IF ir.op = "jalr" THEN LET t == Wrap(X[ir.rs1] + ir.imm) IN Landing(t - (t % 2))
    ELSE at + 4

\* A word arrives in the mailbox.
Push(v) == Len(fifo) < Depth /\ fifo' = Append(fifo, v) /\ UNCHANGED <<X, mem>>
=============================================================================
