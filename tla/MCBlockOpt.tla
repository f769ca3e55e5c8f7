----------------------------- MODULE MCBlockOpt -----------------------------
(***************************************************************************)
(* Programs for BlockOpt.  A body of up to three instructions is run       *)
(* twice from the same block (r3 counts), then the program spins.          *)
(***************************************************************************)
EXTENDS BlockOpt

I(op, rd, rs1, rs2, imm) == [op |-> op, rd |-> rd, rs1 |-> rs1, rs2 |-> rs2, imm |-> imm]
ImmI(op, rd, rs1, imm) == I(op, rd, rs1, 0, imm)
RegI(op, rd, rs1, rs2) == I(op, rd, rs1, rs2, 0)

MCPcs == {0, 4, 8, 12, 16, 20}

\* Counts down, goes back to 0 while r3 is not zero, then spins.
Looped(body) == [a \in MCPcs |->
    CASE a = 12 -> ImmI("addi", 3, 3, 255)
      [] a = 16 -> I("bne", 0, 3, 0, 240)
      [] a = 20 -> ImmI("jal", 0, 0, 0)
      [] OTHER -> body[1 + a \div 4]]

\* Ends in a branch on what the body computed: to the spin, or by a call and a return.
Branched(body, op) == [a \in MCPcs |->
    CASE a = 8 -> I(op, 0, 1, 2, 8)
      [] a = 12 -> ImmI("jal", 2, 0, 8)
      [] a = 16 -> ImmI("jal", 0, 0, 0)
      [] a = 20 -> ImmI("jalr", 1, 2, 0)
      [] OTHER -> body[1 + a \div 4]]

\* What the three passes over a block can make out of one another.
Basic ==
    { ImmI("lui", 1, 0, 240), ImmI("addi", 1, 0, 4), RegI("add", 2, 2, 1), ImmI("slli", 2, 1, 1),
      ImmI("srai", 2, 2, 1), ImmI("lw", 2, 1, 0), ImmI("lw", 1, 0, 4), I("sw", 0, 0, 2, 4) }

\* One of every kind.
Other2 ==
    { ImmI("lui", 2, 0, 4), ImmI("addi", 2, 1, 252), RegI("add", 1, 2, 2), ImmI("addi", 0, 1, 1), ImmI("auipc", 2, 0, 128), ImmI("lw", 1, 1, 0), ImmI("lb", 1, 0, 3),
      ImmI("lhu", 2, 0, 2), I("sb", 0, 1, 2, 0), I("sh", 0, 0, 1, 1),
      RegI("div", 2, 1, 2), RegI("mulhsu", 2, 2, 1), ImmI("sltiu", 1, 1, 5),
      RegI("amoaddw", 2, 0, 1), RegI("amomaxw", 1, 0, 2), RegI("lrw", 2, 0, 0), RegI("tt", 0, 0, 0) }

All == Basic \cup Other2

\* match_pattern hides a load of the mailbox behind a load that comes before it, and
\* block_translate does not recognise one whose address was not made by a lui of the
\* block or was not in the register when the block was translated.
Tame(body) ==
    \A k \in DOMAIN body : body[k].op = "lw" /\ body[k].rs1 = 1 =>
        k > 1 /\ body[k - 1] \in {ImmI("lui", 1, 0, 240), ImmI("addi", 1, 0, 4)}

Programs ==
    {Looped(b) : b \in {c \in [1 .. 3 -> Basic] : Tame(c)}}
    \cup {Branched(b, op) : b \in {c \in [1 .. 2 -> All] : Tame(c)}, op \in {"blt", "bgeu"}}

Registers(a, b) == [r \in Regs |-> CASE r = 0 -> 0 [] r = 1 -> a [] r = 2 -> b [] r = 3 -> 2]

\* Runs a few instructions and spins.
Straight(body) == [a \in MCPcs |-> IF a \div 4 < Len(body) THEN body[1 + a \div 4] ELSE ImmI("jal", 0, 0, 0)]

\* Words at which an operation may go wrong.
Edges == {0, 1, 127, 128, 255}

\* Every operation that may be folded, with operands known when the block is translated.
FoldedSetups ==
    { [code |-> Straight(<<ImmI("lui", 1, 0, a), ImmI("lui", 2, 0, b), insn>>), X |-> Registers(0, 0)] :
      a \in Edges, b \in Edges,
      insn \in {RegI(op, 2, 1, 2) : op \in RegOps \cup MulOps}
               \cup {I(op, 0, 1, 2, 4) : op \in Branches} }
    \cup
    { [code |-> Straight(<<ImmI("lui", 1, 0, a), ImmI(op, 2, 1, b)>>), X |-> Registers(0, 0)] :
      a \in Edges, b \in Edges, op \in ImmOps }

\* Every M and Zb* operation, with operands known only when it is executed.
PlainSetups ==
    { [code |-> Straight(<<I(op, 2, 1, 2, b)>>), X |-> Registers(a, b)] :
      a \in Edges, b \in Edges, op \in MulOps \cup ZbOps }

MCSetups == [code : Programs, X : {Registers(4, 0), Registers(4, 129)}] \cup FoldedSetups \cup PlainSetups

\* A load whose destination is x0, then an addition that takes x0 for zero.
MCZeroLoad == [code : {Straight(<<ImmI("lw", 0, 0, 4), ImmI("addi", 2, 0, 1)>>)}, X : {Registers(4, 0)}]
=============================================================================
