--------------------------- MODULE BlockOptProofs ---------------------------
(***************************************************************************)
(* That optimize_constant and match_pattern preserve what a program does.  *)
(* Three facts carry the argument: the functions of rv32_constopt.c        *)
(* compute what those of rv32_template.c compute (FoldIsResult), one       *)
(* instruction takes registers that agree with the table before it to      *)
(* registers that agree with the table after it (FoldConsistent), and the  *)
(* groups of a kept block lie one behind the other (Grouped).              *)
(***************************************************************************)
EXTENDS BlockOpt, SequenceTheorems, TLAPS

\* A sequence of anything.
IsList(s) == s \in Seq({s[k] : k \in DOMAIN s})

\* What is used of sequences, whatever their elements are.
LEMMA ListEmpty == IsList(<<>>) /\ Len(<<>>) = 0
BY SMTT(60) DEF IsList

\* Length and domain of a sequence.
LEMMA ListFacts ==
    ASSUME NEW s, IsList(s)
    PROVE  Len(s) \in Nat /\ DOMAIN s = 1 .. Len(s)
BY SMTT(60) DEF IsList

\* A sequence over some set is one.
LEMMA ListOfSeq ==
    ASSUME NEW T, NEW s \in Seq(T) PROVE IsList(s)
<1> DEFINE U == {s[k] : k \in DOMAIN s}
<1>1. Len(s) \in Nat /\ DOMAIN s = 1 .. Len(s) /\ s = [k \in 1 .. Len(s) |-> s[k]]
  BY SMTT(60)
<1>2. \A k \in 1 .. Len(s) : s[k] \in U
  BY <1>1, SMTT(60)
<1> HIDE DEF U
<1>3. s \in [1 .. Len(s) -> U]
  BY <1>1, <1>2, SMTT(60)
<1>4. s \in Seq(U)
  BY <1>1, <1>3, SeqDef, SMTT(60)
<1> QED
  BY <1>4, SMTT(60) DEF IsList, U

\* What Append adds and what it keeps.
LEMMA ListAppend ==
    ASSUME NEW s, IsList(s), NEW e
    PROVE  /\ IsList(Append(s, e))
           /\ Len(Append(s, e)) = Len(s) + 1
           /\ \A k \in 1 .. Len(s) : Append(s, e)[k] = s[k]
           /\ Append(s, e)[Len(s) + 1] = e
<1> DEFINE S == {s[k] : k \in DOMAIN s}
           T == S \cup {e}
<1>1. s \in Seq(S) /\ S \subseteq T
  BY SMTT(60) DEF IsList
<1>2. s \in Seq(T)
  BY <1>1, SMTT(60)
<1>3. Append(s, e) \in Seq(T) /\ Len(Append(s, e)) = Len(s) + 1
  BY <1>2, SMTT(60)
<1>4. \A k \in 1 .. Len(s) : Append(s, e)[k] = s[k]
  BY <1>2, SMTT(60)
<1>5. Append(s, e)[Len(s) + 1] = e
  BY <1>2, SMTT(60)
<1>6. IsList(Append(s, e))
  BY <1>3, ListOfSeq, ZenonT(60)
<1> QED
  BY <1>3, <1>4, <1>5, <1>6, SMTT(60)
-----------------------------------------------------------------------------
(***************************************************************************)
(* One instruction.                                                        *)
(***************************************************************************)
Irs == [op : Ops, rd : Regs, rs1 : Regs, rs2 : Regs, imm : Word, pc : Pcs, mbox : BOOLEAN]

\* Instructions that leave x0 alone and are not SC.W, of which optimize_constant does
\* not know that it writes a register.
Orderly(insn) ==
    /\ insn.op \in Computes \cup Loads => insn.rd # 0
    /\ insn.op \in Branches => insn.rd = 0
    /\ insn.op # "scw"

\* x0 is zero.
RegsOK == X = [r \in Regs |-> X[r]] /\ X[0] = 0

IsInfo(c) == c = [r \in Regs |-> c[r]] /\ c[0] = 0

\* The registers hold the constants of c.
Consistent(c) == \A r \in Regs : Known(c, r) => X[r] = c[r]

\* No operation is of two classes.
LEMMA OpClasses ==
    /\ \A op \in Computes : op \notin Loads \cup Stores \cup AmoOps \cup Effectless
                               /\ op \notin {"nop", "lrw", "scw", "jal", "jalr"}
    /\ \A op \in Loads : op \notin Stores \cup AmoOps \cup Effectless
                            /\ op \notin {"nop", "lrw", "scw", "jal", "jalr"}
    /\ \A op \in Stores : op \notin AmoOps \cup Effectless
                             /\ op \notin {"nop", "lrw", "scw", "jal", "jalr"}
    /\ \A op \in AmoOps : op \notin Effectless /\ op \notin {"nop", "lrw", "scw", "jal", "jalr"}
    /\ \A op \in Effectless : op \notin {"nop", "lrw", "scw", "jal", "jalr"}
    /\ "lui" \in Computes /\ "auipc" \in Computes /\ ImmOps \cup RegOps \cup MulOps \subseteq Computes
    /\ Branches \subseteq Effectless
    /\ \A op \in ImmOps : op \notin RegOps \cup MulOps \cup ZbOps /\ op # "lui" /\ op # "auipc"
    /\ \A op \in RegOps : op \notin MulOps \cup ZbOps /\ op # "lui" /\ op # "auipc"
    /\ \A op \in MulOps : op \notin ZbOps /\ op # "lui" /\ op # "auipc"
BY SMTT(60) DEF Computes, Loads, Stores, AmoOps, Effectless, Branches, ImmOps, RegOps, MulOps, ZbOps,
       ZbaOps, ZbbOps, ZbcOps, ZbsOps

\* What optimize_constant makes of an instruction.
LEMMA Folded ==
    ASSUME NEW ir \in Irs, NEW c
    PROVE  LET f == FoldIr(ir, c)
           IN  /\ f.rd = ir.rd /\ f.rs1 = ir.rs1 /\ f.rs2 = ir.rs2 /\ f.pc = ir.pc /\ f.mbox = ir.mbox
               /\ FoldsToValue(ir, c) => f.op = "lui" /\ f.imm = FoldValue(ir, c)
               /\ ~FoldsToValue(ir, c) /\ FoldsBranch(ir, c) =>
                    /\ f.op = "jal"
                    /\ f.imm = IF FoldSkips(ir.op, c[ir.rs1], c[ir.rs2]) THEN 4 ELSE ir.imm
               /\ ~FoldsToValue(ir, c) /\ ~FoldsBranch(ir, c) => f = ir
BY SMTT(60) DEF Irs, FoldIr

\* The copies of the operations in rv32_constopt.c compute what the operations do.
LEMMA FoldIsResult ==
    ASSUME NEW ir \in Irs, NEW c, Consistent(c), FoldsToValue(ir, c)
    PROVE  /\ ir.op \in Computes /\ ir.op # "lui"
           /\ FoldValue(ir, c) = Result(ir, ir.pc)
<1> USE DEF Irs
<1>1. CASE ir.op = "auipc"
  BY <1>1, OpClasses, SMTT(60) DEF FoldValue, Result
<1>2. CASE ir.op \in ImmOps
  <2>1. c[ir.rs1] = X[ir.rs1]
    BY <1>2, OpClasses, SMTT(60) DEF FoldsToValue, Consistent
  <2>2. FoldImm(ir.op, X[ir.rs1], ir.imm) = ImmResult(ir.op, X[ir.rs1], ir.imm)
    BY SMTT(60) DEF FoldImm, ImmResult
  <2> QED
    BY <1>2, <2>1, <2>2, OpClasses, ZenonT(60) DEF FoldValue, Result
<1>3. CASE ir.op \in RegOps
  <2>1. c[ir.rs1] = X[ir.rs1] /\ c[ir.rs2] = X[ir.rs2]
    BY <1>3, OpClasses, SMTT(60) DEF FoldsToValue, Consistent
  <2>2. FoldReg(ir.op, X[ir.rs1], X[ir.rs2]) = RegResult(ir.op, X[ir.rs1], X[ir.rs2])
    BY SMTT(60) DEF FoldReg, RegResult
  <2> QED
    BY <1>3, <2>1, <2>2, OpClasses, ZenonT(60) DEF FoldValue, Result
<1>4. CASE ir.op \in MulOps
  <2>1. c[ir.rs1] = X[ir.rs1] /\ c[ir.rs2] = X[ir.rs2]
    BY <1>4, OpClasses, SMTT(60) DEF FoldsToValue, Consistent
  <2>2. FoldMul(ir.op, X[ir.rs1], X[ir.rs2]) = MulResult(ir.op, X[ir.rs1], X[ir.rs2])
    BY SMTT(60) DEF FoldMul, MulResult
  <2> QED
    BY <1>4, <2>1, <2>2, OpClasses, SMTT(60) DEF FoldValue, Result
<1> QED
  BY <1>1, <1>2, <1>3, <1>4, OpClasses, SMTT(60) DEF FoldsToValue

\* A folded instruction does what the instruction does.
LEMMA FoldDo ==
    ASSUME NEW ir \in Irs, Orderly(ir), NEW c, Consistent(c), Do(FoldIr(ir, c), ir.pc)
    PROVE  Do(ir, ir.pc)
<1>1. CASE FoldsToValue(ir, c)
  <2>1. FoldIr(ir, c).op = "lui" /\ FoldIr(ir, c).imm = FoldValue(ir, c) /\ FoldIr(ir, c).rd = ir.rd
    BY <1>1, Folded, ZenonT(60)
  <2>2. X' = [X EXCEPT ![ir.rd] = FoldValue(ir, c)] /\ UNCHANGED <<mem, fifo>>
    BY <2>1, OpClasses, ZenonT(60)
      DEF Do, DoNop, DoCompute, DoJump, DoLoad, DoStore, DoReserved, DoAmo, SetReg, Result
  <2> QED
    BY <1>1, <2>2, FoldIsResult, ZenonT(60) DEF Do, DoCompute, SetReg
<1>2. CASE ~FoldsToValue(ir, c) /\ FoldsBranch(ir, c)
  <2>1. FoldIr(ir, c).op = "jal" /\ FoldIr(ir, c).rd = 0
    BY <1>2, Folded, ZenonT(60) DEF Orderly, FoldsBranch
  <2>2. UNCHANGED execVars
    BY <2>1, OpClasses, ZenonT(60) DEF Do, DoNop, DoCompute, DoJump, DoLoad, DoStore, DoReserved, DoAmo,
          SetRegUnlessZero, execVars
  <2> QED
    BY <1>2, <2>2, OpClasses, ZenonT(60) DEF Do, FoldsBranch
<1>3. CASE ~FoldsToValue(ir, c) /\ ~FoldsBranch(ir, c)
  BY <1>3, Folded, SMTT(60)
<1> QED
  BY <1>1, <1>2, <1>3, SMTT(60)

\* A decided branch goes where the branch goes.
LEMMA FoldSkipsIsSkips ==
    ASSUME NEW op, NEW a, NEW b PROVE FoldSkips(op, a, b) = Skips(op, a, b)
BY SMTT(60) DEF FoldSkips, Skips

\* A word is not changed by wrapping.
LEMMA WrapWord == ASSUME NEW x \in Word PROVE Wrap(x) = x
BY ModulusAssumption, SMTT(60) DEF Wrap, Word

\* A folded instruction goes where the instruction goes.
LEMMA FoldNext ==
    ASSUME NEW ir \in Irs, NEW c, Consistent(c)
    PROVE  NextPc(FoldIr(ir, c), ir.pc) = NextPc(ir, ir.pc)
<1>0. ir.pc \in Pcs /\ Landing(Wrap(ir.pc + 4)) = ir.pc + 4
  <2>1. ir.pc \in Pcs
    BY Zenon DEF Irs
  <2>2. ir.pc \in Word /\ ir.pc + 4 \in Word /\ ir.pc % 4 = 0
    BY <2>1, PcsAssumption, Zenon
  <2>3. (ir.pc + 4) % 4 = 0
    BY <2>2, ModulusAssumption, SMTT(60) DEF Word
  <2> QED
    BY <2>1, <2>2, <2>3, WrapWord, ZenonT(60) DEF Landing
<1>1. CASE FoldsToValue(ir, c)
  BY <1>1, Folded, FoldIsResult, OpClasses, ZenonT(60) DEF NextPc
<1>2. CASE ~FoldsToValue(ir, c) /\ FoldsBranch(ir, c)
  <2>1. /\ ir.op \in Branches /\ ir.op # "jal" /\ ir.op # "jalr"
        /\ c[ir.rs1] = X[ir.rs1] /\ c[ir.rs2] = X[ir.rs2]
    BY <1>2, OpClasses, Zenon DEF FoldsBranch, Consistent, Irs
  <2>2. /\ FoldIr(ir, c).op = "jal"
        /\ FoldIr(ir, c).imm = IF Skips(ir.op, X[ir.rs1], X[ir.rs2]) THEN 4 ELSE ir.imm
    BY <1>2, <2>1, Folded, FoldSkipsIsSkips, Zenon
  <2> QED
    BY <1>0, <2>1, <2>2, Zenon DEF NextPc
<1>3. CASE ~FoldsToValue(ir, c) /\ ~FoldsBranch(ir, c)
  BY <1>3, Folded, Zenon
<1> QED
  BY <1>1, <1>2, <1>3, SMTT(60)

\* What one instruction may do to the registers.
LEMMA DoRegs ==
    ASSUME NEW ir \in Irs, Orderly(ir), RegsOK, Do(ir, ir.pc)
    PROVE  /\ X' = [r \in Regs |-> X'[r]]
           /\ X'[0] = 0
           /\ \A r \in Regs : r # ir.rd => X'[r] = X[r]
           /\ ir.op \in Computes => X'[ir.rd] = Result(ir, ir.pc)
           /\ ir.op \in {"jal", "jalr"} /\ ir.rd # 0 => X'[ir.rd] = Wrap(ir.pc + 4)
           /\ ir.op \in Stores \cup Effectless \cup {"nop"} => X' = X
           /\ ir.rd = 0 => X' = X
<1> USE RegsAssumption DEF Irs, RegsOK, SetReg, SetRegUnlessZero
<1>1. CASE ir.op \in Computes
  <2>1. X' = [X EXCEPT ![ir.rd] = Result(ir, ir.pc)]
    BY <1>1, OpClasses, SMTT(60) DEF Do, DoNop, DoCompute, DoJump, DoLoad, DoStore, DoReserved, DoAmo
  <2>2. ir.rd # 0
    BY <1>1, SMTT(60) DEF Orderly
  <2> HIDE DEF Irs
  <2>3. ir.rd \in Regs
    BY DEF Irs
  <2> QED
    BY <1>1, <2>1, <2>2, <2>3, OpClasses, Zenon
<1>2. CASE ir.op \in Loads
  <2>1. X' = [X EXCEPT ![ir.rd] = Loaded(ir)]
    BY <1>2, OpClasses, SMTT(60) DEF Do, DoNop, DoCompute, DoJump, DoLoad, DoStore, DoReserved, DoAmo
  <2>2. ir.rd # 0
    BY <1>2, SMTT(60) DEF Orderly
  <2> QED
    BY <1>2, <2>1, <2>2, OpClasses, ZenonT(60)
<1>3. CASE ir.op \in Stores \cup Effectless
  <2>1. X' = X
    BY <1>3, OpClasses, ZenonT(60) DEF Do, DoNop, DoCompute, DoJump, DoLoad, DoStore, DoReserved, DoAmo, execVars
  <2> QED
    BY <1>3, <2>1, OpClasses, Zenon
<1>4. CASE ir.op \in {"jal", "jalr"}
  <2>1. X' = IF ir.rd = 0 THEN X ELSE [X EXCEPT ![ir.rd] = Wrap(ir.pc + 4)]
    BY <1>4, OpClasses, SMTT(60) DEF Do, DoNop, DoCompute, DoJump, DoLoad, DoStore, DoReserved, DoAmo
  <2> QED
    BY <1>4, <2>1, OpClasses, ZenonT(60)
<1>5. CASE ir.op = "nop"
  <2>1. X' = [X EXCEPT ![0] = 0]
    BY <1>5, OpClasses, Zenon DEF Do, DoNop, DoCompute, DoJump, DoLoad, DoStore, DoReserved, DoAmo
  <2> QED
    BY <1>5, <2>1, OpClasses, ZenonT(60)
<1>6. CASE ir.op \in AmoOps \cup {"lrw"}
  <2>1. PICK v : X' = IF ir.rd = 0 THEN X ELSE [X EXCEPT ![ir.rd] = v]
    BY <1>6, OpClasses, SMTT(60) DEF Do, DoNop, DoCompute, DoJump, DoLoad, DoStore, DoReserved, DoAmo
  <2> QED
    BY <1>6, <2>1, OpClasses, ZenonT(60)
<1> QED
  BY <1>1, <1>2, <1>3, <1>4, <1>5, <1>6, Zenon DEF Ops, Orderly

\* optimize_constant's table stays one, and x0 stays zero in it.
LEMMA FoldInfoIsInfo ==
    ASSUME NEW ir \in Irs, Orderly(ir), NEW c, IsInfo(c)
    PROVE  IsInfo(FoldInfo(ir, c))
<1>1. FoldsToValue(ir, c) \/ ir.op = "lui" => ir.rd # 0
  BY OpClasses, SMTT(60) DEF FoldsToValue, Orderly
<1>2. Forgets(ir) => ir.rd # 0
  BY DEF Forgets, Orderly
<1>3. FoldInfo(ir, c) = c \/ (ir.rd # 0 /\ \E v : FoldInfo(ir, c) = [c EXCEPT ![ir.rd] = v])
  BY <1>1, <1>2, ZenonT(60) DEF FoldInfo
<1> QED
  BY <1>3, RegsAssumption, ZenonT(60) DEF IsInfo

\* After the instruction the registers hold the constants of the table after it.
LEMMA FoldConsistent ==
    ASSUME NEW ir \in Irs, Orderly(ir), NEW c, IsInfo(c), RegsOK, Consistent(c), Do(ir, ir.pc)
    PROVE  /\ RegsOK'
           /\ \A r \in Regs : Known(FoldInfo(ir, c), r) => X'[r] = FoldInfo(ir, c)[r]
<1>1. RegsOK'
  BY DoRegs, SMTT(60) DEF RegsOK
<1>2. \A r \in Regs : r # ir.rd => FoldInfo(ir, c)[r] = c[r]
  BY DEF FoldInfo, IsInfo
<1>3. \A r \in Regs : r # ir.rd => X'[r] = X[r]
  BY DoRegs, Zenon
<1>4. Known(FoldInfo(ir, c), ir.rd) => X'[ir.rd] = FoldInfo(ir, c)[ir.rd]
  <2>1. ir.rd \in Regs
    BY SMTT(60) DEF Irs
  <2>2. CASE ir.op = "lui"
    <3>1. FoldInfo(ir, c)[ir.rd] = ir.imm
      BY <2>1, <2>2, Zenon DEF FoldInfo, IsInfo
    <3>2. X'[ir.rd] = ir.imm
      BY <2>2, DoRegs, OpClasses, ZenonT(60) DEF Result
    <3> QED
      BY <3>1, <3>2, SMTT(60)
  <2>3. CASE ir.op # "lui" /\ FoldsToValue(ir, c)
    <3>1. FoldInfo(ir, c)[ir.rd] = FoldValue(ir, c)
      BY <2>1, <2>3, Zenon DEF FoldInfo, IsInfo
    <3>2. X'[ir.rd] = FoldValue(ir, c)
      BY <2>3, DoRegs, FoldIsResult, ZenonT(60)
    <3> QED
      BY <3>1, <3>2
  <2>4. CASE ir.op \in {"jal", "jalr"} /\ ir.rd # 0
    <3>1. ~FoldsToValue(ir, c) /\ ir.op # "lui"
      BY <2>4, OpClasses, SMTT(60) DEF FoldsToValue
    <3>2. FoldInfo(ir, c)[ir.rd] = Wrap(ir.pc + 4)
      BY <2>1, <2>4, <3>1, Zenon DEF FoldInfo, IsInfo
    <3> QED
      BY <2>4, <3>2, DoRegs, ZenonT(60)
  <2>5. CASE /\ ir.op # "lui" /\ ~FoldsToValue(ir, c) /\ ~(ir.op \in {"jal", "jalr"} /\ ir.rd # 0)
             /\ Forgets(ir)
    BY <2>1, <2>5, Zenon DEF FoldInfo, IsInfo, Known
  <2>6. CASE /\ ir.op # "lui" /\ ~FoldsToValue(ir, c) /\ ~(ir.op \in {"jal", "jalr"} /\ ir.rd # 0)
             /\ ~Forgets(ir)
    <3>1. FoldInfo(ir, c) = c
      BY <2>6, Zenon DEF FoldInfo
    <3>2. X' = X
      BY <2>6, DoRegs, OpClasses, ZenonT(60) DEF Forgets, Orderly, Irs, Ops
    <3> QED
      BY <2>1, <3>1, <3>2, Zenon DEF Consistent
  <2> QED
    BY <2>2, <2>3, <2>4, <2>5, <2>6, ZenonT(60)
<1> QED
  BY <1>1, <1>2, <1>3, <1>4, ZenonT(60) DEF Consistent, Known
-----------------------------------------------------------------------------
(***************************************************************************)
(* The invariant.                                                          *)
(***************************************************************************)
\* Programs that leave x0 alone and use no SC.W, and registers to start with.
Disciplined ==
    \A s \in Setups :
        /\ s.code \in [Pcs -> Insns]
        /\ s.X = [r \in Regs |-> s.X[r]] /\ s.X[0] = 0
        /\ \A a \in Pcs : s.code[a].op # "scw" /\ (s.code[a].op \in Loads => s.code[a].rd # 0)

CodeOK == \A a \in Pcs : Decoded(code[a]) \in Insns /\ Orderly(Decoded(code[a]))

SameInsn(ir, insn) ==
    /\ ir.op = insn.op /\ ir.rd = insn.rd /\ ir.rs1 = insn.rs1 /\ ir.rs2 = insn.rs2
    /\ ir.imm = insn.imm

\* The instructions s of a block from address a on are those of the program.
Fetched(s, a) ==
    /\ IsList(s)
    /\ \A k \in 1 .. Len(s) :
          /\ s[k] \in Irs /\ Orderly(s[k])
          /\ s[k].pc = a + 4 * (k - 1)
          /\ SameInsn(s[k], Decoded(code[s[k].pc]))
          /\ s[k].mbox => s[k].op = "lw"

\* Only the last instruction goes elsewhere than to the next.
EndsLast(s) == \A k \in 1 .. Len(s) - 1 : s[k].op \notin Enders

\* o is the beginning of s with constants folded, g the tables it was folded with.
FoldedUpTo(s, o, g) ==
    /\ IsList(o) /\ IsList(g) /\ Len(g) = Len(o) /\ Len(o) <= Len(s)
    /\ \A k \in 1 .. Len(o) : IsInfo(g[k]) /\ o[k] = FoldIr(s[k], g[k])
    /\ Len(o) > 0 => g[1] = NoConstants
    /\ \A k \in 1 .. Len(o) - 1 : g[k + 1] = FoldInfo(s[k], g[k])

\* The table after the last folded instruction.
InfoAfter(s, g) == IF Len(g) = 0 THEN NoConstants ELSE FoldInfo(s[Len(g)], g[Len(g)])

GroupOK(g, o) ==
    /\ g.lo \in Nat \ {0} /\ g.n \in Nat \ {0} /\ g.lo + g.n <= Len(o) + 1
    /\ g.kind = "fuse2" =>
          /\ g.n = 2 /\ o[g.lo].op = "lui" /\ o[g.lo + 1].op = "add"
          /\ o[g.lo].rd \in {o[g.lo + 1].rs1, o[g.lo + 1].rs2}

\* The groups gs lie one behind the other from the beginning of o.
Grouped(gs, o) ==
    /\ IsList(gs)
    /\ \A j \in 1 .. Len(gs) : GroupOK(gs[j], o)
    /\ Len(gs) > 0 => gs[1].lo = 1
    /\ \A j \in 1 .. Len(gs) - 1 : gs[j + 1].lo = gs[j].lo + gs[j].n

BlockOK(b, a) ==
    /\ Len(b.irs) = Len(b.orig)
    /\ Fetched(b.orig, a) /\ EndsLast(b.orig)
    /\ FoldedUpTo(b.orig, b.irs, b.ghost)
    /\ Grouped(b.groups, b.irs)
    /\ Len(b.groups) > 0
    /\ b.groups[Len(b.groups)].lo + b.groups[Len(b.groups)].n = Len(b.irs) + 1

BlocksOK == DOMAIN blocks \subseteq Pcs /\ \A a \in DOMAIN blocks : BlockOK(blocks[a], a)

FetchOK == PC \in Pcs /\ Fetched(irs, PC) /\ \A k \in 1 .. Len(irs) : irs[k].op \notin Enders

FoldOK ==
    /\ PC \in Pcs /\ Fetched(irs, PC) /\ EndsLast(irs)
    /\ FoldedUpTo(irs, out, ghost) /\ Len(out) < Len(irs)
    /\ IsInfo(info) /\ info = InfoAfter(irs, ghost)

FuseOK ==
    /\ PC \in Pcs /\ Fetched(irs, PC) /\ EndsLast(irs)
    /\ FoldedUpTo(irs, out, ghost) /\ Len(out) = Len(irs) /\ Len(out) > 0
    /\ Grouped(groups, out)
    /\ \A j \in 1 .. Len(groups) : groups[j].n <= RemoveLimit

RunOK ==
    /\ PC \in DOMAIN blocks
    /\ gi \in 1 .. Len(blocks[PC].groups)
    /\ i \in 0 .. CurGroup.n - 1
    /\ base = PC + 4 * (CurGroup.lo - 1)
    /\ Consistent(blocks[PC].ghost[CurGroup.lo + i])

BlockInv ==
    /\ CodeOK /\ RegsOK /\ BlocksOK
    /\ phase \in {"head", "fetch", "fold", "fuse", "run"}
    /\ phase = "fetch" => FetchOK
    /\ phase = "fold" => FoldOK
    /\ phase = "fuse" => FuseOK
    /\ phase = "run" => RunOK

\* The numbers of a group.
LEMMA GroupNumbers ==
    ASSUME NEW g, NEW o, GroupOK(g, o)
    PROVE  g.lo \in Nat \ {0} /\ g.n \in Nat \ {0} /\ g.lo + g.n <= Len(o) + 1
BY SMTT(60) DEF GroupOK

\* Every group of a block, and the one behind it.
LEMMA GroupAt ==
    ASSUME NEW gs, NEW o, Grouped(gs, o)
    PROVE  /\ Len(gs) \in Nat
           /\ \A j \in 1 .. Len(gs) : GroupOK(gs[j], o)
           /\ \A j \in 1 .. Len(gs) - 1 : gs[j + 1].lo = gs[j].lo + gs[j].n
BY ListFacts, SMTT(60) DEF Grouped

\* The parts of a block.
LEMMA BlockParts ==
    ASSUME NEW b, NEW a, BlockOK(b, a)
    PROVE  /\ Len(b.irs) \in Nat /\ Len(b.orig) = Len(b.irs) /\ Len(b.groups) \in Nat \ {0}
           /\ Fetched(b.orig, a) /\ EndsLast(b.orig)
           /\ FoldedUpTo(b.orig, b.irs, b.ghost) /\ Grouped(b.groups, b.irs)
<1>1. /\ Fetched(b.orig, a) /\ EndsLast(b.orig) /\ Len(b.orig) = Len(b.irs)
      /\ FoldedUpTo(b.orig, b.irs, b.ghost) /\ Grouped(b.groups, b.irs) /\ Len(b.groups) > 0
  BY ZenonT(60) DEF BlockOK
<1>2. IsList(b.irs)
  BY <1>1, SMTT(60) DEF FoldedUpTo
<1>3. Len(b.irs) \in Nat
  BY <1>2, ListFacts, Zenon
<1>4. Len(b.groups) \in Nat
  BY <1>1, GroupAt, Zenon
<1> QED
  BY <1>1, <1>3, <1>4, SMTT(60)

\* The decoder leaves no way to write x0 but a load.
LEMMA DecodedOrderly ==
    ASSUME NEW insn \in Insns, insn.op # "scw", insn.op \in Loads => insn.rd # 0
    PROVE  Decoded(insn) \in Insns /\ Orderly(Decoded(insn))
<1>1. "nop" \in Ops /\ "nop" \notin Computes /\ "nop" \notin Loads /\ "nop" \notin Branches
  BY OpClasses, SMTT(60) DEF Ops, Branches
<1>2. CASE insn.op \in Computes /\ insn.rd = 0
  BY <1>1, <1>2, SMTT(60) DEF Decoded, Insns, Orderly
<1>3. CASE insn.op \notin Computes /\ insn.op \in Stores \cup Branches \cup {"fence"}
  <2>1. insn.op \notin Loads
    BY <1>3, OpClasses, SMTT(60) DEF Effectless
  <2> QED
    BY <1>3, <2>1, RegsAssumption, ZenonT(60) DEF Decoded, Insns, Orderly
<1>4. CASE /\ ~(insn.op \in Computes /\ insn.rd = 0)
           /\ insn.op \notin Stores \cup Branches \cup {"fence"}
  BY <1>4, ZenonT(60) DEF Decoded, Insns, Orderly
<1>5. insn.op \in Stores \cup Branches \cup {"fence"} => insn.op \notin Computes
  BY OpClasses, SMTT(60) DEF Effectless
<1> QED
  BY <1>2, <1>3, <1>4, <1>5, ZenonT(60)

\* The table optimize_constant begins with.
LEMMA NoConstantsIsInfo == IsInfo(NoConstants)
BY RegsAssumption, SMTT(60) DEF IsInfo, NoConstants

\* The invariant holds at the start.
LEMMA BlockInvInit ==
    ASSUME Disciplined, BlockInit PROVE BlockInv
<1>1. PICK s \in Setups : code = s.code /\ X = s.X
  BY DEF BlockInit, PlainInit
<1>2. CodeOK
  BY <1>1, DecodedOrderly, ZenonT(60) DEF Disciplined, CodeOK
<1>3. RegsOK
  BY <1>1, SMTT(60) DEF Disciplined, RegsOK
<1>4. BlocksOK
  BY ZenonT(60) DEF BlockInit, BlocksOK
<1> QED
  BY <1>2, <1>3, <1>4, ZenonT(60) DEF BlockInit, BlockInv

\* The program and the kept blocks stay well-formed while nobody changes them.
LEMMA CodeBlocksSame ==
    ASSUME CodeOK, BlocksOK, code' = code, blocks' = blocks
    PROVE  CodeOK' /\ BlocksOK'
BY SMTT(60) DEF CodeOK, BlocksOK, BlockOK, Fetched

\* Addresses of code are integers.
LEMMA PcsAreInts == Pcs \subseteq Int
<1>1. Word \subseteq Int
  BY ModulusAssumption, SMTT(60) DEF Word
<1> QED
  BY <1>1, PcsAssumption, SMTT(60)

\* The instruction in execution is a folded one of the program, at the address it is
\* taken for, and the registers hold the constants it was folded with.
LEMMA Current ==
    ASSUME BlocksOK, RunOK
    PROVE  LET b == blocks[PC]
               k == CurGroup.lo + i
           IN  /\ BlockOK(b, PC)
               /\ k \in 1 .. Len(b.irs) /\ GroupOK(CurGroup, b.irs)
               /\ b.orig[k] \in Irs /\ Orderly(b.orig[k]) /\ b.orig[k].pc = At
               /\ SameInsn(b.orig[k], Decoded(code[At]))
               /\ b.orig[k].mbox => b.orig[k].op = "lw"
               /\ IsInfo(b.ghost[k]) /\ Consistent(b.ghost[k])
               /\ CurIr = FoldIr(b.orig[k], b.ghost[k])
<1> DEFINE b == blocks[PC]
           k == CurGroup.lo + i
<1> DEFINE lo == CurGroup.lo
           n == CurGroup.n
           e == Len(b.irs)
<1>0. PC \in DOMAIN blocks /\ gi \in 1 .. Len(b.groups) /\ i \in 0 .. n - 1 /\ base = PC + 4 * (lo - 1)
  BY DEF RunOK
<1>1. BlockOK(b, PC) /\ PC \in Int
  BY <1>0, PcsAreInts, Zenon DEF BlocksOK
<1>2. GroupOK(CurGroup, b.irs)
  <2>1. Grouped(b.groups, b.irs)
    BY <1>1, BlockParts, SMTT(60)
  <2> QED
    BY <1>0, <2>1, GroupAt, ZenonT(60) DEF CurGroup
<1>3. e \in Nat /\ Len(b.orig) = e
  BY <1>1, BlockParts, Zenon
<1>4. lo \in Nat \ {0} /\ n \in Nat \ {0} /\ lo + n <= e + 1
  BY <1>2, GroupNumbers, ZenonT(60)
<1>5. k \in 1 .. e
  <2>1. k = lo + i
    OBVIOUS
  <2> HIDE DEF k, lo, n, e
  <2> QED
    BY <1>0, <1>3, <1>4, <2>1, SMTT(60)
<1>6. /\ b.orig[k] \in Irs /\ Orderly(b.orig[k]) /\ b.orig[k].pc = PC + 4 * (k - 1)
      /\ SameInsn(b.orig[k], Decoded(code[b.orig[k].pc]))
      /\ b.orig[k].mbox => b.orig[k].op = "lw"
  <2>1. Fetched(b.orig, PC)
    BY <1>1, BlockParts, ZenonT(60)
  <2> HIDE DEF k, e
  <2> QED
    BY <1>3, <1>5, <2>1, Zenon DEF Fetched
<1>7. At = PC + 4 * (k - 1)
  <2>1. At = base + 4 * i /\ k = lo + i
    BY DEF At
  <2> HIDE DEF k, lo, n
  <2> QED
    BY <1>0, <1>1, <1>4, <2>1, SMTT(60)
<1>8. IsInfo(b.ghost[k]) /\ b.irs[k] = FoldIr(b.orig[k], b.ghost[k])
  <2>1. FoldedUpTo(b.orig, b.irs, b.ghost)
    BY <1>1, BlockParts, ZenonT(60)
  <2> HIDE DEF k
  <2> QED
    BY <1>5, <2>1, Zenon DEF FoldedUpTo
<1>9. Consistent(b.ghost[k])
  BY SMTT(60) DEF RunOK
<1>10. CurIr = b.irs[k]
  BY SMTT(60) DEF CurIr
<1> QED
  BY <1>1, <1>2, <1>5, <1>6, <1>7, <1>8, <1>9, <1>10, ZenonT(60)

\* The group behind the one in execution.
LEMMA BehindGroup ==
    ASSUME BlockOK(blocks[PC], PC), gi \in 1 .. Len(blocks[PC].groups), gi < Len(blocks[PC].groups)
    PROVE  /\ GroupOK(blocks[PC].groups[gi + 1], blocks[PC].irs)
           /\ blocks[PC].groups[gi + 1].lo = CurGroup.lo + CurGroup.n
<1> DEFINE gs == blocks[PC].groups
           l == Len(gs)
<1>1. Grouped(gs, blocks[PC].irs)
  BY BlockParts, Zenon
<1>2. l \in Nat
  BY <1>1, GroupAt, ZenonT(60)
<1>3. gi \in 1 .. l - 1 /\ gi + 1 \in 1 .. l
  <2>1. gi \in 1 .. l /\ gi < l
    BY SMTT(60)
  <2> HIDE DEF l
  <2> QED
    BY <1>2, <2>1, SMTT(60)
<1> QED
  BY <1>1, <1>3, GroupAt, ZenonT(60) DEF CurGroup

\* Where a block is entered its first table knows x0 only.
LEMMA EnterRunOK ==
    ASSUME RegsOK', BlockOK(blocks[PC], PC)', PC' \in DOMAIN blocks', PC' \in Pcs,
           gi' = 1, base' = PC', i' = 0
    PROVE  RunOK'
<1> DEFINE b == blocks'[PC']
<1>0. BlockOK(blocks[PC], PC)' => Grouped(b.groups, b.irs) /\ Len(b.groups) > 0
  BY Zenon DEF BlockOK, Grouped, GroupOK
<1>1. Len(b.groups) \in Nat /\ Len(b.groups) > 0 /\ gi' \in 1 .. Len(b.groups)
  <2>1. Len(b.groups) \in Nat /\ Len(b.groups) > 0
    BY <1>0, GroupAt, ZenonT(60)
  <2> DEFINE m == Len(b.groups)
  <2>2. 1 \in 1 .. m
    <3> HIDE DEF m
    <3>1. m \in Nat /\ m > 0
      BY <2>1, SMTT(60) DEF m
    <3> QED
      BY <3>1, SMTT(60)
  <2> QED
    BY <2>1, <2>2, ZenonT(60)
<1>2. GroupOK(b.groups[1], b.irs) /\ b.groups[1].lo = 1
  BY <1>0, <1>1, ZenonT(60) DEF Grouped
<1>3. Len(b.irs) \in Nat /\ Len(b.irs) > 0
  BY <1>2, ListFacts, SMTT(60) DEF BlockOK, FoldedUpTo, GroupOK
<1>4. b.ghost[1] = NoConstants
  BY <1>3, Zenon DEF BlockOK, FoldedUpTo
<1>5. CurGroup' = b.groups[1]
  BY Zenon DEF CurGroup
<1>6. Consistent(blocks[PC].ghost[CurGroup.lo + i])'
  <2>1. blocks'[PC'].ghost[CurGroup'.lo + i'] = NoConstants
    BY <1>2, <1>4, <1>5, SMTT(60)
  <2> QED
    BY <2>1, ZenonT(60) DEF RegsOK, Consistent, NoConstants, Known, Unknown
<1>7. PC' \in Int
  BY PcsAreInts, SMTT(60)
<1>8. base' = PC' + 4 * (CurGroup'.lo - 1)
  <2>1. CurGroup'.lo = 1
    BY <1>2, <1>5, ZenonT(60)
  <2>2. PC' + 4 * (1 - 1) = PC'
    BY <1>7, SMTT(60)
  <2> QED
    BY <2>1, <2>2, ZenonT(60)
<1>9. 0 \in 0 .. CurGroup'.n - 1
  <2> DEFINE n == CurGroup'.n
  <2>1. n \in Nat \ {0}
    BY <1>2, <1>5, GroupNumbers, ZenonT(60)
  <2> HIDE DEF n
  <2>2. 0 \in 0 .. n - 1
    BY <2>1, SMTT(60)
  <2> QED
    BY <2>2, SMTT(60) DEF n
<1> QED
  BY <1>1, <1>6, <1>8, <1>9, ZenonT(60) DEF RunOK

\* The part of an ir in execution does what the instruction does, do_fuse2's sum too.
LEMMA PartDoes ==
    ASSUME BlocksOK, RunOK, DoPart
    PROVE  Do(blocks[PC].orig[CurGroup.lo + i], At)
<1> DEFINE b == blocks[PC]
           k == CurGroup.lo + i
<1>1. Do(CurIr, At)
  <2>1. CASE ~(CurGroup.kind = "fuse2" /\ i = 1)
    BY <2>1, SMTT(60) DEF DoPart
  <2>2. CASE CurGroup.kind = "fuse2" /\ i = 1
    <3>1. GroupOK(CurGroup, b.irs)
      BY Current, Zenon
    <3> DEFINE l == b.irs[CurGroup.lo]
    <3>2. CurIr.op = "add" /\ l.rd \in {CurIr.rs1, CurIr.rs2}
      BY <2>2, <3>1, ZenonT(60) DEF GroupOK, CurIr
    <3>3. AddLui(l, CurIr)
      BY <2>2, SMTT(60) DEF DoPart
    <3> HIDE DEF l
    <3>4. /\ X' = [X EXCEPT ![CurIr.rd] = Wrap(X[CurIr.rs1] + X[CurIr.rs2])]
          /\ UNCHANGED <<mem, fifo>>
      BY <3>2, <3>3, ZenonT(60) DEF AddLui, Other
    <3>5. "add" \in RegOps
      BY SMTT(60) DEF RegOps
    <3>6. Result(CurIr, At) = Wrap(X[CurIr.rs1] + X[CurIr.rs2])
      BY <3>2, <3>5, OpClasses, ZenonT(60) DEF Result, RegResult
    <3>7. DoCompute(CurIr, At)
      BY <3>2, <3>4, <3>5, <3>6, OpClasses, ZenonT(60) DEF DoCompute, SetReg
    <3> QED
      BY <3>7, SMTT(60) DEF Do
  <2> QED
    BY <2>1, <2>2, ZenonT(60)
<1> QED
  BY <1>1, Current, FoldDo, ZenonT(60)

\* A step inside a block.
LEMMA RunPartInv ==
    ASSUME BlockInv, RunPart
    PROVE  BlockInv'
<1> DEFINE b == blocks[PC]
           lo == CurGroup.lo
           n == CurGroup.n
           e == Len(b.irs)
           k == lo + i
           c == FoldInfo(b.orig[k], b.ghost[k])
<1>0. BlocksOK /\ CodeOK /\ RegsOK /\ RunOK /\ code' = code /\ blocks' = blocks
  BY Zenon DEF BlockInv, RunPart
<1>1. Do(b.orig[k], b.orig[k].pc)
  <2>1. DoPart
    BY Zenon DEF RunPart
  <2> QED
    BY <1>0, <2>1, PartDoes, Current, ZenonT(60)
<1>2. RegsOK' /\ (\A r \in Regs : Known(c, r) => X'[r] = c[r])
  BY <1>0, <1>1, Current, FoldConsistent, ZenonT(60)
<1>3. CodeOK' /\ BlocksOK'
  BY <1>0, CodeBlocksSame, Zenon
<1>4. /\ BlockOK(b, PC) /\ k \in 1 .. e /\ GroupOK(CurGroup, b.irs)
      /\ e \in Nat /\ Len(b.groups) \in Nat /\ gi \in 1 .. Len(b.groups)
  <2>1. BlockOK(b, PC) /\ k \in 1 .. e /\ GroupOK(CurGroup, b.irs)
    BY <1>0, Current, ZenonT(60)
  <2>2. gi \in 1 .. Len(b.groups)
    BY <1>0, Zenon DEF RunOK
  <2>3. e \in Nat /\ Len(b.groups) \in Nat \ {0}
    BY <2>1, BlockParts, Zenon
  <2> QED
    BY <2>1, <2>2, <2>3, ZenonT(60)
<1>5. k < e => b.ghost[k + 1] = c
  <2> SUFFICES ASSUME k < e PROVE b.ghost[k + 1] = c
    OBVIOUS
  <2>1. FoldedUpTo(b.orig, b.irs, b.ghost)
    BY <1>4, BlockParts, ZenonT(60)
  <2>2. k \in 1 .. Len(b.irs) - 1
    <3>1. k \in 1 .. e - 1
      <4> HIDE DEF k, e
      <4> QED
        BY <1>4, SMTT(60)
    <3> QED
      BY <3>1, SMTT(60) DEF e
  <2> HIDE DEF k
  <2> QED
    BY <2>1, <2>2, ZenonT(60) DEF FoldedUpTo
<1>6. i \in Nat /\ lo \in Nat \ {0} /\ n \in Nat \ {0} /\ i < n /\ lo + n <= e + 1
  <2>1. lo \in Nat \ {0} /\ n \in Nat \ {0} /\ lo + n <= e + 1
    BY <1>4, GroupNumbers, Zenon
  <2>2. i \in 0 .. n - 1
    BY <1>0, Zenon DEF RunOK
  <2> HIDE DEF lo, n, e
  <2> QED
    BY <2>1, <2>2, SMTT(60)
<1>7. CASE i + 1 < CurGroup.n
  <2>1. i' = i + 1 /\ phase' = phase /\ PC' = PC /\ gi' = gi /\ base' = base
    BY <1>7, SMTT(60) DEF RunPart, Advance
  <2>2. CurGroup' = CurGroup
    BY <1>0, <2>1, SMTT(60) DEF CurGroup
  <2>3. blocks'[PC'].ghost[CurGroup'.lo + i'] = c
    <3>1. k < e /\ lo + (i + 1) = k + 1
      <4>1. k = lo + i /\ i + 1 < n
        BY <1>7, ZenonT(60)
      <4> HIDE DEF k, lo, n, e
      <4> QED
        BY <1>4, <1>6, <4>1, SMTT(60)
    <3> QED
      BY <1>0, <1>5, <2>1, <2>2, <3>1, ZenonT(60)
  <2>4. RunOK'
    <3>1. Consistent(blocks[PC].ghost[CurGroup.lo + i])'
      BY <1>2, <2>3, ZenonT(60) DEF Consistent, Known
    <3> QED
      <4>1. i + 1 \in 0 .. n - 1
        <5>1. i + 1 < n
          BY <1>7, Zenon
        <5> HIDE DEF lo, n, e
        <5> QED
          BY <1>6, <5>1, SMTT(60)
      <4> QED
        BY <1>0, <2>1, <2>2, <3>1, <4>1, ZenonT(60) DEF RunOK
  <2> QED
    BY <1>2, <1>3, <2>1, <2>4, ZenonT(60) DEF BlockInv, RunPart
<1>8. CASE ~(i + 1 < CurGroup.n) /\ gi < Len(b.groups)
  <2>1. gi' = gi + 1 /\ base' = base + 4 * CurGroup.n /\ i' = 0 /\ phase' = phase /\ PC' = PC
    BY <1>8, SMTT(60) DEF RunPart, Advance
  <2>2. CurGroup' = b.groups[gi + 1]
    BY <1>0, <2>1, ZenonT(60) DEF CurGroup
  <2> DEFINE m == b.groups[gi + 1].n
  <2>3. GroupOK(b.groups[gi + 1], b.irs) /\ b.groups[gi + 1].lo = lo + n
    BY <1>4, <1>8, BehindGroup, ZenonT(60)
  <2>4. m \in Nat \ {0} /\ lo + n + m <= e + 1
    BY <2>3, GroupNumbers, ZenonT(60)
  <2>5. k < e /\ lo + n + 0 = k + 1
    <3>1. k = lo + i /\ ~(i + 1 < n)
      BY <1>8, Zenon
    <3> HIDE DEF k, m, e, lo, n
    <3> QED
      BY <1>4, <1>6, <2>4, <3>1, SMTT(60)
  <2>6. blocks'[PC'].ghost[CurGroup'.lo + i'] = c
    BY <1>0, <1>5, <2>1, <2>2, <2>3, <2>5, ZenonT(60)
  <2>7. RunOK'
    <3>1. Consistent(blocks[PC].ghost[CurGroup.lo + i])'
      BY <1>2, <2>6, Zenon DEF Consistent, Known
    <3>2. PC \in Int
      BY <1>0, PcsAreInts, ZenonT(60) DEF RunOK, BlocksOK
    <3>3. base + 4 * n = PC + 4 * ((lo + n) - 1)
      <4>1. base = PC + 4 * (lo - 1)
        BY <1>0, ZenonT(60) DEF RunOK
      <4> HIDE DEF lo, n
      <4> QED
        BY <1>6, <3>2, <4>1, SMTT(60)
    <3>4. 0 \in 0 .. m - 1
      <4> HIDE DEF m
      <4> QED
        BY <2>4, SMTT(60)
    <3>5. gi + 1 \in 1 .. Len(b.groups)
      <4> DEFINE l == Len(b.groups)
      <4>1. l \in Nat /\ gi \in 1 .. l /\ gi < l
        BY <1>4, <1>8, ZenonT(60)
      <4> HIDE DEF l
      <4>2. gi + 1 \in 1 .. l
        BY <4>1, SMTT(60)
      <4> QED
        BY <4>2, Zenon DEF l
    <3> QED
      BY <1>0, <2>1, <2>2, <2>3, <3>1, <3>3, <3>4, <3>5, ZenonT(60) DEF RunOK
  <2> QED
    BY <1>2, <1>3, <2>1, <2>7, ZenonT(60) DEF BlockInv, RunPart
<1>9. CASE ~(i + 1 < CurGroup.n) /\ ~(gi < Len(b.groups))
  <2>1. phase' = "head"
    BY <1>9, Zenon DEF RunPart, Advance, Leave
  <2> QED
    BY <1>2, <1>3, <2>1, ZenonT(60) DEF BlockInv
<1> QED
  BY <1>7, <1>8, <1>9, ZenonT(60)

\* rv_step finds the block.
LEMMA FindInv ==
    ASSUME BlockInv, Find PROVE BlockInv'
<1>1. /\ BlocksOK /\ CodeOK /\ RegsOK /\ UNCHANGED <<X, code, PC, blocks>>
      /\ PC \in DOMAIN blocks /\ PC \in Pcs /\ BlockOK(blocks[PC], PC)
  BY SMTT(60) DEF BlockInv, Find, execVars, BlocksOK
<1>2. phase' = "run" /\ gi' = 1 /\ base' = PC /\ i' = 0
  BY DEF Find, Enter
<1>3. CodeOK' /\ BlocksOK' /\ RegsOK'
  BY <1>1, CodeBlocksSame, ZenonT(60) DEF RegsOK
<1>4. BlockOK(blocks[PC], PC)'
  BY <1>1, <1>3, Zenon DEF BlocksOK
<1>5. RunOK'
  BY <1>1, <1>2, <1>3, <1>4, EnterRunOK, ZenonT(60)
<1> QED
  BY <1>2, <1>3, <1>5, ZenonT(60) DEF BlockInv

\* rv_step does not find it; the map may be cleared.
LEMMA MissInv ==
    ASSUME BlockInv, Miss PROVE BlockInv'
<1>1. BlocksOK /\ CodeOK /\ RegsOK /\ UNCHANGED <<X, code, PC>> /\ PC \in Pcs
  BY SMTT(60) DEF BlockInv, Miss, execVars
<1>2. CodeOK' /\ RegsOK'
  BY <1>1, SMTT(60) DEF RegsOK, CodeOK
<1>3. BlocksOK'
  <2>1. CASE MapFull
    BY <2>1, Zenon DEF Miss, BlocksOK
  <2>2. CASE ~MapFull
    BY <1>1, <2>2, CodeBlocksSame, ZenonT(60) DEF Miss
  <2> QED
    BY <2>1, <2>2, Zenon
<1>4. FetchOK'
  BY <1>1, ListEmpty, SMTT(60) DEF Miss, FetchOK, Fetched
<1> QED
  BY <1>2, <1>3, <1>4, ZenonT(60) DEF BlockInv, Miss

\* Only a load is taken for one of the mailbox, and it ends the block.
LEMMA FetchInv ==
    ASSUME BlockInv, Fetch PROVE BlockInv'
<1> DEFINE at == PC + 4 * Len(irs)
           insn == Decoded(code[at])
           mbox == LooksLikeMailbox(insn)
           ir == Ir(insn, at, mbox)
<1>1. /\ BlocksOK /\ CodeOK /\ RegsOK /\ UNCHANGED <<X, code, PC, blocks>>
      /\ PC \in Pcs /\ PC \in Int /\ Fetched(irs, PC) /\ at \in Pcs
      /\ \A k \in 1 .. Len(irs) : irs[k].op \notin Enders
      /\ irs' = Append(irs, ir)
  BY PcsAreInts, Zenon DEF BlockInv, Fetch, execVars, FetchOK
<1>2. CodeOK' /\ BlocksOK' /\ RegsOK'
  BY <1>1, CodeBlocksSame, Zenon DEF RegsOK
<1>3. ir \in Irs /\ Orderly(ir) /\ ir.pc = at /\ SameInsn(ir, insn) /\ (ir.mbox => ir.op = "lw")
  <2>1. insn \in Insns /\ Orderly(insn)
    BY <1>1, Zenon DEF CodeOK
  <2>2. mbox \in BOOLEAN /\ (mbox => insn.op = "lw")
    BY ZenonT(60) DEF LooksLikeMailbox
  <2> HIDE DEF insn, mbox, at
  <2> QED
    BY <1>1, <2>1, <2>2, ZenonT(60) DEF Ir, Irs, Insns, Orderly, SameInsn
<1>4. /\ IsList(irs) /\ Len(irs) \in Nat /\ IsList(irs') /\ Len(irs') = Len(irs) + 1
      /\ \A k \in 1 .. Len(irs) : irs'[k] = irs[k]
      /\ irs'[Len(irs) + 1] = ir
  BY <1>1, ListFacts, ListAppend, SMTT(60) DEF Fetched
<1>5. Fetched(irs, PC)'
  <2> SUFFICES ASSUME NEW k \in 1 .. Len(irs')
               PROVE  /\ irs'[k] \in Irs /\ Orderly(irs'[k])
                      /\ irs'[k].pc = PC + 4 * (k - 1)
                      /\ SameInsn(irs'[k], Decoded(code[irs'[k].pc]))
                      /\ irs'[k].mbox => irs'[k].op = "lw"
    BY <1>1, <1>4, Zenon DEF Fetched
  <2>1. CASE k = Len(irs) + 1
    <3> DEFINE e == Len(irs)
    <3>0. k - 1 = e
      <4>1. e \in Nat /\ k = e + 1
        BY <1>4, <2>1, ZenonT(60)
      <4> HIDE DEF e
      <4> QED
        BY <4>1, SMTT(60)
    <3>1. irs'[k] = ir /\ PC + 4 * (k - 1) = at
      BY <1>4, <2>1, <3>0, ZenonT(60)
    <3> QED
      BY <1>3, <3>1, Zenon
  <2>2. CASE k \in 1 .. Len(irs)
    <3>1. irs'[k] = irs[k]
      BY <1>4, <2>2, Zenon
    <3> QED
      BY <1>1, <2>2, <3>1, ZenonT(60) DEF Fetched
  <2>3. k = Len(irs) + 1 \/ k \in 1 .. Len(irs)
    <3> DEFINE e == Len(irs)
    <3>1. e \in Nat /\ k \in 1 .. e + 1
      BY <1>4, Zenon
    <3> HIDE DEF e
    <3>2. k = e + 1 \/ k \in 1 .. e
      BY <3>1, SMTT(60)
    <3> QED
      BY <3>2, Zenon DEF e
  <2> QED
    BY <2>1, <2>2, <2>3, Zenon
<1>6. \A k \in 1 .. Len(irs') - 1 : irs'[k].op \notin Enders
  <2> DEFINE e == Len(irs)
  <2>1. \A k \in 1 .. e : irs'[k].op \notin Enders
    BY <1>1, <1>4, ZenonT(60)
  <2>2. Len(irs') = e + 1 /\ e \in Nat
    BY <1>4, Zenon
  <2> HIDE DEF e
  <2>3. Len(irs') - 1 = e
    BY <2>2, SMTT(60)
  <2> QED
    BY <2>1, <2>3, ZenonT(60)
<1>7. CASE mbox \/ insn.op \in Enders
  <2>1. phase' = "fold" /\ out' = <<>> /\ info' = NoConstants /\ ghost' = <<>>
    BY <1>7, SMTT(60) DEF Fetch, FetchEnd
  <2>2. EndsLast(irs)'
    BY <1>6, ZenonT(60) DEF EndsLast
  <2>3. FoldedUpTo(irs, out, ghost)'
    BY <1>4, <2>1, ListEmpty, SMTT(60) DEF FoldedUpTo
  <2>4. InfoAfter(irs, ghost)' = NoConstants
    BY <2>1, ListEmpty, ZenonT(60) DEF InfoAfter
  <2>5. FoldOK'
    BY <1>1, <1>4, <1>5, <2>1, <2>2, <2>3, <2>4, ListEmpty, NoConstantsIsInfo, SMTT(60) DEF FoldOK, IsInfo
  <2> QED
    BY <1>2, <2>1, <2>5, ZenonT(60) DEF BlockInv
<1>8. CASE ~(mbox \/ insn.op \in Enders)
  <2>1. phase' = "fetch"
    BY <1>8, SMTT(60) DEF Fetch
  <2>2. ir.op \notin Enders
    BY <1>3, <1>8, ZenonT(60) DEF SameInsn
  <2>3. \A k \in 1 .. Len(irs') : irs'[k].op \notin Enders
    <3> SUFFICES ASSUME NEW k \in 1 .. Len(irs') PROVE irs'[k].op \notin Enders
      OBVIOUS
    <3> DEFINE e == Len(irs)
    <3>1. Len(irs') = e + 1 /\ e \in Nat
      BY <1>4, ZenonT(60)
    <3>2. k = e + 1 \/ k \in 1 .. e
      <4> HIDE DEF e
      <4> QED
        BY <3>1, SMTT(60)
    <3> QED
      BY <1>1, <1>4, <2>2, <3>2, ZenonT(60)
  <2>4. FetchOK'
    BY <1>1, <1>5, <2>3, ZenonT(60) DEF FetchOK
  <2> QED
    BY <1>2, <2>1, <2>4, ZenonT(60) DEF BlockInv
<1> QED
  BY <1>7, <1>8, Zenon

\* One iteration of optimize_constant.
LEMMA FoldInv ==
    ASSUME BlockInv, Fold PROVE BlockInv'
<1> DEFINE k == Len(out) + 1
           ir == irs[k]
<1>1. /\ BlocksOK /\ CodeOK /\ RegsOK /\ FoldOK
      /\ UNCHANGED <<X, code, PC, irs, blocks>>
      /\ out' = Append(out, FoldIr(ir, info)) /\ ghost' = Append(ghost, info)
      /\ info' = FoldInfo(ir, info) /\ groups' = <<>>
      /\ phase' = IF k = Len(irs) THEN "fuse" ELSE "fold"
  BY Zenon DEF BlockInv, Fold, execVars
<1>2. CodeOK' /\ BlocksOK' /\ RegsOK'
  BY <1>1, CodeBlocksSame, ZenonT(60) DEF RegsOK
<1>3. /\ Len(irs) \in Nat /\ Len(out) \in Nat /\ Len(ghost) = Len(out) /\ Len(out) < Len(irs)
      /\ IsList(out') /\ IsList(ghost') /\ Len(out') = k /\ Len(ghost') = k
      /\ \A j \in 1 .. Len(out) : out'[j] = out[j] /\ ghost'[j] = ghost[j]
      /\ out'[k] = FoldIr(ir, info) /\ ghost'[k] = info
  <2>1. IsList(irs) /\ IsList(out) /\ IsList(ghost) /\ Len(ghost) = Len(out) /\ Len(out) < Len(irs)
    BY <1>1, Zenon DEF FoldOK, Fetched, FoldedUpTo
  <2>2. Len(irs) \in Nat /\ Len(out) \in Nat
    BY <2>1, ListFacts, Zenon
  <2> DEFINE f == FoldIr(ir, info)
  <2>3. out' = Append(out, f) /\ ghost' = Append(ghost, info)
    BY <1>1, Zenon
  <2> HIDE DEF f
  <2>4. /\ IsList(out') /\ Len(out') = Len(out) + 1
        /\ \A j \in 1 .. Len(out) : out'[j] = out[j]
        /\ out'[Len(out) + 1] = f
    BY <2>1, <2>3, ListAppend, ZenonT(60)
  <2>5. /\ IsList(ghost') /\ Len(ghost') = Len(ghost) + 1
        /\ \A j \in 1 .. Len(ghost) : ghost'[j] = ghost[j]
        /\ ghost'[Len(ghost) + 1] = info
    BY <2>1, <2>3, ListAppend, ZenonT(60)
  <2> QED
    BY <2>1, <2>2, <2>4, <2>5, ZenonT(60) DEF f
<1>f. Fetched(irs, PC) /\ EndsLast(irs) /\ FoldedUpTo(irs, out, ghost)
      /\ IsInfo(info) /\ info = InfoAfter(irs, ghost) /\ PC \in Pcs
  BY <1>1, Zenon DEF FoldOK
<1>4. k \in 1 .. Len(irs) /\ ir \in Irs /\ Orderly(ir) /\ Fetched(irs, PC)' /\ EndsLast(irs)'
  <2>1. k \in 1 .. Len(irs)
    <3> DEFINE m == Len(out)
               e == Len(irs)
    <3>1. m \in Nat /\ e \in Nat /\ m < e
      BY <1>3, Zenon
    <3> HIDE DEF m, e
    <3>2. m + 1 \in 1 .. e
      BY <3>1, SMTT(60)
    <3> QED
      BY <3>2, Zenon DEF m, e
  <2> HIDE DEF k
  <2>2. ir \in Irs /\ Orderly(ir)
    BY <1>f, <2>1, ZenonT(60) DEF Fetched
  <2>3. code' = code /\ PC' = PC /\ irs' = irs
    BY <1>1, Zenon
  <2>4. Fetched(irs, PC)' /\ EndsLast(irs)'
    BY <1>f, <2>3, ZenonT(60) DEF Fetched, EndsLast
  <2> QED
    BY <2>1, <2>2, <2>4, ZenonT(60)
<1>5. FoldedUpTo(irs, out, ghost)'
  <2>1. \A j \in 1 .. k : IsInfo(ghost'[j]) /\ out'[j] = FoldIr(irs[j], ghost'[j])
    <3> SUFFICES ASSUME NEW j \in 1 .. k PROVE IsInfo(ghost'[j]) /\ out'[j] = FoldIr(irs[j], ghost'[j])
      OBVIOUS
    <3>1. CASE j = k
      BY <1>f, <1>3, <3>1, ZenonT(60)
    <3>2. CASE j \in 1 .. Len(out)
      BY <1>f, <1>3, <3>2, ZenonT(60) DEF FoldedUpTo
    <3>3. j = k \/ j \in 1 .. Len(out)
      <4> DEFINE m == Len(out)
      <4>1. m \in Nat /\ k = m + 1 /\ j \in 1 .. k
        BY <1>3, ZenonT(60)
      <4> HIDE DEF m, k
      <4>2. j = k \/ j \in 1 .. m
        BY <4>1, SMTT(60)
      <4> QED
        BY <4>2, Zenon DEF m
    <3> QED
      BY <3>1, <3>2, <3>3, ZenonT(60)
  <2>2. ghost'[1] = NoConstants
    <3>1. CASE Len(out) = 0
      <4>1. k = 1
        BY <3>1, SMTT(60)
      <4>2. info = NoConstants
        BY <1>f, <1>3, <3>1, ZenonT(60) DEF InfoAfter
      <4> QED
        BY <1>3, <4>1, <4>2, ZenonT(60)
    <3>2. CASE Len(out) > 0
      <4>1. 1 \in 1 .. Len(out)
        BY <1>3, <3>2, SMTT(60)
      <4>2. ghost[1] = NoConstants
        BY <1>f, <3>2, ZenonT(60) DEF FoldedUpTo
      <4> QED
        BY <1>3, <4>1, <4>2, ZenonT(60)
    <3>3. Len(out) = 0 \/ Len(out) > 0
      BY <1>3, SMTT(60)
    <3> QED
      BY <3>1, <3>2, <3>3, ZenonT(60)
  <2>3. \A j \in 1 .. k - 1 : ghost'[j + 1] = FoldInfo(irs[j], ghost'[j])
    <3> SUFFICES ASSUME NEW j \in 1 .. k - 1 PROVE ghost'[j + 1] = FoldInfo(irs[j], ghost'[j])
      BY SMTT(60)
    <3>1. CASE j = Len(out)
      <4>1. info = FoldInfo(irs[j], ghost[j])
        <5>1. Len(ghost) = j /\ j # 0
          BY <1>3, <3>1, SMTT(60)
        <5> QED
          BY <1>f, <5>1, ZenonT(60) DEF InfoAfter
      <4>2. ghost'[j + 1] = info /\ ghost'[j] = ghost[j]
        <5>1. j + 1 = k /\ j \in 1 .. Len(out)
          BY <1>3, <3>1, SMTT(60)
        <5> QED
          BY <1>3, <5>1, ZenonT(60)
      <4> QED
        BY <4>1, <4>2, SMTT(60)
    <3>2. CASE j \in 1 .. Len(out) - 1
      <4>1. ghost[j + 1] = FoldInfo(irs[j], ghost[j])
        BY <1>f, <3>2, ZenonT(60) DEF FoldedUpTo
      <4>2. ghost'[j + 1] = ghost[j + 1] /\ ghost'[j] = ghost[j]
        <5> DEFINE m == Len(out)
        <5>1. m \in Nat /\ j \in 1 .. m - 1
          BY <1>3, <3>2, ZenonT(60)
        <5>2. j \in 1 .. m /\ j + 1 \in 1 .. m
          <6> HIDE DEF m
          <6> QED
            BY <5>1, SMTT(60)
        <5> QED
          BY <1>3, <5>2, ZenonT(60)
      <4> QED
        BY <4>1, <4>2, ZenonT(60)
    <3>3. j = Len(out) \/ j \in 1 .. Len(out) - 1
      <4> DEFINE m == Len(out)
      <4>1. m \in Nat /\ k = m + 1 /\ j \in 1 .. k - 1
        BY <1>3, ZenonT(60)
      <4> HIDE DEF m, k
      <4>2. j = m \/ j \in 1 .. m - 1
        BY <4>1, SMTT(60)
      <4> QED
        BY <4>2, Zenon DEF m
    <3> QED
      BY <3>1, <3>2, <3>3, ZenonT(60)
  <2>4. Len(out') <= Len(irs)
    BY <1>3, <1>4, SMTT(60)
  <2>5. Len(out') = k /\ Len(ghost') = k /\ IsList(out') /\ IsList(ghost') /\ irs' = irs
    BY <1>1, <1>3, ZenonT(60)
  <2> HIDE DEF k
  <2> QED
    BY <2>1, <2>2, <2>3, <2>4, <2>5, ZenonT(60) DEF FoldedUpTo
<1>6. IsInfo(info)' /\ info' = InfoAfter(irs, ghost)'
  <2>1. IsInfo(info')
    BY <1>1, <1>4, FoldInfoIsInfo, ZenonT(60) DEF FoldOK
  <2>2. InfoAfter(irs, ghost)' = FoldInfo(irs[k], ghost'[k])
    BY <1>1, <1>3, SMTT(60) DEF InfoAfter
  <2> QED
    BY <1>1, <1>3, <2>1, <2>2, ZenonT(60) DEF IsInfo
<1>7. CASE k = Len(irs)
  <2>1. Grouped(groups, out)' /\ Len(groups') = 0
    BY <1>1, ListEmpty, SMTT(60) DEF Grouped
  <2>2. FuseOK'
    BY <1>1, <1>3, <1>4, <1>5, <1>7, <2>1, SMTT(60) DEF FuseOK, FoldOK
  <2> QED
    BY <1>1, <1>2, <1>7, <2>2, ZenonT(60) DEF BlockInv
<1>8. CASE k # Len(irs)
  <2>1. FoldOK'
    BY <1>1, <1>3, <1>4, <1>5, <1>6, <1>8, SMTT(60) DEF FoldOK
  <2> QED
    BY <1>1, <1>2, <1>8, <2>1, ZenonT(60) DEF BlockInv
<1> QED
  BY <1>7, <1>8, ZenonT(60)

\* While runs are short enough for remove_next_nth_ir to count them, match_pattern goes
\* on behind the last group.
LEMMA CursorFacts ==
    ASSUME FuseOK
    PROVE  /\ Len(groups) \in Nat
           /\ Cursor \in Nat \ {0} /\ Cursor <= Len(out) + 1
           /\ Len(groups) = 0 => Cursor = 1
           /\ Len(groups) > 0 => Cursor = groups[Len(groups)].lo + groups[Len(groups)].n
<1>1. Len(groups) \in Nat /\ DOMAIN groups = 1 .. Len(groups) /\ Len(out) \in Nat /\ Len(out) > 0
  BY ListFacts, ZenonT(60) DEF FuseOK, Grouped, FoldedUpTo
<1>2. CASE Len(groups) = 0
  <2>1. groups = <<>>
    BY <1>1, <1>2, SMTT(60) DEF FuseOK, Grouped, IsList
  <2> QED
    BY <1>1, <1>2, <2>1, SMTT(60) DEF Cursor
<1>3. CASE Len(groups) > 0
  <2> DEFINE l == Len(groups)
             lo == groups[l].lo
             n == groups[l].n
             e == Len(out)
             r == (n - 1) % RemoveLimit
  <2>1. l \in 1 .. l
    <3> HIDE DEF l
    <3>1. l \in Nat /\ l > 0
      BY <1>1, <1>3, SMTT(60) DEF l
    <3> QED
      BY <3>1, SMTT(60)
  <2>2. GroupOK(groups[l], out) /\ n <= RemoveLimit
    BY <2>1, GroupAt, ZenonT(60) DEF FuseOK
  <2>3. lo \in Nat \ {0} /\ n \in Nat \ {0} /\ lo + n <= e + 1
    BY <2>2, GroupNumbers, Zenon
  <2>4. groups # <<>>
    BY <1>3, ListEmpty, SMTT(60)
  <2>5. Cursor = lo + 1 + r
    BY <2>4, Zenon DEF Cursor
  <2>6. \A m \in Nat : m < RemoveLimit => m % RemoveLimit = m
    BY RemoveAssumption, SMTT(60)
  <2>7. r = n - 1
    <3>1. n - 1 \in Nat /\ n - 1 < RemoveLimit
      <4> HIDE DEF lo, n, e
      <4> QED
        BY <2>2, <2>3, RemoveAssumption, SMTT(60)
    <3> QED
      BY <2>6, <3>1, ZenonT(60)
  <2>8. Cursor = lo + n /\ Cursor \in Nat \ {0} /\ Cursor <= e + 1
    <3> HIDE DEF lo, n, e, r
    <3> QED
      BY <2>3, <2>5, <2>7, SMTT(60)
  <2>9. ~(l = 0)
    BY <1>3, SMTT(60)
  <2> QED
    BY <1>1, <2>8, <2>9, ZenonT(60)
<1> QED
  BY <1>1, <1>2, <1>3, SMTT(60)

\* The lengths that match_pattern's loop counts.
ShortBlock == Len(irs) <= RemoveLimit

\* One iteration of match_pattern.
LEMMA MatchInv ==
    ASSUME BlockInv, Match, ShortBlock PROVE BlockInv'
<1> DEFINE p == Cursor
<1>1. /\ BlocksOK /\ CodeOK /\ RegsOK /\ FuseOK /\ p <= Len(out)
      /\ UNCHANGED <<X, code, phase, PC, irs, out, ghost, blocks>> /\ phase = "fuse"
  BY Zenon DEF BlockInv, Match, execVars
<1>2. CodeOK' /\ BlocksOK' /\ RegsOK'
  BY <1>1, CodeBlocksSame, ZenonT(60) DEF RegsOK
<1> DEFINE Good(kind, n) == /\ groups' = Append(groups, [kind |-> kind, lo |-> p, n |-> n])
                            /\ n \in Nat \ {0} /\ p + n <= Len(out) + 1
                            /\ kind = "fuse2" => n = 2 /\ LuiAdd(p)
<1>e. Len(out) \in Nat /\ Len(out) = Len(irs) /\ Grouped(groups, out) /\ IsList(groups)
  <2>1. IsList(out) /\ Len(out) = Len(irs) /\ Grouped(groups, out)
    BY <1>1, Zenon DEF FuseOK, FoldedUpTo
  <2> QED
    BY <2>1, ListFacts, ZenonT(60) DEF Grouped
<1>3. PICK kind, n : Good(kind, n)
  <2>0. p \in Nat \ {0} /\ Len(out) \in Nat
    BY <1>1, <1>e, CursorFacts, ZenonT(60)
  <2> DEFINE f == Fused(out[p].op)
  <2>1. LuiAdd(p) /\ Group("fuse2", 2) => Good("fuse2", 2)
    BY <2>0, SMTT(60) DEF LuiAdd, Group
  <2>2. ASSUME NEW n \in 2 .. Len(out) - p + 1, Group(f.kind, n) PROVE Good(f.kind, n)
    <3>1. f.kind # "fuse2"
      BY SMTT(60) DEF Fused
    <3>2. n \in Nat \ {0} /\ p + n <= Len(out) + 1
      BY <2>0, SMTT(60)
    <3> QED
      BY <2>2, <3>1, <3>2, ZenonT(60) DEF Group
  <2>3. Group("one", 1) => Good("one", 1)
    BY <1>1, <2>0, SMTT(60) DEF Group
  <2> HIDE DEF Good
  <2> QED
    BY <2>1, <2>2, <2>3, ZenonT(60) DEF Match
<1> DEFINE g == [kind |-> kind, lo |-> p, n |-> n]
           l == Len(groups)
<1>4. /\ p \in Nat \ {0} /\ Len(out) \in Nat /\ l \in Nat
      /\ l = 0 => p = 1
      /\ l > 0 => p = groups[l].lo + groups[l].n
      /\ IsList(groups') /\ Len(groups') = l + 1
      /\ \A j \in 1 .. l : groups'[j] = groups[j]
      /\ groups'[l + 1] = g
  <2>1. /\ p \in Nat \ {0} /\ l \in Nat
        /\ l = 0 => p = 1
        /\ l > 0 => p = groups[l].lo + groups[l].n
    BY <1>1, CursorFacts, ZenonT(60)
  <2>2. groups' = Append(groups, g)
    BY <1>3, Zenon
  <2> HIDE DEF g
  <2>3. /\ IsList(groups') /\ Len(groups') = l + 1
        /\ \A j \in 1 .. l : groups'[j] = groups[j]
        /\ groups'[l + 1] = g
    BY <1>e, <2>2, ListAppend, ZenonT(60)
  <2> QED
    BY <1>e, <2>1, <2>3, ZenonT(60)
<1>5. GroupOK(g, out) /\ g.n <= RemoveLimit
  <2>1. n \in Nat \ {0} /\ p + n <= Len(out) + 1 /\ (kind = "fuse2" => n = 2 /\ LuiAdd(p))
    BY <1>3, ZenonT(60)
  <2>2. n <= RemoveLimit
    <3> DEFINE e == Len(out)
    <3>1. e \in Nat /\ p \in Nat \ {0} /\ p + n <= e + 1 /\ e <= RemoveLimit
      BY <1>e, <1>4, <2>1, ZenonT(60) DEF ShortBlock
    <3> HIDE DEF e, p
    <3> QED
      BY <2>1, <3>1, RemoveAssumption, SMTT(60)
  <2>3. g.kind = kind /\ g.lo = p /\ g.n = n
    BY SMTT(60)
  <2> HIDE DEF g, p
  <2> QED
    BY <1>4, <2>1, <2>2, <2>3, Zenon DEF GroupOK, LuiAdd
<1> HIDE DEF p, l, g
<1>6. Grouped(groups, out)' /\ \A j \in 1 .. Len(groups') : groups'[j].n <= RemoveLimit
  <2>1. \A j \in 1 .. l + 1 : GroupOK(groups'[j], out) /\ groups'[j].n <= RemoveLimit
    <3> SUFFICES ASSUME NEW j \in 1 .. l + 1
                 PROVE  GroupOK(groups'[j], out) /\ groups'[j].n <= RemoveLimit
      BY SMTT(60)
    <3>1. CASE j = l + 1
      BY <1>4, <1>5, <3>1, ZenonT(60)
    <3>2. CASE j \in 1 .. l
      <4>1. GroupOK(groups[j], out) /\ groups[j].n <= RemoveLimit
        BY <1>1, <3>2, GroupAt, ZenonT(60) DEF FuseOK, l
      <4>2. groups'[j] = groups[j]
        BY <1>4, <3>2, ZenonT(60)
      <4> QED
        BY <4>1, <4>2, ZenonT(60)
    <3>3. l \in Nat
      BY <1>4, SMTT(60)
    <3>4. j = l + 1 \/ j \in 1 .. l
      BY <3>3, SMTT(60)
    <3> QED
      BY <3>1, <3>2, <3>4, ZenonT(60)
  <2>2. groups'[1].lo = 1
    <3>0. l \in Nat
      BY <1>4, ZenonT(60)
    <3>1. CASE l = 0
      <4>1. groups'[0 + 1] = g /\ g.lo = 1
        BY <1>4, <3>1, ZenonT(60) DEF g
      <4> QED
        BY <4>1, SMTT(60)
    <3>2. CASE l > 0
      <4>1. 1 \in 1 .. l
        BY <3>0, <3>2, SMTT(60)
      <4>2. groups[1].lo = 1
        BY <1>e, <3>2, ZenonT(60) DEF Grouped, l
      <4> QED
        BY <1>4, <4>1, <4>2, ZenonT(60)
    <3> QED
      BY <3>0, <3>1, <3>2, SMTT(60)
  <2>3. \A j \in 1 .. l : groups'[j + 1].lo = groups'[j].lo + groups'[j].n
    <3> SUFFICES ASSUME NEW j \in 1 .. l
                 PROVE  groups'[j + 1].lo = groups'[j].lo + groups'[j].n
      BY SMTT(60)
    <3>0. l \in Nat
      BY <1>4, SMTT(60)
    <3>1. CASE j = l
      <4>1. l > 0
        BY <3>0, <3>1, SMTT(60)
      <4>2. groups'[l + 1] = g /\ groups'[l] = groups[l] /\ p = groups[l].lo + groups[l].n
        BY <1>4, <3>1, <4>1, ZenonT(60)
      <4>3. g.lo = p
        BY DEF g
      <4> QED
        BY <3>1, <4>2, <4>3, ZenonT(60)
    <3>2. CASE j \in 1 .. l - 1
      <4>1. groups[j + 1].lo = groups[j].lo + groups[j].n
        BY <1>e, <3>2, ZenonT(60) DEF Grouped, l
      <4>2. j + 1 \in 1 .. l
        BY <3>0, <3>2, SMTT(60)
      <4>3. groups'[j] = groups[j] /\ groups'[j + 1] = groups[j + 1]
        BY <1>4, <4>2, ZenonT(60)
      <4> QED
        BY <4>1, <4>3, ZenonT(60)
    <3>3. j = l \/ j \in 1 .. l - 1
      BY <3>0, SMTT(60)
    <3> QED
      BY <3>1, <3>2, <3>3, ZenonT(60)
  <2> QED
    BY <1>1, <1>4, <2>1, <2>2, <2>3, SMTT(60) DEF Grouped
<1>7. FuseOK'
  BY <1>1, <1>6, ZenonT(60) DEF FuseOK, Fetched, EndsLast, FoldedUpTo
<1> QED
  BY <1>1, <1>2, <1>7, ZenonT(60) DEF BlockInv

\* The block is kept and entered.
LEMMA InsertInv ==
    ASSUME BlockInv, Insert PROVE BlockInv'
<1> DEFINE b == [irs |-> out, orig |-> irs, ghost |-> ghost, groups |-> groups]
<1>1. /\ BlocksOK /\ CodeOK /\ RegsOK /\ FuseOK /\ UNCHANGED <<X, code, PC>> /\ Cursor > Len(out)
      /\ blocks' = [a \in DOMAIN blocks \cup {PC} |-> IF a = PC THEN b ELSE blocks[a]]
  BY Zenon DEF BlockInv, Insert, execVars
<1>2. phase' = "run" /\ gi' = 1 /\ base' = PC /\ i' = 0
  BY Zenon DEF Insert, Enter
<1>3. CodeOK' /\ RegsOK'
  BY <1>1, ZenonT(60) DEF CodeOK, RegsOK
<1>4. BlockOK(b, PC)
  <2> DEFINE l == Len(groups)
             e == Len(out)
             c == Cursor
             s == groups[l].lo + groups[l].n
  <2>1. /\ l \in Nat /\ c \in Nat \ {0} /\ c <= e + 1
        /\ l = 0 => c = 1
        /\ l > 0 => c = s
    BY <1>1, CursorFacts, ZenonT(60)
  <2>2. IsList(out) /\ e > 0 /\ c > e
    BY <1>1, Zenon DEF FuseOK, FoldedUpTo
  <2>3. e \in Nat
    BY <2>2, ListFacts, ZenonT(60)
  <2>4. l > 0 /\ s = e + 1
    <3> HIDE DEF l, e, c, s
    <3> QED
      BY <2>1, <2>2, <2>3, SMTT(60)
  <2>5. b.irs = out /\ b.orig = irs /\ b.ghost = ghost /\ b.groups = groups
    OBVIOUS
  <2>6. /\ Fetched(irs, PC) /\ EndsLast(irs) /\ FoldedUpTo(irs, out, ghost)
        /\ Len(out) = Len(irs) /\ Grouped(groups, out)
    BY <1>1, ZenonT(60) DEF FuseOK
  <2> HIDE DEF b
  <2> QED
    BY <2>4, <2>5, <2>6, ZenonT(60) DEF BlockOK
<1> HIDE DEF b
<1>5. PC \in Pcs /\ PC \in DOMAIN blocks' /\ blocks'[PC] = b
  BY <1>1, SMTT(60) DEF FuseOK
<1>6. \A a : \A c : BlockOK(c, a) => BlockOK(c, a)'
  <2> SUFFICES ASSUME NEW a, NEW c, BlockOK(c, a) PROVE BlockOK(c, a)'
    BY SMTT(60)
  <2>1. code' = code
    BY <1>1, SMTT(60)
  <2>2. Fetched(c.orig, a)'
    BY <2>1, BlockParts, ZenonT(60) DEF Fetched
  <2> QED
    BY <2>2, ZenonT(60) DEF BlockOK, EndsLast, FoldedUpTo, Grouped, GroupOK
<1>7. BlocksOK'
  <2>1. DOMAIN blocks' \subseteq Pcs
    BY <1>1, <1>5, SMTT(60) DEF BlocksOK
  <2> SUFFICES ASSUME NEW a \in DOMAIN blocks' PROVE BlockOK(blocks[a], a)'
    BY <2>1, Zenon DEF BlocksOK
  <2>2. CASE a = PC
    BY <1>4, <1>5, <1>6, <2>2, ZenonT(60)
  <2>3. CASE a # PC
    <3>1. a \in DOMAIN blocks /\ blocks'[a] = blocks[a]
      BY <1>1, <2>3, ZenonT(60)
    <3>2. BlockOK(blocks[a], a)
      BY <1>1, <3>1, ZenonT(60) DEF BlocksOK
    <3> QED
      BY <1>6, <3>1, <3>2, ZenonT(60)
  <2> QED
    BY <2>2, <2>3, ZenonT(60)
<1>8. RunOK'
  <2>1. BlockOK(blocks[PC], PC)'
    BY <1>1, <1>5, <1>7, ZenonT(60) DEF BlocksOK
  <2> QED
    BY <1>1, <1>2, <1>3, <1>5, <2>1, EnterRunOK, ZenonT(60)
<1> QED
  BY <1>2, <1>3, <1>7, <1>8, ZenonT(60) DEF BlockInv

\* Where a block is left, and what arrives from outside.
LEMMA OtherInv ==
    ASSUME BlockInv, RunTrap \/ RunWait \/ RunBlocked \/ Arrive \/ UNCHANGED blockVars
    PROVE  BlockInv'
<1>1. BlocksOK /\ CodeOK /\ RegsOK /\ code' = code /\ blocks' = blocks
  BY SMTT(60) DEF BlockInv, RunTrap, RunWait, RunBlocked, Arrive, blockVars
<1>2. CodeOK' /\ BlocksOK'
  BY <1>1, CodeBlocksSame, ZenonT(60)
<1>3. CASE RunTrap \/ RunBlocked
  <2>1. X' = X /\ phase' = "head"
    BY <1>3, Zenon DEF RunTrap, RunBlocked, Leave, execVars
  <2> QED
    BY <1>1, <1>2, <2>1, ZenonT(60) DEF BlockInv, RegsOK
<1>4. CASE RunWait
  <2>1. phase' = "head" /\ X' = [X EXCEPT ![CurIr.rd] = 0, ![CurIr.rs1] = X[CurIr.rs1]]
    BY <1>4, Zenon DEF RunWait, Leave
  <2>2. X' = [r \in Regs |-> X'[r]] /\ X'[0] = 0
    <3> DEFINE d == CurIr.rd
               s == CurIr.rs1
               Y == [X EXCEPT ![d] = 0]
    <3> HIDE DEF d, s
    <3>0. X = [r \in Regs |-> X[r]] /\ X[0] = 0 /\ 0 \in Regs
      BY <1>1, RegsAssumption, Zenon DEF RegsOK
    <3>1. Y = [r \in Regs |-> Y[r]] /\ Y[0] = 0
      BY <3>0, Zenon
    <3> HIDE DEF Y
    <3>2. X' = [Y EXCEPT ![s] = X[s]]
      BY <2>1, Zenon DEF Y, d, s
    <3> QED
      BY <3>0, <3>1, <3>2, ZenonT(60)
  <2> QED
    BY <1>2, <2>1, <2>2, ZenonT(60) DEF BlockInv, RegsOK
<1>5. CASE Arrive \/ UNCHANGED blockVars
  <2>1. UNCHANGED <<X, code, phase, PC, irs, lui_const, out, info, ghost, groups, blocks, gi, base, i>>
    BY <1>5, Zenon DEF Arrive, Push, blockVars, transVars, runVars
  <2>2. CurGroup' = CurGroup
    BY <2>1, Zenon DEF CurGroup
  <2>3. RegsOK'
    BY <1>1, <2>1, ZenonT(60) DEF RegsOK
  <2>4. FetchOK => FetchOK'
    BY <2>1, SMTT(60) DEF FetchOK, Fetched
  <2>5. FoldOK => FoldOK'
    BY <2>1, SMTT(60) DEF FoldOK, Fetched, EndsLast, FoldedUpTo, IsInfo, InfoAfter
  <2>6. FuseOK => FuseOK'
    BY <2>1, ZenonT(60) DEF FuseOK, Fetched, EndsLast, FoldedUpTo, Grouped, GroupOK
  <2>7. RunOK => RunOK'
    BY <2>1, <2>2, Zenon DEF RunOK, Consistent, Known
  <2> QED
    BY <1>2, <2>1, <2>3, <2>4, <2>5, <2>6, <2>7, ZenonT(60) DEF BlockInv
<1> QED
  BY <1>3, <1>4, <1>5, ZenonT(60)

\* Every step preserves the invariant.
LEMMA BlockInvStep ==
    ASSUME BlockInv, ShortBlock, [BlockNext]_blockVars PROVE BlockInv'
BY FindInv, MissInv, FetchInv, FoldInv, MatchInv, InsertInv, RunPartInv, OtherInv, ZenonT(60) DEF BlockNext

\* The invariant holds always.
LEMMA BlockInvHolds ==
    ASSUME Disciplined PROVE BlockSpec /\ []ShortBlock => []BlockInv
<1>1. BlockInit => BlockInv
  BY BlockInvInit, SMTT(60)
<1>2. BlockInv /\ ShortBlock /\ [BlockNext]_blockVars => BlockInv'
  BY BlockInvStep, SMTT(60)
<1> QED
  BY <1>1, <1>2, PTL DEF BlockSpec

\* Of programs that do not load into x0 and use no SC.W: as long as no block is longer than
\* remove_next_nth_ir counts, every register that optimize_constant took for a constant
\* holds that constant when the instruction it was used for is executed.
THEOREM ConstantsAlwaysHold ==
    ASSUME Disciplined PROVE BlockSpec /\ []ShortBlock => []ConstantsHold
<1>1. BlockInv => ConstantsHold
  BY ZenonT(60) DEF BlockInv, RunOK, Consistent, ConstantsHold
<1> QED
  BY <1>1, BlockInvHolds, PTL

\* Of the same programs: optimize_constant's assert(rv->X[0] == 0) never fails.
THEOREM ZeroStaysZero ==
    ASSUME Disciplined PROVE BlockSpec /\ []ShortBlock => []ZeroIsZero
<1>1. BlockInv => ZeroIsZero
  BY Zenon DEF BlockInv, RegsOK, ZeroIsZero
<1> QED
  BY <1>1, BlockInvHolds, PTL
-----------------------------------------------------------------------------
(***************************************************************************)
(* The block interpreter implements the plain processor.                   *)
(***************************************************************************)
\* What the code relies on where it runs a fused instruction or a load of the mailbox: no
\* access but the first of a fused instruction is misaligned, do_lw_mailbox is called only
\* for aligned addresses, and it is what executes every load of the empty mailbox.
AccessesTame ==
    phase = "run" =>
        /\ Misaligned(CurIr) => i = 0 /\ ~ByMailboxHandler
        /\ ReadsMailbox(CurIr) /\ fifo = <<>> => ByMailboxHandler

\* Of an instruction only its fields matter.
LEMMA SameDo ==
    ASSUME NEW ir, NEW insn, NEW at, SameInsn(ir, insn)
    PROVE  /\ Do(ir, at) => Do(insn, at)
           /\ NextPc(ir, at) = NextPc(insn, at)
           /\ Misaligned(ir) = Misaligned(insn)
           /\ ReadsMailbox(ir) = ReadsMailbox(insn)
<1>1. ir.op = insn.op /\ ir.rd = insn.rd /\ ir.rs1 = insn.rs1 /\ ir.rs2 = insn.rs2 /\ ir.imm = insn.imm
  BY Zenon DEF SameInsn
<1>2. Address(ir) = Address(insn)
  BY <1>1, Zenon DEF Address
<1>3. ReadsMailbox(ir) = ReadsMailbox(insn)
  BY <1>1, <1>2, ZenonT(60) DEF ReadsMailbox
<1>4. Loaded(ir) = Loaded(insn)
  BY <1>1, <1>2, <1>3, ZenonT(60) DEF Loaded
<1>5. Result(ir, at) = Result(insn, at)
  BY <1>1, Zenon DEF Result
<1>6. Do(ir, at) => Do(insn, at)
  BY <1>1, <1>2, <1>3, <1>4, <1>5, ZenonT(60)
    DEF Do, DoNop, DoCompute, DoJump, DoLoad, DoStore, DoReserved, DoAmo
<1>7. NextPc(ir, at) = NextPc(insn, at)
  BY <1>1, Zenon DEF NextPc
<1>8. Misaligned(ir) = Misaligned(insn)
  BY <1>1, <1>2, ZenonT(60) DEF Misaligned
<1> QED
  BY <1>3, <1>6, <1>7, <1>8, ZenonT(60)

\* optimize_constant leaves accesses to memory alone.
LEMMA FoldAccess ==
    ASSUME NEW ir \in Irs, NEW c
    PROVE  /\ Misaligned(FoldIr(ir, c)) = Misaligned(ir)
           /\ ReadsMailbox(FoldIr(ir, c)) = ReadsMailbox(ir)
<1>1. CASE FoldsToValue(ir, c)
  <2>1. FoldIr(ir, c).op = "lui"
    BY <1>1, Folded, ZenonT(60)
  <2>2. ir.op \in Computes
    BY <1>1, OpClasses, ZenonT(60) DEF FoldsToValue
  <2> QED
    BY <2>1, <2>2, OpClasses, ZenonT(60) DEF Misaligned, ReadsMailbox, Loads
<1>2. CASE ~FoldsToValue(ir, c) /\ FoldsBranch(ir, c)
  <2>1. FoldIr(ir, c).op = "jal"
    BY <1>2, Folded, ZenonT(60)
  <2>2. ir.op \in Effectless
    BY <1>2, OpClasses, ZenonT(60) DEF FoldsBranch
  <2> QED
    BY <2>1, <2>2, OpClasses, ZenonT(60) DEF Misaligned, ReadsMailbox, Loads
<1>3. CASE ~FoldsToValue(ir, c) /\ ~FoldsBranch(ir, c)
  BY <1>3, Folded, ZenonT(60)
<1> QED
  BY <1>1, <1>2, <1>3, ZenonT(60)

\* The current ir stands for the plain processor's instruction.
LEMMA CurrentInsn ==
    ASSUME BlocksOK, RunOK
    PROVE  /\ At \in Pcs /\ At \in Int
           /\ Misaligned(CurIr) = Misaligned(Insn(At))
           /\ ReadsMailbox(CurIr) = ReadsMailbox(Insn(At))
           /\ CurIr.rd = Insn(At).rd /\ CurIr.rs1 = Insn(At).rs1
           /\ NextPc(CurIr, At) = NextPc(Insn(At), At)
           /\ DoPart => Do(Insn(At), At)
<1> DEFINE o == blocks[PC].orig[CurGroup.lo + i]
           c == blocks[PC].ghost[CurGroup.lo + i]
<1>1. /\ o \in Irs /\ o.pc = At /\ SameInsn(o, Insn(At)) /\ CurIr = FoldIr(o, c)
      /\ Consistent(c)
  BY Current, Zenon DEF Insn
<1> HIDE DEF o, c
<1>2. At \in Pcs /\ At \in Int
  <2>1. o.pc \in Pcs
    BY <1>1, SMTT(60) DEF Irs
  <2> QED
    BY <1>1, <2>1, PcsAreInts, ZenonT(60)
<1>3. Misaligned(CurIr) = Misaligned(Insn(At)) /\ ReadsMailbox(CurIr) = ReadsMailbox(Insn(At))
  <2>1. Misaligned(CurIr) = Misaligned(o) /\ ReadsMailbox(CurIr) = ReadsMailbox(o)
    BY <1>1, FoldAccess, ZenonT(60)
  <2>2. Misaligned(o) = Misaligned(Insn(At)) /\ ReadsMailbox(o) = ReadsMailbox(Insn(At))
    BY <1>1, SameDo, ZenonT(60)
  <2> QED
    BY <2>1, <2>2, ZenonT(60)
<1>4. CurIr.rd = Insn(At).rd /\ CurIr.rs1 = Insn(At).rs1
  BY <1>1, Folded, ZenonT(60) DEF SameInsn
<1>5. NextPc(CurIr, At) = NextPc(Insn(At), At)
  BY <1>1, FoldNext, SameDo, ZenonT(60)
<1>6. DoPart => Do(Insn(At), At)
  BY <1>1, PartDoes, SameDo, ZenonT(60) DEF o
<1> QED
  BY <1>2, <1>3, <1>4, <1>5, <1>6, ZenonT(60)

\* Inside a block the next instruction is the one behind, and at its end the one that the
\* plain processor goes to.
LEMMA AdvanceTo ==
    ASSUME BlocksOK, RunOK, phase = "run", Advance
    PROVE  ArchPc' = NextPc(Insn(At), At)
<1> DEFINE b == blocks[PC]
           lo == CurGroup.lo
           n == CurGroup.n
           e == Len(b.irs)
           k == lo + i
<1>1. BlockOK(b, PC) /\ k \in 1 .. e /\ GroupOK(CurGroup, b.irs) /\ SameInsn(b.orig[k], Insn(At))
  BY Current, Zenon DEF Insn
<1>2. e \in Nat /\ Len(b.orig) = e /\ EndsLast(b.orig)
  BY <1>1, BlockParts, Zenon
<1>3. /\ lo \in Nat \ {0} /\ n \in Nat \ {0} /\ lo + n <= e + 1
      /\ i \in Nat /\ i < n /\ base \in Int /\ At = base + 4 * i
  <2>1. PC \in Int
    BY PcsAreInts, Zenon DEF RunOK, BlocksOK
  <2>2. i \in 0 .. n - 1 /\ base = PC + 4 * (lo - 1) /\ At = base + 4 * i
    BY Zenon DEF RunOK, At
  <2>3. lo \in Nat \ {0} /\ n \in Nat \ {0} /\ lo + n <= e + 1
    BY <1>1, GroupNumbers, ZenonT(60)
  <2> HIDE DEF lo, n, e
  <2> QED
    BY <2>1, <2>2, <2>3, SMTT(60)
<1>4. k < e => NextPc(Insn(At), At) = At + 4
  <2> SUFFICES ASSUME k < e PROVE NextPc(Insn(At), At) = At + 4
    BY SMTT(60)
  <2>1. k \in 1 .. Len(b.orig) - 1
    <3> HIDE DEF k, e
    <3>1. k \in 1 .. e - 1
      BY <1>1, <1>2, SMTT(60)
    <3> QED
      BY <1>2, <3>1, ZenonT(60)
  <2>2. b.orig[k].op \notin Enders
    BY <1>2, <2>1, ZenonT(60) DEF EndsLast
  <2>3. Insn(At).op \notin Enders
    BY <1>1, <2>2, ZenonT(60) DEF SameInsn
  <2> QED
    BY <2>3, ZenonT(60) DEF NextPc, Enders
<1>5. CASE i + 1 < n
  <2>1. i' = i + 1 /\ phase' = "run" /\ base' = base
    BY <1>5, ZenonT(60) DEF Advance
  <2>2. ArchPc' = base + 4 * (i + 1)
    BY <2>1, ZenonT(60) DEF ArchPc, At
  <2>3. k = lo + i
    BY SMTT(60)
  <2>4. k < e /\ ArchPc' = At + 4
    <3>1. i + 1 < n
      BY <1>5, ZenonT(60)
    <3> HIDE DEF lo, n, e, k
    <3> QED
      BY <1>2, <1>3, <2>2, <2>3, <3>1, SMTT(60)
  <2> QED
    BY <1>4, <2>4, ZenonT(60)
<1>6. CASE ~(i + 1 < n) /\ gi < Len(b.groups)
  <2> DEFINE h == b.groups[gi + 1]
             m == h.n
             ho == h.lo
  <2>1. base' = base + 4 * n /\ i' = 0 /\ phase' = "run"
    BY <1>6, SMTT(60) DEF Advance
  <2>2. gi \in 1 .. Len(b.groups)
    BY Zenon DEF RunOK
  <2>3. GroupOK(h, b.irs) /\ ho = lo + n
    BY <1>1, <1>6, <2>2, BehindGroup, ZenonT(60)
  <2>4. m \in Nat \ {0} /\ ho + m <= e + 1
    BY <2>3, GroupNumbers, ZenonT(60)
  <2>5. ArchPc' = base + 4 * n + 4 * 0
    BY <2>1, ZenonT(60) DEF ArchPc, At
  <2>6. k = lo + i /\ ho = lo + n
    BY <2>3, ZenonT(60)
  <2>7. k < e /\ ArchPc' = At + 4
    <3>1. ~(i + 1 < n)
      BY <1>6, ZenonT(60)
    <3> HIDE DEF lo, n, e, k, h, m, ho
    <3>2. i = n - 1
      BY <1>3, <3>1, SMTT(60)
    <3> QED
      BY <1>2, <1>3, <2>4, <2>5, <2>6, <3>2, SMTT(60)
  <2> QED
    BY <1>4, <2>7, Zenon
<1>7. CASE ~(i + 1 < n) /\ ~(gi < Len(b.groups))
  <2>1. phase' = "head" /\ PC' = NextPc(CurIr, At)
    BY <1>7, ZenonT(60) DEF Advance, Leave
  <2>2. NextPc(CurIr, At) = NextPc(Insn(At), At)
    BY CurrentInsn, ZenonT(60)
  <2> QED
    BY <2>1, <2>2, ZenonT(60) DEF ArchPc
<1> QED
  BY <1>5, <1>6, <1>7, Zenon

\* Every step is one of the plain processor, or none.
LEMMA PlainNextStep ==
    ASSUME BlockInv, AccessesTame, [BlockNext]_blockVars
    PROVE  [PlainNext(ArchPc, ArchPc')]_archVars
<1>0. BlocksOK /\ (phase = "run" => RunOK)
  BY ZenonT(60) DEF BlockInv
<1>1. CASE Find \/ Insert
  <2>1. PC \in Int /\ phase # "run"
    BY <1>1, PcsAreInts, ZenonT(60) DEF BlockInv, BlocksOK, Find, Insert, FuseOK
  <2>2. phase' = "run" /\ base' = PC /\ i' = 0 /\ UNCHANGED <<X, mem, fifo, code>>
    BY <1>1, ZenonT(60) DEF Find, Insert, Enter, execVars
  <2> QED
    BY <2>1, <2>2, SMTT(60) DEF archVars, ArchPc, At
<1>2. CASE Miss \/ Fetch \/ Fold \/ Match
  <2>1. /\ phase # "run" /\ phase' # "run" /\ PC' = PC /\ UNCHANGED <<X, mem, fifo, code>>
    BY <1>2, Zenon DEF Miss, Fetch, FetchEnd, Fold, Match, execVars
  <2> QED
    BY <2>1, ZenonT(60) DEF archVars, ArchPc
<1>3. CASE RunTrap
  <2>1. /\ phase = "run" /\ Misaligned(CurIr) /\ i = 0 /\ phase' = "head" /\ PC' = base + 4
        /\ UNCHANGED <<X, mem, fifo, code>>
    BY <1>3, ZenonT(60) DEF RunTrap, Leave, AccessesTame, execVars
  <2>2. base \in Int
    <3> DEFINE lo == CurGroup.lo
    <3>1. PC \in Int /\ base = PC + 4 * (lo - 1)
      BY <1>0, <2>1, PcsAreInts, ZenonT(60) DEF RunOK, BlocksOK
    <3>2. GroupOK(CurGroup, blocks[PC].irs)
      BY <1>0, <2>1, Current, ZenonT(60)
    <3>3. lo \in Nat \ {0}
      BY <3>2, GroupNumbers, ZenonT(60)
    <3> HIDE DEF lo
    <3> QED
      BY <3>1, <3>3, SMTT(60)
  <2>3. ArchPc = At /\ ArchPc' = At + 4
    BY <2>1, <2>2, SMTT(60) DEF ArchPc, At
  <2> QED
    BY <1>0, <2>1, <2>3, CurrentInsn, ZenonT(60) DEF PlainNext, PlainTrap
<1>4. CASE RunWait
  <2>1. /\ phase = "run" /\ ReadsMailbox(CurIr) /\ fifo = <<>> /\ phase' = "head" /\ PC' = At
        /\ X' = [X EXCEPT ![CurIr.rd] = 0, ![CurIr.rs1] = X[CurIr.rs1]]
        /\ UNCHANGED <<mem, fifo, code>>
    BY <1>4, Zenon DEF RunWait, Leave
  <2>2. ArchPc = At /\ ArchPc' = At
    BY <2>1, ZenonT(60) DEF ArchPc
  <2> QED
    BY <1>0, <2>1, <2>2, CurrentInsn, ZenonT(60) DEF PlainNext, PlainWait
<1>5. CASE RunBlocked
  BY <1>5, SMTT(60) DEF RunBlocked, Leave, archVars, ArchPc, execVars
<1>6. CASE RunPart
  <2>1. /\ phase = "run" /\ DoPart /\ Advance /\ UNCHANGED code
        /\ ~Misaligned(CurIr) /\ (ReadsMailbox(CurIr) => fifo # <<>>)
    BY <1>6, ZenonT(60) DEF RunPart, AccessesTame
  <2>2. ArchPc = At /\ ArchPc' = NextPc(Insn(At), At)
    BY <1>0, <2>1, AdvanceTo, ZenonT(60) DEF ArchPc
  <2> QED
    BY <1>0, <2>1, <2>2, CurrentInsn, ZenonT(60) DEF PlainNext, PlainStep
<1>7. CASE Arrive
  <2>1. ArchPc' = ArchPc
    BY <1>7, ZenonT(60) DEF Arrive, runVars, ArchPc, At
  <2> QED
    BY <1>7, <2>1, ZenonT(60) DEF Arrive, PlainNext, PlainPush
<1>8. CASE UNCHANGED blockVars
  BY <1>8, SMTT(60) DEF blockVars, runVars, archVars, ArchPc, At
<1> QED
  BY <1>1, <1>2, <1>3, <1>4, <1>5, <1>6, <1>7, <1>8, ZenonT(60) DEF BlockNext

\* Translation, constant folding and fusion preserve what a program does, for every program
\* that does not load into x0 and uses no SC.W, every word width and every size of the block
\* map, as long as blocks are short enough and accesses are what the fused handlers rely on.
THEOREM BlocksImplementPlain ==
    ASSUME Disciplined
    PROVE  BlockSpec /\ []ShortBlock /\ []AccessesTame => ImplementsPlain
<1>1. BlockInit => PlainInit(ArchPc)
  BY ZenonT(60) DEF BlockInit, PlainInit, ArchPc
<1>2. BlockInv /\ AccessesTame /\ [BlockNext]_blockVars => [PlainNext(ArchPc, ArchPc')]_archVars
  BY PlainNextStep, SMTT(60)
<1> QED
  BY <1>1, <1>2, BlockInvHolds, PTL DEF BlockSpec, ImplementsPlain
=============================================================================
