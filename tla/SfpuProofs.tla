----------------------------- MODULE SfpuProofs -----------------------------
(***************************************************************************)
(* Predication of the vector unit, for every number of lanes and registers *)
(* and every depth of the flag stack: the enabled lanes are those of the   *)
(* branch the kernel is in, a branch leaves the other lanes alone, and no  *)
(* instruction changes a hardwired register.                               *)
(***************************************************************************)
EXTENDS Sfpu, TLAPS

Frame == [cond : [Lanes -> BOOLEAN], neg : BOOLEAN]
AllOn == Everywhere(TRUE)

\* The lanes for which the first n branches of fs are the ones taken.
FlagsOf(fs, n) == [l \in Lanes |-> \A k \in 1..n : InFrame(fs[k], l)]

\* In a structured kernel the flags are those of the branch it is in, and the stack has an
\* entry for every open if, with the flags of the branch around it.
InStep ==
    /\ frames \in Seq(Frame)
    /\ stack \in Seq(CcType)
    /\ Len(stack) = Len(frames)
    /\ use = AllOn
    /\ flag = FlagsOf(frames, Len(frames))
    /\ \A k \in 1..Len(frames) : stack[k] = [use |-> AllOn, flag |-> FlagsOf(frames, k - 1)]

BranchInv == kernel = "structured" => InStep

\* Flags are Booleans.
LEMMA FlagsType ==
  ASSUME NEW fs, NEW n
  PROVE  FlagsOf(fs, n) \in [Lanes -> BOOLEAN]
BY DEF FlagsOf

\* They depend on the first n frames only.
LEMMA FlagsSame ==
  ASSUME NEW fs, NEW gs, NEW n, \A k \in 1..n : fs[k] = gs[k]
  PROVE  FlagsOf(fs, n) = FlagsOf(gs, n)
BY DEF FlagsOf

\* One more frame.
LEMMA FlagsNext ==
  ASSUME NEW fs, NEW n \in Nat, NEW l \in Lanes
  PROVE  FlagsOf(fs, n + 1)[l] <=> FlagsOf(fs, n)[l] /\ InFrame(fs[n + 1], l)
<1>1. (\A k \in 1..(n + 1) : InFrame(fs[k], l)) <=> (\A k \in 1..n : InFrame(fs[k], l)) /\ InFrame(fs[n + 1], l)
  OBVIOUS
<1> QED BY <1>1 DEF FlagsOf

\* Every lane is on.
LEMMA OnType == AllOn \in [Lanes -> BOOLEAN] /\ \A l \in Lanes : AllOn[l] = TRUE
BY DEF AllOn, Everywhere

\* The flags of a branch are all that LaneEnabled looks at.
LEMMA EnabledIsFlag ==
  ASSUME InStep, NEW l \in Lanes
  PROVE  /\ LaneEnabled(l) <=> flag[l]
         /\ LaneEnabled(l) <=> InBranch(l)
<1>1. use[l] = TRUE
  BY OnType, SMTT(60) DEF InStep
<1>2. flag[l] <=> InBranch(l)
  BY DEF InStep, FlagsOf, InBranch
<1> QED BY <1>1, <1>2, SMTT(60) DEF LaneEnabled

\* The flags of no branch are all set.
LEMMA BranchInit == SfpuInit => BranchInv
<1> SUFFICES ASSUME SfpuInit PROVE InStep
  BY DEF BranchInv
<1>1. flag = FlagsOf(<<>>, 0)
  BY DEF SfpuInit, Everywhere, FlagsOf
<1>2. frames \in Seq(Frame) /\ stack \in Seq(CcType) /\ Len(frames) = 0 /\ Len(stack) = 0
  BY DEF SfpuInit
<1>3. 1..Len(frames) = {}
  BY <1>2
<1>4. use = AllOn /\ flag = FlagsOf(frames, Len(frames))
  BY <1>1, <1>2, Zenon DEF SfpuInit, AllOn
<1> QED BY <1>2, <1>3, <1>4, SMTT(60) DEF InStep
-----------------------------------------------------------------------------
(* The four instructions that move between branches. *)

\* if: the flags go to the stack, and a frame of all lanes is entered.
LEMMA IfStep ==
  ASSUME InStep, If
  PROVE  InStep'
<1> DEFINE n == Len(frames)
<1> DEFINE f == [cond |-> Everywhere(TRUE), neg |-> FALSE]
<1> DEFINE e == [use |-> AllOn, flag |-> FlagsOf(frames, Len(frames))]
<1>1. /\ use' = use /\ flag' = flag /\ frames' = Append(frames, f)
      /\ stack' = Append(stack, e)
  BY DEF If, Pushc, Pushed, Here, InStep
<1>2. f \in Frame
  BY SMTT(60) DEF Frame, Everywhere
<1>3. \A l \in Lanes : InFrame(f, l)
  BY SMTT(60) DEF Everywhere, InFrame
<1>4. e \in CcType
  BY OnType, FlagsType, SMTT(60) DEF CcType
<1>5. e = [use |-> AllOn, flag |-> FlagsOf(frames, n)]
  OBVIOUS
<1>6. n \in Nat /\ Len(stack) = n
  BY DEF InStep
<1> HIDE DEF f, e
<1>7. /\ frames' \in Seq(Frame) /\ Len(frames') = n + 1
      /\ stack' \in Seq(CcType) /\ Len(stack') = n + 1
  BY <1>1, <1>2, <1>4, SMTT(60) DEF InStep
<1>8. /\ \A k \in 1..n : frames'[k] = frames[k] /\ stack'[k] = stack[k]
      /\ frames'[n + 1] = f /\ stack'[n + 1] = e
  BY <1>1, <1>2, <1>4, <1>6, SMTT(60) DEF InStep
<1> HIDE DEF n
<1>9. \A k \in 0..n : FlagsOf(frames', k) = FlagsOf(frames, k)
  BY <1>6, <1>8, FlagsSame, SMTT(60)
<1>10. FlagsOf(frames', n + 1) = FlagsOf(frames, n)
  <2>1. \A l \in Lanes : FlagsOf(frames', n + 1)[l] = FlagsOf(frames, n)[l]
    <3> SUFFICES ASSUME NEW l \in Lanes
                 PROVE  FlagsOf(frames', n + 1)[l] = FlagsOf(frames, n)[l]
      OBVIOUS
    <3>1. FlagsOf(frames', n + 1)[l] \in BOOLEAN /\ FlagsOf(frames, n)[l] \in BOOLEAN
      BY FlagsType, SMTT(60)
    <3>2. FlagsOf(frames', n + 1)[l] <=> FlagsOf(frames', n)[l] /\ InFrame(f, l)
      BY <1>6, <1>8, FlagsNext, SMTT(60)
    <3>3. FlagsOf(frames', n) = FlagsOf(frames, n)
      BY <1>6, <1>9, SMTT(60)
    <3> QED BY <1>3, <3>1, <3>2, <3>3, SMTT(60)
  <2> QED BY <2>1, SMTT(60) DEF FlagsOf
<1>11. \A k \in 1..(n + 1) : stack'[k] = [use |-> AllOn, flag |-> FlagsOf(frames', k - 1)]
  <2>1. \A k \in 1..n : stack[k] = [use |-> AllOn, flag |-> FlagsOf(frames, k - 1)]
    BY SMTT(60) DEF InStep, n
  <2> QED BY <1>5, <1>6, <1>8, <1>9, <2>1, SMTT(60)
<1>12. use' = AllOn /\ flag' = FlagsOf(frames', n + 1)
  BY <1>1, <1>10, SMTT(60) DEF InStep, n
<1> QED BY <1>7, <1>11, <1>12, SMTT(60) DEF InStep

\* A step that changes the last frame changes the flags with it.
LEMMA LastStep ==
  ASSUME InStep, frames # <<>>, NEW g \in Frame, SetLast(g), use' = use, stack' = stack,
         flag' \in [Lanes -> BOOLEAN],
         \A l \in Lanes : flag'[l] <=> FlagsOf(frames, Len(frames) - 1)[l] /\ InFrame(g, l)
  PROVE  InStep'
<1> DEFINE n == Len(frames)
<1>1. n \in Nat \ {0}
  BY SMTT(60) DEF InStep
<1>2. /\ frames' \in Seq(Frame) /\ Len(frames') = n /\ frames'[n] = g
      /\ \A k \in 1..(n - 1) : frames'[k] = frames[k]
  BY <1>1 DEF InStep, SetLast
<1>3. \A k \in 0..(n - 1) : FlagsOf(frames', k) = FlagsOf(frames, k)
  <2> SUFFICES ASSUME NEW k \in 0..(n - 1) PROVE FlagsOf(frames', k) = FlagsOf(frames, k)
    OBVIOUS
  <2>1. \A j \in 1..k : frames'[j] = frames[j]
    BY <1>1, <1>2, SMTT(60)
  <2> QED BY <2>1, FlagsSame
<1>4. flag' = FlagsOf(frames', n)
  <2>1. \A l \in Lanes : flag'[l] = FlagsOf(frames', n)[l]
    <3> SUFFICES ASSUME NEW l \in Lanes PROVE flag'[l] = FlagsOf(frames', n)[l]
      BY SMTT(60)
    <3>1. FlagsOf(frames', n)[l] \in BOOLEAN /\ flag'[l] \in BOOLEAN
      BY FlagsType, SMTT(60)
    <3>2. FlagsOf(frames', n)[l] <=> FlagsOf(frames', n - 1)[l] /\ InFrame(g, l)
      <4>1. n - 1 \in Nat /\ (n - 1) + 1 = n
        BY <1>1
      <4>2. FlagsOf(frames', (n - 1) + 1)[l] <=> FlagsOf(frames', n - 1)[l] /\ InFrame(frames'[(n - 1) + 1], l)
        BY <4>1, FlagsNext, Zenon
      <4> HIDE DEF n
      <4> QED BY <1>2, <4>1, <4>2, SMTT(60)
    <3>3. FlagsOf(frames', n - 1) = FlagsOf(frames, n - 1)
      BY <1>1, <1>3
    <3>4. flag'[l] <=> FlagsOf(frames, n - 1)[l] /\ InFrame(g, l)
      OBVIOUS
    <3> HIDE DEF n
    <3> QED BY <3>1, <3>2, <3>3, <3>4, SMTT(60)
  <2>2. FlagsOf(frames', n) \in [Lanes -> BOOLEAN]
    BY FlagsType, SMTT(60)
  <2> QED BY <2>1, <2>2, SMTT(60)
<1>5. \A k \in 1..n : stack'[k] = [use |-> AllOn, flag |-> FlagsOf(frames', k - 1)]
  BY <1>1, <1>3, SMTT(60) DEF InStep
<1>6. stack' \in Seq(CcType) /\ Len(stack') = n /\ use' = AllOn
  BY SMTT(60) DEF InStep
<1> QED BY <1>2, <1>4, <1>5, <1>6, SMTT(60) DEF InStep

\* The frame the kernel is in.
LEMMA LastFrame ==
  ASSUME InStep, frames # <<>>
  PROVE  /\ Len(frames) \in Nat \ {0} /\ Last \in Frame
         /\ stack # <<>>
         /\ Top = [use |-> AllOn, flag |-> FlagsOf(frames, Len(frames) - 1)]
         /\ \A l \in Lanes : flag[l] <=> FlagsOf(frames, Len(frames) - 1)[l] /\ InFrame(Last, l)
<1>1. Len(frames) \in Nat \ {0} /\ Last \in Frame
  BY SMTT(60) DEF InStep, Last
<1>2. stack # <<>> /\ Top = [use |-> AllOn, flag |-> FlagsOf(frames, Len(frames) - 1)]
  BY <1>1, SMTT(60) DEF InStep, Top
<1>3. ASSUME NEW l \in Lanes
      PROVE  flag[l] <=> FlagsOf(frames, Len(frames) - 1)[l] /\ InFrame(Last, l)
  <2> DEFINE m == Len(frames) - 1
  <2>1. m \in Nat /\ m + 1 = Len(frames)
    BY <1>1, SMTT(60)
  <2>2. flag = FlagsOf(frames, m + 1) /\ Last = frames[m + 1]
    BY <2>1 DEF InStep, Last
  <2> HIDE DEF m
  <2>3. flag[l] <=> FlagsOf(frames, m)[l] /\ InFrame(Last, l)
    BY <2>1, <2>2, FlagsNext, Zenon
  <2> QED BY <2>3 DEF m
<1> QED BY <1>1, <1>2, <1>3, SMTT(60)

\* A condition narrows the flags and the frame by the same test.
LEMMA ConditionStep ==
  ASSUME InStep, NEW test \in [Lanes -> BOOLEAN], Narrow(test), Condition(test),
         use' = use, stack' = stack
  PROVE  InStep'
<1> DEFINE g == [Last EXCEPT !.cond = [l \in Lanes |-> @[l] /\ test[l]]]
           outer == FlagsOf(frames, Len(frames) - 1)
<1>1. frames # <<>> /\ SetLast(g) /\ ~Last.neg
  BY DEF Condition
<1>2. Last \in Frame /\ \A l \in Lanes : flag[l] <=> outer[l] /\ InFrame(Last, l)
  BY <1>1, LastFrame, SMTT(60)
<1>3. g.cond = [l \in Lanes |-> Last.cond[l] /\ test[l]] /\ g.neg = Last.neg
  BY <1>2 DEF Frame
<1>4. g \in Frame
  BY <1>2 DEF Frame
<1> HIDE DEF g
<1>5. Last.neg = FALSE
  BY <1>1, <1>2, SMTT(60) DEF Frame
<1>6. \A l \in Lanes : Last.cond[l] \in BOOLEAN /\ test[l] \in BOOLEAN
  BY <1>2 DEF Frame
<1>7. \A l \in Lanes : InFrame(g, l) <=> InFrame(Last, l) /\ test[l]
  BY <1>3, <1>5, <1>6, Zenon DEF InFrame
<1>8. flag \in [Lanes -> BOOLEAN]
  BY FlagsType DEF InStep
<1>9. flag' \in [Lanes -> BOOLEAN]
  BY <1>8, SMTT(60) DEF Narrow
<1>10. \A l \in Lanes : flag'[l] <=> flag[l] /\ test[l]
  BY <1>8, EnabledIsFlag, SMTT(60) DEF Narrow
<1>11. \A l \in Lanes : flag'[l] <=> outer[l] /\ InFrame(g, l)
  BY <1>2, <1>7, <1>10, SMTT(60)
<1> QED BY <1>1, <1>4, <1>9, <1>11, LastStep, SMTT(60)

\* The conditions SFPSETCC, SFPIADD and SFPEXEXP set.
LEMMA AndStep ==
  ASSUME InStep, And
  PROVE  InStep'
<1>1. ASSUME NEW vc \in Regs, NEW mod \in {0, 2, 4, 6},
             Setcc(vc, mod, FALSE), Condition(SetccTest(vc, mod, FALSE))
      PROVE  InStep'
  <2>1. SetccTest(vc, mod, FALSE) \in [Lanes -> BOOLEAN]
    BY DEF SetccTest
  <2> QED BY <1>1, <2>1, ConditionStep, Zenon DEF Setcc
<1>2. ASSUME NEW val, NEW gte \in BOOLEAN, Narrow(SignTest(val, gte)),
             UNCHANGED <<use, stack>>, Condition(SignTest(val, gte))
      PROVE  InStep'
  <2>1. SignTest(val, gte) \in [Lanes -> BOOLEAN]
    BY DEF SignTest
  <2> QED BY <1>2, <2>1, ConditionStep
<1> QED BY <1>1, <1>2, ZenonT(60) DEF And, Iadd, Exexp

\* else: the lanes of the enclosing branch that are not in this one.
LEMMA ElseStep ==
  ASSUME InStep, Else
  PROVE  InStep'
<1> DEFINE g == [Last EXCEPT !.neg = TRUE]
           outer == FlagsOf(frames, Len(frames) - 1)
<1>1. frames # <<>> /\ SetLast(g) /\ ~Last.neg /\ Compc
  BY DEF Else
<1>2. /\ Last \in Frame /\ \A l \in Lanes : flag[l] <=> outer[l] /\ InFrame(Last, l)
      /\ stack # <<>> /\ Top = [use |-> AllOn, flag |-> outer]
  BY <1>1, LastFrame, SMTT(60)
<1>3. g \in Frame /\ g.cond = Last.cond /\ g.neg = TRUE
  BY <1>2, ZenonT(60) DEF Frame
<1> HIDE DEF g
<1>4. Last.neg = FALSE /\ \A l \in Lanes : Last.cond[l] \in BOOLEAN
  BY <1>1, <1>2, SMTT(60) DEF Frame
<1>5. \A l \in Lanes : InFrame(g, l) <=> ~InFrame(Last, l)
  BY <1>3, <1>4, ZenonT(60) DEF InFrame
<1>6. flag' = [l \in Lanes |-> AllOn[l] /\ use[l] /\ outer[l] /\ ~flag[l]]
  BY <1>1, <1>2 DEF Compc
<1>7. flag' \in [Lanes -> BOOLEAN]
  BY <1>6, SMTT(60)
<1>8. \A l \in Lanes : AllOn[l] = TRUE /\ use[l] = TRUE
  BY OnType DEF InStep
<1>9. \A l \in Lanes : flag'[l] <=> outer[l] /\ ~flag[l]
  BY <1>6, <1>8, Zenon
<1>10. \A l \in Lanes : flag'[l] <=> outer[l] /\ InFrame(g, l)
  BY <1>2, <1>5, <1>9, SMTT(60)
<1>11. use' = use /\ stack' = stack
  BY <1>1, SMTT(60) DEF Compc
<1> QED BY <1>1, <1>3, <1>7, <1>10, <1>11, LastStep, SMTT(60)

\* endif: back to the flags of the enclosing branch.
LEMMA EndIfStep ==
  ASSUME InStep, EndIf
  PROVE  InStep'
<1> DEFINE n == Len(frames)
           outer == FlagsOf(frames, n - 1)
<1>1. /\ n \in Nat \ {0} /\ stack # <<>> /\ Top = [use |-> AllOn, flag |-> outer]
      /\ Len(stack) = n
  BY LastFrame, SMTT(60) DEF EndIf, InStep
<1>2. /\ stack' = SubSeq(stack, 1, n - 1) /\ use' = AllOn /\ flag' = outer
      /\ frames' = SubSeq(frames, 1, n - 1)
  BY <1>1, SMTT(60) DEF EndIf, Popc
<1>3. /\ frames' \in Seq(Frame) /\ Len(frames') = n - 1
      /\ stack' \in Seq(CcType) /\ Len(stack') = n - 1
      /\ \A k \in 1..(n - 1) : frames'[k] = frames[k] /\ stack'[k] = stack[k]
  BY <1>1, <1>2, SMTT(60) DEF InStep
<1>4. \A k \in 0..(n - 1) : FlagsOf(frames', k) = FlagsOf(frames, k)
  <2> SUFFICES ASSUME NEW k \in 0..(n - 1) PROVE FlagsOf(frames', k) = FlagsOf(frames, k)
    BY SMTT(60)
  <2>1. \A j \in 1..k : frames'[j] = frames[j]
    BY <1>1, <1>3, SMTT(60)
  <2> QED BY <2>1, FlagsSame, SMTT(60)
<1>5. \A k \in 1..(n - 1) : stack'[k] = [use |-> AllOn, flag |-> FlagsOf(frames', k - 1)]
  BY <1>1, <1>3, <1>4, SMTT(60) DEF InStep
<1>6. flag' = FlagsOf(frames', n - 1)
  BY <1>1, <1>2, <1>4
<1> QED BY <1>2, <1>3, <1>5, <1>6, SMTT(60) DEF InStep
-----------------------------------------------------------------------------
(* The registers. *)

RegsShape == lreg = [r \in Regs |-> [l \in Lanes |-> lreg[r][l]]]
RegsInv == RegsShape /\ ConstantsStay

\* Only enabled lanes, and only registers that are not hardwired, are written.
Contained ==
    /\ RegsShape'
    /\ \A r \in Regs, l \in Lanes :
          ~LaneEnabled(l) \/ r \in ConstRegs => lreg'[r][l] = lreg[r][l]

\* A hardwired register is neither general nor programmable.
LEMMA RegKinds ==
  /\ GenRegs \subseteq Regs /\ ProgRegs \subseteq Regs /\ ConstRegs \subseteq Regs
  /\ \A r \in ConstRegs : r \notin GenRegs /\ r \notin ProgRegs
BY RegsAssumption, SMTT(60) DEF Regs

\* Instructions that write LReg[VD] in the enabled lanes.
LEMMA WriteContained ==
  ASSUME RegsShape, NEW vd, NEW val, Write(vd, val)
  PROVE  Contained
<1>1. CASE vd \notin GenRegs
  BY <1>1, SMTT(60) DEF Write, RegsShape, Contained
<1>2. CASE vd \in GenRegs
  <2> DEFINE new == [l \in Lanes |-> IF LaneEnabled(l) THEN val[l] ELSE lreg[vd][l]]
  <2>1. lreg' = [lreg EXCEPT ![vd] = new]
    BY <1>2 DEF Write
  <2>2. lreg' = [r \in Regs |-> IF r = vd THEN new ELSE lreg[r]]
    BY <2>1, Zenon DEF RegsShape
  <2>3. RegsShape'
    BY <2>2, Zenon DEF RegsShape
  <2>4. ASSUME NEW r \in Regs, NEW l \in Lanes, ~LaneEnabled(l) \/ r \in ConstRegs
        PROVE  lreg'[r][l] = lreg[r][l]
    BY <1>2, <2>2, <2>4, RegKinds, SMTT(60)
  <2> QED BY <2>3, <2>4, SMTT(60) DEF Contained
<1> QED BY <1>1, <1>2, SMTT(60)

\* Every instruction of a branch's body is contained, and leaves the flags alone.
LEMMA BodyContained ==
  ASSUME RegsShape, Predicated
  PROVE  Contained /\ UNCHANGED ccVars
<1>1. ASSUME NEW vd, Compute(vd) PROVE Contained /\ UNCHANGED ccVars
  BY <1>1, WriteContained, SMTT(60) DEF Compute
<1>2. ASSUME NEW vd, NEW indirect, Arithmetic(vd, indirect)
      PROVE  Contained /\ UNCHANGED ccVars
  <2>1. PICK val : lreg' = [r \in Regs |-> [l \in Lanes |->
                     IF LaneEnabled(l) /\ r \in GenRegs /\ r = Target(vd, indirect, l)
                     THEN val[l] ELSE lreg[r][l]]]
    BY <1>2, SMTT(60) DEF Arithmetic
  <2>2. RegsShape'
    BY <2>1, SMTT(60) DEF RegsShape
  <2>3. ASSUME NEW r \in Regs, NEW l \in Lanes, ~LaneEnabled(l) \/ r \in ConstRegs
        PROVE  lreg'[r][l] = lreg[r][l]
    BY <2>1, <2>3, RegKinds, SMTT(60)
  <2> QED BY <1>2, <2>2, <2>3, SMTT(60) DEF Contained, Arithmetic
<1>3. ASSUME NEW vd, NEW vc, Swap(vd, vc) PROVE Contained /\ UNCHANGED ccVars
  <2>1. PICK on : lreg' = [r \in Regs |-> [l \in Lanes |->
                    IF LaneEnabled(l) /\ on[l] /\ r = vd THEN lreg[vc][l]
                    ELSE IF LaneEnabled(l) /\ on[l] /\ r = vc /\ vc \in GenRegs THEN lreg[vd][l]
                    ELSE lreg[r][l]]]
    BY <1>3, SMTT(60) DEF Swap
  <2>2. RegsShape'
    BY <2>1 DEF RegsShape
  <2>3. vd \in GenRegs
    BY <1>3 DEF Swap
  <2>4. ASSUME NEW r \in Regs, NEW l \in Lanes, ~LaneEnabled(l) \/ r \in ConstRegs
        PROVE  lreg'[r][l] = lreg[r][l]
    BY <2>1, <2>3, <2>4, RegKinds, SMTT(60)
  <2> QED BY <1>3, <2>2, <2>4, SMTT(60) DEF Contained, Swap
<1>4. ASSUME Transp PROVE Contained /\ UNCHANGED ccVars
  <2>1. RegsShape'
    BY <1>4, SMTT(60) DEF RegsShape, Transp
  <2>2. ASSUME NEW r \in Regs, NEW l \in Lanes, ~LaneEnabled(l) \/ r \in ConstRegs
        PROVE  lreg'[r][l] = lreg[r][l]
    BY <1>4, <2>2, RegKinds, SMTT(60) DEF Transp
  <2> QED BY <1>4, <2>1, <2>2, SMTT(60) DEF Contained, Transp
<1>5. ASSUME NEW vd, NEW vc, NEW flip, Mov(vd, vc, flip) PROVE Contained /\ UNCHANGED ccVars
  BY <1>5, WriteContained, SMTT(60) DEF Mov
<1>6. ASSUME NEW vd, NEW vc, NEW arg, IaddNoFlags(vd, vc, arg, 1)
      PROVE  Contained /\ UNCHANGED ccVars
  BY <1>6, WriteContained, SMTT(60) DEF IaddNoFlags
<1>7. ASSUME NEW vd, NEW mod, NEW imm, Loadi(vd, mod, imm) PROVE Contained /\ UNCHANGED ccVars
  BY <1>7, WriteContained DEF Loadi
<1>8. ASSUME NEW op, NEW vd, NEW vc, Logic(op, vd, vd, vc) PROVE Contained /\ UNCHANGED ccVars
  BY <1>8, WriteContained, Zenon DEF Logic
<1>9. CASE \E vd, vc \in GenRegs :
             \/ XorInto(vd, vc)
             \/ Abs(vd, vc)
             \/ Cast(vd, vc, TRUE)
             \/ Cast(vd, vc, FALSE)
             \/ Setsgn(vd, vc, {l \in Lanes : Negative(lreg[vd][l])})
             \/ \E N \in {{}, Lanes} : Setsgn(vd, vc, N)
  BY <1>9, WriteContained, ZenonT(60) DEF XorInto, Abs, Cast, Setsgn
<1>10. CASE \E vd, vc \in GenRegs, arithmetic \in BOOLEAN :
              \/ Shift(vd, vd, lreg[vc], arithmetic)
              \/ \E n \in {1, 2^Width - 1} : Shift(vd, vc, [l \in Lanes |-> n], arithmetic)
  BY <1>10, WriteContained DEF Shift
<1>11. CASE \/ \E vd \in Regs : Compute(vd)
            \/ \E vd \in Regs, indirect \in BOOLEAN : Arithmetic(vd, indirect)
            \/ \E vd, vc \in Regs : Swap(vd, vc) \/ (\E flip \in BOOLEAN : Mov(vd, vc, flip))
            \/ Transp
  BY <1>1, <1>2, <1>3, <1>4, <1>5, <1>11
<1> QED BY <1>6, <1>7, <1>8, <1>9, <1>10, <1>11, ZenonT(60) DEF Predicated

\* So are the instructions that set a condition.
LEMMA AndContained ==
  ASSUME RegsShape, And
  PROVE  Contained
<1>1. ASSUME NEW vc, NEW mod, Setcc(vc, mod, FALSE) PROVE Contained
  BY <1>1, SMTT(60) DEF Setcc, RegsShape, Contained
<1>2. ASSUME NEW vd, NEW vc, NEW arg, NEW gte, Iadd(vd, vc, arg, 1, gte) PROVE Contained
  BY <1>2, WriteContained DEF Iadd
<1>3. ASSUME NEW vd, NEW val, NEW gte, Exexp(vd, val, gte) PROVE Contained
  BY <1>3, WriteContained, SMTT(60) DEF Exexp
<1> QED BY <1>1, <1>2, <1>3, Zenon DEF And

\* The remaining instructions keep the hardwired registers.
Kept == RegsShape' /\ \A r \in ConstRegs, l \in Lanes : lreg'[r][l] = lreg[r][l]

\* An instruction that writes no register keeps them.
LEMMA SameKept ==
  ASSUME RegsShape, lreg' = lreg
  PROVE  Kept
BY DEF RegsShape, Kept

\* SFPLOAD, SFPMOV to all lanes and SFPCONFIG write no hardwired register.
LEMMA UnpredicatedKept ==
  ASSUME RegsShape, Unpredicated
  PROVE  Kept /\ UNCHANGED ccVars
<1>1. ASSUME NEW vd \in Regs, vd \notin ConstRegs, NEW val,
             val = [l \in Lanes |-> val[l]], lreg' = [lreg EXCEPT ![vd] = val]
      PROVE  Kept
  <2>1. lreg' = [r \in Regs |-> IF r = vd THEN val ELSE lreg[r]]
    BY <1>1 DEF RegsShape
  <2>2. RegsShape'
    BY <1>1, <2>1, ZenonT(60) DEF RegsShape
  <2> QED BY <1>1, <2>1, <2>2, RegKinds, SMTT(60) DEF Kept
<1>2. ASSUME NEW vd \in GenRegs, Load(vd) PROVE Kept /\ UNCHANGED ccVars
  <2>1. PICK val \in [Lanes -> Results] : lreg' = [lreg EXCEPT ![vd] = val]
    BY <1>2 DEF Load
  <2>2. vd \in Regs /\ vd \notin ConstRegs /\ val = [l \in Lanes |-> val[l]]
    BY RegKinds
  <2> QED BY <1>1, <1>2, <2>1, <2>2 DEF Load
<1>3. ASSUME NEW vd \in Regs, NEW vc \in Regs, MovAllLanes(vd, vc) PROVE Kept /\ UNCHANGED ccVars
  <2>1. CASE vd \in GenRegs
    <3>1. vd \notin ConstRegs /\ lreg[vc] = [l \in Lanes |-> lreg[vc][l]]
      BY <2>1, RegKinds DEF RegsShape
    <3>2. lreg' = [lreg EXCEPT ![vd] = lreg[vc]] /\ UNCHANGED ccVars
      BY <1>3, <2>1 DEF MovAllLanes
    <3> QED BY <1>1, <3>1, <3>2
  <2>2. CASE vd \notin GenRegs
    BY <1>3, <2>2, SameKept, SMTT(60) DEF MovAllLanes
  <2> QED BY <2>1, <2>2
<1>4. ASSUME NEW vd, NEW imm, NEW immediate, Config(vd, imm, immediate)
      PROVE  Kept /\ UNCHANGED ccVars
  <2> DEFINE val == IF immediate THEN Everywhere(imm) ELSE [l \in Lanes |-> lreg[0][l % Cols]]
  <2>1. vd \in Regs /\ vd \notin ConstRegs /\ lreg' = [lreg EXCEPT ![vd] = val]
    BY <1>4, RegKinds, SMTT(60) DEF Config
  <2>2. val = [l \in Lanes |-> val[l]]
    BY DEF Everywhere
  <2> HIDE DEF val
  <2> QED BY <1>1, <1>4, <2>1, <2>2, SMTT(60) DEF Config
<1> QED BY <1>2, <1>3, <1>4, SMTT(60) DEF Unpredicated

\* tensix_clear leaves zeros.
LEMMA ClearKept ==
  ASSUME RegsInv, Clear
  PROVE  Kept
BY RegKinds, Zenon DEF RegsInv, ConstantsStay, Clear, Kept, RegsShape, Everywhere

\* Nor does any instruction of a raw kernel change one.
LEMMA RawKept ==
  ASSUME RegsInv, Raw
  PROVE  Kept
<1> RegsShape
  BY DEF RegsInv
<1>1. ASSUME NEW mod, Pushc(mod) \/ Popc(mod) PROVE Kept
  BY <1>1, SameKept, Zenon DEF Pushc, Popc
<1>2. ASSUME PopcOff \/ Compc PROVE Kept
  BY <1>2, SameKept, ZenonT(60) DEF PopcOff, Compc
<1>3. ASSUME NEW vd \in GenRegs, IaddInverts(vd, vd, "imm", 0) PROVE Kept
  BY <1>3, WriteContained, RegKinds DEF IaddInverts, Contained, Kept
<1>4. ASSUME NEW enable, NEW result, Encc(enable, result) PROVE Kept
  BY <1>4, SameKept, SMTT(60) DEF Encc
<1>5. ASSUME NEW vc, NEW mod, NEW imm, Setcc(vc, mod, imm) PROVE Kept
  BY <1>5, SameKept, SMTT(60) DEF Setcc
<1> QED BY <1>1, <1>2, <1>3, <1>4, <1>5, ClearKept, Zenon DEF Raw

\* Registers that are kept stay what they are.
LEMMA KeptConstants ==
  ASSUME RegsInv, Kept
  PROVE  RegsInv'
<1>1. \A r \in ConstRegs : lreg'[r] = [l \in Lanes |-> lreg'[r][l]]
  BY RegKinds, SMTT(60) DEF Kept, RegsShape
<1>2. \A r \in ConstRegs, l \in Lanes : lreg'[r][l] = 0
  BY DEF Kept, RegsInv, ConstantsStay, Everywhere
<1>3. \A r \in ConstRegs : lreg'[r] = Everywhere(0)
  BY <1>1, <1>2, SMTT(60) DEF Everywhere
<1> QED BY <1>3, SMTT(60) DEF RegsInv, ConstantsStay, Kept
-----------------------------------------------------------------------------
(* The invariant, and the theorems. *)

SfpuInv == RegsInv /\ BranchInv

Isolation ==
    kernel = "structured" =>
       \A l \in Lanes : ~InBranch(l) => \A r \in Regs : lreg'[r][l] = lreg[r][l]

\* One step of a structured kernel.
LEMMA StructuredStep ==
  ASSUME RegsInv, InStep, Structured
  PROVE  InStep' /\ RegsInv' /\ Isolation
<1> RegsShape
  BY DEF RegsInv
<1>1. ASSUME Contained PROVE RegsInv' /\ Isolation
  <2>1. Kept
    BY <1>1, RegKinds, SMTT(60) DEF Contained, Kept
  <2>2. Isolation
    BY <1>1, EnabledIsFlag, SMTT(60) DEF Contained, Isolation
  <2> QED BY <2>1, <2>2, KeptConstants, SMTT(60)
<1>2. ASSUME lreg' = lreg PROVE RegsInv' /\ Isolation
  BY <1>2, SameKept, KeptConstants, SMTT(60) DEF Isolation
<1>3. ASSUME frames = <<>>, Kept PROVE RegsInv' /\ Isolation
  <2>1. \A l \in Lanes : InBranch(l)
    BY <1>3, SMTT(60) DEF InBranch
  <2> QED BY <1>3, <2>1, KeptConstants, SMTT(60) DEF Isolation
<1>4. CASE If
  BY <1>2, <1>4, IfStep, SMTT(60) DEF If, Pushc
<1>5. CASE And
  BY <1>1, <1>5, AndStep, AndContained, SMTT(60)
<1>6. CASE Else
  BY <1>2, <1>6, ElseStep, SMTT(60) DEF Else, Compc
<1>7. CASE EndIf
  BY <1>2, <1>7, EndIfStep, SMTT(60) DEF EndIf, Popc
<1>8. CASE Predicated /\ UNCHANGED frames
  BY <1>1, <1>8, BodyContained, SMTT(60) DEF ccVars, InStep
<1>9. CASE frames = <<>> /\ Unpredicated /\ UNCHANGED frames
  BY <1>3, <1>9, UnpredicatedKept, SMTT(60) DEF ccVars, InStep
<1>10. CASE frames = <<>> /\ Clear /\ UNCHANGED frames
  <2>1. stack' = <<>> /\ use' = use /\ flag' = flag /\ frames' = frames /\ Len(frames) = 0
    BY <1>10, SMTT(60) DEF Clear
  <2>2. stack' \in Seq(CcType) /\ Len(stack') = 0
    BY <2>1, SMTT(60)
  <2>3. 1..Len(frames') = {}
    BY <2>1, SMTT(60)
  <2>4. InStep'
    BY <2>1, <2>2, <2>3, SMTT(60) DEF InStep
  <2> QED BY <1>3, <1>10, <2>4, ClearKept, SMTT(60)
<1> QED BY <1>4, <1>5, <1>6, <1>7, <1>8, <1>9, <1>10, SMTT(60) DEF Structured

\* One step of any kernel.
LEMMA SfpuStep ==
  ASSUME SfpuInv, [SfpuNext]_sfpuVars
  PROVE  SfpuInv' /\ Isolation
<1>1. CASE Structured
  <2>1. kernel = "structured" /\ InStep /\ RegsInv
    BY <1>1 DEF Structured, SfpuInv, BranchInv
  <2> QED BY <1>1, <2>1, StructuredStep, SMTT(60) DEF SfpuInv, BranchInv
<1>2. CASE Raw
  <2>1. kernel = "raw" /\ kernel' = "raw" /\ RegsInv
    BY <1>2, SMTT(60) DEF Raw, SfpuInv
  <2> QED BY <1>2, <2>1, RawKept, KeptConstants, SMTT(60) DEF SfpuInv, BranchInv, Isolation
<1>3. CASE UNCHANGED sfpuVars
  <2>1. RegsInv' /\ Isolation
    BY <1>3, SameKept, KeptConstants, ZenonT(60) DEF sfpuVars, SfpuInv, RegsInv, Isolation
  <2>2. BranchInv'
    BY <1>3 DEF sfpuVars, SfpuInv, BranchInv, InStep
  <2> QED BY <2>1, <2>2 DEF SfpuInv
<1> QED BY <1>1, <1>2, <1>3, SMTT(60) DEF SfpuNext

\* The invariant holds throughout.
LEMMA SfpuInvariant == SfpuSpec => []SfpuInv
<1>1. SfpuInit => SfpuInv
  <2> SUFFICES ASSUME SfpuInit PROVE RegsInv
    BY BranchInit DEF SfpuInv
  <2> QED BY RegKinds DEF SfpuInit, RegsInv, RegsShape, ConstantsStay, Everywhere
<1>2. SfpuInv /\ [SfpuNext]_sfpuVars => SfpuInv'
  BY SfpuStep
<1> QED BY <1>1, <1>2, PTL DEF SfpuSpec

\* For any lanes, registers and stack depth: in a kernel built from if, else and endif the
\* lanes lane_enabled admits are those of the branch the kernel is in, through any nesting
\* that fits the flag stack (sfppushc, sfpsetcc, sfpiadd, sfpexexp, sfpcompc, sfppopc).
THEOREM LanesFollow == SfpuSpec => []LanesFollowBranches
<1>1. SfpuInv => LanesFollowBranches
  BY EnabledIsFlag DEF SfpuInv, BranchInv, LanesFollowBranches
<1> QED BY <1>1, SfpuInvariant, PTL

\* The conditions and the body of a branch write no lane outside it, in any register.
THEOREM BranchesIsolated == SfpuSpec => BranchIsIsolated
<1>1. SfpuInv /\ [SfpuNext]_sfpuVars => [Isolation]_sfpuVars
  BY SfpuStep, SMTT(60)
<1> QED BY <1>1, SfpuInvariant, PTL DEF SfpuSpec, BranchIsIsolated, Isolation

\* No instruction of either kind of kernel changes a hardwired register, whatever LReg[7]
\* selects ("VD 0-7 only").
THEOREM ConstantsKept == SfpuSpec => []ConstantsStay
<1>1. SfpuInv => ConstantsStay
  BY DEF SfpuInv, RegsInv
<1> QED BY <1>1, SfpuInvariant, PTL
-----------------------------------------------------------------------------
(* The flag stack, in every kernel. *)

\* The flags after a test are Booleans.
LEMMA NarrowType ==
  ASSUME FlagStackBounded, NEW test \in [Lanes -> BOOLEAN], Narrow(test)
  PROVE  flag' \in [Lanes -> BOOLEAN]
BY Zenon DEF FlagStackBounded, Narrow

\* What SFPSETCC, SFPIADD and SFPEXEXP test is a Boolean per lane.
LEMMA TestType ==
  /\ \A vc, mod, imm : SetccTest(vc, mod, imm) \in [Lanes -> BOOLEAN]
  /\ \A val, gte : SignTest(val, gte) \in [Lanes -> BOOLEAN]
BY Zenon DEF SetccTest, SignTest

\* The entry on top of a stack that is not empty, and the stack without it.
LEMMA StackTop ==
  ASSUME FlagStackBounded, stack # <<>>
  PROVE  /\ Top \in CcType /\ Len(stack) \in 1..Depth
         /\ SubSeq(stack, 1, Len(stack) - 1) \in Seq(CcType)
         /\ Len(SubSeq(stack, 1, Len(stack) - 1)) = Len(stack) - 1
<1>1. stack \in Seq(CcType) /\ Len(stack) <= Depth /\ Len(stack) \in Nat /\ Depth \in Nat
  BY SfpuAssumption, SMTT(60) DEF FlagStackBounded
<1>2. Len(stack) \in 1..Depth
  BY <1>1, SMTT(60)
<1> QED BY <1>1, <1>2, SMTT(60) DEF Top

\* The top replaced.
LEMMA StackReplaced ==
  ASSUME FlagStackBounded, NEW n \in 1..Len(stack), NEW e \in CcType
  PROVE  /\ [stack EXCEPT ![n] = e] \in Seq(CcType)
         /\ Len([stack EXCEPT ![n] = e]) = Len(stack)
BY SMTT(60) DEF FlagStackBounded

\* The combinations of SFPPUSHC and SFPPOPC are Boolean.
LEMMA BooleanOpType ==
  ASSUME NEW mod, NEW a \in BOOLEAN, NEW b \in BOOLEAN
  PROVE  BooleanOp(mod, a, b) \in BOOLEAN
BY Zenon DEF BooleanOp

\* SFPPUSHC at a stack that is full, partly filled or empty.
LEMMA PushcBounded ==
  ASSUME FlagStackBounded, NEW mod, Pushc(mod)
  PROVE  FlagStackBounded'
<1> DEFINE n == Len(stack)
           inv == [l \in Lanes |-> ~flag[l]]
<1>1. /\ use \in [Lanes -> BOOLEAN] /\ flag \in [Lanes -> BOOLEAN]
      /\ stack \in Seq(CcType) /\ n \in Nat /\ n <= Depth /\ Depth \in Nat \ {0}
  BY SfpuAssumption, SMTT(60) DEF FlagStackBounded
<1>2. use' \in [Lanes -> BOOLEAN] /\ flag' \in [Lanes -> BOOLEAN]
  BY <1>1, Zenon DEF Pushc
<1>3. Here \in CcType
  BY <1>1, Zenon DEF Here, CcType
<1>4. CASE mod = 0
  <2>1. stack' = Pushed
    BY <1>4, Zenon DEF Pushc
  <2>2. CASE n < Depth
    <3>1. stack' = Append(stack, Here)
      BY <2>1, <2>2, Zenon DEF Pushed
    <3>2. stack' \in Seq(CcType) /\ Len(stack') = n + 1
      BY <1>1, <1>3, <3>1, SMTT(60)
    <3>3. Len(stack') <= Depth
      BY <1>1, <2>2, <3>2, SMTT(60)
    <3> QED BY <1>2, <3>2, <3>3, Zenon DEF FlagStackBounded
  <2>3. CASE ~(n < Depth)
    <3>1. stack' = [stack EXCEPT ![Depth] = Here]
      BY <2>1, <2>3, Zenon DEF Pushed
    <3>2. Depth \in 1..Len(stack)
      BY <1>1, <2>3, SMTT(60)
    <3>3. stack' \in Seq(CcType) /\ Len(stack') = n
      BY <1>3, <3>1, <3>2, StackReplaced, Zenon
    <3> QED BY <1>1, <1>2, <3>3, Zenon DEF FlagStackBounded
  <2> QED BY <2>2, <2>3, Zenon
<1>5. CASE mod # 0 /\ n = 0
  <2>1. stack' = stack
    BY <1>5, Zenon DEF Pushc
  <2> QED BY <1>1, <1>2, <2>1, Zenon DEF FlagStackBounded
<1>6. CASE mod # 0 /\ n # 0
  <2> DEFINE e == CASE mod \in 1..12 ->
                       [use |-> use,
                        flag |-> [l \in Lanes |-> BooleanOp(mod, stack[n].flag[l], flag[l])]]
                  [] mod = 13 -> [use |-> use, flag |-> inv]
                  [] OTHER -> [use |-> Everywhere(TRUE), flag |-> Everywhere(mod = 14)]
  <2>1. stack' = [stack EXCEPT ![n] = e]
    BY <1>6, Zenon DEF Pushc
  <2>2. n \in 1..Len(stack)
    BY <1>1, <1>6, SMTT(60)
  <2>3. stack[n] \in CcType
    BY <1>1, <2>2, SMTT(60)
  <2>4. e \in CcType
    <3>1. CASE mod \in 1..12
      <4> DEFINE f == [l \in Lanes |-> BooleanOp(mod, stack[n].flag[l], flag[l])]
      <4>1. f \in [Lanes -> BOOLEAN]
        BY <1>1, <2>3, BooleanOpType, Zenon DEF CcType
      <4>2. e = [use |-> use, flag |-> f]
        BY <3>1, SMTT(60)
      <4> HIDE DEF e, f
      <4> QED BY <1>1, <4>1, <4>2, Zenon DEF CcType
    <3>2. CASE mod \notin 1..12 /\ mod = 13
      <4>1. e = [use |-> use, flag |-> inv] /\ inv \in [Lanes -> BOOLEAN]
        BY <3>2, Zenon
      <4> HIDE DEF e, inv
      <4> QED BY <1>1, <4>1, Zenon DEF CcType
    <3>3. CASE mod \notin 1..12 /\ mod # 13
      <4>1. e = [use |-> Everywhere(TRUE), flag |-> Everywhere(mod = 14)]
        BY <3>3, Zenon
      <4>2. Everywhere(TRUE) \in [Lanes -> BOOLEAN] /\ Everywhere(mod = 14) \in [Lanes -> BOOLEAN]
        BY Zenon DEF Everywhere
      <4> HIDE DEF e
      <4> QED BY <4>1, <4>2, Zenon DEF CcType
    <3> QED BY <3>1, <3>2, <3>3, Zenon
  <2> HIDE DEF e
  <2>5. stack' \in Seq(CcType) /\ Len(stack') = n
    BY <2>1, <2>2, <2>4, StackReplaced, Zenon
  <2> QED BY <1>1, <1>2, <2>5, Zenon DEF FlagStackBounded
<1> QED BY <1>4, <1>5, <1>6, Zenon

\* SFPPOPC, also at an empty stack.
LEMMA PopcBounded ==
  ASSUME FlagStackBounded, NEW mod, Popc(mod)
  PROVE  FlagStackBounded'
<1> DEFINE top == IF stack = <<>> THEN NoTop ELSE Top
<1>1. /\ use \in [Lanes -> BOOLEAN] /\ flag \in [Lanes -> BOOLEAN]
      /\ stack \in Seq(CcType) /\ Len(stack) <= Depth /\ Len(stack) \in Nat /\ Depth \in Nat
  BY SfpuAssumption, SMTT(60) DEF FlagStackBounded
<1>2. top.use \in [Lanes -> BOOLEAN] /\ top.flag \in [Lanes -> BOOLEAN]
  <2>1. NoTop \in CcType
    BY Zenon DEF NoTop, CcType, Everywhere
  <2>2. top \in CcType
    BY <2>1, StackTop, Zenon
  <2> QED BY <2>2, Zenon DEF CcType
<1>3. use' \in [Lanes -> BOOLEAN]
  BY <1>1, <1>2, Zenon DEF Popc, Everywhere
<1>4. flag' \in [Lanes -> BOOLEAN]
  <2> HIDE DEF top
  <2> DEFINE combined == [l \in Lanes |-> BooleanOp(mod, flag[l], top.flag[l])]
             inverted == [l \in Lanes |-> ~flag[l]]
  <2>1. flag' \in {top.flag, combined, inverted, Everywhere(mod = 14)}
    BY Zenon DEF Popc, top
  <2>2. combined \in [Lanes -> BOOLEAN]
    BY <1>1, <1>2, BooleanOpType, Zenon
  <2>3. inverted \in [Lanes -> BOOLEAN] /\ Everywhere(mod = 14) \in [Lanes -> BOOLEAN]
    BY Zenon DEF Everywhere
  <2> HIDE DEF combined, inverted
  <2> QED BY <1>2, <2>1, <2>2, <2>3, Zenon
<1>5. stack' \in Seq(CcType) /\ Len(stack') <= Depth
  <2>1. CASE mod = 0 /\ stack # <<>>
    <3>1. stack' = SubSeq(stack, 1, Len(stack) - 1)
      BY <2>1, Zenon DEF Popc
    <3>2. stack' \in Seq(CcType) /\ Len(stack') = Len(stack) - 1 /\ Len(stack) \in 1..Depth
      BY <2>1, <3>1, StackTop, Zenon
    <3> QED BY <1>1, <3>2, SMTT(60)
  <2>2. CASE ~(mod = 0 /\ stack # <<>>)
    BY <1>1, <2>2, Zenon DEF Popc
  <2> QED BY <2>1, <2>2, Zenon
<1> QED BY <1>3, <1>4, <1>5, Zenon DEF FlagStackBounded

\* SFPPOPC with VD >= 12, and tensix_clear.
LEMMA DropBounded ==
  ASSUME FlagStackBounded, PopcOff \/ Clear
  PROVE  FlagStackBounded'
<1>1. /\ use' = use /\ flag' = flag /\ use \in [Lanes -> BOOLEAN] /\ flag \in [Lanes -> BOOLEAN]
      /\ stack \in Seq(CcType) /\ Len(stack) <= Depth /\ Len(stack) \in Nat /\ Depth \in Nat
  BY SfpuAssumption, SMTT(60) DEF FlagStackBounded, PopcOff, Clear
<1>2. CASE stack' = stack
  BY <1>1, <1>2, Zenon DEF FlagStackBounded
<1>3. CASE stack # <<>> /\ stack' = SubSeq(stack, 1, Len(stack) - 1)
  <2>1. stack' \in Seq(CcType) /\ Len(stack') = Len(stack) - 1 /\ Len(stack) \in 1..Depth
    BY <1>3, StackTop, Zenon
  <2>2. Len(stack') <= Depth
    BY <1>1, <2>1, SMTT(60)
  <2> QED BY <1>1, <2>1, <2>2, Zenon DEF FlagStackBounded
<1>4. CASE stack' = <<>>
  <2>1. stack' \in Seq(CcType) /\ Len(stack') <= Depth
    BY <1>1, <1>4, SMTT(60)
  <2> QED BY <1>1, <2>1, Zenon DEF FlagStackBounded
<1> QED BY <1>2, <1>3, <1>4, Zenon DEF PopcOff, Clear

\* The remaining instructions leave the stack alone.
LEMMA FlagsBounded ==
  ASSUME FlagStackBounded, stack' = stack, use' \in [Lanes -> BOOLEAN],
         flag' \in [Lanes -> BOOLEAN]
  PROVE  FlagStackBounded'
BY Zenon DEF FlagStackBounded

\* The predicated instructions write registers only.
LEMMA BodyFlags ==
  ASSUME Predicated
  PROVE  UNCHANGED ccVars
BY Zenon DEF Predicated, Compute, Arithmetic, Swap, Mov, IaddNoFlags, Transp, Loadi, Logic, XorInto,
   Abs, Cast, Setsgn, Shift

\* Every instruction of either kind of kernel.
LEMMA FlagStackStep ==
  ASSUME FlagStackBounded, [SfpuNext]_sfpuVars
  PROVE  FlagStackBounded'
<1>0. use \in [Lanes -> BOOLEAN] /\ flag \in [Lanes -> BOOLEAN]
  BY Zenon DEF FlagStackBounded
<1>1. ASSUME UNCHANGED ccVars PROVE FlagStackBounded'
  BY <1>0, <1>1, FlagsBounded, Zenon DEF ccVars
<1>2. ASSUME NEW test \in [Lanes -> BOOLEAN], Narrow(test), use' = use, stack' = stack
      PROVE  FlagStackBounded'
  BY <1>0, <1>2, NarrowType, FlagsBounded, Zenon
<1>3. CASE Compc
  BY <1>0, <1>3, FlagsBounded, Zenon DEF Compc
<1>4. ASSUME NEW enable, NEW result \in BOOLEAN, Encc(enable, result) PROVE FlagStackBounded'
  <2>1. stack' = stack /\ flag' \in [Lanes -> BOOLEAN]
    BY <1>4, Zenon DEF Encc, Everywhere
  <2>2. use' \in [Lanes -> BOOLEAN]
    BY <1>0, <1>4, Zenon DEF Encc, Everywhere
  <2> QED BY <2>1, <2>2, FlagsBounded, Zenon
<1>5. ASSUME NEW vc, NEW mod, NEW imm, Setcc(vc, mod, imm) PROVE FlagStackBounded'
  BY <1>2, <1>5, TestType, Zenon DEF Setcc
<1>6. ASSUME NEW vd, NEW vc, NEW arg, NEW imm, NEW gte, Iadd(vd, vc, arg, imm, gte)
      PROVE  FlagStackBounded'
  BY <1>2, <1>6, TestType, Zenon DEF Iadd
<1>7. ASSUME NEW vd, NEW val, NEW gte, Exexp(vd, val, gte) PROVE FlagStackBounded'
  BY <1>2, <1>7, TestType, Zenon DEF Exexp
<1>8. ASSUME NEW vd, NEW vc, NEW arg, NEW imm, IaddInverts(vd, vc, arg, imm)
      PROVE  FlagStackBounded'
  <2>1. [l \in Lanes |-> ~flag[l]] \in [Lanes -> BOOLEAN]
    BY Zenon
  <2> QED BY <1>2, <1>8, <2>1, Zenon DEF IaddInverts
<1>9. CASE Structured
  <2>1. CASE If
    BY <2>1, PushcBounded, Zenon DEF If
  <2>2. CASE And
    BY <1>5, <1>6, <1>7, <2>2, Zenon DEF And
  <2>3. CASE Else
    BY <1>3, <2>3, Zenon DEF Else
  <2>4. CASE EndIf
    BY <2>4, PopcBounded, Zenon DEF EndIf
  <2>5. CASE Predicated
    BY <1>1, <2>5, BodyFlags, Zenon
  <2>6. CASE Unpredicated
    BY <1>1, <2>6, Zenon DEF Unpredicated, Load, MovAllLanes, Config
  <2> QED BY <1>9, <2>1, <2>2, <2>3, <2>4, <2>5, <2>6, DropBounded, Zenon DEF Structured
<1>10. CASE Raw
  BY <1>3, <1>4, <1>5, <1>8, <1>10, PushcBounded, PopcBounded, DropBounded, Zenon DEF Raw
<1>11. CASE UNCHANGED sfpuVars
  BY <1>1, <1>11, Zenon DEF sfpuVars, ccVars
<1> QED BY <1>9, <1>10, <1>11, Zenon DEF SfpuNext

\* No sequence of SFPPUSHC, SFPPOPC, SFPCOMPC, SFPENCC and of the instructions that test
\* takes the flag stack past FLAG_STACK_DEPTH or leaves a flag that is not 0 or 1.
THEOREM FlagStack == SfpuSpec => []FlagStackBounded
<1>1. SfpuInit => FlagStackBounded
  <2> SUFFICES ASSUME SfpuInit PROVE FlagStackBounded
    OBVIOUS
  <2>1. stack \in Seq(CcType) /\ Len(stack) <= Depth
    BY SfpuAssumption, SMTT(60) DEF SfpuInit
  <2> QED BY <2>1, Zenon DEF SfpuInit, FlagStackBounded, Everywhere
<1>2. FlagStackBounded /\ [SfpuNext]_sfpuVars => FlagStackBounded'
  BY FlagStackStep
<1> QED BY <1>1, <1>2, PTL DEF SfpuSpec
=============================================================================
