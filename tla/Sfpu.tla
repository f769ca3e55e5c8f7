-------------------------------- MODULE Sfpu --------------------------------
(***************************************************************************)
(* The vector unit (tt_insn.c, sfp...): per-lane registers, the condition  *)
(* code of every lane (lane_flags, use_lane_flags) and the flag stack with *)
(* which kernels build nested if/else/endif over lanes.                    *)
(*                                                                         *)
(* Registers hold Width-bit words.  Integer and bitwise results are exact, *)
(* floating-point results abstract: the instruction writes some word.      *)
(***************************************************************************)
EXTENDS Integers, Sequences, FiniteSetsExt

CONSTANTS
    Lanes,      \* 0 .. LREG_LANES - 1
    GenRegs,    \* LReg 0..7, in groups of Side registers
    ConstRegs,  \* LReg 8, 9, 10 and 15: hardwired
    ProgRegs,   \* LReg 11..14: written by SFPCONFIG only
    IndexReg,   \* LReg 7, which selects a register for the indirect forms
    RegAt(_),   \* the register an index word selects
    Results,    \* words an arithmetic result or an immediate may be
    Side,       \* registers of a group, and groups of lanes (4 in the code)
    Cols,       \* lanes per group (8 in the code)
    Width,      \* bits of a word (32 in the code)
    Depth       \* FLAG_STACK_DEPTH

ASSUME SfpuAssumption ==
    /\ Width \in {2, 4, 8, 16, 32} /\ Depth \in Nat \ {0}
    /\ IndexReg \in GenRegs
    /\ Results \subseteq 0..(2^Width - 1)
    /\ \A l \in Lanes : l \in Nat
ASSUME RegsAssumption == ConstRegs \cap (GenRegs \cup ProgRegs) = {}

VARIABLES
    use,     \* use_lane_flags
    flag,    \* lane_flags
    stack,   \* flag_stack[0 .. flag_stack_top]
    lreg,    \* the vector registers
    frames,  \* history: the branches the kernel is in, outermost first
    kernel   \* "structured": built from if, else and endif; "raw": any instructions

sfpuVars == <<use, flag, stack, lreg, frames, kernel>>
ccVars == <<use, flag, stack>>

Regs == GenRegs \cup ConstRegs \cup ProgRegs
Wrap(n) == n % 2^Width
SignBit == 2^(Width - 1)
Negative(x) == x >= SignBit
Signed(x) == IF Negative(x) THEN x - 2^Width ELSE x
BitsOf(x) == {b \in 0..Width - 1 : (x \div 2^b) % 2 = 1}
WordOf(S) == MapThenSumSet(LAMBDA b : 2^b, S)
Everywhere(v) == [l \in Lanes |-> v]

\* The state BRISC's start-up code leaves: predication on, all lanes enabled.
SfpuInit ==
    /\ use = Everywhere(TRUE)
    /\ flag = Everywhere(TRUE)
    /\ stack = <<>>
    /\ lreg = [r \in Regs |-> Everywhere(0)]
    /\ frames = <<>>
    /\ kernel \in {"structured", "raw"}

\* Lanes an instruction acts on.
LaneEnabled(l) == ~use[l] \/ flag[l]
-----------------------------------------------------------------------------
(* Writing registers. *)

\* Faulty form, for comparison: every lane is written.
WriteEverywhere(vd, val) ==
    lreg' = IF vd \in GenRegs THEN [lreg EXCEPT ![vd] = val] ELSE lreg

\* The result goes to the enabled lanes of LReg[VD], and only to a general register.
Write(vd, val) ==
    lreg' = IF vd \in GenRegs
            THEN [lreg EXCEPT ![vd] = [l \in Lanes |-> IF LaneEnabled(l) THEN val[l] ELSE @[l]]]
            ELSE lreg

\* Floating-point results: SFPARECIP, SFPSTOCHRND, SFPEXMAN, SFPSETEXP, the float forms of
\* SFPABS, SFPCAST and SFPLOADI, and SFPMOV from the generator: some word.
Compute(vd) ==
    /\ \E val \in [Lanes -> Results] : Write(vd, val)
    /\ UNCHANGED ccVars

\* SFPLOADI: half a word, for the upper or the lower half, alone or beside what is there.
Loadi(vd, mod, imm) ==
    LET H == 2^(Width \div 2)
    IN  /\ Write(vd, [l \in Lanes |->
              CASE mod = "upper" -> imm * H
                [] mod = "unsigned" -> imm
                [] mod = "signed" -> IF 2 * imm >= H THEN Wrap(imm - H) ELSE imm
                [] mod = "keepLower" -> imm * H + (lreg[vd][l] % H)
                [] mod = "keepUpper" -> lreg[vd][l] - (lreg[vd][l] % H) + imm])
        /\ UNCHANGED ccVars

\* SFPAND and SFPOR of LReg[VB] (or of LReg[VD]), SFPNOT.
Logic(op, vd, vb, vc) ==
    /\ Write(vd, [l \in Lanes |-> WordOf(
          CASE op = "and" -> BitsOf(lreg[vb][l]) \cap BitsOf(lreg[vc][l])
            [] op = "or" -> BitsOf(lreg[vb][l]) \cup BitsOf(lreg[vc][l])
            [] op = "not" -> (0..Width - 1) \ BitsOf(lreg[vc][l]))])
    /\ UNCHANGED ccVars

XorInto(vd, vc) ==
    /\ Write(vd, [l \in Lanes |-> WordOf(SymDiff(BitsOf(lreg[vd][l]), BitsOf(lreg[vc][l])))])
    /\ UNCHANGED ccVars

\* SFPSHFT of LReg[src] by the word n[l]: left, or for a negative n right.
Shift(vd, src, n, arithmetic) ==
    LET by(l) == Signed(n[l])
        x(l) == lreg[src][l]
        right(l) == (-by(l)) % Width
    IN  /\ Write(vd, [l \in Lanes |->
              IF by(l) >= 0 THEN Wrap(x(l) * 2^(by(l) % Width))
              ELSE IF arithmetic THEN Wrap(Signed(x(l)) \div 2^right(l))
              ELSE x(l) \div 2^right(l)])
        /\ UNCHANGED ccVars

\* SFPABS on integers.
Abs(vd, vc) ==
    /\ Write(vd, [l \in Lanes |-> IF Negative(lreg[vc][l]) THEN Wrap(-lreg[vc][l]) ELSE lreg[vc][l]])
    /\ UNCHANGED ccVars

\* SFPSETSGN: the sign of an immediate or of LReg[VD], negative in the lanes N.
Setsgn(vd, vc, N) ==
    /\ Write(vd, [l \in Lanes |-> (lreg[vc][l] % SignBit) + (IF l \in N THEN SignBit ELSE 0)])
    /\ UNCHANGED ccVars

\* SFPCAST between two's complement and sign and magnitude, and its absolute value.
Cast(vd, vc, magnitude) ==
    LET neg(x) == Wrap(-x)
        withSign(x) == SignBit + (x % SignBit)
    IN  /\ Write(vd, [l \in Lanes |->
              IF ~Negative(lreg[vc][l]) THEN lreg[vc][l]
              ELSE IF magnitude THEN neg(lreg[vc][l])
              ELSE withSign(neg(lreg[vc][l]))])
        /\ UNCHANGED ccVars

\* The destination of an arithmetic instruction, direct or through LReg[7].
Target(vd, indirect, l) == IF indirect THEN RegAt(lreg[IndexReg][l]) ELSE vd

\* Faulty form, for comparison: the selected register is not checked.
ArithmeticAnyReg(vd, indirect) ==
    /\ \E val \in [Lanes -> Results] :
          lreg' = [r \in Regs |-> [l \in Lanes |->
                     IF LaneEnabled(l) /\ r = Target(vd, indirect, l)
                     THEN val[l] ELSE lreg[r][l]]]
    /\ UNCHANGED ccVars

\* SFPMAD, SFPADD, SFPMUL, SFPMULI, SFPADDI, SFPLUTFP32.
Arithmetic(vd, indirect) ==
    /\ \E val \in [Lanes -> Results] :
          lreg' = [r \in Regs |-> [l \in Lanes |->
                     IF LaneEnabled(l) /\ r \in GenRegs /\ r = Target(vd, indirect, l)
                     THEN val[l] ELSE lreg[r][l]]]
    /\ UNCHANGED ccVars

\* SFPMOV: a copy, or its sign bit flipped.
Mov(vd, vc, flip) ==
    /\ Write(vd, IF flip THEN [l \in Lanes |-> Wrap(lreg[vc][l] + SignBit)] ELSE lreg[vc])
    /\ UNCHANGED ccVars

\* SFPMOV with mod 2 ignores the flags.
MovAllLanes(vd, vc) ==
    /\ lreg' = IF vd \in GenRegs THEN [lreg EXCEPT ![vd] = lreg[vc]] ELSE lreg
    /\ UNCHANGED ccVars

\* SFPLOAD reads the lanes' Dst datums whatever the flags say.
Load(vd) ==
    /\ lreg' \in {[lreg EXCEPT ![vd] = val] : val \in [Lanes -> Results]}
    /\ UNCHANGED ccVars

\* SFPSWAP, both ways or (min/max) on some of the lanes.
Swap(vd, vc) ==
    /\ vd \in GenRegs
    /\ \E on \in [Lanes -> BOOLEAN] :
         lreg' = [r \in Regs |-> [l \in Lanes |->
                    IF LaneEnabled(l) /\ on[l] /\ r = vd THEN lreg[vc][l]
                    ELSE IF LaneEnabled(l) /\ on[l] /\ r = vc /\ vc \in GenRegs THEN lreg[vd][l]
                    ELSE lreg[r][l]]]
    /\ UNCHANGED ccVars

\* SFPTRANSP: in each group, registers against groups of lanes, into the enabled lanes.
Transposed(r, l) ==
    LET base == Side * (r \div Side)
    IN  lreg[base + (l \div Cols)][(r - base) * Cols + (l % Cols)]

Transp ==
    /\ lreg' = [r \in Regs |-> [l \in Lanes |->
                  IF r \in GenRegs /\ LaneEnabled(l) THEN Transposed(r, l) ELSE lreg[r][l]]]
    /\ UNCHANGED ccVars

\* SFPCONFIG: LReg 11..14 in every lane, from an immediate or from LReg[0] of the
\* first group.
Config(vd, imm, immediate) ==
    /\ vd \in ProgRegs
    /\ lreg' = [lreg EXCEPT ![vd] =
                   IF immediate THEN Everywhere(imm) ELSE [l \in Lanes |-> lreg[0][l % Cols]]]
    /\ UNCHANGED ccVars
-----------------------------------------------------------------------------
(* Condition codes. *)

\* Flags of the enabled lanes only.
Narrow(test) == flag' = [l \in Lanes |-> IF LaneEnabled(l) THEN test[l] ELSE flag[l]]

\* What SFPSETCC tests: mod 0 < 0, 2 # 0, 4 >= 0, 6 = 0, 1 the immediate, 8 nothing.
SetccTest(vc, mod, imm) ==
    [l \in Lanes |->
        /\ use[l]
        /\ CASE mod = 0 -> Negative(lreg[vc][l])
             [] mod = 2 -> lreg[vc][l] # 0
             [] mod = 4 -> ~Negative(lreg[vc][l])
             [] mod = 6 -> lreg[vc][l] = 0
             [] mod = 1 -> imm
             [] OTHER -> FALSE]

Setcc(vc, mod, imm) ==
    /\ Narrow(SetccTest(vc, mod, imm))
    /\ UNCHANGED <<use, stack, lreg>>

\* SFPIADD: what is added to LReg[VC], by mod bits 0 and 1.
IaddResult(vd, vc, arg, imm) ==
    [l \in Lanes |->
        CASE arg = "imm" -> Wrap(lreg[vc][l] + imm)
          [] arg = "sub" -> Wrap(lreg[vc][l] - lreg[vd][l])
          [] OTHER -> Wrap(lreg[vc][l] + lreg[vd][l])]

\* The sign of the result, inverted when mod asks for >= 0.
SignTest(val, gte) == [l \in Lanes |-> Negative(val[l]) # gte]

Iadd(vd, vc, arg, imm, gte) ==
    LET val == IaddResult(vd, vc, arg, imm)
    IN  /\ vd \in GenRegs
        /\ Write(vd, val)
        /\ Narrow(SignTest(val, gte))
        /\ UNCHANGED <<use, stack>>

\* SFPEXEXP with SET_CC_SGN_EXP: the exponent is some word, its sign goes to the flags.
Exexp(vd, val, gte) ==
    /\ vd \in GenRegs
    /\ Write(vd, val)
    /\ Narrow(SignTest(val, gte))
    /\ UNCHANGED <<use, stack>>

\* SFPIADD with CC_NONE, SFPEXEXP without flags.
IaddNoFlags(vd, vc, arg, imm) ==
    /\ Write(vd, IaddResult(vd, vc, arg, imm))
    /\ UNCHANGED ccVars

\* SFPIADD with CC_NONE and CC_GTE0, SFPEXEXP with SET_CC_COMP_EXP alone: the flags invert.
IaddInverts(vd, vc, arg, imm) ==
    /\ Write(vd, IaddResult(vd, vc, arg, imm))
    /\ Narrow([l \in Lanes |-> ~flag[l]])
    /\ UNCHANGED <<use, stack>>

\* SFPENCC: set, flip or keep use_lane_flags; flags to an immediate or to TRUE.
Encc(enable, result) ==
    /\ use' = CASE enable = "flip" -> [l \in Lanes |-> ~use[l]]
                [] enable = "keep" -> use
                [] OTHER -> Everywhere(enable = "on")
    /\ flag' = Everywhere(result)
    /\ UNCHANGED <<stack, lreg>>

Here == [use |-> use, flag |-> flag]
NoTop == [use |-> Everywhere(FALSE), flag |-> Everywhere(FALSE)]
Top == stack[Len(stack)]

\* The Boolean operations of SFPPUSHC and SFPPOPC, mod 1..12.
BooleanOp(mod, a, b) ==
    CASE mod = 1 -> b          [] mod = 2 -> ~b
      [] mod = 3 -> a /\ b     [] mod = 4 -> a \/ b
      [] mod = 5 -> a /\ ~b    [] mod = 6 -> a \/ ~b
      [] mod = 7 -> ~a /\ b    [] mod = 8 -> ~a \/ b
      [] mod = 9 -> ~a /\ ~b   [] mod = 10 -> ~a \/ ~b
      [] mod = 11 -> a # b     [] OTHER -> a = b

\* Faulty form, for comparison: a full stack is not noticed.
PushedUnchecked == Append(stack, Here)

\* SFPPUSHC, plain: a full stack has its top overwritten.
Pushed == IF Len(stack) < Depth THEN Append(stack, Here) ELSE [stack EXCEPT ![Depth] = Here]

\* SFPPUSHC: push, or change the top.
Pushc(mod) ==
    LET n == Len(stack)
        inv == [l \in Lanes |-> ~flag[l]]
    IN  /\ UNCHANGED <<use, lreg>>
        /\ flag' = IF mod = 13 /\ n > 0 THEN inv ELSE flag
        /\ stack' =
             IF mod = 0 THEN Pushed
             ELSE IF n = 0 THEN stack
             ELSE [stack EXCEPT ![n] =
                CASE mod \in 1..12 ->
                       [use |-> use,
                        flag |-> [l \in Lanes |-> BooleanOp(mod, @.flag[l], flag[l])]]
                  [] mod = 13 -> [use |-> use, flag |-> inv]
                  [] OTHER -> [use |-> Everywhere(TRUE), flag |-> Everywhere(mod = 14)]]

\* SFPPOPC: restore, or combine with the top; an empty stack reads as all FALSE.
Popc(mod) ==
    LET top == IF stack = <<>> THEN NoTop ELSE Top
    IN  /\ stack' = IF mod = 0 /\ stack # <<>> THEN SubSeq(stack, 1, Len(stack) - 1) ELSE stack
        /\ use' = CASE mod \in 0..12 -> top.use
                    [] mod = 13 -> use
                    [] OTHER -> Everywhere(TRUE)
        /\ flag' = CASE mod = 0 -> top.flag
                     [] mod \in 1..12 ->
                          [l \in Lanes |-> BooleanOp(mod, flag[l], top.flag[l])]
                     [] mod = 13 -> [l \in Lanes |-> ~flag[l]]
                     [] OTHER -> Everywhere(mod = 14)
        /\ UNCHANGED lreg

\* SFPPOPC with VD >= 12 leaves the lanes alone and still drops the top.
PopcOff ==
    /\ stack' = IF stack # <<>> THEN SubSeq(stack, 1, Len(stack) - 1) ELSE stack
    /\ UNCHANGED <<use, flag, lreg>>

\* Faulty form, for comparison: else without the enclosing branch.
CompcFlat ==
    /\ flag' = [l \in Lanes |-> use[l] /\ ~flag[l]]
    /\ UNCHANGED <<use, stack, lreg>>

\* SFPCOMPC, else: the lanes of the enclosing branch that are not in this one.
Compc ==
    LET top == IF stack = <<>> THEN [use |-> Everywhere(TRUE), flag |-> Everywhere(TRUE)]
                               ELSE Top
    IN  /\ flag' = [l \in Lanes |-> top.use[l] /\ use[l] /\ top.flag[l] /\ ~flag[l]]
        /\ UNCHANGED <<use, stack, lreg>>

\* tensix_clear between kernels: the stack and the registers, not the flags.
Clear ==
    /\ stack' = <<>>
    /\ lreg' = [r \in Regs |-> Everywhere(0)]
    /\ UNCHANGED <<use, flag>>
-----------------------------------------------------------------------------
(* Kernels. *)

InFrame(f, l) == f.cond[l] # f.neg
InBranch(l) == \A k \in 1..Len(frames) : InFrame(frames[k], l)
Last == frames[Len(frames)]
SetLast(f) == frames' = [frames EXCEPT ![Len(frames)] = f]

\* if: push, then narrow by one or more conditions.
If ==
    /\ Len(frames) < Depth
    /\ Pushc(0)
    /\ frames' = Append(frames, [cond |-> Everywhere(TRUE), neg |-> FALSE])

\* The condition of an if, or of a further conjunct of it.
Condition(test) ==
    /\ frames # <<>>
    /\ ~Last.neg
    /\ SetLast([Last EXCEPT !.cond = [l \in Lanes |-> @[l] /\ test[l]]])

And ==
    \/ \E vc \in Regs, mod \in {0, 2, 4, 6} :
          Setcc(vc, mod, FALSE) /\ Condition(SetccTest(vc, mod, FALSE))
    \/ \E vd \in GenRegs, vc \in Regs, arg \in {"imm", "sub", "add"}, gte \in BOOLEAN :
          /\ Iadd(vd, vc, arg, 1, gte)
          /\ Condition(SignTest(IaddResult(vd, vc, arg, 1), gte))
    \/ \E vd \in GenRegs, val \in [Lanes -> Results], gte \in BOOLEAN :
          Exexp(vd, val, gte) /\ Condition(SignTest(val, gte))

Else ==
    /\ frames # <<>>
    /\ ~Last.neg
    /\ Compc
    /\ SetLast([Last EXCEPT !.neg = TRUE])

EndIf ==
    /\ frames # <<>>
    /\ Popc(0)
    /\ frames' = SubSeq(frames, 1, Len(frames) - 1)

\* Instructions of a branch's body that honour the flags.
Predicated ==
    \/ \E vd \in Regs : Compute(vd)
    \/ \E vd \in Regs, indirect \in BOOLEAN : Arithmetic(vd, indirect)
    \/ \E vd, vc \in Regs : Swap(vd, vc) \/ (\E flip \in BOOLEAN : Mov(vd, vc, flip))
    \/ \E vd \in GenRegs, vc \in Regs, arg \in {"imm", "sub", "add"} : IaddNoFlags(vd, vc, arg, 1)
    \/ Transp
    \/ \E vd \in GenRegs, imm \in 0..2^(Width \div 2) - 1,
         mod \in {"upper", "unsigned", "signed", "keepLower", "keepUpper"} : Loadi(vd, mod, imm)
    \/ \E vd, vc \in GenRegs, op \in {"and", "or", "not"} : Logic(op, vd, vd, vc)
    \/ \E vd, vc \in GenRegs :
         \/ XorInto(vd, vc)
         \/ Abs(vd, vc)
         \/ Cast(vd, vc, TRUE)
         \/ Cast(vd, vc, FALSE)
         \/ Setsgn(vd, vc, {l \in Lanes : Negative(lreg[vd][l])})
         \/ \E N \in {{}, Lanes} : Setsgn(vd, vc, N)
    \/ \E vd, vc \in GenRegs, arithmetic \in BOOLEAN :
         \/ Shift(vd, vd, lreg[vc], arithmetic)
         \/ \E n \in {1, 2^Width - 1} : Shift(vd, vc, [l \in Lanes |-> n], arithmetic)

\* Those that do not, which a kernel whose branches are to be isolated uses outside them.
Unpredicated ==
    \/ \E vd \in GenRegs : Load(vd)
    \/ \E vd, vc \in Regs : MovAllLanes(vd, vc)
    \/ \E vd \in Regs, imm \in Results, immediate \in BOOLEAN : Config(vd, imm, immediate)

Structured ==
    /\ kernel = "structured"
    /\ UNCHANGED kernel
    /\ \/ If \/ And \/ Else \/ EndIf
       \/ Predicated /\ UNCHANGED frames
       \/ frames = <<>> /\ (Unpredicated \/ Clear) /\ UNCHANGED frames

Raw ==
    /\ kernel = "raw"
    /\ UNCHANGED <<kernel, frames>>
    /\ \/ \E mod \in 0..15 : Pushc(mod) \/ Popc(mod)
       \/ PopcOff
       \/ \E vd \in GenRegs : IaddInverts(vd, vd, "imm", 0)
       \/ Compc
       \/ Clear
       \/ \E enable \in {"on", "off", "flip", "keep"}, result \in BOOLEAN : Encc(enable, result)
       \/ \E vc \in Regs, mod \in {0, 1, 2, 4, 6, 8}, imm \in BOOLEAN : Setcc(vc, mod, imm)

SfpuNext == Structured \/ Raw
SfpuSpec == SfpuInit /\ [][SfpuNext]_sfpuVars
-----------------------------------------------------------------------------
(* Properties. *)

CcType == [use : [Lanes -> BOOLEAN], flag : [Lanes -> BOOLEAN]]

\* Every flag is 0 or 1, and the flag stack never holds more than FLAG_STACK_DEPTH
\* entries, whatever the order of pushes and pops (sfppushc at a full stack, sfppopc at
\* an empty one), in structured and in raw kernels.
FlagStackBounded ==
    /\ use \in [Lanes -> BOOLEAN]
    /\ flag \in [Lanes -> BOOLEAN]
    /\ stack \in Seq(CcType) /\ Len(stack) <= Depth

\* In a kernel built from if, else and endif that nests no deeper than the stack, the
\* enabled lanes are exactly those for which every enclosing branch is the one taken,
\* also after inner ifs have narrowed, inverted and restored the flags (sfppushc,
\* sfpsetcc, sfpiadd, sfpexexp, sfpcompc, sfppopc), and across kernels (tensix_clear).
LanesFollowBranches ==
    kernel = "structured" => \A l \in Lanes : LaneEnabled(l) <=> InBranch(l)

\* The conditions and the body of a branch leave the lanes outside it alone, in every
\* register, however the flags came about (lane_enabled in every sfp instruction but
\* SFPLOAD, SFPMOV to all lanes and SFPCONFIG).
BranchIsIsolated ==
    [][kernel = "structured" =>
          \A l \in Lanes : ~InBranch(l) => \A r \in Regs : lreg'[r][l] = lreg[r][l]]_sfpuVars

\* The hardwired constants survive every instruction, the indirect destinations through
\* LReg[7] and the second operand of SFPSWAP included ("VD 0-7 only").
ConstantsStay == \A r \in ConstRegs : lreg[r] = Everywhere(0)
=============================================================================
