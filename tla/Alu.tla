-------------------------------- MODULE Alu --------------------------------
(***************************************************************************)
(* The integer operations of rv32_template.c, and the constant folder's    *)
(* own copies of them in rv32_constopt.c, on words of XLEN bits.  A byte   *)
(* is a quarter of a word, as on RV32.                                     *)
(***************************************************************************)
EXTENDS Integers, FiniteSets, FiniteSetsExt

CONSTANT XLEN   \* 32 in the code: a power of two and a multiple of 4

ASSUME XLENAssumption == XLEN \in {4, 8, 16, 32}

Modulus == 2 ^ XLEN

\* Said of the one power the proofs need, which the provers do not compute.
ASSUME ModulusAssumption == Modulus \in Nat \ {0}

Word == 0 .. Modulus - 1
Wrap(n) == n % Modulus
Sgn(x) == IF 2 * x >= Modulus THEN x - Modulus ELSE x
Flag(b) == IF b THEN 1 ELSE 0

\* A word as the set of its one bits.
BitsOf(x) == {i \in 0 .. XLEN - 1 : (x \div 2 ^ i) % 2 = 1}
WordOf(S) == MapThenSumSet(LAMBDA i : 2 ^ i, S)
Xor(a, b) == WordOf((BitsOf(a) \ BitsOf(b)) \cup (BitsOf(b) \ BitsOf(a)))
Or(a, b) == WordOf(BitsOf(a) \cup BitsOf(b))
And(a, b) == WordOf(BitsOf(a) \cap BitsOf(b))
Not(a) == Modulus - 1 - a

Shamt(x) == x % XLEN
Sll(a, s) == Wrap(a * 2 ^ s)
Srl(a, s) == a \div 2 ^ s
Sra(a, s) == Wrap(Sgn(a) \div 2 ^ s)

\* C's division truncates towards zero.
AbsOf(n) == IF n < 0 THEN -n ELSE n
CDiv(m, n) == IF (m < 0) = (n < 0) THEN AbsOf(m) \div AbsOf(n) ELSE -(AbsOf(m) \div AbsOf(n))
CMod(m, n) == m - n * CDiv(m, n)
MinSigned == Modulus \div 2

\* The upper half of a product kept in twice the width.
HighHalf(p) == (p % (Modulus * Modulus)) \div Modulus

ImmOps == {"addi", "slti", "sltiu", "xori", "ori", "andi", "slli", "srli", "srai"}
RegOps == {"add", "sub", "sll", "slt", "sltu", "xor", "srl", "sra", "or", "and"}
MulOps == {"mul", "mulh", "mulhsu", "mulhu", "div", "divu", "rem", "remu"}
ZbaOps == {"sh1add", "sh2add", "sh3add"}
ZbbOps == {"andn", "orn", "xnor", "clz", "ctz", "cpop", "max", "min", "maxu", "minu",
           "sextb", "sexth", "zexth", "rol", "ror", "rori", "orcb", "rev8"}
ZbcOps == {"clmul", "clmulh", "clmulr"}
ZbsOps == {"bclr", "bclri", "bext", "bexti", "binv", "binvi", "bset", "bseti"}
ZbOps == ZbaOps \cup ZbbOps \cup ZbcOps \cup ZbsOps
Branches == {"beq", "bne", "blt", "bge", "bltu", "bgeu"}

ImmResult(op, a, i) ==
    CASE op = "addi" -> Wrap(a + i)
      [] op = "slti" -> Flag(Sgn(a) < Sgn(i))
      [] op = "sltiu" -> Flag(a < i)
      [] op = "xori" -> Xor(a, i)
      [] op = "ori" -> Or(a, i)
      [] op = "andi" -> And(a, i)
      [] op = "slli" -> Sll(a, Shamt(i))
      [] op = "srli" -> Srl(a, Shamt(i))
      [] op = "srai" -> Sra(a, Shamt(i))

RegResult(op, a, b) ==
    CASE op = "add" -> Wrap(a + b)
      [] op = "sub" -> Wrap(a - b)
      [] op = "sll" -> Sll(a, Shamt(b))
      [] op = "slt" -> Flag(Sgn(a) < Sgn(b))
      [] op = "sltu" -> Flag(a < b)
      [] op = "xor" -> Xor(a, b)
      [] op = "srl" -> Srl(a, Shamt(b))
      [] op = "sra" -> Sra(a, Shamt(b))
      [] op = "or" -> Or(a, b)
      [] op = "and" -> And(a, b)

MulResult(op, a, b) ==
    CASE op = "mul" -> Wrap(Sgn(a) * Sgn(b))
      [] op = "mulh" -> HighHalf(Sgn(a) * Sgn(b))
      [] op = "mulhsu" -> HighHalf(Sgn(a) * b)
      [] op = "mulhu" -> Wrap((a * b) \div Modulus)
      [] op = "div" -> IF b = 0 THEN Modulus - 1
                       ELSE IF Sgn(b) = -1 /\ a = MinSigned THEN a
                       ELSE Wrap(CDiv(Sgn(a), Sgn(b)))
      [] op = "divu" -> IF b = 0 THEN Modulus - 1 ELSE a \div b
      [] op = "rem" -> IF b = 0 THEN a
                       ELSE IF Sgn(b) = -1 /\ a = MinSigned THEN 0
                       ELSE Wrap(CMod(Sgn(a), Sgn(b)))
      [] op = "remu" -> IF b = 0 THEN a ELSE a % b

ByteBits == XLEN \div 4
LowBits(a, n) == a % 2 ^ n

\* sextb and sexth read rs1 again after they wrote rd, which may be the same register;
\* the sign bit is among those they keep.
SignExtend(a, n) ==
    IF LowBits(a, n) \div 2 ^ (n - 1) = 1 THEN Modulus - 2 ^ n + LowBits(a, n) ELSE LowBits(a, n)

\* The byte k of a word, and a word of four bytes.
ByteOf(a, k) == LowBits(Srl(a, k * ByteBits), ByteBits)
FromBytes(f) == MapThenSumSet(LAMBDA k : f[k] * 2 ^ (k * ByteBits), 0 .. 3)

ZbaResult(op, a, b) ==
    CASE op = "sh1add" -> Wrap(2 * a + b)
      [] op = "sh2add" -> Wrap(4 * a + b)
      [] op = "sh3add" -> Wrap(8 * a + b)

\* rol and ror by zero also shift by the whole width, which is undefined in C; whether
\* that yields 0, as here, or the word itself, the rotated word is the same.
ZbbResult(op, a, b) ==
    CASE op = "andn" -> And(a, Not(b))
      [] op = "orn" -> Or(a, Not(b))
      [] op = "xnor" -> Not(Xor(a, b))
      [] op = "clz" -> IF a = 0 THEN XLEN ELSE XLEN - 1 - Max(BitsOf(a))
      [] op = "ctz" -> IF a = 0 THEN XLEN ELSE Min(BitsOf(a))
      [] op = "cpop" -> Cardinality(BitsOf(a))
      [] op = "max" -> IF Sgn(a) > Sgn(b) THEN a ELSE b
      [] op = "min" -> IF Sgn(a) < Sgn(b) THEN a ELSE b
      [] op = "maxu" -> IF a > b THEN a ELSE b
      [] op = "minu" -> IF a < b THEN a ELSE b
      [] op = "sextb" -> SignExtend(a, ByteBits)
      [] op = "sexth" -> SignExtend(a, 2 * ByteBits)
      [] op = "zexth" -> LowBits(a, 2 * ByteBits)
      [] op = "rol" -> Or(Sll(a, Shamt(b)), Srl(a, XLEN - Shamt(b)))
      [] op \in {"ror", "rori"} -> Or(Srl(a, Shamt(b)), Sll(a, XLEN - Shamt(b)))
      [] op = "orcb" -> FromBytes([k \in 0 .. 3 |-> IF ByteOf(a, k) # 0 THEN 2 ^ ByteBits - 1 ELSE 0])
      [] op = "rev8" -> FromBytes([k \in 0 .. 3 |-> ByteOf(a, 3 - k)])

\* One exclusive or for every one bit of the multiplier.
XorAll(f) ==
    MapThenFoldSet(Xor, 0, LAMBDA k : f[k], LAMBDA T : CHOOSE k \in T : TRUE, DOMAIN f)

\* Faulty form, for comparison: clmulr shifts like clmulh.
ZbcResultSkewed(op, a, b) ==
    IF op = "clmul" THEN XorAll([k \in BitsOf(b) |-> Sll(a, k)])
    ELSE XorAll([k \in BitsOf(b) \ {0} |-> Srl(a, XLEN - k)])

ZbcResult(op, a, b) ==
    CASE op = "clmul" -> XorAll([k \in BitsOf(b) |-> Sll(a, k)])
      [] op = "clmulh" -> XorAll([k \in BitsOf(b) \ {0} |-> Srl(a, XLEN - k)])
      [] op = "clmulr" -> XorAll([k \in BitsOf(b) |-> Srl(a, XLEN - k - 1)])

ZbsResult(op, a, b) ==
    LET bit == 2 ^ Shamt(b)
    IN  CASE op \in {"bclr", "bclri"} -> And(a, Not(bit))
          [] op \in {"bext", "bexti"} -> Srl(a, Shamt(b)) % 2
          [] op \in {"binv", "binvi"} -> Xor(a, bit)
          [] op \in {"bset", "bseti"} -> Or(a, bit)

ImmediateZb == {"rori", "bclri", "bexti", "binvi", "bseti"}

ZbResult(op, a, b) ==
    IF op \in ZbaOps THEN ZbaResult(op, a, b)
    ELSE IF op \in ZbbOps THEN ZbbResult(op, a, b)
    ELSE IF op \in ZbcOps THEN ZbcResult(op, a, b)
    ELSE ZbsResult(op, a, b)

\* BRANCH_FUNC tests the condition for NOT branching.
Skips(op, a, b) ==
    \/ op = "beq" /\ a # b
    \/ op = "bne" /\ a = b
    \/ op = "blt" /\ Sgn(a) >= Sgn(b)
    \/ op = "bge" /\ Sgn(a) < Sgn(b)
    \/ op = "bltu" /\ a >= b
    \/ op = "bgeu" /\ a < b
-----------------------------------------------------------------------------
(***************************************************************************)
(* The copies in rv32_constopt.c, on constants known at translation.       *)
(***************************************************************************)
FoldImm(op, a, i) ==
    CASE op = "addi" -> Wrap(a + i)
      [] op = "slti" -> Flag(Sgn(a) < Sgn(i))
      [] op = "sltiu" -> Flag(a < i)
      [] op = "xori" -> Xor(a, i)
      [] op = "ori" -> Or(a, i)
      [] op = "andi" -> And(a, i)
      [] op = "slli" -> Sll(a, Shamt(i))
      [] op = "srli" -> Srl(a, Shamt(i))
      [] op = "srai" -> Sra(a, Shamt(i))

FoldReg(op, a, b) ==
    CASE op = "add" -> Wrap(a + b)
      [] op = "sub" -> Wrap(a - b)
      [] op = "sll" -> Sll(a, Shamt(b))
      [] op = "slt" -> Flag(Sgn(a) < Sgn(b))
      [] op = "sltu" -> Flag(a < b)
      [] op = "xor" -> Xor(a, b)
      [] op = "srl" -> Srl(a, Shamt(b))
      [] op = "sra" -> Sra(a, Shamt(b))
      [] op = "or" -> Or(a, b)
      [] op = "and" -> And(a, b)

FoldMul(op, a, b) ==
    CASE op = "mul" -> Wrap(Sgn(a) * Sgn(b))
      [] op = "mulh" -> HighHalf(Sgn(a) * Sgn(b))
      [] op = "mulhsu" -> HighHalf(Sgn(a) * b)
      [] op = "mulhu" -> Wrap((a * b) \div Modulus)
      [] op = "div" -> IF b = 0 THEN Modulus - 1
                       ELSE IF Sgn(b) = -1 /\ a = MinSigned THEN a
                       ELSE Wrap(CDiv(Sgn(a), Sgn(b)))
      [] op = "divu" -> IF b = 0 THEN Modulus - 1 ELSE a \div b
      [] op = "rem" -> IF b = 0 THEN a
                       ELSE IF Sgn(b) = -1 /\ a = MinSigned THEN 0
                       ELSE Wrap(CMod(Sgn(a), Sgn(b)))
      [] op = "remu" -> IF b = 0 THEN a ELSE a % b

FoldSkips(op, a, b) ==
    \/ op = "beq" /\ a # b
    \/ op = "bne" /\ a = b
    \/ op = "blt" /\ Sgn(a) >= Sgn(b)
    \/ op = "bge" /\ Sgn(a) < Sgn(b)
    \/ op = "bltu" /\ a >= b
    \/ op = "bgeu" /\ a < b
=============================================================================
