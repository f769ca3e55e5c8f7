------------------------------- MODULE RvIsa -------------------------------
(***************************************************************************)
(* What the RISC-V manual asks of the results of the M and Zb* operations, *)
(* said without the algorithms of rv32_template.c: a value v is right for  *)
(* operands a and b.                                                       *)
(***************************************************************************)
EXTENDS Alu

\* The signed quotient and remainder a program may rely on, by their defining equation.
IsQuotient(q, m, n) ==
    LET r == m - q * n IN AbsOf(r) < AbsOf(n) /\ (r # 0 => (r < 0) = (m < 0))

MeetsM(op, a, b, v) ==
    CASE op = "mul" -> v = Wrap(a * b)
      [] op = "mulh" -> (Sgn(a) * Sgn(b)) - (Modulus * Sgn(v)) \in Word
      [] op = "mulhsu" -> (Sgn(a) * b) - (Modulus * Sgn(v)) \in Word
      [] op = "mulhu" -> (a * b) - (Modulus * v) \in Word
      [] op = "div" -> IF b = 0 THEN Sgn(v) = -1
                       ELSE \E q \in {Sgn(v), Sgn(v) + Modulus} : IsQuotient(q, Sgn(a), Sgn(b))
      [] op = "divu" -> IF b = 0 THEN v = Modulus - 1 ELSE a - (v * b) \in 0 .. b - 1
      [] op = "rem" -> IF b = 0 THEN v = a
                       ELSE \E q \in -Modulus .. Modulus :
                               IsQuotient(q, Sgn(a), Sgn(b)) /\ Sgn(v) = Sgn(a) - (q * Sgn(b))
      [] op = "remu" -> IF b = 0 THEN v = a ELSE v < b /\ (\E q \in Word : a = (q * b) + v)

\* The bits of the carry-less product of two words, 2 * XLEN of them.
Carryless(a, b) ==
    {k \in 0 .. 2 * XLEN - 1 : Cardinality({n \in BitsOf(a) : k - n \in BitsOf(b)}) % 2 = 1}

\* Bits lowest .. lowest + XLEN - 1 of a longer word.
Window(S, lowest) == {k \in 0 .. XLEN - 1 : k + lowest \in S}

MeetsZb(op, a, b, v) ==
    LET A == BitsOf(a)
        B == BitsOf(b)
        V == BitsOf(v)
        s == b % XLEN
        low(n) == (v - a) % 2 ^ n = 0
        byte(k) == k * ByteBits .. (k + 1) * ByteBits - 1
    IN  CASE op = "sh1add" -> v = Wrap(a + a + b)
          [] op = "sh2add" -> v = Wrap(a + a + a + a + b)
          [] op = "sh3add" -> v = Wrap(b + 8 * a)
          [] op = "andn" -> V = A \ B
          [] op = "orn" -> V = A \cup (0 .. XLEN - 1 \ B)
          [] op = "xnor" -> V = {k \in 0 .. XLEN - 1 : (k \in A) = (k \in B)}
          [] op = "clz" -> v \in 0 .. XLEN /\ 2 ^ (XLEN - v) > a /\ (a > 0 => 2 ^ (XLEN - 1 - v) <= a)
          [] op = "ctz" -> v \in 0 .. XLEN /\ a % 2 ^ v = 0 /\ (v < XLEN => a % 2 ^ (v + 1) # 0)
          [] op = "cpop" -> v = Cardinality(A)
          [] op = "max" -> v \in {a, b} /\ Sgn(v) >= Sgn(a) /\ Sgn(v) >= Sgn(b)
          [] op = "min" -> v \in {a, b} /\ Sgn(v) <= Sgn(a) /\ Sgn(v) <= Sgn(b)
          [] op = "maxu" -> v \in {a, b} /\ v >= a /\ v >= b
          [] op = "minu" -> v \in {a, b} /\ v <= a /\ v <= b
          [] op = "sextb" -> low(ByteBits) /\ Sgn(v) \in -(2 ^ (ByteBits - 1)) .. 2 ^ (ByteBits - 1) - 1
          [] op = "sexth" -> low(2 * ByteBits) /\ Sgn(v) \in -(2 ^ (2 * ByteBits - 1)) .. 2 ^ (2 * ByteBits - 1) - 1
          [] op = "zexth" -> low(2 * ByteBits) /\ v \in 0 .. 2 ^ (2 * ByteBits) - 1
          [] op = "rol" -> V = {(k + s) % XLEN : k \in A}
          [] op \in {"ror", "rori"} -> A = {(k + s) % XLEN : k \in V}
          [] op = "orcb" -> \A k \in 0 .. 3 : byte(k) \cap V = (IF byte(k) \cap A = {} THEN {} ELSE byte(k))
          [] op = "rev8" -> \A k \in 0 .. 3 : ByteOf(v, k) = ByteOf(a, 3 - k)
          [] op = "clmul" -> V = Window(Carryless(a, b), 0)
          [] op = "clmulh" -> V = Window(Carryless(a, b), XLEN)
          [] op = "clmulr" -> V = Window(Carryless(a, b), XLEN - 1)
          [] op \in {"bclr", "bclri"} -> V = A \ {s}
          [] op \in {"bext", "bexti"} -> v = Flag(s \in A)
          [] op \in {"binv", "binvi"} -> V = IF s \in A THEN A \ {s} ELSE A \cup {s}
          [] op \in {"bset", "bseti"} -> V = A \cup {s}
=============================================================================
