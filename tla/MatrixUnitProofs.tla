-------------------------- MODULE MatrixUnitProofs --------------------------
(***************************************************************************)
(* The MOP expander, for any registers, operands and masks: the lazy       *)
(* generator yields what the MOP stood for when it was issued.             *)
(*                                                                         *)
(* The matrix unit under a MOP, for any size of Dst, of a block and of the *)
(* counters: a kernel that walks through Dst block by block, once per      *)
(* fidelity phase, adds every product once.                                *)
(***************************************************************************)
EXTENDS MatrixUnit, FiniteSetTheorems, TLAPS

USE ZenonT(60)

\* What a configuration register may hold.
Words == {c[n] : c \in Configs \cup {k.cfg : k \in Kernels}, n \in 0..8}

\* Registers a thread may have.
IsConfig(c) == DOMAIN c = 0..8 /\ (\A n \in 0..8 : c[n] \in Words) /\ c[0] \in Nat /\ c[1] \in Nat

\* The states of the generator, template 0 and template 1.
Masked == [active: {TRUE}, busy: BOOLEAN, tmpl: {0}, mask: SUBSET Nat, i: Nat, count: Nat,
           sub: Seq(Words)]
Nested == [active: {TRUE}, busy: BOOLEAN, tmpl: {1}, j: Nat, i: Nat, phase: 0..3, outer: Nat,
           inner: Nat, loop_op: Words, other: Words]

\* The state of the generator has its type; the iterations are those counted at the issue.
GenTypeOK ==
    /\ IsConfig(cfg)
    /\ zmask \subseteq Nat
    /\ st \in {Idle} \cup Masked \cup Nested
    /\ dirty \in BOOLEAN
    /\ got \in [DOMAIN want -> Seq(Words)]
    /\ want \in Seq(Seq(Words))
    /\ st \in Masked => DOMAIN want = 1..st.count /\ st.i <= st.count /\ (st.sub # <<>> => st.i > 0)
    /\ st \in Nested => DOMAIN want = 1..st.outer /\ st.j <= st.outer

\* Template 0: the present iteration lacks what is still in the list of sub-instructions,
\* and the mask has been shifted by the iterations begun.
MaskedInv ==
    /\ \A n \in DOMAIN want : n < st.i => got[n] = want[n]
    /\ st.i > 0 => want[st.i] = got[st.i] \o st.sub
    /\ \A n \in DOMAIN want : n > st.i =>
          got[n] = <<>> /\ want[n] = MaskedInsns(cfg, n - 1 - st.i \in st.mask)

\* Template 1: what the phases of an iteration have generated, ...
Sofar(c, j, phase, i) ==
    IF phase = 0 THEN <<>>
    ELSE IF phase = 1 THEN Unless(c[2]) \o LoopInsns(c, j, i)
    ELSE Unless(c[2]) \o LoopInsns(c, j, Inner(c)) \o (IF phase = 2 THEN <<>> ELSE Unless(c[3]))

\* ... and which of the loop instructions is next.
Second == IF cfg[6] = NOP THEN cfg[5] ELSE cfg[6]
Alternates ==
    IF st.phase = 1 /\ st.i % 2 = 1
    THEN st.loop_op = Second /\ st.other = cfg[5]
    ELSE st.loop_op = cfg[5] /\ st.other = Second

NestedInv ==
    /\ want = NestedLoops(cfg) /\ st.outer = Outer(cfg) /\ st.inner = Inner(cfg)
    /\ st.phase = 1 => st.i <= st.inner
    /\ Alternates
    /\ \A n \in DOMAIN want : n <= st.j => got[n] = want[n]
    /\ st.j < st.outer => got[st.j + 1] = Sofar(cfg, st.j + 1, st.phase, st.i)
    /\ \A n \in DOMAIN want : n > st.j + 1 => got[n] = <<>>

GenInv ==
    ~dirty => /\ st \in Masked => MaskedInv
              /\ st \in Nested => NestedInv
              /\ st = Idle => got = want
-----------------------------------------------------------------------------
(* Sequences. *)

\* s is the beginning of t.
Begins(s, t) == s = SubSeq(t, 1, Len(s))

\* The empty sequence is neutral.
LEMMA ConcatEmpty ==
  ASSUME NEW S, NEW s \in Seq(S)
  PROVE  s \o <<>> = s /\ <<>> \o s = s
BY SMTT(60)

\* Adding one element at the end.
LEMMA ConcatOne ==
  ASSUME NEW S, NEW s \in Seq(S), NEW x \in S
  PROVE  s \o <<x>> = Append(s, x)
BY SMTT(60)

\* Moving the first element of what follows to what has been.
LEMMA ConcatHead ==
  ASSUME NEW S, NEW s \in Seq(S), NEW t \in Seq(S), t # <<>>
  PROVE  /\ Head(t) \in S /\ Tail(t) \in Seq(S)
         /\ Append(s, Head(t)) \o Tail(t) = s \o t
BY SMTT(60)

\* A sequence begins every continuation of it.
LEMMA PrefixConcat ==
  ASSUME NEW S, NEW s \in Seq(S), NEW t \in Seq(S)
  PROVE  Begins(s, s \o t)
BY SMTT(60) DEF Begins

\* A function on 1..n is a sequence.
LEMMA FunctionSeq ==
  ASSUME NEW S, NEW n \in Nat, NEW f \in [1..n -> S]
  PROVE  f \in Seq(S)
<1>1. Len(f) = n
  BY SMTT(60)
<1> QED BY <1>1, SMTT(60)

\* Sequences with the same elements are equal.
LEMMA SameSeq ==
  ASSUME NEW S, NEW s \in Seq(S), NEW f \in [DOMAIN s -> S], \A n \in DOMAIN s : f[n] = s[n]
  PROVE  f = s
<1>1. s \in [DOMAIN s -> S]
  BY SMTT(60)
<1> QED BY <1>1, SMTT(60)

\* An instruction that may be missing, as a sequence.
LEMMA UnlessSeq ==
  ASSUME NEW x \in Words
  PROVE  Unless(x) \in Seq(Words)
BY SMTT(60) DEF Unless

-----------------------------------------------------------------------------
(* What the registers describe. *)

\* What kernels load into the registers.
LEMMA ConfigWords ==
  /\ \A c \in Configs : IsConfig(c)
  /\ \A k \in Kernels : IsConfig(k.cfg)
<1>1. \A c \in Configs \cup {k.cfg : k \in Kernels}, n \in 0..8 : c[n] \in Words
  BY SMTT(60) DEF Words
<1> QED BY <1>1, MopAssumption, KernelAssumption DEF IsConfig

\* The counts tensix_cop_mop_expand captures.
LEMMA LoopCounts ==
  ASSUME NEW c, IsConfig(c)
  PROVE  /\ Inner(c) \in Nat /\ Outer(c) \in Nat
         /\ c[6] # NOP => Inner(c) % 2 = 0
         /\ Count(c[0]) \in Nat /\ Count(c[1]) \in Nat
BY MopAssumption, SMTT(60) DEF IsConfig, Inner, Outer, Count

\* The inner loop consists of words of the registers.
LEMMA LoopInsnWord ==
  ASSUME NEW c, IsConfig(c), NEW j \in Nat, NEW n \in Nat
  PROVE  LoopInsn(c, j, n) \in Words
<1>1. c[5] \in Words /\ c[6] \in Words /\ c[7] \in Words /\ c[8] \in Words
  BY SMTT(60) DEF IsConfig
<1> QED BY <1>1, SMTT(60) DEF LoopInsn

\* The inner loop grows by one instruction at a time.
LEMMA LoopInsnsSeq ==
  ASSUME NEW c, IsConfig(c), NEW j \in Nat, NEW k \in Nat
  PROVE  /\ LoopInsns(c, j, k) \in Seq(Words)
         /\ LoopInsns(c, j, 0) = <<>>
         /\ LoopInsns(c, j, k + 1) = Append(LoopInsns(c, j, k), LoopInsn(c, j, k + 1))
<1>1. \A n \in Nat : LoopInsn(c, j, n) \in Words
  BY LoopInsnWord
<1> QED BY <1>1, SMTT(60) DEF LoopInsns

\* An iteration under the mask has at least one instruction.
LEMMA MaskedInsnsSeq ==
  ASSUME NEW c, IsConfig(c), NEW skip \in BOOLEAN
  PROVE  MaskedInsns(c, skip) \in Seq(Words) /\ MaskedInsns(c, skip) # <<>>
<1>1. \A n \in 2..8 : c[n] \in Words
  BY SMTT(60) DEF IsConfig
<1> HIDE DEF IsConfig
<1> QED BY <1>1, SMTT(60) DEF MaskedInsns

\* What a MOP of template 1 stands for has its type, ...
LEMMA NestedLoopsSeq ==
  ASSUME NEW c, IsConfig(c)
  PROVE  /\ NestedLoops(c) \in Seq(Seq(Words)) /\ DOMAIN NestedLoops(c) = 1..Outer(c)
         /\ \A j \in 1..Outer(c) :
              NestedLoops(c)[j] = Unless(c[2]) \o LoopInsns(c, j, Inner(c)) \o Unless(c[3]) \o Unless(c[4])
<1>1. Outer(c) \in Nat /\ Inner(c) \in Nat
  BY LoopCounts
<1>2. Unless(c[2]) \in Seq(Words) /\ Unless(c[3]) \in Seq(Words) /\ Unless(c[4]) \in Seq(Words)
  BY UnlessSeq, SMTT(60) DEF IsConfig
<1>3. \A j \in 1..Outer(c) : LoopInsns(c, j, Inner(c)) \in Seq(Words)
  BY <1>1, LoopInsnsSeq, SMTT(60)
<1>4. \A j \in 1..Outer(c) :
         Unless(c[2]) \o LoopInsns(c, j, Inner(c)) \o Unless(c[3]) \o Unless(c[4]) \in Seq(Words)
  BY <1>2, <1>3, SMTT(60)
<1>5. /\ DOMAIN NestedLoops(c) = 1..Outer(c)
      /\ \A j \in 1..Outer(c) :
            NestedLoops(c)[j] = Unless(c[2]) \o LoopInsns(c, j, Inner(c)) \o Unless(c[3]) \o Unless(c[4])
  BY DEF NestedLoops
<1>6. NestedLoops(c) \in [1..Outer(c) -> Seq(Words)]
  BY <1>4 DEF NestedLoops
<1>7. NestedLoops(c) \in Seq(Seq(Words))
  BY <1>1, <1>6, FunctionSeq
<1> QED BY <1>5, <1>7

\* ... and so has one of template 0.
LEMMA MaskedLoopSeq ==
  ASSUME NEW c, IsConfig(c), NEW mask, NEW count \in Nat
  PROVE  /\ MaskedLoop(c, mask, count) \in Seq(Seq(Words))
         /\ DOMAIN MaskedLoop(c, mask, count) = 1..count
         /\ \A n \in 1..count : MaskedLoop(c, mask, count)[n] = MaskedInsns(c, n - 1 \in mask)
<1>1. \A n \in 1..count : MaskedInsns(c, n - 1 \in mask) \in Seq(Words)
  <2>1. MaskedInsns(c, TRUE) \in Seq(Words) /\ MaskedInsns(c, FALSE) \in Seq(Words)
    BY MaskedInsnsSeq
  <2> TAKE n \in 1..count
  <2>2. CASE n - 1 \in mask
    <3>1. MaskedInsns(c, n - 1 \in mask) = MaskedInsns(c, TRUE)
      BY <2>2 DEF MaskedInsns
    <3> QED BY <2>1, <3>1
  <2>3. CASE n - 1 \notin mask
    <3>1. MaskedInsns(c, n - 1 \in mask) = MaskedInsns(c, FALSE)
      BY <2>3 DEF MaskedInsns
    <3> QED BY <2>1, <3>1
  <2> QED BY <2>2, <2>3
<1>2. /\ DOMAIN MaskedLoop(c, mask, count) = 1..count
      /\ \A n \in 1..count : MaskedLoop(c, mask, count)[n] = MaskedInsns(c, n - 1 \in mask)
  BY DEF MaskedLoop
<1>3. MaskedLoop(c, mask, count) \in [1..count -> Seq(Words)]
  BY <1>1 DEF MaskedLoop
<1>4. MaskedLoop(c, mask, count) \in Seq(Seq(Words))
  BY <1>3, FunctionSeq
<1> QED BY <1>2, <1>4
-----------------------------------------------------------------------------
(* The generator, template 0. *)

\* The fields of the generator's state, template 0, ...
LEMMA MaskedFields ==
  ASSUME NEW s \in Masked
  PROVE  /\ s.active = TRUE /\ s.tmpl = 0 /\ s.mask \subseteq Nat /\ s.i \in Nat /\ s.count \in Nat
         /\ s.sub \in Seq(Words)
BY DEF Masked

\* ... template 1, ...
LEMMA NestedFields ==
  ASSUME NEW s \in Nested
  PROVE  /\ s.active = TRUE /\ s.tmpl = 1 /\ s.j \in Nat /\ s.i \in Nat /\ s.phase \in 0..3
         /\ s.outer \in Nat /\ s.inner \in Nat /\ s.loop_op \in Words /\ s.other \in Words
BY DEF Nested

\* ... and which of them is running.
LEMMA Templates ==
  /\ Idle.active = FALSE /\ Idle \notin Masked /\ Idle \notin Nested
  /\ \A s \in Masked : s # Idle /\ s \notin Nested
  /\ \A s \in Nested : s # Idle /\ s \notin Masked
<1>1. Idle.active = FALSE
  BY DEF Idle
<1>2. 0 # 1
  BY SMTT(60)
<1>3. \A s \in Masked : s.active = TRUE /\ s.tmpl = 0
  BY MaskedFields
<1>4. \A s \in Nested : s.active = TRUE /\ s.tmpl = 1
  BY NestedFields
<1>5. ASSUME NEW s \in Masked PROVE s # Idle /\ s \notin Nested
  BY <1>1, <1>2, <1>3, <1>4
<1>6. ASSUME NEW s \in Nested PROVE s # Idle /\ s \notin Masked
  BY <1>1, <1>4, <1>5
<1> QED BY <1>1, <1>5, <1>6

\* An emitted instruction is appended to its iteration.
LEMMA EmitGot ==
  ASSUME GenTypeOK, NEW n \in DOMAIN want, NEW x \in Words, NEW s, Emit(n, x, s)
  PROVE  /\ got' \in [DOMAIN want -> Seq(Words)]
         /\ got'[n] = Append(got[n], x)
         /\ \A m \in DOMAIN want : m # n => got'[m] = got[m]
<1>1. got[n] \in Seq(Words) /\ got \in [DOMAIN want -> Seq(Words)]
  BY DEF GenTypeOK
<1>2. Append(got[n], x) \in Seq(Words)
  BY <1>1, SMTT(60)
<1>3. got' = [got EXCEPT ![n] = Append(got[n], x)]
  BY DEF Emit
<1> QED BY <1>1, <1>2, <1>3

\* What does not concern the generator.
LEMMA GenFrame ==
  ASSUME GenTypeOK, UNCHANGED <<cfg, zmask, dirty, want>>,
         got' \in [DOMAIN want -> Seq(Words)],
         st' \in {Idle} \cup Masked \cup Nested,
         st' \in Masked => DOMAIN want = 1..st'.count /\ st'.i <= st'.count /\ (st'.sub # <<>> => st'.i > 0),
         st' \in Nested => DOMAIN want = 1..st'.outer /\ st'.j <= st'.outer
  PROVE  GenTypeOK'
BY DEF GenTypeOK, IsConfig

\* The rest of an iteration's sub-instructions.
LEMMA MaskedSub ==
  ASSUME GenTypeOK, GenInv, st \in Masked, st.sub # <<>>,
         Emit(st.i, Head(st.sub), [st EXCEPT !.sub = Tail(@)]), UNCHANGED <<cfg, zmask, dirty, want>>
  PROVE  GenTypeOK' /\ GenInv'
<1>1. /\ st.active = TRUE /\ st.mask \subseteq Nat /\ st.i \in Nat /\ st.count \in Nat
      /\ st.sub \in Seq(Words)
  BY MaskedFields
<1>2. DOMAIN want = 1..st.count /\ st.i <= st.count /\ st.i > 0
  BY DEF GenTypeOK
<1>3. st.i \in DOMAIN want
  BY <1>1, <1>2, SMTT(60)
<1>4. Head(st.sub) \in Words /\ Tail(st.sub) \in Seq(Words)
  BY <1>1, ConcatHead
<1>5. /\ got' \in [DOMAIN want -> Seq(Words)]
      /\ got'[st.i] = Append(got[st.i], Head(st.sub))
      /\ \A m \in DOMAIN want : m # st.i => got'[m] = got[m]
  BY <1>3, <1>4, EmitGot
<1>6. /\ st' \in Masked /\ st'.i = st.i /\ st'.mask = st.mask /\ st'.count = st.count
      /\ st'.sub = Tail(st.sub)
  BY <1>4 DEF Emit, Masked
<1>7. st' \notin Nested /\ st' # Idle
  BY <1>6, Templates
<1>8. GenTypeOK'
  BY <1>2, <1>5, <1>6, <1>7, GenFrame
<1>9. ASSUME ~dirty
      PROVE  MaskedInv'
  <2>1. MaskedInv
    BY <1>9 DEF GenInv
  <2>2. got[st.i] \in Seq(Words)
    BY <1>3 DEF GenTypeOK
  <2>3. want[st.i] = got'[st.i] \o Tail(st.sub)
    <3>1. Append(got[st.i], Head(st.sub)) \o Tail(st.sub) = got[st.i] \o st.sub
      BY <1>1, <2>2, ConcatHead
    <3> QED BY <1>2, <1>5, <2>1, <3>1 DEF MaskedInv
  <2>6. \A n \in DOMAIN want : n < st.i \/ n > st.i => n # st.i
    BY <1>1, <1>2, SMTT(60)
  <2>4. \A n \in DOMAIN want : n < st.i => got'[n] = want[n]
    BY <1>5, <2>1, <2>6 DEF MaskedInv
  <2>5. \A n \in DOMAIN want : n > st.i =>
          got'[n] = <<>> /\ want[n] = MaskedInsns(cfg, n - 1 - st.i \in st.mask)
    BY <1>5, <2>1, <2>6 DEF MaskedInv
  <2> QED BY <1>6, <2>3, <2>4, <2>5 DEF MaskedInv
<1> QED BY <1>7, <1>8, <1>9 DEF GenInv

\* After the last iteration.
LEMMA MaskedFinish ==
  ASSUME GenTypeOK, GenInv, st \in Masked, st.sub = <<>>, st.i >= st.count, Finish,
         UNCHANGED <<cfg, zmask, dirty, want>>
  PROVE  GenTypeOK' /\ GenInv'
<1>1. /\ st.i \in Nat /\ st.count \in Nat /\ DOMAIN want = 1..st.count /\ st.i <= st.count
  BY MaskedFields DEF GenTypeOK
<1>2. st.i = st.count
  BY <1>1, SMTT(60)
<1>3. st' = Idle /\ got' = got
  BY DEF Finish
<1>4. st' \notin Masked /\ st' \notin Nested
  BY <1>3, Templates
<1>5. GenTypeOK'
  BY <1>3, <1>4, GenFrame DEF GenTypeOK
<1>6. ASSUME ~dirty
      PROVE  got = want
  <2>1. MaskedInv
    BY <1>6 DEF GenInv
  <2>2. \A n \in DOMAIN want : got[n] \in Seq(Words)
    BY DEF GenTypeOK
  <2>3. \A n \in DOMAIN want : got[n] = want[n]
    <3>1. TAKE n \in DOMAIN want
    <3>2. CASE n < st.i
      BY <2>1, <3>2 DEF MaskedInv
    <3>3. CASE n = st.i
      <4>1. st.i > 0
        BY <1>1, <3>3, SMTT(60)
      <4>2. want[n] = got[n] \o <<>>
        BY <2>1, <3>3, <4>1 DEF MaskedInv
      <4> QED BY <2>2, <4>2, ConcatEmpty
    <3> QED BY <1>1, <1>2, <3>2, <3>3, SMTT(60)
  <2>4. got \in [DOMAIN want -> Seq(Words)] /\ want \in Seq(Seq(Words))
    BY DEF GenTypeOK
  <2>5. \A n \in DOMAIN want : want[n] \in Seq(Words)
    BY <2>4, SMTT(60)
  <2> QED BY <2>3, <2>4, <2>5, SameSeq
<1> QED BY <1>3, <1>4, <1>5, <1>6 DEF GenInv

\* The next iteration: its sub-instructions are listed, and the mask is shifted.
LEMMA MaskedNext ==
  ASSUME GenTypeOK, GenInv, st \in Masked, st.sub = <<>>, st.i < st.count,
         NEW all, all = MaskedInsns(cfg, 0 \in st.mask),
         Emit(st.i + 1, Head(all), [st EXCEPT !.sub = Tail(all), !.i = @ + 1,
                                              !.mask = {b - 1 : b \in @ \ {0}}]),
         UNCHANGED <<cfg, zmask, dirty, want>>
  PROVE  GenTypeOK' /\ GenInv'
<1> DEFINE mask == {b - 1 : b \in st.mask \ {0}}
<1>1. st.mask \subseteq Nat /\ st.i \in Nat /\ st.count \in Nat /\ st.sub \in Seq(Words)
  BY MaskedFields
<1>2. IsConfig(cfg) /\ DOMAIN want = 1..st.count
  BY DEF GenTypeOK
<1>3. st.i + 1 \in DOMAIN want /\ st.i + 1 \in Nat /\ st.i + 1 > 0 /\ st.i + 1 <= st.count
  BY <1>1, <1>2, SMTT(60)
<1>4. all \in Seq(Words) /\ all # <<>>
  <2>1. CASE 0 \in st.mask
    <3>1. all = MaskedInsns(cfg, TRUE)
      BY <2>1 DEF MaskedInsns
    <3> QED BY <1>2, <3>1, MaskedInsnsSeq
  <2>2. CASE 0 \notin st.mask
    <3>1. all = MaskedInsns(cfg, FALSE)
      BY <2>2 DEF MaskedInsns
    <3> QED BY <1>2, <3>1, MaskedInsnsSeq
  <2> QED BY <2>1, <2>2
<1>5. /\ Head(all) \in Words /\ Tail(all) \in Seq(Words)
      /\ \A s \in Seq(Words) : Append(s, Head(all)) \o Tail(all) = s \o all
  BY <1>4, ConcatHead
<1>6. /\ got' \in [DOMAIN want -> Seq(Words)]
      /\ got'[st.i + 1] = Append(got[st.i + 1], Head(all))
      /\ \A m \in DOMAIN want : m # st.i + 1 => got'[m] = got[m]
  BY <1>3, <1>5, EmitGot
<1>7. mask \subseteq Nat
  BY <1>1, SMTT(60)
<1>8. /\ st' \in Masked /\ st'.i = st.i + 1 /\ st'.mask = mask /\ st'.count = st.count
      /\ st'.sub = Tail(all)
  BY <1>3, <1>5, <1>7 DEF Emit, Masked
<1>9. st' \notin Nested /\ st' # Idle
  BY <1>8, Templates
<1>10. GenTypeOK'
  BY <1>2, <1>3, <1>6, <1>8, <1>9, GenFrame
<1>11. ASSUME ~dirty
       PROVE  MaskedInv'
  <2>1. MaskedInv
    BY <1>11 DEF GenInv
  <2>2. \A n \in DOMAIN want : n < st.i + 1 => got'[n] = want[n]
    <3>1. TAKE n \in DOMAIN want
    <3>2. HAVE n < st.i + 1
    <3>3. n # st.i + 1 /\ (n < st.i \/ (n = st.i /\ st.i > 0))
      BY <1>1, <1>2, <3>2, SMTT(60)
    <3>4. CASE n < st.i
      BY <1>6, <2>1, <3>3, <3>4 DEF MaskedInv
    <3>5. CASE n = st.i /\ st.i > 0
      <4>1. got[n] \in Seq(Words)
        BY DEF GenTypeOK
      <4>2. want[n] = got[n] \o <<>>
        BY <2>1, <3>5 DEF MaskedInv
      <4>3. want[n] = got[n]
        BY <4>1, <4>2, ConcatEmpty
      <4> QED BY <1>6, <3>3, <4>3
    <3> QED BY <3>3, <3>4, <3>5
  <2>3. want[st.i + 1] = got'[st.i + 1] \o Tail(all)
    <3>1. st.i + 1 > st.i /\ (st.i + 1) - 1 - st.i = 0
      BY <1>1, SMTT(60)
    <3>2. got[st.i + 1] = <<>> /\ want[st.i + 1] = all
      BY <1>3, <2>1, <3>1 DEF MaskedInv
    <3>3. Append(<<>>, Head(all)) \o Tail(all) = <<>> \o all /\ <<>> \o all = all
      <4>1. <<>> \in Seq(Words)
        BY SMTT(60)
      <4> QED BY <1>4, <1>5, <4>1, ConcatEmpty
    <3> QED BY <1>6, <3>2, <3>3
  <2>4. \A n \in DOMAIN want : n > st.i + 1 =>
          got'[n] = <<>> /\ want[n] = MaskedInsns(cfg, n - 1 - (st.i + 1) \in mask)
    <3>1. TAKE n \in DOMAIN want
    <3>2. HAVE n > st.i + 1
    <3>3. n # st.i + 1 /\ n > st.i /\ (n - 1 - st.i \in st.mask <=> n - 1 - (st.i + 1) \in mask)
      BY <1>1, <1>2, <3>2, SMTT(60)
    <3>4. got[n] = <<>> /\ want[n] = MaskedInsns(cfg, n - 1 - st.i \in st.mask)
      BY <2>1, <3>3 DEF MaskedInv
    <3>5. MaskedInsns(cfg, n - 1 - st.i \in st.mask) = MaskedInsns(cfg, n - 1 - (st.i + 1) \in mask)
      <4> HIDE DEF mask
      <4> QED BY <3>3 DEF MaskedInsns
    <3> QED BY <1>6, <3>3, <3>4, <3>5
  <2> HIDE DEF mask
  <2> QED BY <1>8, <2>2, <2>3, <2>4 DEF MaskedInv
<1> QED BY <1>9, <1>10, <1>11 DEF GenInv

\* mop_generate_next_t0.
LEMMA MaskedStep ==
  ASSUME GenTypeOK, GenInv, st \in Masked, Generate0, UNCHANGED <<cfg, zmask, dirty, want>>
  PROVE  GenTypeOK' /\ GenInv'
<1> DEFINE subs == IF 0 \notin st.mask
                   THEN <<cfg[3]>> \o (IF HasA123(cfg) THEN <<cfg[4], cfg[5], cfg[6]>> ELSE <<>>)
                   ELSE <<cfg[7]>>
           end == IF 0 \notin st.mask THEN cfg[2] ELSE cfg[8]
           all == IF HasB(cfg) THEN Append(subs, end) ELSE subs
<1>1. st.i \in Nat /\ st.count \in Nat
  BY MaskedFields
<1>2. all = MaskedInsns(cfg, 0 \in st.mask)
  <2>1. \A n \in 2..8 : cfg[n] \in Words
    BY SMTT(60) DEF GenTypeOK, IsConfig
  <2>2. \A w1, w2 : Append(<<w1>>, w2) = <<w1>> \o <<w2>>
    BY SMTT(60)
  <2>3. \A w1 : <<w1>> = <<w1>> \o <<>>
    BY SMTT(60)
  <2>4. \A s : s \in Seq(Words) => s \o <<>> = s
    BY ConcatEmpty
  <2>5. \A s, w : s \in Seq(Words) /\ w \in Words => s \o <<w>> = Append(s, w)
    BY ConcatOne
  <2>6. subs \in Seq(Words) /\ end \in Words
    BY <2>1, SMTT(60)
  <2>7. all = subs \o (IF HasB(cfg) THEN <<end>> ELSE <<>>)
    <3> HIDE DEF subs, end
    <3> QED BY <2>4, <2>5, <2>6
  <2> QED BY <2>7 DEF MaskedInsns
<1> HIDE DEF all
<1>3. CASE st.sub # <<>> /\ Emit(st.i, Head(st.sub), [st EXCEPT !.sub = Tail(@)])
  BY <1>3, MaskedSub
<1>4. CASE st.sub = <<>> /\ st.i >= st.count /\ Finish
  BY <1>4, MaskedFinish
<1>5. CASE /\ st.sub = <<>> /\ ~(st.i >= st.count)
           /\ Emit(st.i + 1, Head(all), [st EXCEPT !.sub = Tail(all), !.i = @ + 1,
                                                   !.mask = {b - 1 : b \in @ \ {0}}])
  <2>1. st.i < st.count
    BY <1>1, <1>5, SMTT(60)
  <2> QED BY <1>2, <1>5, <2>1, MaskedNext
<1>6. \/ st.sub # <<>> /\ Emit(st.i, Head(st.sub), [st EXCEPT !.sub = Tail(@)])
      \/ st.sub = <<>> /\ st.i >= st.count /\ Finish
      \/ /\ st.sub = <<>> /\ ~(st.i >= st.count)
         /\ Emit(st.i + 1, Head(all), [st EXCEPT !.sub = Tail(all), !.i = @ + 1,
                                                 !.mask = {b - 1 : b \in @ \ {0}}])
  BY DEF Generate0, all
<1> QED BY <1>3, <1>4, <1>5, <1>6
-----------------------------------------------------------------------------
(* The generator, template 1. *)

\* The types that the steps of template 1 use.
LEMMA NestedFacts ==
  ASSUME GenTypeOK, st \in Nested
  PROVE  /\ st.j \in Nat /\ st.i \in Nat /\ st.phase \in 0..3 /\ st.outer \in Nat /\ st.inner \in Nat
         /\ st.loop_op \in Words /\ st.other \in Words
         /\ DOMAIN want = 1..st.outer /\ st.j <= st.outer
         /\ st.j < st.outer => st.j + 1 \in DOMAIN want /\ got[st.j + 1] \in Seq(Words)
         /\ IsConfig(cfg) /\ \A n \in 2..8 : cfg[n] \in Words
<1>1. /\ st.j \in Nat /\ st.i \in Nat /\ st.phase \in 0..3 /\ st.outer \in Nat /\ st.inner \in Nat
      /\ st.loop_op \in Words /\ st.other \in Words
  BY NestedFields
<1>2. DOMAIN want = 1..st.outer /\ st.j <= st.outer /\ IsConfig(cfg)
      /\ \A n \in DOMAIN want : got[n] \in Seq(Words)
  BY DEF GenTypeOK
<1>3. st.j < st.outer => st.j + 1 \in 1..st.outer
  BY <1>1, SMTT(60)
<1>4. \A n \in 2..8 : cfg[n] \in Words
  BY <1>2, SMTT(60) DEF IsConfig
<1> QED BY <1>1, <1>2, <1>3, <1>4

\* An instruction that may be a NOP.
LEMMA EmitUnlessGot ==
  ASSUME GenTypeOK, NEW x \in Words, NEW s, EmitUnless(x, s), st.j + 1 \in DOMAIN want
  PROVE  /\ got' \in [DOMAIN want -> Seq(Words)]
         /\ got'[st.j + 1] = got[st.j + 1] \o Unless(x)
         /\ \A m \in DOMAIN want : m # st.j + 1 => got'[m] = got[m]
         /\ \E b \in BOOLEAN : st' = [s EXCEPT !.busy = b]
<1>1. got[st.j + 1] \in Seq(Words) /\ got \in [DOMAIN want -> Seq(Words)]
  BY DEF GenTypeOK
<1>2. CASE x = NOP
  <2>1. Skip(s) /\ Unless(x) = <<>>
    BY <1>2 DEF EmitUnless, Unless
  <2>2. got' = got /\ st' = [s EXCEPT !.busy = TRUE]
    BY <2>1 DEF Skip
  <2>3. got[st.j + 1] \o <<>> = got[st.j + 1]
    BY <1>1, ConcatEmpty
  <2> QED BY <1>1, <2>1, <2>2, <2>3
<1>3. CASE x # NOP
  <2>1. Emit(st.j + 1, x, s) /\ Unless(x) = <<x>>
    BY <1>3 DEF EmitUnless, Unless
  <2>2. /\ got' \in [DOMAIN want -> Seq(Words)]
        /\ got'[st.j + 1] = Append(got[st.j + 1], x)
        /\ \A m \in DOMAIN want : m # st.j + 1 => got'[m] = got[m]
    BY <2>1, EmitGot
  <2>3. st' = [s EXCEPT !.busy = FALSE]
    BY <2>1 DEF Emit
  <2>4. got[st.j + 1] \o <<x>> = Append(got[st.j + 1], x)
    BY <1>1, ConcatOne
  <2> QED BY <2>1, <2>2, <2>3, <2>4
<1> QED BY <1>2, <1>3

\* A step within an iteration.
LEMMA NestedAdvance ==
  ASSUME GenTypeOK, GenInv, st \in Nested, st.j < st.outer, UNCHANGED <<cfg, zmask, dirty, want>>,
         got' \in [DOMAIN want -> Seq(Words)],
         \A m \in DOMAIN want : m # st.j + 1 => got'[m] = got[m],
         st' \in Nested, st'.j = st.j, st'.outer = st.outer, st'.inner = st.inner,
         ~dirty => /\ got'[st.j + 1] = Sofar(cfg, st.j + 1, st'.phase, st'.i)
                   /\ st'.phase = 1 => st'.i <= st.inner
                   /\ Alternates'
  PROVE  GenTypeOK' /\ GenInv'
<1>1. st.j \in Nat /\ st.outer \in Nat /\ DOMAIN want = 1..st.outer /\ st.j <= st.outer
  BY NestedFacts
<1>2. st' \notin Masked /\ st' # Idle
  BY Templates
<1>3. GenTypeOK'
  BY <1>1, <1>2, GenFrame
<1>4. ASSUME ~dirty
      PROVE  NestedInv'
  <2>1. NestedInv
    BY <1>4 DEF GenInv
  <2>2. /\ want' = NestedLoops(cfg') /\ st'.outer = Outer(cfg') /\ st'.inner = Inner(cfg')
    BY <2>1 DEF NestedInv
  <2>3. \A n \in DOMAIN want : n <= st.j \/ n > st.j + 1 => n # st.j + 1
    BY <1>1, SMTT(60)
  <2>4. \A n \in DOMAIN want : n <= st.j => got'[n] = want[n]
    BY <2>1, <2>3 DEF NestedInv
  <2>5. \A n \in DOMAIN want : n > st.j + 1 => got'[n] = <<>>
    BY <2>1, <2>3 DEF NestedInv
  <2>6. st'.j < st'.outer => got'[st'.j + 1] = Sofar(cfg', st'.j + 1, st'.phase, st'.i)
    BY <1>4
  <2> QED BY <1>4, <2>2, <2>4, <2>5, <2>6 DEF NestedInv
<1> QED BY <1>2, <1>3, <1>4 DEF GenInv

\* The start instruction.
LEMMA NestedStart ==
  ASSUME GenTypeOK, GenInv, st \in Nested, st.j < st.outer, st.phase = 0, Start,
         UNCHANGED <<cfg, zmask, dirty, want>>
  PROVE  GenTypeOK' /\ GenInv'
<1>1. /\ st.j + 1 \in DOMAIN want /\ got[st.j + 1] \in Seq(Words) /\ IsConfig(cfg)
      /\ cfg[2] \in Words /\ st.j \in Nat /\ st.inner \in Nat
  <2>1. 2 \in 2..8
    BY SMTT(60)
  <2> QED BY <2>1, NestedFacts
<1>2. /\ got' \in [DOMAIN want -> Seq(Words)]
      /\ got'[st.j + 1] = got[st.j + 1] \o Unless(cfg[2])
      /\ \A m \in DOMAIN want : m # st.j + 1 => got'[m] = got[m]
      /\ \E b \in BOOLEAN : st' = [[st EXCEPT !.phase = 1, !.i = 0] EXCEPT !.busy = b]
  BY <1>1, EmitUnlessGot DEF Start
<1>3. /\ st' \in Nested /\ st'.j = st.j /\ st'.outer = st.outer /\ st'.inner = st.inner
      /\ st'.phase = 1 /\ st'.i = 0 /\ st'.loop_op = st.loop_op /\ st'.other = st.other
  <2>1. 1 \in 0..3 /\ 0 \in Nat
    BY SMTT(60)
  <2> QED BY <1>2, <2>1 DEF Nested
<1>4. ASSUME ~dirty
      PROVE  /\ got'[st.j + 1] = Sofar(cfg, st.j + 1, 1, 0)
             /\ 0 <= st.inner
             /\ Alternates'
  <2>1. NestedInv
    BY <1>4 DEF GenInv
  <2>2. Unless(cfg[2]) \in Seq(Words)
    BY <1>1, UnlessSeq
  <2>3. got[st.j + 1] = <<>>
    BY <2>1 DEF NestedInv, Sofar
  <2>4. Sofar(cfg, st.j + 1, 1, 0) = Unless(cfg[2]) \o LoopInsns(cfg, st.j + 1, 0)
    <3>1. 1 # 0
      BY SMTT(60)
    <3> QED BY <3>1 DEF Sofar
  <2>5. LoopInsns(cfg, st.j + 1, 0) = <<>>
    <3>1. st.j + 1 \in Nat /\ 0 \in Nat
      BY <1>1, SMTT(60)
    <3> QED BY <1>1, <3>1, LoopInsnsSeq
  <2>6. got'[st.j + 1] = Sofar(cfg, st.j + 1, 1, 0)
    BY <1>2, <2>2, <2>3, <2>4, <2>5, ConcatEmpty
  <2>7. st.loop_op = cfg[5] /\ st.other = Second
    <3>1. st.phase # 1
      BY SMTT(60)
    <3> QED BY <2>1, <3>1 DEF NestedInv, Alternates
  <2>8. 0 % 2 # 1 /\ 0 <= st.inner
    BY <1>1, SMTT(60)
  <2> QED BY <1>3, <2>6, <2>7, <2>8 DEF Alternates, Second
<1> QED BY <1>2, <1>3, <1>4, NestedAdvance

\* An instruction of the inner loop.
LEMMA NestedInner ==
  ASSUME GenTypeOK, GenInv, st \in Nested, st.j < st.outer, st.phase = 1, st.i < st.inner, InnerInsn,
         UNCHANGED <<cfg, zmask, dirty, want>>
  PROVE  GenTypeOK' /\ GenInv'
<1> DEFINE x == IF st.i # st.inner - 1 THEN st.loop_op
                ELSE IF st.j # st.outer - 1 THEN cfg[8] ELSE cfg[7]
<1>1. /\ st.j + 1 \in DOMAIN want /\ got[st.j + 1] \in Seq(Words) /\ IsConfig(cfg)
      /\ cfg[2] \in Words /\ cfg[5] \in Words /\ cfg[7] \in Words /\ cfg[8] \in Words
      /\ st.j \in Nat /\ st.i \in Nat /\ st.inner \in Nat /\ st.outer \in Nat
      /\ st.loop_op \in Words /\ st.other \in Words
  <2>1. 2 \in 2..8 /\ 5 \in 2..8 /\ 7 \in 2..8 /\ 8 \in 2..8
    BY SMTT(60)
  <2> QED BY <2>1, NestedFacts
<1>2. x \in Words /\ Emit(st.j + 1, x, [st EXCEPT !.i = @ + 1, !.loop_op = st.other, !.other = st.loop_op])
  BY <1>1 DEF InnerInsn
<1> HIDE DEF x
<1>3. /\ got' \in [DOMAIN want -> Seq(Words)]
      /\ got'[st.j + 1] = Append(got[st.j + 1], x)
      /\ \A m \in DOMAIN want : m # st.j + 1 => got'[m] = got[m]
  BY <1>1, <1>2, EmitGot
<1>4. /\ st' \in Nested /\ st'.j = st.j /\ st'.outer = st.outer /\ st'.inner = st.inner
      /\ st'.phase = 1 /\ st'.i = st.i + 1 /\ st'.loop_op = st.other /\ st'.other = st.loop_op
  <2>1. st.i + 1 \in Nat
    BY <1>1, SMTT(60)
  <2> QED BY <1>1, <1>2, <2>1 DEF Emit, Nested
<1>5. ASSUME ~dirty
      PROVE  /\ got'[st.j + 1] = Sofar(cfg, st.j + 1, 1, st.i + 1)
             /\ st.i + 1 <= st.inner
             /\ Alternates'
  <2>1. NestedInv
    BY <1>5 DEF GenInv
  <2>2. st.outer = Outer(cfg) /\ st.inner = Inner(cfg) /\ Alternates
    BY <2>1 DEF NestedInv
  <2>3. \A i : Sofar(cfg, st.j + 1, 1, i) = Unless(cfg[2]) \o LoopInsns(cfg, st.j + 1, i)
    <3>1. 1 # 0
      BY SMTT(60)
    <3> QED BY <3>1 DEF Sofar
  <2>4. got[st.j + 1] = Unless(cfg[2]) \o LoopInsns(cfg, st.j + 1, st.i)
    BY <2>1, <2>3 DEF NestedInv
  <2>5. /\ LoopInsns(cfg, st.j + 1, st.i) \in Seq(Words)
        /\ LoopInsns(cfg, st.j + 1, st.i + 1)
             = Append(LoopInsns(cfg, st.j + 1, st.i), LoopInsn(cfg, st.j + 1, st.i + 1))
    <3>1. st.j + 1 \in Nat
      BY <1>1, SMTT(60)
    <3> QED BY <1>1, <3>1, LoopInsnsSeq
  <2>6. x = LoopInsn(cfg, st.j + 1, st.i + 1)
    <3>1. CASE st.i # st.inner - 1
      <4>1. x = st.loop_op
        BY <3>1 DEF x
      <4>2. st.i + 1 # Inner(cfg) /\ (st.i % 2 = 1 <=> (st.i + 1) % 2 = 0)
        BY <1>1, <2>2, <3>1, SMTT(60)
      <4>3. st.loop_op = IF st.i % 2 = 1 THEN Second ELSE cfg[5]
        BY <2>2 DEF Alternates
      <4>4. LoopInsn(cfg, st.j + 1, st.i + 1)
              = IF cfg[6] # NOP /\ (st.i + 1) % 2 = 0 THEN cfg[6] ELSE cfg[5]
        BY <4>2 DEF LoopInsn
      <4> QED BY <4>1, <4>2, <4>3, <4>4 DEF Second
    <3>2. CASE st.i = st.inner - 1
      <4>1. st.i + 1 = Inner(cfg) /\ (st.j # st.outer - 1 <=> st.j + 1 # Outer(cfg))
        BY <1>1, <2>2, <3>2, SMTT(60)
      <4>2. LoopInsn(cfg, st.j + 1, st.i + 1) = IF st.j + 1 = Outer(cfg) THEN cfg[7] ELSE cfg[8]
        BY <4>1 DEF LoopInsn
      <4> QED BY <3>2, <4>1, <4>2 DEF x
    <3> QED BY <3>1, <3>2
  <2>7. Unless(cfg[2]) \in Seq(Words)
    BY <1>1, UnlessSeq
  <2>8. got'[st.j + 1] = Sofar(cfg, st.j + 1, 1, st.i + 1)
    <3>1. Append(Unless(cfg[2]) \o LoopInsns(cfg, st.j + 1, st.i), x)
            = Unless(cfg[2]) \o Append(LoopInsns(cfg, st.j + 1, st.i), x)
      <4>1. \A s, t \in Seq(Words), y \in Words : Append(s \o t, y) = s \o Append(t, y)
        BY SMTT(60)
      <4> QED BY <1>2, <2>5, <2>7, <4>1
    <3> QED BY <1>3, <2>3, <2>4, <2>5, <2>6, <3>1
  <2>9. st.i + 1 <= st.inner /\ (st.i % 2 = 1 <=> (st.i + 1) % 2 # 1)
    <3>1. st.i % 2 = 1 <=> (st.i + 1) % 2 # 1
      BY <1>1, SMTT(60)
    <3>2. st.i + 1 <= st.inner
      BY <1>1, SMTT(60)
    <3> QED BY <3>1, <3>2
  <2>10. Alternates'
    BY <1>4, <2>2, <2>9 DEF Alternates, Second
  <2> QED BY <2>8, <2>9, <2>10
<1> QED BY <1>3, <1>4, <1>5, NestedAdvance

\* What an iteration has generated after its inner loop.
LEMMA SofarInner ==
  ASSUME NEW c, IsConfig(c), NEW j \in Nat, NEW i
  PROVE  LET loop == Unless(c[2]) \o LoopInsns(c, j, Inner(c))
         IN  /\ loop \in Seq(Words)
             /\ Sofar(c, j, 1, Inner(c)) = loop
             /\ Sofar(c, j, 2, i) = loop
             /\ Sofar(c, j, 3, i) = loop \o Unless(c[3])
<1> DEFINE loop == Unless(c[2]) \o LoopInsns(c, j, Inner(c))
<1>1. Unless(c[2]) \in Seq(Words) /\ LoopInsns(c, j, Inner(c)) \in Seq(Words)
  <2>1. c[2] \in Words
    BY SMTT(60) DEF IsConfig
  <2>2. Inner(c) \in Nat
    BY LoopCounts
  <2> QED BY <2>1, <2>2, UnlessSeq, LoopInsnsSeq
<1>2. loop \in Seq(Words)
  BY <1>1, SMTT(60)
<1>3. loop \o <<>> = loop
  BY <1>2, ConcatEmpty
<1>4. 1 # 0 /\ 2 # 0 /\ 2 # 1 /\ 3 # 0 /\ 3 # 1 /\ 3 # 2
  BY SMTT(60)
<1> QED BY <1>2, <1>3, <1>4 DEF Sofar

\* The inner loop is over.
LEMMA NestedToEnd ==
  ASSUME GenTypeOK, GenInv, st \in Nested, st.j < st.outer, st.phase = 1, st.i >= st.inner,
         Skip([st EXCEPT !.phase = 2]), UNCHANGED <<cfg, zmask, dirty, want>>
  PROVE  GenTypeOK' /\ GenInv'
<1>1. st.j \in Nat /\ st.i \in Nat /\ st.inner \in Nat /\ IsConfig(cfg)
  BY NestedFacts
<1>2. got' = got /\ st' = [[st EXCEPT !.phase = 2] EXCEPT !.busy = TRUE]
  BY DEF Skip
<1>3. /\ st' \in Nested /\ st'.j = st.j /\ st'.outer = st.outer /\ st'.inner = st.inner
      /\ st'.phase = 2 /\ st'.i = st.i /\ st'.loop_op = st.loop_op /\ st'.other = st.other
  <2>1. 2 \in 0..3
    BY SMTT(60)
  <2> QED BY <1>2, <2>1 DEF Nested
<1>4. 2 # 1
  BY SMTT(60)
<1>5. ASSUME ~dirty
      PROVE  got[st.j + 1] = Sofar(cfg, st.j + 1, 2, st.i) /\ Alternates'
  <2>1. NestedInv
    BY <1>5 DEF GenInv
  <2>2. st.i <= st.inner /\ st.inner = Inner(cfg) /\ Alternates
    BY <2>1 DEF NestedInv
  <2>3. st.i = Inner(cfg)
    BY <1>1, <2>2, SMTT(60)
  <2>4. got[st.j + 1] = Sofar(cfg, st.j + 1, 1, Inner(cfg))
    BY <2>1, <2>3 DEF NestedInv
  <2>5. Sofar(cfg, st.j + 1, 1, Inner(cfg)) = Sofar(cfg, st.j + 1, 2, st.i)
    <3>1. st.j + 1 \in Nat
      BY <1>1, SMTT(60)
    <3> QED BY <1>1, <3>1, SofarInner
  <2>6. st.loop_op = cfg[5] /\ st.other = Second
    <3>1. CASE st.i % 2 = 1
      <4>1. cfg[6] = NOP
        <5>1. 1 # 0
          BY SMTT(60)
        <5> QED BY <1>1, <2>3, <3>1, <5>1, LoopCounts
      <4> QED BY <2>2, <3>1, <4>1 DEF Alternates, Second
    <3>2. CASE st.i % 2 # 1
      BY <2>2, <3>2 DEF Alternates
    <3> QED BY <3>1, <3>2
  <2>7. Alternates'
    BY <1>3, <1>4, <2>6 DEF Alternates, Second
  <2> QED BY <2>4, <2>5, <2>7
<1>6. got \in [DOMAIN want -> Seq(Words)]
  BY DEF GenTypeOK
<1> QED BY <1>2, <1>3, <1>4, <1>5, <1>6, NestedAdvance

\* The first end instruction.
LEMMA NestedEnd0 ==
  ASSUME GenTypeOK, GenInv, st \in Nested, st.j < st.outer, st.phase = 2,
         EmitUnless(cfg[3], [st EXCEPT !.phase = 3]), UNCHANGED <<cfg, zmask, dirty, want>>
  PROVE  GenTypeOK' /\ GenInv'
<1>1. /\ st.j + 1 \in DOMAIN want /\ IsConfig(cfg) /\ cfg[3] \in Words /\ st.j \in Nat
  <2>1. 3 \in 2..8
    BY SMTT(60)
  <2> QED BY <2>1, NestedFacts
<1>2. /\ got' \in [DOMAIN want -> Seq(Words)]
      /\ got'[st.j + 1] = got[st.j + 1] \o Unless(cfg[3])
      /\ \A m \in DOMAIN want : m # st.j + 1 => got'[m] = got[m]
      /\ \E b \in BOOLEAN : st' = [[st EXCEPT !.phase = 3] EXCEPT !.busy = b]
  BY <1>1, EmitUnlessGot
<1>3. /\ st' \in Nested /\ st'.j = st.j /\ st'.outer = st.outer /\ st'.inner = st.inner
      /\ st'.phase = 3 /\ st'.i = st.i /\ st'.loop_op = st.loop_op /\ st'.other = st.other
  <2>1. 3 \in 0..3
    BY SMTT(60)
  <2> QED BY <1>2, <2>1 DEF Nested
<1>4. 3 # 1 /\ 2 # 1
  BY SMTT(60)
<1>5. ASSUME ~dirty
      PROVE  got'[st.j + 1] = Sofar(cfg, st.j + 1, 3, st.i) /\ Alternates'
  <2>1. NestedInv
    BY <1>5 DEF GenInv
  <2>2. st.j + 1 \in Nat
    BY <1>1, SMTT(60)
  <2>3. got[st.j + 1] = Sofar(cfg, st.j + 1, 2, st.i) /\ Alternates
    BY <2>1 DEF NestedInv
  <2>4. Sofar(cfg, st.j + 1, 2, st.i) \o Unless(cfg[3]) = Sofar(cfg, st.j + 1, 3, st.i)
    BY <1>1, <2>2, SofarInner
  <2>5. Alternates'
    BY <1>3, <1>4, <2>3 DEF Alternates, Second
  <2> QED BY <1>2, <2>3, <2>4, <2>5
<1> QED BY <1>2, <1>3, <1>4, <1>5, NestedAdvance

\* The second end instruction, and the next iteration.
LEMMA NestedEnd1 ==
  ASSUME GenTypeOK, GenInv, st \in Nested, st.j < st.outer, st.phase = 3,
         EmitUnless(cfg[4], [st EXCEPT !.phase = 0, !.j = @ + 1]), UNCHANGED <<cfg, zmask, dirty, want>>
  PROVE  GenTypeOK' /\ GenInv'
<1>1. /\ st.j + 1 \in DOMAIN want /\ IsConfig(cfg) /\ cfg[4] \in Words /\ st.j \in Nat
      /\ st.outer \in Nat /\ DOMAIN want = 1..st.outer
  <2>1. 4 \in 2..8
    BY SMTT(60)
  <2> QED BY <2>1, NestedFacts
<1>2. /\ got' \in [DOMAIN want -> Seq(Words)]
      /\ got'[st.j + 1] = got[st.j + 1] \o Unless(cfg[4])
      /\ \A m \in DOMAIN want : m # st.j + 1 => got'[m] = got[m]
      /\ \E b \in BOOLEAN : st' = [[st EXCEPT !.phase = 0, !.j = @ + 1] EXCEPT !.busy = b]
  BY <1>1, EmitUnlessGot
<1>3. st.j + 1 \in Nat /\ st.j + 1 <= st.outer
  BY <1>1, SMTT(60)
<1>4. /\ st' \in Nested /\ st'.j = st.j + 1 /\ st'.outer = st.outer /\ st'.inner = st.inner
      /\ st'.phase = 0 /\ st'.i = st.i /\ st'.loop_op = st.loop_op /\ st'.other = st.other
  <2>1. 0 \in 0..3
    BY SMTT(60)
  <2> QED BY <1>2, <1>3, <2>1 DEF Nested
<1>5. st' \notin Masked /\ st' # Idle
  BY <1>4, Templates
<1>6. GenTypeOK'
  BY <1>1, <1>2, <1>3, <1>4, <1>5, GenFrame
<1>7. ASSUME ~dirty
      PROVE  NestedInv'
  <2>1. NestedInv
    BY <1>7 DEF GenInv
  <2>2. want = NestedLoops(cfg) /\ st.outer = Outer(cfg) /\ st.inner = Inner(cfg) /\ Alternates
    BY <2>1 DEF NestedInv
  <2>3. got'[st.j + 1] = want[st.j + 1]
    <3> DEFINE loop == Unless(cfg[2]) \o LoopInsns(cfg, st.j + 1, Inner(cfg))
    <3>1. got[st.j + 1] = Sofar(cfg, st.j + 1, 3, st.i)
      BY <2>1 DEF NestedInv
    <3>2. Sofar(cfg, st.j + 1, 3, st.i) = loop \o Unless(cfg[3])
      BY <1>1, <1>3, SofarInner
    <3>3. want[st.j + 1] = (loop \o Unless(cfg[3])) \o Unless(cfg[4])
      BY <1>1, <2>2, NestedLoopsSeq
    <3> QED BY <1>2, <3>1, <3>2, <3>3
  <2>4. 0 # 1 /\ 3 # 1
    BY SMTT(60)
  <2>5. Alternates'
    BY <1>4, <2>2, <2>4 DEF Alternates, Second
  <2>6. \A n \in DOMAIN want :
           /\ n <= st.j + 1 => n = st.j + 1 \/ (n <= st.j /\ n # st.j + 1)
           /\ n > st.j + 1 => n # st.j + 1
           /\ n > (st.j + 1) + 1 => n > st.j + 1
    BY <1>1, SMTT(60)
  <2>7. \A n \in DOMAIN want : n <= st.j + 1 => got'[n] = want[n]
    BY <1>2, <2>1, <2>3, <2>6 DEF NestedInv
  <2>8. \A n \in DOMAIN want : n > st.j + 1 => got'[n] = <<>>
    BY <1>2, <2>1, <2>6 DEF NestedInv
  <2>9. st.j + 1 < st.outer => got'[(st.j + 1) + 1] = Sofar(cfg, (st.j + 1) + 1, 0, st.i)
    <3>1. st.j + 1 < st.outer => (st.j + 1) + 1 \in DOMAIN want /\ (st.j + 1) + 1 > st.j + 1
      BY <1>1, SMTT(60)
    <3> QED BY <2>8, <3>1 DEF Sofar
  <2>10. want' = NestedLoops(cfg') /\ st'.outer = Outer(cfg') /\ st'.inner = Inner(cfg')
    BY <1>4, <2>2
  <2>11. \A n \in DOMAIN want : n > (st.j + 1) + 1 => got'[n] = <<>>
    BY <2>6, <2>8
  <2> QED BY <1>4, <2>4, <2>5, <2>7, <2>9, <2>10, <2>11 DEF NestedInv
<1> QED BY <1>5, <1>6, <1>7 DEF GenInv

\* After the last iteration.
LEMMA NestedFinish ==
  ASSUME GenTypeOK, GenInv, st \in Nested, st.j >= st.outer, Finish, UNCHANGED <<cfg, zmask, dirty, want>>
  PROVE  GenTypeOK' /\ GenInv'
<1>1. st.j \in Nat /\ st.outer \in Nat /\ DOMAIN want = 1..st.outer
  BY NestedFacts
<1>2. st' = Idle /\ got' = got
  BY DEF Finish
<1>3. st' \notin Masked /\ st' \notin Nested
  BY <1>2, Templates
<1>4. GenTypeOK'
  BY <1>2, <1>3, GenFrame DEF GenTypeOK
<1>5. ASSUME ~dirty
      PROVE  got = want
  <2>1. NestedInv
    BY <1>5 DEF GenInv
  <2>2. \A n \in DOMAIN want : n <= st.j
    BY <1>1, SMTT(60)
  <2>3. \A n \in DOMAIN want : got[n] = want[n]
    BY <2>1, <2>2 DEF NestedInv
  <2>4. got \in [DOMAIN want -> Seq(Words)] /\ want \in Seq(Seq(Words))
    BY DEF GenTypeOK
  <2> QED BY <2>3, <2>4, SameSeq
<1> QED BY <1>2, <1>3, <1>4, <1>5 DEF GenInv

\* mop_generate_next_t1.
LEMMA NestedStep ==
  ASSUME GenTypeOK, GenInv, st \in Nested, Generate1, UNCHANGED <<cfg, zmask, dirty, want>>
  PROVE  GenTypeOK' /\ GenInv'
<1>1. st.j \in Nat /\ st.outer \in Nat /\ st.i \in Nat /\ st.inner \in Nat /\ st.phase \in 0..3
  BY NestedFacts
<1>2. \/ st.j >= st.outer
      \/ st.j < st.outer /\ st.phase = 0
      \/ st.j < st.outer /\ st.phase = 1 /\ st.i < st.inner
      \/ st.j < st.outer /\ st.phase = 1 /\ st.i >= st.inner
      \/ st.j < st.outer /\ st.phase = 2
      \/ st.j < st.outer /\ st.phase = 3
  BY <1>1, SMTT(60)
<1>3. \/ st.j >= st.outer /\ Finish
      \/ st.j < st.outer /\ st.phase = 0 /\ Start
      \/ st.j < st.outer /\ st.phase = 1 /\ st.i < st.inner /\ InnerInsn
      \/ st.j < st.outer /\ st.phase = 1 /\ st.i >= st.inner /\ Skip([st EXCEPT !.phase = 2])
      \/ st.j < st.outer /\ st.phase = 2 /\ EmitUnless(cfg[3], [st EXCEPT !.phase = 3])
      \/ st.j < st.outer /\ st.phase = 3 /\ EmitUnless(cfg[4], [st EXCEPT !.phase = 0, !.j = @ + 1])
  BY <1>1, <1>2, SMTT(60) DEF Generate1
<1> QED BY <1>3, NestedFinish, NestedStart, NestedInner, NestedToEnd, NestedEnd0, NestedEnd1
-----------------------------------------------------------------------------
(* The other steps, and the invariants. *)

\* MOP, template 0.
LEMMA MopMasked ==
  ASSUME GenTypeOK, NEW p \in Params, NEW direct \in BOOLEAN, Mop(p, direct), p.tmpl = 0
  PROVE  st' \in Masked /\ GenTypeOK' /\ GenInv'
<1> DEFINE count == p.count1 + 1
<1>1. count \in Nat /\ Mask(p) \subseteq Nat /\ 0 \in Nat /\ 0 <= count
  BY MopAssumption, SMTT(60) DEF Mask, GenTypeOK
<1>2. st' = [active |-> TRUE, busy |-> FALSE, tmpl |-> 0, mask |-> Mask(p), i |-> 0, count |-> count,
             sub |-> <<>>]
  BY DEF Mop, Expand
<1>3. want' = MaskedLoop(cfg, Mask(p), count) /\ got' = [n \in DOMAIN want' |-> <<>>]
      /\ UNCHANGED <<cfg, zmask>> /\ dirty' = FALSE
  BY DEF Mop, Meaning
<1>4. IsConfig(cfg)
  BY DEF GenTypeOK
<1> HIDE DEF count
<1>5. /\ want' \in Seq(Seq(Words)) /\ DOMAIN want' = 1..count
      /\ \A n \in 1..count : want'[n] = MaskedInsns(cfg, n - 1 \in Mask(p))
  BY <1>1, <1>3, <1>4, MaskedLoopSeq
<1>6. <<>> \in Seq(Words)
  BY SMTT(60)
<1>7. /\ st' \in Masked /\ st'.count = count /\ st'.i = 0 /\ st'.sub = <<>> /\ st'.mask = Mask(p)
  BY <1>1, <1>2, <1>6 DEF Masked
<1>8. st' \notin Nested /\ st' # Idle
  BY <1>7, Templates
<1>9. got' \in [DOMAIN want' -> Seq(Words)] /\ \A n \in DOMAIN want' : got'[n] = <<>>
  BY <1>3, <1>6
<1>10. GenTypeOK'
  BY <1>1, <1>3, <1>5, <1>7, <1>8, <1>9 DEF GenTypeOK, IsConfig
<1>11. MaskedInv'
  <2>1. \A n \in 1..count : ~(n < 0) /\ n - 1 - 0 = n - 1
    BY <1>1, SMTT(60)
  <2>2. ~(0 > 0)
    BY SMTT(60)
  <2> QED BY <1>3, <1>5, <1>7, <1>9, <2>1, <2>2 DEF MaskedInv
<1> QED BY <1>7, <1>8, <1>10, <1>11 DEF GenInv

\* MOP, template 1.
LEMMA MopNested ==
  ASSUME GenTypeOK, NEW p \in Params, NEW direct \in BOOLEAN, Mop(p, direct), p.tmpl # 0
  PROVE  st' \in Nested /\ GenTypeOK' /\ GenInv'
<1> DEFINE twice == cfg[6] # NOP
           inner == IF twice THEN Count(cfg[1]) * 2 ELSE Count(cfg[1])
           wraps == Count(cfg[0]) = 1 /\ cfg[2] = NOP /\ inner = 0 /\ cfg[3] # NOP
           outer == Count(cfg[0]) + (IF wraps THEN Wrapped ELSE 0)
<1>1. st' = [active |-> TRUE, busy |-> FALSE, tmpl |-> 1, j |-> 0, i |-> 0, phase |-> 0,
             outer |-> outer, inner |-> inner,
             loop_op |-> cfg[5], other |-> IF twice THEN cfg[6] ELSE cfg[5]]
  BY DEF Mop, Expand
<1>2. want' = NestedLoops(cfg) /\ got' = [n \in DOMAIN want' |-> <<>>]
      /\ cfg' = cfg /\ zmask' = zmask /\ dirty' = FALSE
  BY DEF Mop, Meaning
<1>3. IsConfig(cfg) /\ cfg[5] \in Words /\ cfg[6] \in Words
  <2>1. 5 \in 0..8 /\ 6 \in 0..8
    BY SMTT(60)
  <2> QED BY <2>1 DEF GenTypeOK, IsConfig
<1>4. Count(cfg[0]) \in Nat /\ Count(cfg[1]) \in Nat /\ Outer(cfg) \in Nat /\ Inner(cfg) \in Nat
  BY <1>3, LoopCounts
<1>5. inner = Inner(cfg)
  BY <1>4, SMTT(60) DEF Inner
<1>6. outer = Outer(cfg)
  <2>1. inner = 0 <=> Count(cfg[1]) = 0
    BY <1>4, SMTT(60)
  <2>2. CASE wraps
    <3>1. outer = Count(cfg[0]) + Wrapped
      BY <2>2
    <3> QED BY <2>1, <2>2, <3>1 DEF Outer
  <2>3. CASE ~wraps
    <3>1. Count(cfg[0]) + 0 = Count(cfg[0])
      BY <1>4, SMTT(60)
    <3>2. outer = Count(cfg[0])
      BY <2>3, <3>1
    <3>3. Outer(cfg) = Count(cfg[0])
      BY <2>1, <2>3 DEF Outer
    <3> QED BY <3>2, <3>3
  <2> QED BY <2>2, <2>3
<1> HIDE DEF inner, outer
<1>7. /\ want' \in Seq(Seq(Words)) /\ DOMAIN want' = 1..outer
  BY <1>2, <1>3, <1>6, NestedLoopsSeq
<1>8. <<>> \in Seq(Words) /\ 0 \in Nat /\ 0 \in 0..3 /\ 0 <= outer
  BY <1>4, <1>6, SMTT(60)
<1>9. /\ st' \in Nested /\ st'.outer = outer /\ st'.inner = inner /\ st'.j = 0 /\ st'.i = 0
      /\ st'.phase = 0 /\ st'.loop_op = cfg[5] /\ st'.other = Second
  BY <1>1, <1>3, <1>4, <1>5, <1>6, <1>8 DEF Nested, Second
<1>10. st' \notin Masked /\ st' # Idle
  BY <1>9, Templates
<1>11. got' \in [DOMAIN want' -> Seq(Words)] /\ \A n \in DOMAIN want' : got'[n] = <<>>
  BY <1>2, <1>8
<1>12. GenTypeOK'
  BY <1>2, <1>3, <1>7, <1>8, <1>9, <1>10, <1>11 DEF GenTypeOK, IsConfig
<1>13. NestedInv'
  <2>1. \A n \in 1..outer : ~(n <= 0)
    BY <1>4, <1>6, SMTT(60)
  <2>2. 0 # 1
    BY SMTT(60)
  <2>3. Alternates'
    BY <1>2, <1>9, <2>2 DEF Alternates, Second
  <2>4. 0 < outer => 0 + 1 \in 1..outer
    BY <1>4, <1>6, SMTT(60)
  <2>5. 0 < outer => got'[0 + 1] = Sofar(cfg, 0 + 1, 0, 0)
    BY <1>7, <1>11, <2>4 DEF Sofar
  <2> QED BY <1>2, <1>5, <1>6, <1>7, <1>9, <1>11, <2>1, <2>2, <2>3, <2>5 DEF NestedInv
<1> QED BY <1>9, <1>10, <1>12, <1>13 DEF GenInv

\* MOP_CFG.
LEMMA MopCfgStep ==
  ASSUME GenTypeOK, GenInv, NEW z \in ZMasks, MopCfg(z)
  PROVE  GenTypeOK' /\ GenInv'
<1>1. z \subseteq Nat
  BY MopAssumption
<1>2. zmask' = z /\ UNCHANGED <<cfg, st, dirty, want, got>> /\ ~st.active
  BY DEF MopCfg
<1>3. GenTypeOK'
  BY <1>1, <1>2 DEF GenTypeOK, IsConfig
<1>4. st \notin Masked /\ st \notin Nested
  BY <1>2, MaskedFields, NestedFields
<1> QED BY <1>2, <1>3, <1>4 DEF GenInv

\* A store to a configuration register.
LEMMA WriteCfgStep ==
  ASSUME GenTypeOK, GenInv, NEW s \in 0..8, NEW c \in Configs, WriteCfg(s, c[s])
  PROVE  GenTypeOK' /\ GenInv'
<1>1. cfg' = [cfg EXCEPT ![s] = c[s]] /\ dirty' = (dirty \/ st.active)
      /\ UNCHANGED <<zmask, st, want, got>>
  BY DEF WriteCfg
<1>2. IsConfig(c) /\ IsConfig(cfg)
  BY ConfigWords DEF GenTypeOK
<1>3. IsConfig(cfg')
  <2>1. DOMAIN cfg' = 0..8 /\ \A n \in 0..8 : cfg'[n] = IF n = s THEN c[n] ELSE cfg[n]
    BY <1>1, <1>2 DEF IsConfig
  <2>2. 0 \in 0..8 /\ 1 \in 0..8
    BY SMTT(60)
  <2> QED BY <1>2, <2>1, <2>2 DEF IsConfig
<1>4. st \in Masked \/ st \in Nested => st.active = TRUE
  BY MaskedFields, NestedFields
<1>5. Idle.active = FALSE
  BY Templates
<1>6. st.active \in BOOLEAN
  BY <1>4, <1>5 DEF GenTypeOK
<1>7. GenTypeOK'
  BY <1>1, <1>3, <1>6 DEF GenTypeOK
<1>8. ASSUME ~dirty'
      PROVE  ~dirty /\ st \notin Masked /\ st \notin Nested
  BY <1>1, <1>4, <1>8
<1> QED BY <1>1, <1>7, <1>8 DEF GenInv

\* Concatenation is associative.
LEMMA ConcatAssoc ==
  ASSUME NEW S
  PROVE  \A s, t, u \in Seq(S) : (s \o t) \o u = s \o (t \o u) /\ s \o t \in Seq(S)
BY SMTT(60)

\* The elements of a concatenation.
LEMMA ConcatElems ==
  ASSUME NEW S, NEW s \in Seq(S), NEW t \in Seq(S)
  PROVE  /\ \A n \in 1..Len(s) : (s \o t)[n] = s[n]
         /\ \A n \in (Len(s) + 1)..(Len(s) + Len(t)) : (s \o t)[n] = t[n - Len(s)]
BY SMTT(60)

\* What some of the phases yield begins what all of them yield.
LEMMA PrefixOf ==
  ASSUME NEW s \in Seq(Words), NEW t \in Seq(Words), NEW whole, whole = s \o t
  PROVE  Begins(s, whole)
BY PrefixConcat

\* What an iteration has generated begins what it stands for.
LEMMA SofarPrefix ==
  ASSUME NEW c, IsConfig(c), NEW j \in 1..Outer(c), NEW phase \in 0..3, NEW i \in Nat,
         phase = 1 => i <= Inner(c)
  PROVE  Begins(Sofar(c, j, phase, i), NestedLoops(c)[j])
<1> DEFINE start == Unless(c[2])
           loop == LoopInsns(c, j, Inner(c))
           end0 == Unless(c[3])
           end1 == Unless(c[4])
           begun == LoopInsns(c, j, i)
           rest == [n \in 1..(Inner(c) - i) |-> LoopInsn(c, j, i + n)]
<1>1. Outer(c) \in Nat /\ Inner(c) \in Nat /\ j \in Nat
  <2>1. Outer(c) \in Nat /\ Inner(c) \in Nat
    BY LoopCounts
  <2> QED BY <2>1, SMTT(60)
<1>2. start \in Seq(Words) /\ end0 \in Seq(Words) /\ end1 \in Seq(Words)
  <2>1. c[2] \in Words /\ c[3] \in Words /\ c[4] \in Words
    BY SMTT(60) DEF IsConfig
  <2> QED BY <2>1, UnlessSeq
<1>3. loop \in Seq(Words) /\ begun \in Seq(Words)
  BY <1>1, LoopInsnsSeq
<1>4. NestedLoops(c)[j] = ((start \o loop) \o end0) \o end1
  BY NestedLoopsSeq
<1>5. i <= Inner(c) => rest \in Seq(Words) /\ loop = begun \o rest
  <2>1. \A n \in Nat : LoopInsn(c, j, n) \in Words
    BY <1>1, LoopInsnWord
  <2> SUFFICES ASSUME i <= Inner(c) PROVE rest \in Seq(Words) /\ loop = begun \o rest
    OBVIOUS
  <2>2. rest \in Seq(Words) /\ Len(rest) = Inner(c) - i
    BY <1>1, <2>1, SMTT(60)
  <2>3. Len(begun) = i /\ Len(loop) = Inner(c)
    BY <1>1, SMTT(60) DEF LoopInsns
  <2>4. \A n \in 1..Inner(c) : loop[n] = IF n <= i THEN begun[n] ELSE rest[n - i]
    BY <1>1, SMTT(60) DEF LoopInsns
  <2> HIDE DEF rest, loop, begun
  <2>5. begun \o rest \in Seq(Words) /\ Len(begun \o rest) = Inner(c)
    BY <1>1, <1>3, <2>2, <2>3, SMTT(60)
  <2>6. /\ \A n \in 1..i : (begun \o rest)[n] = begun[n]
        /\ \A n \in (i + 1)..Inner(c) : (begun \o rest)[n] = rest[n - i]
    <3>1. i + (Inner(c) - i) = Inner(c)
      BY <1>1, SMTT(60)
    <3>2. /\ \A n \in 1..Len(begun) : (begun \o rest)[n] = begun[n]
          /\ \A n \in (Len(begun) + 1)..(Len(begun) + Len(rest)) :
               (begun \o rest)[n] = rest[n - Len(begun)]
      BY <1>3, <2>2, ConcatElems
    <3> QED BY <2>2, <2>3, <3>1, <3>2
  <2> DEFINE both == begun \o rest
  <2>7. /\ both \in Seq(Words) /\ Len(both) = Inner(c)
        /\ \A n \in 1..i : both[n] = begun[n]
        /\ \A n \in (i + 1)..Inner(c) : both[n] = rest[n - i]
    BY <2>5, <2>6
  <2> HIDE DEF both
  <2>8. both = loop
    <3>1. \A n \in 1..Inner(c) : both[n] = loop[n]
      BY <1>1, <2>4, <2>7, SMTT(60)
    <3> QED BY <1>1, <1>3, <2>3, <2>7, <3>1, SMTT(60)
  <2> QED BY <2>2, <2>8 DEF both
<1> HIDE DEF start, loop, end0, end1, begun, rest
<1>6. <<>> \in Seq(Words)
  BY SMTT(60)
<1>7. /\ \A s, t, u \in Seq(Words) : (s \o t) \o u = s \o (t \o u) /\ s \o t \in Seq(Words)
      /\ \A s, t \in Seq(Words) : Begins(s, s \o t)
      /\ \A s \in Seq(Words) : <<>> \o s = s
  BY ConcatAssoc, PrefixConcat, ConcatEmpty
<1>8. CASE phase = 0
  <2>1. Sofar(c, j, phase, i) = <<>>
    BY <1>8 DEF Sofar
  <2>2. ((start \o loop) \o end0) \o end1 \in Seq(Words)
    BY <1>2, <1>3, <1>7
  <2> QED BY <1>4, <2>1, <2>2, SMTT(60) DEF Begins
<1>9. CASE phase = 1
  <2>1. 1 # 0
    BY SMTT(60)
  <2>2. Sofar(c, j, phase, i) = start \o begun
    BY <1>9, <2>1 DEF Sofar, start, begun
  <2>3. rest \in Seq(Words) /\ loop = begun \o rest
    BY <1>5, <1>9
  <2>4. ((start \o loop) \o end0) \o end1 = (start \o begun) \o ((rest \o end0) \o end1)
    BY <1>2, <1>3, <2>3, SMTT(60)
  <2>5. start \o begun \in Seq(Words) /\ (rest \o end0) \o end1 \in Seq(Words)
    BY <1>2, <1>3, <1>7, <2>3
  <2> QED BY <1>4, <2>2, <2>4, <2>5, PrefixOf
<1>10. CASE phase = 2
  <2>1. Sofar(c, j, phase, i) = start \o loop
    BY <1>1, <1>10, SofarInner DEF start, loop
  <2>2. ((start \o loop) \o end0) \o end1 = (start \o loop) \o (end0 \o end1)
    BY <1>2, <1>3, SMTT(60)
  <2>3. start \o loop \in Seq(Words) /\ end0 \o end1 \in Seq(Words)
    BY <1>2, <1>3, <1>7
  <2> QED BY <1>4, <2>1, <2>2, <2>3, PrefixOf
<1>11. CASE phase = 3
  <2>1. Sofar(c, j, phase, i) = (start \o loop) \o end0
    BY <1>1, <1>11, SofarInner DEF start, loop, end0
  <2>2. (start \o loop) \o end0 \in Seq(Words)
    BY <1>2, <1>3, <1>7
  <2> QED BY <1>2, <1>4, <2>1, <2>2, PrefixOf
<1> QED BY <1>8, <1>9, <1>10, <1>11, SMTT(60)

\* The inductive invariant says more than the property.
LEMMA GenInvExact ==
  ASSUME GenTypeOK, GenInv
  PROVE  ExpansionExact
<1> SUFFICES ASSUME ~dirty
             PROVE  IF st.active THEN \E k \in 0..Len(want) : UpTo(k) ELSE got = want
  BY DEF ExpansionExact
<1>1. want \in Seq(Seq(Words)) /\ \A n \in DOMAIN want : got[n] \in Seq(Words)
  BY DEF GenTypeOK
<1>2. CASE st = Idle
  BY <1>2, Templates DEF GenInv
<1>3. CASE st \in Masked
  <2>1. st.active = TRUE /\ st.i \in Nat /\ st.count \in Nat /\ st.sub \in Seq(Words)
    BY <1>3, MaskedFields
  <2>2. DOMAIN want = 1..st.count /\ st.i <= st.count
    BY <1>3 DEF GenTypeOK
  <2>3. MaskedInv
    BY <1>3 DEF GenInv
  <2>4. st.i \in 0..Len(want) /\ (st.i \in DOMAIN want => st.i > 0)
    BY <1>1, <2>1, <2>2, SMTT(60)
  <2>5. st.i \in DOMAIN want => Begins(got[st.i], want[st.i])
    BY <1>1, <2>1, <2>3, <2>4, PrefixConcat DEF MaskedInv
  <2>6. UpTo(st.i)
    BY <2>3, <2>5 DEF UpTo, MaskedInv, Begins
  <2> QED BY <2>1, <2>4, <2>6
<1>4. CASE st \in Nested
  <2>1. /\ st.j \in Nat /\ st.i \in Nat /\ st.phase \in 0..3 /\ st.outer \in Nat
        /\ DOMAIN want = 1..st.outer /\ st.j <= st.outer /\ IsConfig(cfg)
    BY <1>4, NestedFacts
  <2>2. st.active = TRUE
    BY <1>4, NestedFields
  <2>3. NestedInv
    BY <1>4 DEF GenInv
  <2>4. CASE st.j < st.outer
    <3>1. st.j + 1 \in 0..Len(want) /\ st.j + 1 \in DOMAIN want
          /\ \A n \in DOMAIN want : n < st.j + 1 => n <= st.j
      BY <1>1, <2>1, <2>4, SMTT(60)
    <3>2. Begins(got[st.j + 1], want[st.j + 1])
      BY <2>1, <2>3, <2>4, <3>1, SofarPrefix DEF NestedInv
    <3>3. UpTo(st.j + 1)
      BY <2>3, <3>1, <3>2 DEF UpTo, NestedInv, Begins
    <3> QED BY <2>2, <3>1, <3>3
  <2>5. CASE st.j = st.outer
    <3>1. st.j \in 0..Len(want) /\ \A n \in DOMAIN want : n <= st.j
      BY <1>1, <2>1, <2>5, SMTT(60)
    <3>2. \A n \in DOMAIN want : ~(n > st.j)
      BY <2>1, <2>5, SMTT(60)
    <3>3. \A n \in DOMAIN want : got[n] = want[n]
      BY <2>3, <3>1 DEF NestedInv
    <3>4. \A s \in Seq(Words) : Begins(s, s)
      BY SMTT(60) DEF Begins
    <3>5. UpTo(st.j)
      BY <1>1, <3>2, <3>3, <3>4 DEF UpTo, Begins
    <3> QED BY <2>2, <3>1, <3>5
  <2> QED BY <2>1, <2>4, <2>5, SMTT(60)
<1> QED BY <1>2, <1>3, <1>4 DEF GenTypeOK

\* The invariant holds before the first MOP, ...
LEMMA MuInitGen == MuInit => GenTypeOK /\ GenInv
<1> SUFFICES ASSUME MuInit PROVE GenTypeOK /\ GenInv
  OBVIOUS
<1>1. st = Idle /\ zmask = {} /\ dirty = FALSE /\ want = <<>> /\ got = <<>>
  BY DEF MuInit, MopInit
<1>2. IsConfig(cfg)
  BY ConfigWords DEF MuInit
<1>3. want \in Seq(Seq(Words)) /\ got \in [DOMAIN want -> Seq(Words)]
  BY <1>1, SMTT(60)
<1> QED BY <1>1, <1>2, <1>3, Templates DEF GenTypeOK, GenInv

\* A call of the generator.
LEMMA GenerateStep ==
  ASSUME GenTypeOK, GenInv, Generate
  PROVE  GenTypeOK' /\ GenInv'
<1>1. st \in Masked \/ st \in Nested
  BY Templates DEF Generate, GenTypeOK
<1>2. UNCHANGED <<cfg, zmask, dirty, want>>
  BY DEF Generate
<1>3. CASE st \in Masked
  BY <1>2, <1>3, MaskedFields, MaskedStep DEF Generate
<1>4. CASE st \in Nested
  <2>1. 1 # 0
    BY SMTT(60)
  <2>2. Generate1
    BY <1>4, <2>1, NestedFields DEF Generate
  <2> QED BY <1>2, <1>4, <2>2, NestedStep
<1> QED BY <1>1, <1>3, <1>4

\* ... and after every step.
LEMMA GenStep == GenTypeOK /\ GenInv /\ [MuNext]_muVars => GenTypeOK' /\ GenInv'
<1> SUFFICES ASSUME GenTypeOK, GenInv, [MuNext]_muVars
             PROVE  GenTypeOK' /\ GenInv'
  OBVIOUS
<1>1. CASE MuGenerate
  BY <1>1, GenerateStep DEF MuGenerate
<1>2. CASE CoreStep
  <2>1. ASSUME NEW p \in Params, NEW direct \in BOOLEAN, Mop(p, direct)
        PROVE  GenTypeOK' /\ GenInv'
    BY <2>1, MopMasked, MopNested
  <2>2. ASSUME NEW z \in ZMasks, MopCfg(z)
        PROVE  GenTypeOK' /\ GenInv'
    BY <2>2, MopCfgStep
  <2>3. ASSUME NEW s \in 0..8, NEW c \in Configs, WriteCfg(s, c[s])
        PROVE  GenTypeOK' /\ GenInv'
    BY <2>3, WriteCfgStep
  <2> QED BY <1>2, <2>1, <2>2, <2>3 DEF CoreStep
<1>3. CASE UNCHANGED muVars
  <2>1. UNCHANGED <<cfg, zmask, st, dirty, want, got>>
    BY <1>3 DEF muVars, mopVars
  <2> QED BY <2>1 DEF GenTypeOK, GenInv, IsConfig, MaskedInv, NestedInv, Alternates, Second
<1> QED BY <1>1, <1>2, <1>3 DEF MuNext

\* For any registers, operands and masks, of any kernels: the lazy generator of
\* tensix_cop.c yields the loops the registers described when the MOP was issued,
\* iteration by iteration, as long as no register is written during the expansion.
THEOREM ExpansionIsExact == MuSpec => []ExpansionExact
<1>1. MuInit => GenTypeOK /\ GenInv
  BY MuInitGen
<1>2. GenTypeOK /\ GenInv /\ [MuNext]_muVars => GenTypeOK' /\ GenInv'
  BY GenStep
<1>3. GenTypeOK /\ GenInv => ExpansionExact
  BY GenInvExact
<1> QED BY <1>1, <1>2, <1>3, PTL DEF MuSpec

\* A call of the generator ends the expansion and releases the core, or leaves both.
LEMMA GenerateHeld ==
  ASSUME GenTypeOK, Generate
  PROVE  \/ st' = Idle /\ held' = FALSE
         \/ st'.active = TRUE /\ held' = held
<1>1. CASE st \in Masked
  <2>1. Generate0 /\ st.active = TRUE
    BY <1>1, MaskedFields DEF Generate
  <2>2. \/ Finish
        \/ \E n, x, t : Emit(n, x, [st EXCEPT !.sub = t])
        \/ \E n, x, t, i, m : Emit(n, x, [st EXCEPT !.sub = t, !.i = i, !.mask = m])
    BY <2>1 DEF Generate0
  <2>3. CASE Finish
    BY <2>3 DEF Finish
  <2>4. CASE \E n, x, t : Emit(n, x, [st EXCEPT !.sub = t])
    BY <1>1, <2>1, <2>4 DEF Emit, Masked
  <2>5. CASE \E n, x, t, i, m : Emit(n, x, [st EXCEPT !.sub = t, !.i = i, !.mask = m])
    BY <1>1, <2>1, <2>5 DEF Emit, Masked
  <2> QED BY <2>2, <2>3, <2>4, <2>5
<1>2. CASE st \in Nested
  <2>1. Generate1 /\ st.active = TRUE
    <3>1. 1 # 0
      BY SMTT(60)
    <3> QED BY <1>2, <3>1, NestedFields DEF Generate
  <2>2. \/ Finish \/ Start \/ InnerInsn \/ Skip([st EXCEPT !.phase = 2])
        \/ EmitUnless(cfg[3], [st EXCEPT !.phase = 3])
        \/ EmitUnless(cfg[4], [st EXCEPT !.phase = 0, !.j = @ + 1])
    BY <2>1 DEF Generate1
  <2>3. CASE Finish
    BY <2>3 DEF Finish
  <2>4. CASE Start
    BY <1>2, <2>1, <2>4 DEF Start, EmitUnless, Emit, Skip, Nested
  <2>5. CASE InnerInsn
    BY <1>2, <2>1, <2>5 DEF InnerInsn, Emit, Nested
  <2>6. CASE Skip([st EXCEPT !.phase = 2])
    BY <1>2, <2>1, <2>6 DEF Skip, Nested
  <2>7. CASE EmitUnless(cfg[3], [st EXCEPT !.phase = 3])
    BY <1>2, <2>1, <2>7 DEF EmitUnless, Emit, Skip, Nested
  <2>8. CASE EmitUnless(cfg[4], [st EXCEPT !.phase = 0, !.j = @ + 1])
    BY <1>2, <2>1, <2>8 DEF EmitUnless, Emit, Skip, Nested
  <2> QED BY <2>2, <2>3, <2>4, <2>5, <2>6, <2>7, <2>8
<1> QED BY <1>1, <1>2, Templates DEF Generate, GenTypeOK

\* The rest of the type invariant.
MopCountsOK ==
    /\ held \in BOOLEAN /\ (held => st.active = TRUE)
    /\ mops \in 0..MaxMops /\ writes \in 0..MaxWrites

\* MOPs and register writes are counted within their bounds; a held core has a MOP running.
LEMMA CountsStep == GenTypeOK /\ GenTypeOK' /\ MopCountsOK /\ [MuNext]_muVars => MopCountsOK'
<1> SUFFICES ASSUME GenTypeOK, GenTypeOK', MopCountsOK, [MuNext]_muVars
             PROVE  MopCountsOK'
  OBVIOUS
<1>1. CASE MuGenerate
  <2>1. Generate /\ UNCHANGED <<mops, writes>>
    BY <1>1 DEF MuGenerate, Generate
  <2> QED BY <2>1, GenerateHeld DEF MopCountsOK
<1>2. CASE CoreStep
  <2>1. ASSUME NEW p \in Params, NEW direct \in BOOLEAN, Mop(p, direct)
        PROVE  MopCountsOK'
    <3>1. held' = direct /\ mops' = mops + 1 /\ mops < MaxMops /\ UNCHANGED writes
      BY <2>1 DEF Mop
    <3>2. mops' \in 0..MaxMops
      BY <3>1, MopAssumption, SMTT(60) DEF MopCountsOK
    <3>3. st'.active = TRUE
      BY <2>1 DEF Mop, Expand
    <3> QED BY <3>1, <3>2, <3>3 DEF MopCountsOK
  <2>2. ASSUME NEW z \in ZMasks, MopCfg(z)
        PROVE  MopCountsOK'
    BY <2>2 DEF MopCfg, MopCountsOK
  <2>3. ASSUME NEW s \in 0..8, NEW c \in Configs, WriteCfg(s, c[s])
        PROVE  MopCountsOK'
    <3>1. writes' = writes + 1 /\ writes < MaxWrites /\ UNCHANGED <<st, held, mops>>
      BY <2>3 DEF WriteCfg
    <3>2. writes' \in 0..MaxWrites
      BY <3>1, MopAssumption, SMTT(60) DEF MopCountsOK
    <3> QED BY <3>1, <3>2 DEF MopCountsOK
  <2> QED BY <1>2, <2>1, <2>2, <2>3 DEF CoreStep
<1>3. CASE UNCHANGED muVars
  BY <1>3 DEF muVars, mopVars, MopCountsOK
<1> QED BY <1>1, <1>2, <1>3 DEF MuNext

\* Types, and a core is held only while its expansion runs.
THEOREM MopType == MuSpec => []MopTypeOK
<1>1. MuInit => MopCountsOK
  <2>1. 0 \in 0..MaxMops /\ 0 \in 0..MaxWrites
    BY MopAssumption, SMTT(60)
  <2> QED BY <2>1 DEF MuInit, MopInit, MopCountsOK
<1>2. GenTypeOK /\ GenTypeOK' /\ MopCountsOK /\ [MuNext]_muVars => MopCountsOK'
  BY CountsStep
<1>3. GenTypeOK /\ MopCountsOK => MopTypeOK
  <2> SUFFICES ASSUME GenTypeOK, MopCountsOK PROVE MopTypeOK
    OBVIOUS
  <2>1. st.active \in BOOLEAN /\ st.busy \in BOOLEAN
    <3>1. CASE st = Idle
      BY <3>1 DEF Idle
    <3>2. CASE st \in Masked
      BY <3>2 DEF Masked
    <3>3. CASE st \in Nested
      BY <3>3 DEF Nested
    <3> QED BY <3>1, <3>2, <3>3 DEF GenTypeOK
  <2> QED BY <2>1 DEF MopCountsOK, MopTypeOK
<1>4. MuInit => GenTypeOK /\ GenInv
  BY MuInitGen
<1>5. GenTypeOK /\ GenInv /\ [MuNext]_muVars => GenTypeOK' /\ GenInv'
  BY GenStep
<1> QED BY <1>1, <1>2, <1>3, <1>4, <1>5, PTL DEF MuSpec
-----------------------------------------------------------------------------
(* The matrix unit: kernels that walk through Dst. *)

ModeOf(k, n) == AddrMods[k.cfg[n].mod]
Stays == [incr |-> 0, how |-> "inc"]
Moves(how) == [incr |-> Block, how |-> how]

\* The ways a kernel gets from a block to the next: by the address mode of the last phase,
\* which may rewind after the last block, or by SETRWC or INCRWC at the end of a block.
Rewinds(k) ==
    /\ k.rewind /\ k.cfg[3] = NOP
    /\ ModeOf(k, 8).d = Moves("inc") /\ ModeOf(k, 7).d.how = "clr"
GoesOn(k) ==
    /\ ~k.rewind /\ k.cfg[3] = NOP
    /\ \E how \in {"inc", "cr", "c2cr"} : ModeOf(k, 8).d = Moves(how) /\ ModeOf(k, 7).d = Moves(how)
IsSet(i) == i.op = "SETRWC" /\ "d" \in i.set /\ "c2cr" \in i.cr /\ i.val.d = Block
IsInc(i) == i.op = "INCRWC" /\ "d" \in i.cr /\ i.val.d = Block
StepsAtEnd(k) ==
    /\ ~k.rewind /\ ModeOf(k, 8).d = Stays /\ ModeOf(k, 7).d = Stays
    /\ IsSet(k.cfg[3]) \/ IsInc(k.cfg[3])

\* A kernel that multiplies once per fidelity phase and block: the loop instruction goes on
\* to the next phase, the last one of a block to the first phase of the next block.
Walks(k) ==
    /\ k.op \in {"MVMUL", "ELWMUL", "GAPOOL"} /\ k.blocks \in 1..127 /\ k.phases \in 1..4
    /\ k.cfg[0] = k.blocks /\ k.cfg[1] = k.phases
    /\ k.cfg[2] = NOP /\ k.cfg[4] = NOP /\ k.cfg[6] = NOP
    /\ \A n \in {5, 7, 8} : k.cfg[n].op = k.op /\ k.cfg[n].dst = 0
    /\ ModeOf(k, 5).d = Stays /\ ModeOf(k, 5).fid = [incr |-> 1, clr |-> FALSE]
    /\ ModeOf(k, 7).fid.clr /\ ModeOf(k, 8).fid.clr
    /\ Rewinds(k) \/ GoesOn(k) \/ StepsAtEnd(k)
-----------------------------------------------------------------------------
(* The inductive invariant. *)

\* Blocks of Dst.
NBlocks == DestSize \div Block

\* The block a kernel is at after n blocks, the counter there, and how often it came to the
\* block of a row.
Pos(k, n) == IF k.rewind THEN n % k.blocks ELSE n
CounterAt(k, n) == (Pos(k, n) * Block) % CountMod
Hits(k, r, n) == Cardinality({m \in 0..(n - 1) : Pos(k, m) % NBlocks = r \div Block})

\* The rows and phases a kernel adds to, and what they hold after n blocks and e phases of
\* the next one.
Due(k, r, p) ==
    \/ k.op = "ELWMUL" /\ p < k.phases
    \/ k.op = "GAPOOL" /\ p = 0 /\ r % Block = 0
    \/ k.op = "MVMUL" /\ p = 0
Total(k, r, p, n, e) == IF Due(k, r, p) THEN Hits(k, r, IF p < e THEN n + 1 ELSE n) ELSE 0
Totals(k, n, e) == [r \in DstRows |-> [p \in Phases |-> Total(k, r, p, n, e)]]

\* Blocks completed, phases of the present one, and whether the counter has moved on.
Completed == runs * kernel.blocks + (IF st = Idle THEN 0 ELSE st.j)
Done ==
    IF st = Idle THEN 0
    ELSE IF st.phase = 0 THEN 0 ELSE IF st.phase = 1 THEN st.i ELSE kernel.phases
Moved ==
    /\ Done = kernel.phases
    /\ kernel.cfg[3] = NOP \/ st.phase = 3

Insns(k) == {k.cfg[n] : n \in 2..8}
Walking(k) ==
    [active: {TRUE}, busy: BOOLEAN, tmpl: {1}, j: 0..k.blocks, i: 0..k.phases, phase: 0..3,
     outer: {k.blocks}, inner: {k.phases}, loop_op: {k.cfg[5]}, other: {k.cfg[5]}]

\* The carriage-return counter is where the counter is.
Level(k) == k.cfg[3] # NOP \/ ModeOf(k, 8).d.how # "inc"

WalkType ==
    /\ kernel \in Kernels
    /\ cfg = kernel.cfg
    /\ runs \in Nat
    /\ st = Idle \/ (st \in Walking(kernel) /\ got \in [1..kernel.blocks -> Seq(Insns(kernel))])
    /\ st # Idle /\ st.j = kernel.blocks => st.phase = 0

Position ==
    /\ rwc.d = CounterAt(kernel, IF Moved THEN Completed + 1 ELSE Completed)
    /\ Level(kernel) => rwc.dcr = rwc.d
    /\ rwc.fid = IF Done < kernel.phases THEN Done ELSE 0

WalkInv == WalkType /\ Position /\ acc = Totals(kernel, Completed, Done)
-----------------------------------------------------------------------------
(* Division. *)

\* Quotient and remainder, ...
LEMMA DivMod ==
  ASSUME NEW a \in Nat \ {0}, NEW n \in Nat
  PROVE  n \div a \in Nat /\ n % a \in 0..(a - 1) /\ n = a * (n \div a) + (n % a)
BY SMTT(60)

\* ... which are the only ones.
LEMMA DivModUnique ==
  ASSUME NEW a \in Nat \ {0}, NEW q \in Nat, NEW p \in Nat,
         NEW r \in 0..(a - 1), NEW s \in 0..(a - 1), a * q + r = a * p + s
  PROVE  q = p /\ r = s
<1>1. \A x, y \in Nat : x < y => a * x + a <= a * y
  <2> SUFFICES ASSUME NEW x \in Nat, NEW y \in Nat, x < y PROVE a * x + a <= a * y
    OBVIOUS
  <2>1. a * (x + 1) <= a * y
    BY SMTT(60)
  <2>2. a * (x + 1) = a * x + a
    BY SMTT(60)
  <2> QED BY <2>1, <2>2
<1>2. a * q \in Int /\ a * p \in Int
  BY SMTT(60)
<1>3. ~(q < p) /\ ~(p < q)
  BY <1>1, <1>2, SMTT(60)
<1>4. q = p
  BY <1>3, SMTT(60)
<1>5. a * q = a * p
  BY <1>4
<1> QED BY <1>2, <1>4, <1>5, SMTT(60)

\* The quotient and remainder of a sum put together from them.
LEMMA DivModOf ==
  ASSUME NEW a \in Nat \ {0}, NEW q \in Nat, NEW r \in 0..(a - 1)
  PROVE  (a * q + r) % a = r /\ (a * q + r) \div a = q
<1> DEFINE n == a * q + r
<1>1. n \in Nat
  BY SMTT(60)
<1> HIDE DEF n
<1>2. n \div a \in Nat /\ n % a \in 0..(a - 1) /\ n = a * (n \div a) + (n % a)
  BY <1>1, DivMod
<1>3. a * q + r = a * (n \div a) + (n % a)
  BY <1>2 DEF n
<1>4. q = n \div a /\ r = n % a
  BY <1>2, <1>3, DivModUnique
<1> QED BY <1>4 DEF n

\* A small number is its own remainder.
LEMMA ModSmall ==
  ASSUME NEW a \in Nat \ {0}, NEW r \in 0..(a - 1)
  PROVE  r % a = r
<1>1. a * 0 + r = r
  BY SMTT(60)
<1>2. 0 \in Nat
  BY SMTT(60)
<1> QED BY <1>1, <1>2, DivModOf

\* A multiple leaves no remainder.
LEMMA ModMultiple ==
  ASSUME NEW a \in Nat \ {0}, NEW q \in Nat
  PROVE  (a * q) % a = 0
<1>1. a * q + 0 = a * q
  BY SMTT(60)
<1>2. 0 \in 0..(a - 1)
  BY SMTT(60)
<1> QED BY <1>1, <1>2, DivModOf

\* Remainders may be taken before adding, ...
LEMMA ModAdd ==
  ASSUME NEW a \in Nat \ {0}, NEW n \in Nat, NEW m \in Nat
  PROVE  ((n % a) + m) % a = (n + m) % a
<1> DEFINE q == n \div a  r == n % a  u == (r + m) \div a  v == (r + m) % a
<1>1. q \in Nat /\ r \in 0..(a - 1) /\ n = a * q + r
  BY DivMod
<1>2. r + m \in Nat
  BY <1>1, SMTT(60)
<1>3. u \in Nat /\ v \in 0..(a - 1) /\ r + m = a * u + v
  BY <1>2, DivMod
<1> HIDE DEF q, r, u, v
<1>4. q + u \in Nat
  BY <1>1, <1>3, SMTT(60)
<1>5. n + m = a * (q + u) + v
  <2>1. a * (q + u) = a * q + a * u /\ a * q \in Int /\ a * u \in Int
    BY <1>1, <1>3, SMTT(60)
  <2> QED BY <1>1, <1>3, <2>1, SMTT(60)
<1>6. (n + m) % a = v
  BY <1>3, <1>4, <1>5, DivModOf
<1> QED BY <1>6 DEF r, v

\* ... and by a multiple of the divisor.
LEMMA ModMod ==
  ASSUME NEW a \in Nat \ {0}, NEW b \in Nat \ {0}, b % a = 0, NEW n \in Nat
  PROVE  (n % b) % a = n % a
<1> DEFINE c == b \div a  q == n \div b  r == n % b  u == r \div a  v == r % a
<1>1. c \in Nat /\ b = a * c + 0
  BY DivMod
<1>2. q \in Nat /\ r \in 0..(b - 1) /\ n = b * q + r
  BY DivMod
<1>3. r \in Nat
  BY <1>2, SMTT(60)
<1>4. u \in Nat /\ v \in 0..(a - 1) /\ r = a * u + v
  BY <1>3, DivMod
<1> HIDE DEF c, q, r, u, v
<1>5. c * q + u \in Nat
  BY <1>1, <1>2, <1>4, SMTT(60)
<1>6. n = a * (c * q + u) + v
  <2>1. b = a * c
    BY <1>1, SMTT(60)
  <2>2. (a * c) * q = a * (c * q)
    BY <1>1, <1>2, SMTT(60)
  <2>3. a * (c * q + u) = a * (c * q) + a * u /\ a * (c * q) \in Int /\ a * u \in Int
    BY <1>1, <1>2, <1>4, SMTT(60)
  <2>4. b * q = a * (c * q)
    BY <2>1, <2>2
  <2> QED BY <1>2, <1>4, <2>3, <2>4, SMTT(60)
<1>7. n % a = v
  BY <1>4, <1>5, <1>6, DivModOf
<1> QED BY <1>7 DEF r, v

\* Remainders scale.
LEMMA ModScaled ==
  ASSUME NEW a \in Nat \ {0}, NEW b \in Nat \ {0}, NEW n \in Nat
  PROVE  (n * a) % (a * b) = a * (n % b)
<1> DEFINE q == n \div b  r == n % b  s == a * r
<1>1. q \in Nat /\ r \in 0..(b - 1) /\ n = b * q + r
  BY DivMod
<1> HIDE DEF q, r
<1>2. a * b \in Nat \ {0}
  BY SMTT(60)
<1>3. s \in 0..(a * b - 1)
  <2>1. a * (r + 1) <= a * b
    BY <1>1, SMTT(60)
  <2>2. a * (r + 1) = a * r + a /\ a * r \in Nat
    BY <1>1, SMTT(60)
  <2> QED BY <1>2, <2>1, <2>2, SMTT(60)
<1>4. n * a = (a * b) * q + s
  <2>1. (b * q + r) * a = (a * b) * q + a * r
    BY <1>1, SMTT(60)
  <2> QED BY <1>1, <2>1
<1> HIDE DEF s
<1>5. (n * a) % (a * b) = s
  BY <1>1, <1>2, <1>3, <1>4, DivModOf
<1> QED BY <1>5 DEF s, r
-----------------------------------------------------------------------------
(* Rows and blocks of Dst. *)

\* Dst consists of whole blocks.
LEMMA Sizes ==
  /\ Block \in Nat \ {0} /\ DestSize \in Nat \ {0} /\ CountMod \in Nat \ {0}
  /\ NBlocks \in Nat \ {0} /\ DestSize = Block * NBlocks
<1>1. Block \in Nat \ {0} /\ DestSize \in Nat \ {0} /\ DestSize \in Nat /\ DestSize % Block = 0
  BY RowsAssumption
<1>2. NBlocks \in Nat /\ DestSize = Block * NBlocks + (DestSize % Block)
  BY <1>1, DivMod DEF NBlocks
<1>3. DestSize = Block * NBlocks
  BY <1>1, <1>2, SMTT(60)
<1>4. NBlocks # 0
  BY <1>1, <1>3, SMTT(60)
<1>5. CountMod \in Nat \ {0}
  BY RowsAssumption, SMTT(60)
<1> QED BY <1>1, <1>2, <1>3, <1>4, <1>5

\* The counter masked to the size of Dst is the first row of the block, ...
LEMMA CounterRow ==
  ASSUME NEW n \in Nat
  PROVE  ((n * Block) % CountMod) % DestSize = Block * (n % NBlocks)
<1>1. n * Block \in Nat
  BY Sizes, SMTT(60)
<1>2. CountMod % DestSize = 0
  BY RowsAssumption
<1>3. ((n * Block) % CountMod) % DestSize = (n * Block) % DestSize
  BY <1>1, <1>2, Sizes, ModMod
<1>4. (n * Block) % (Block * NBlocks) = Block * (n % NBlocks)
  BY Sizes, ModScaled
<1> QED BY <1>3, <1>4, Sizes

\* ... and these are the rows of a block.
LEMMA BlockRows ==
  ASSUME NEW x \in Nat, NEW r \in Nat
  PROVE  /\ Align(Block * x, Block) = Block * x
         /\ r \in (Block * x)..(Block * x + Block - 1) <=> x = r \div Block
         /\ r = Block * x <=> x = r \div Block /\ r % Block = 0
<1> DEFINE b == Block * x  q == r \div Block  s == r % Block  c == Block * q
<1>1. Block \in Nat \ {0} /\ Block \in Nat /\ b \in Nat
  BY Sizes, SMTT(60)
<1>2. b % Block = 0
  BY <1>1, ModMultiple
<1>3. q \in Nat /\ s \in 0..(Block - 1) /\ r = c + s
  BY <1>1, DivMod
<1>4. Align(b, Block) = b
  <2>1. b - 0 = b
    BY <1>1, SMTT(60)
  <2> QED BY <1>2, <2>1 DEF Align
<1>5. c \in Nat
  BY <1>1, <1>3, SMTT(60)
<1>6. ASSUME NEW y \in 0..(Block - 1), r = b + y PROVE x = q /\ y = s
  <2>1. (Block * x + y) % Block = y /\ (Block * x + y) \div Block = x
    BY <1>1, DivModOf
  <2> QED BY <1>6, <2>1
<1>7. ASSUME x = q PROVE b = c
  BY <1>7
<1> HIDE DEF b, q, s, c
<1>8. ASSUME r \in b..(b + Block - 1) PROVE x = q
  <2>1. r - b \in 0..(Block - 1) /\ r = b + (r - b)
    BY <1>1, <1>8, SMTT(60)
  <2> QED BY <1>6, <2>1
<1>9. ASSUME x = q PROVE r \in b..(b + Block - 1)
  BY <1>1, <1>3, <1>5, <1>7, <1>9, SMTT(60)
<1>10. ASSUME r = b PROVE x = q /\ s = 0
  <2>1. 0 \in 0..(Block - 1) /\ r = b + 0
    BY <1>1, <1>10, SMTT(60)
  <2> QED BY <1>6, <2>1
<1>11. ASSUME x = q, s = 0 PROVE r = b
  BY <1>3, <1>5, <1>7, <1>11, SMTT(60)
<1> QED BY <1>4, <1>8, <1>9, <1>10, <1>11 DEF b, q, s

\* The rows an instruction adds to are those of the block the kernel is at.
LEMMA RowsOfInsn ==
  ASSUME NEW i, i.dst = 0, NEW n \in Nat, rwc.d = (n * Block) % CountMod, NEW r \in DstRows
  PROVE  /\ r \in DestBlock(i) <=> n % NBlocks = r \div Block
         /\ r \in {(i.dst + rwc.d) % DestSize} <=> n % NBlocks = r \div Block /\ r % Block = 0
<1> DEFINE x == n % NBlocks
<1>1. x \in Nat
  <2>1. x \in 0..(NBlocks - 1)
    BY Sizes, DivMod
  <2> QED BY <2>1, Sizes, SMTT(60)
<1>2. r \in Nat
  BY Sizes, SMTT(60) DEF DstRows
<1>3. 0 + rwc.d = rwc.d
  <2>1. n * Block \in Nat
    BY Sizes, SMTT(60)
  <2>2. (n * Block) % CountMod \in 0..(CountMod - 1)
    BY <2>1, Sizes, DivMod
  <2> QED BY <2>2, SMTT(60)
<1>4. (i.dst + rwc.d) % DestSize = Block * x
  BY <1>3, CounterRow
<1> HIDE DEF x
<1>5. DestBlock(i) = (Block * x)..(Block * x + Block - 1)
  <2>1. Align((i.dst + rwc.d) % DestSize, Block) = Block * x
    BY <1>1, <1>2, <1>4, BlockRows
  <2> QED BY <2>1 DEF DestBlock
<1>6. /\ r \in (Block * x)..(Block * x + Block - 1) <=> x = r \div Block
      /\ r = Block * x <=> x = r \div Block /\ r % Block = 0
  BY <1>1, <1>2, BlockRows
<1> QED BY <1>4, <1>5, <1>6 DEF x

\* One block more.
LEMMA HitsStep ==
  ASSUME NEW k, NEW r, NEW n \in Nat
  PROVE  /\ Hits(k, r, n) \in Nat /\ Hits(k, r, 0) = 0
         /\ Hits(k, r, n + 1) = IF Pos(k, n) % NBlocks = r \div Block THEN Hits(k, r, n) + 1
                                ELSE Hits(k, r, n)
<1> DEFINE Hit(m) == Pos(k, m) % NBlocks = r \div Block  S(x) == {m \in 0..(x - 1) : Hit(m)}
<1> HIDE DEF Hit
<1>1. \A x \in Nat : IsFiniteSet(S(x))
  <2> SUFFICES ASSUME NEW x \in Nat PROVE IsFiniteSet(S(x))
    OBVIOUS
  <2>1. 0 \in Int /\ x - 1 \in Int
    BY SMTT(60)
  <2>2. IsFiniteSet(0..(x - 1))
    BY <2>1, FS_Interval
  <2>3. S(x) \subseteq 0..(x - 1)
    OBVIOUS
  <2> QED BY <2>2, <2>3, FS_Subset
<1>2. S(0) = {}
  BY SMTT(60)
<1>3. S(n + 1) = IF Hit(n) THEN S(n) \cup {n} ELSE S(n)
  BY SMTT(60)
<1>4. n \notin S(n)
  BY SMTT(60)
<1>5. Cardinality(S(n)) \in Nat
  BY <1>1, FS_CardinalityType
<1>6. Cardinality(S(n) \cup {n}) = Cardinality(S(n)) + 1
  BY <1>1, <1>4, FS_AddElement
<1>7. Cardinality(S(0)) = 0
  BY <1>2, FS_EmptySet
<1>8. Cardinality(S(n + 1)) = IF Hit(n) THEN Cardinality(S(n)) + 1 ELSE Cardinality(S(n))
  BY <1>3, <1>6
<1> QED BY <1>5, <1>7, <1>8 DEF Hits, Hit
-----------------------------------------------------------------------------
(* The walk. *)

\* The counter after one block more.
LEMMA CounterStep ==
  ASSUME NEW k, k.blocks \in 1..127, NEW q \in Nat, NEW j \in 0..(k.blocks - 1)
  PROVE  /\ q * k.blocks + j \in Nat /\ Pos(k, q * k.blocks + j) \in Nat
         /\ CounterAt(k, q * k.blocks + j) \in 0..(CountMod - 1)
         /\ CounterAt(k, q * k.blocks + j + 1) =
              IF k.rewind /\ j = k.blocks - 1 THEN 0
              ELSE (CounterAt(k, q * k.blocks + j) + Block) % CountMod
<1> DEFINE B == k.blocks  n == q * B + j  x == Pos(k, n)
<1>1. B \in Nat \ {0} /\ B \in Nat /\ j \in Nat /\ n \in Nat /\ n + 1 \in Nat
  BY SMTT(60)
<1>2. n = B * q + j
  BY <1>1, SMTT(60)
<1>3. k.rewind => n % B = j
  BY <1>1, <1>2, DivModOf
<1>4. x \in Nat
  BY <1>1, <1>3 DEF Pos
<1>5. k.rewind /\ j = B - 1 => Pos(k, n + 1) = 0
  <2> SUFFICES ASSUME k.rewind, j = B - 1 PROVE (n + 1) % B = 0
    BY DEF Pos
  <2>1. n + 1 = B * (q + 1) /\ q + 1 \in Nat
    BY <1>1, SMTT(60)
  <2> QED BY <1>1, <2>1, ModMultiple
<1>6. ~(k.rewind /\ j = B - 1) => Pos(k, n + 1) = x + 1
  <2>1. CASE k.rewind /\ j # B - 1
    <3>1. j + 1 \in 0..(B - 1) /\ n + 1 = B * q + (j + 1)
      BY <1>1, <2>1, SMTT(60)
    <3>2. (n + 1) % B = j + 1
      BY <1>1, <3>1, DivModOf
    <3> QED BY <1>3, <2>1, <3>2 DEF Pos
  <2>2. CASE ~k.rewind
    BY <2>2 DEF Pos
  <2> QED BY <2>1, <2>2
<1> HIDE DEF x, n, B
<1>7. x * Block \in Nat /\ (x + 1) * Block = x * Block + Block /\ Block \in Nat /\ 0 * Block = 0
  BY <1>4, Sizes, SMTT(60)
<1>8. (x * Block) % CountMod \in 0..(CountMod - 1)
  BY <1>7, Sizes, DivMod
<1>9. (((x * Block) % CountMod) + Block) % CountMod = (x * Block + Block) % CountMod
  BY <1>7, Sizes, ModAdd
<1>10. 0 % CountMod = 0
  <2>1. 0 \in 0..(CountMod - 1)
    BY Sizes, SMTT(60)
  <2> QED BY <2>1, Sizes, ModSmall
<1>11. CounterAt(k, n) = (x * Block) % CountMod
  BY DEF CounterAt, x
<1>12. CounterAt(k, n + 1) = IF k.rewind /\ j = B - 1 THEN 0 ELSE (CounterAt(k, n) + Block) % CountMod
  <2>1. CASE k.rewind /\ j = B - 1
    BY <1>5, <1>7, <1>10, <2>1 DEF CounterAt
  <2>2. CASE ~(k.rewind /\ j = B - 1)
    <3>1. CounterAt(k, n + 1) = ((x + 1) * Block) % CountMod
      BY <1>6, <2>2 DEF CounterAt
    <3> QED BY <1>7, <1>9, <1>11, <2>2, <3>1
  <2> QED BY <2>1, <2>2
<1> QED BY <1>1, <1>4, <1>8, <1>11, <1>12 DEF n, x, B

\* The ways of stepping a counter: cleared, ...
LEMMA StepClr ==
  \A c, cr, incr : Step(c, cr, incr, "clr")[1] = 0 /\ Step(c, cr, incr, "clr")[2] = 0
BY SMTT(60) DEF Step

\* Both from the counter, ...
LEMMA StepC2cr ==
  \A c, cr, incr : /\ Step(c, cr, incr, "c2cr")[1] = (c + incr) % CountMod
                   /\ Step(c, cr, incr, "c2cr")[2] = (c + incr) % CountMod
BY SMTT(60) DEF Step

\* ... both from the carriage return, ...
LEMMA StepCr ==
  \A c, cr, incr : /\ Step(c, cr, incr, "cr")[1] = (cr + incr) % CountMod
                   /\ Step(c, cr, incr, "cr")[2] = (cr + incr) % CountMod
BY SMTT(60) DEF Step

\* ... or the counter alone.
LEMMA StepInc ==
  \A c, cr, incr : /\ Step(c, cr, incr, "inc")[1] = (c + incr) % CountMod
                   /\ Step(c, cr, incr, "inc")[2] = cr
BY SMTT(60) DEF Step

\* What apply_addr_mod does to the counter of Dst and to the phase.
LEMMA ModeEffect ==
  ASSUME NEW m, ApplyAddrMod(m)
  PROVE  /\ rwc'.d = Step(rwc.d, rwc.dcr, m.d.incr, m.d.how)[1]
         /\ rwc'.dcr = Step(rwc.d, rwc.dcr, m.d.incr, m.d.how)[2]
         /\ rwc'.fid = IF m.fid.clr THEN 0 ELSE (rwc.fid + m.fid.incr) % CountMod
BY DEF ApplyAddrMod

\* An instruction of the loop multiplies, then steps the counters by its address mode.
LEMMA ExecuteMultiply ==
  ASSUME NEW i, ExecuteMath(i)
  PROVE  /\ i.op = "MVMUL" => Mvmul(i) /\ ApplyAddrMod(AddrMods[i.mod])
         /\ i.op = "ELWMUL" => Elwmul(i) /\ ApplyAddrMod(AddrMods[i.mod])
         /\ i.op = "GAPOOL" => Gapool(i) /\ ApplyAddrMod(AddrMods[i.mod])
         /\ i.op = "SETRWC" => Setrwc(i.set, i.val, i.cr) /\ UNCHANGED acc
         /\ i.op = "INCRWC" => Incrwc(i.val, i.cr) /\ UNCHANGED acc
BY SMTT(60) DEF ExecuteMath

\* A phase more: only the entries of this phase change, those of the block by one.
LEMMA TotalStep ==
  ASSUME NEW k, NEW r, NEW p \in Phases, NEW n \in Nat, NEW e \in Phases
  PROVE  /\ Total(k, r, p, n, e) \in Nat
         /\ Total(k, r, p, n, e + 1) =
              IF p = e /\ Due(k, r, p) /\ Pos(k, n) % NBlocks = r \div Block
              THEN Total(k, r, p, n, e) + 1 ELSE Total(k, r, p, n, e)
<1> DEFINE Hit == Pos(k, n) % NBlocks = r \div Block
           h(x) == Hits(k, r, x)
<1>1. n + 1 \in Nat /\ p \in Int /\ e \in Int
  BY SMTT(60) DEF Phases
<1>2. h(n) \in Nat /\ h(n + 1) \in Nat /\ h(n + 1) = IF Hit THEN h(n) + 1 ELSE h(n)
  BY <1>1, HitsStep
<1>3. /\ p < e + 1 <=> p < e \/ p = e
      /\ ~(p = e /\ p < e)
  BY <1>1, SMTT(60)
<1>4. 0 \in Nat
  BY SMTT(60)
<1> HIDE DEF h, Hit
<1>5. /\ Total(k, r, p, n, e) = IF Due(k, r, p) THEN h(IF p < e THEN n + 1 ELSE n) ELSE 0
      /\ Total(k, r, p, n, e + 1) = IF Due(k, r, p) THEN h(IF p < e + 1 THEN n + 1 ELSE n) ELSE 0
  BY DEF Total, h
<1>6. CASE ~Due(k, r, p)
  BY <1>4, <1>5, <1>6
<1>7. CASE Due(k, r, p) /\ p = e
  <2>1. Total(k, r, p, n, e) = h(n) /\ Total(k, r, p, n, e + 1) = h(n + 1)
    BY <1>3, <1>5, <1>7
  <2> QED BY <1>2, <1>7, <2>1 DEF Hit
<1>8. CASE Due(k, r, p) /\ p # e
  <2>1. CASE p < e
    BY <1>2, <1>3, <1>5, <1>8, <2>1
  <2>2. CASE ~(p < e)
    BY <1>2, <1>3, <1>5, <1>8, <2>2
  <2> QED BY <2>1, <2>2
<1> QED BY <1>6, <1>7, <1>8

\* Adding once to the entries that are due is one phase more.
LEMMA AccumulateTotals ==
  ASSUME NEW k, NEW n \in Nat, NEW e \in Phases, NEW rows, acc = Totals(k, n, e),
         Accumulate(rows, e),
         \A r \in DstRows : r \in rows <=> Due(k, r, e) /\ Pos(k, n) % NBlocks = r \div Block
  PROVE  acc' = Totals(k, n, e + 1)
<1> DEFINE T(r, p) == Total(k, r, p, n, e)  U(r, p) == Total(k, r, p, n, e + 1)
<1>1. acc' = [r \in DstRows |-> [acc[r] EXCEPT ![e] = IF r \in rows THEN @ + 1 ELSE @]]
  BY DEF Accumulate
<1>2. \A r \in DstRows, p \in Phases :
         U(r, p) = IF p = e /\ r \in rows THEN T(r, p) + 1 ELSE T(r, p)
  BY TotalStep
<1>3. acc = [r \in DstRows |-> [p \in Phases |-> T(r, p)]]
  BY DEF Totals
<1> HIDE DEF T, U
<1>4. \A r \in DstRows : [acc[r] EXCEPT ![e] = IF r \in rows THEN @ + 1 ELSE @]
                         = [p \in Phases |-> U(r, p)]
  <2> SUFFICES ASSUME NEW r \in DstRows
               PROVE [acc[r] EXCEPT ![e] = IF r \in rows THEN @ + 1 ELSE @] = [p \in Phases |-> U(r, p)]
    OBVIOUS
  <2>1. acc[r] = [p \in Phases |-> T(r, p)]
    BY <1>3
  <2>2. \A p \in Phases : U(r, p) = IF p = e /\ r \in rows THEN T(r, p) + 1 ELSE T(r, p)
    BY <1>2
  <2> QED BY <2>1, <2>2, SMTT(60)
<1> QED BY <1>1, <1>4, SMTT(60) DEF Totals, U

\* Multiplying in phase e at block n.
LEMMA AccStep ==
  ASSUME NEW k, Walks(k), NEW n \in Nat, Pos(k, n) \in Nat, NEW e \in 0..(k.phases - 1),
         acc = Totals(k, n, e), rwc.d = CounterAt(k, n), rwc.fid = e,
         NEW i, i.op = k.op, i.dst = 0, ExecuteMath(i)
  PROVE  acc' = Totals(k, n, e + 1)
<1>1. k.op \in {"MVMUL", "ELWMUL", "GAPOOL"} /\ k.phases \in 1..4
  BY DEF Walks
<1>2. e \in Phases /\ e < k.phases /\ e % 4 = e
  BY <1>1, SMTT(60) DEF Phases
<1>3. \A r \in DstRows :
         /\ r \in DestBlock(i) <=> Pos(k, n) % NBlocks = r \div Block
         /\ r \in {(i.dst + rwc.d) % DestSize} <=> Pos(k, n) % NBlocks = r \div Block /\ r % Block = 0
  BY RowsOfInsn DEF CounterAt
<1>4. CASE e # 0 /\ k.op # "ELWMUL"
  <2>1. acc' = acc
    BY <1>1, <1>4, ExecuteMultiply DEF Mvmul, Gapool
  <2>2. \A r \in DstRows : ~Due(k, r, e)
    BY <1>4 DEF Due
  <2>3. \A r \in DstRows, p \in Phases : Total(k, r, p, n, e + 1) = Total(k, r, p, n, e)
    BY <1>2, <2>2, TotalStep
  <2> QED BY <2>1, <2>3, SMTT(60) DEF Totals
<1>5. CASE k.op = "ELWMUL"
  <2>1. Accumulate(DestBlock(i), e)
    BY <1>2, <1>5, ExecuteMultiply DEF Elwmul
  <2>2. \A r \in DstRows : Due(k, r, e)
    BY <1>2, <1>5 DEF Due
  <2> QED BY <1>2, <1>3, <2>1, <2>2, AccumulateTotals
<1>6. CASE k.op = "MVMUL" /\ e = 0
  <2>1. Accumulate(DestBlock(i), e)
    BY <1>6, ExecuteMultiply DEF Mvmul
  <2>2. \A r \in DstRows : Due(k, r, e)
    BY <1>6 DEF Due
  <2> QED BY <1>2, <1>3, <2>1, <2>2, AccumulateTotals
<1>7. CASE k.op = "GAPOOL" /\ e = 0
  <2>1. Accumulate({(i.dst + rwc.d) % DestSize}, e)
    BY <1>7, ExecuteMultiply DEF Gapool
  <2>2. \A r \in DstRows : Due(k, r, e) <=> r % Block = 0
    BY <1>7 DEF Due
  <2> QED BY <1>2, <1>3, <2>1, <2>2, AccumulateTotals
<1> QED BY <1>1, <1>4, <1>5, <1>6, <1>7

\* A phase that is not the last of its block: the counter stays.
LEMMA LoopPhase ==
  ASSUME NEW k, Walks(k), rwc.d \in 0..(CountMod - 1), NEW e \in 0..(k.phases - 2), rwc.fid = e,
         ExecuteMath(k.cfg[5])
  PROVE  rwc'.d = rwc.d /\ rwc'.dcr = rwc.dcr /\ rwc'.fid = e + 1
<1> DEFINE m == ModeOf(k, 5)
<1>1. /\ k.cfg[5].op = k.op /\ k.op \in {"MVMUL", "ELWMUL", "GAPOOL"} /\ k.phases \in 1..4
      /\ m.d = Stays /\ m.fid = [incr |-> 1, clr |-> FALSE]
  <2>1. 5 \in {5, 7, 8}
    OBVIOUS
  <2> QED BY <2>1 DEF Walks
<1>2. ApplyAddrMod(m)
  BY <1>1, ExecuteMultiply DEF ModeOf
<1> HIDE DEF m
<1>3. rwc.d + 0 = rwc.d /\ e + 1 \in 0..(CountMod - 1)
  BY <1>1, RowsAssumption, SMTT(60)
<1>4. m.d.incr = 0 /\ m.d.how = "inc" /\ m.fid.incr = 1 /\ ~m.fid.clr
  BY <1>1, SMTT(60) DEF Stays
<1>5. rwc.d % CountMod = rwc.d /\ (e + 1) % CountMod = e + 1
  BY <1>3, Sizes, ModSmall
<1>6. Step(rwc.d, rwc.dcr, 0, "inc")[1] = rwc.d /\ Step(rwc.d, rwc.dcr, 0, "inc")[2] = rwc.dcr
  <2>1. /\ Step(rwc.d, rwc.dcr, 0, "inc")[1] = (rwc.d + 0) % CountMod
        /\ Step(rwc.d, rwc.dcr, 0, "inc")[2] = rwc.dcr
    BY StepInc, SMTT(60)
  <2> QED BY <1>3, <1>5, <2>1
<1> QED BY <1>2, <1>4, <1>5, <1>6, ModeEffect

\* Where the address mode of the last phase of a block takes the counters.
LEMMA LastMode ==
  ASSUME NEW k, Walks(k), rwc.d \in 0..(CountMod - 1), Level(k) => rwc.dcr = rwc.d,
         NEW last \in BOOLEAN, ApplyAddrMod(ModeOf(k, IF last THEN 7 ELSE 8))
  PROVE  /\ rwc'.fid = 0
         /\ k.cfg[3] # NOP => rwc'.d = rwc.d
         /\ k.cfg[3] = NOP => rwc'.d = IF k.rewind /\ last THEN 0 ELSE (rwc.d + Block) % CountMod
         /\ Level(k) => rwc'.dcr = rwc'.d
<1> DEFINE m == ModeOf(k, IF last THEN 7 ELSE 8)
<1>1. m.fid.clr
  BY DEF Walks
<1>3. \A how : Moves(how).incr = Block /\ Moves(how).how = how
  BY DEF Moves
<1>4. ApplyAddrMod(m)
  OBVIOUS
<1> DEFINE s == Step(rwc.d, rwc.dcr, m.d.incr, m.d.how)
<1>5. rwc'.fid = 0 /\ rwc'.d = s[1] /\ rwc'.dcr = s[2]
  BY <1>1, <1>4, ModeEffect
<1>6. CASE Rewinds(k)
  <2>1. k.cfg[3] = NOP /\ k.rewind /\ ~Level(k)
    BY <1>3, <1>6 DEF Rewinds, Level
  <2>2. CASE last
    <3>1. m.d.how = "clr"
      BY <1>6, <2>2 DEF Rewinds
    <3>2. s[1] = 0
      BY <3>1, StepClr, SMTT(60)
    <3> QED BY <1>5, <2>1, <2>2, <3>2
  <2>3. CASE ~last
    <3>1. m.d.how = "inc" /\ m.d.incr = Block
      BY <1>3, <1>6, <2>3 DEF Rewinds
    <3>2. s[1] = (rwc.d + m.d.incr) % CountMod
      BY <3>1, StepInc, SMTT(60)
    <3> QED BY <1>5, <2>1, <2>3, <3>1, <3>2
  <2> QED BY <2>2, <2>3
<1>7. CASE GoesOn(k)
  <2>1. PICK how \in {"inc", "cr", "c2cr"} : ModeOf(k, 8).d = Moves(how) /\ ModeOf(k, 7).d = Moves(how)
    BY <1>7 DEF GoesOn
  <2>2. k.cfg[3] = NOP /\ ~k.rewind
    BY <1>7 DEF GoesOn
  <2>3. m.d.incr = Block /\ m.d.how = how /\ (Level(k) <=> how # "inc")
    BY <1>3, <2>1, <2>2 DEF Level
  <2>4. s = Step(rwc.d, rwc.dcr, Block, how)
    BY <2>3
  <2> HIDE DEF s, m
  <2>5. CASE how = "inc"
    <3>1. s[1] = (rwc.d + Block) % CountMod
      BY <2>4, <2>5, StepInc, SMTT(60)
    <3> QED BY <1>5, <2>2, <2>3, <2>5, <3>1
  <2>6. CASE how = "cr"
    <3>1. rwc.dcr = rwc.d
      BY <2>3, <2>6
    <3>2. s[1] = (rwc.dcr + Block) % CountMod /\ s[2] = (rwc.dcr + Block) % CountMod
      BY <2>4, <2>6, StepCr, SMTT(60)
    <3> QED BY <1>5, <2>2, <3>1, <3>2
  <2>7. CASE how = "c2cr"
    <3>1. s[1] = (rwc.d + Block) % CountMod /\ s[2] = (rwc.d + Block) % CountMod
      BY <2>4, <2>7, StepC2cr, SMTT(60)
    <3> QED BY <1>5, <2>2, <3>1
  <2> QED BY <2>1, <2>5, <2>6, <2>7
<1>8. CASE StepsAtEnd(k)
  <2>1. m.d = Stays
    BY <1>8 DEF StepsAtEnd
  <2>2. k.cfg[3] # NOP
    <3>1. k.cfg[3].op # "NOP"
      BY <1>8 DEF StepsAtEnd, IsSet, IsInc
    <3> QED BY <3>1, SMTT(60) DEF NOP
  <2>3. m.d.incr = 0 /\ m.d.how = "inc"
    BY <2>1, SMTT(60) DEF Stays
  <2>4. rwc.d + 0 = rwc.d
    BY Sizes, SMTT(60)
  <2>5. rwc.d % CountMod = rwc.d
    BY Sizes, ModSmall
  <2>6. s[1] = rwc.d /\ s[2] = rwc.dcr
    <3>1. s[1] = (rwc.d + m.d.incr) % CountMod /\ s[2] = rwc.dcr
      BY <2>3, StepInc, SMTT(60)
    <3> HIDE DEF s, m
    <3> QED BY <2>3, <2>4, <2>5, <3>1
  <2> QED BY <1>5, <2>2, <2>6 DEF Level
<1> QED BY <1>6, <1>7, <1>8 DEF Walks

\* SETRWC or INCRWC at the end of a block.
LEMMA EndStep ==
  ASSUME NEW k, Walks(k), k.cfg[3] # NOP, rwc.dcr = rwc.d, rwc.d \in 0..(CountMod - 1),
         rwc.fid = 0, ExecuteMath(k.cfg[3])
  PROVE  /\ acc' = acc /\ rwc'.fid = 0
         /\ rwc'.d = (rwc.d + Block) % CountMod /\ rwc'.dcr = rwc'.d
         /\ ~k.rewind
<1> DEFINE i == k.cfg[3]
<1>1. ~k.rewind /\ (IsSet(i) \/ IsInc(i))
  BY DEF Walks, Rewinds, GoesOn, StepsAtEnd
<1>2. Block + rwc.d = rwc.d + Block
  BY Sizes, SMTT(60)
<1> HIDE DEF i
<1>3. CASE IsSet(i)
  <2>1. Setrwc(i.set, i.val, i.cr) /\ acc' = acc
    BY <1>3, ExecuteMultiply DEF IsSet, i
  <2>2. /\ rwc'.fid = (IF "fid" \in i.set THEN 0 ELSE rwc.fid)
        /\ rwc'.d = (Block + rwc.d) % CountMod /\ rwc'.dcr = (Block + rwc.d) % CountMod
    BY <1>3, <2>1 DEF IsSet, Setrwc
  <2> QED BY <1>1, <1>2, <2>1, <2>2
<1>4. CASE IsInc(i)
  <2>1. Incrwc(i.val, i.cr) /\ acc' = acc
    BY <1>4, ExecuteMultiply DEF IsInc, i
  <2>2. /\ rwc'.fid = rwc.fid
        /\ rwc'.d = Step(rwc.d, rwc.dcr, Block, "cr")[1]
        /\ rwc'.dcr = Step(rwc.d, rwc.dcr, Block, "cr")[2]
    BY <1>4, <2>1 DEF IsInc, Incrwc
  <2>3. /\ Step(rwc.d, rwc.dcr, Block, "cr")[1] = (rwc.dcr + Block) % CountMod
        /\ Step(rwc.d, rwc.dcr, Block, "cr")[2] = (rwc.dcr + Block) % CountMod
    BY StepCr, SMTT(60)
  <2> QED BY <1>1, <2>1, <2>2, <2>3
<1> QED BY <1>1, <1>3, <1>4
-----------------------------------------------------------------------------
(* The steps of the generator. *)

\* What is known of a kernel that walks.
LEMMA WalkFacts ==
  ASSUME NEW k, Walks(k)
  PROVE  /\ k.blocks \in 1..127 /\ k.blocks \in Nat /\ k.phases \in 1..4 /\ k.phases \in Nat
         /\ k.phases > 0 /\ k.phases # 0 /\ k.blocks # 0
         /\ Outer(k.cfg) = k.blocks /\ Inner(k.cfg) = k.phases
         /\ Count(k.cfg[0]) = k.blocks /\ Count(k.cfg[1]) = k.phases
         /\ k.cfg[2] = NOP /\ k.cfg[4] = NOP /\ k.cfg[6] = NOP
         /\ \A n \in {5, 7, 8} : k.cfg[n].op = k.op /\ k.cfg[n].dst = 0
         /\ k.op \in {"MVMUL", "ELWMUL", "GAPOOL"}
         /\ \A n \in 2..8 : k.cfg[n] \in Insns(k)
<1>1. /\ k.blocks \in 1..127 /\ k.phases \in 1..4 /\ k.cfg[0] = k.blocks /\ k.cfg[1] = k.phases
      /\ k.cfg[2] = NOP /\ k.cfg[4] = NOP /\ k.cfg[6] = NOP
      /\ \A n \in {5, 7, 8} : k.cfg[n].op = k.op /\ k.cfg[n].dst = 0
      /\ k.op \in {"MVMUL", "ELWMUL", "GAPOOL"}
  BY DEF Walks
<1>2. k.blocks \in Nat /\ k.phases \in Nat /\ k.phases > 0 /\ k.phases # 0 /\ k.blocks # 0
  BY <1>1, SMTT(60)
<1>3. k.blocks % 128 = k.blocks /\ k.phases % 128 = k.phases
  BY <1>1, SMTT(60)
<1>4. Count(k.cfg[0]) = k.blocks /\ Count(k.cfg[1]) = k.phases
  BY <1>1, <1>3 DEF Count
<1>5. k.phases * 1 = k.phases
  BY <1>2, SMTT(60)
<1>6. Outer(k.cfg) = k.blocks
  BY <1>2, <1>4 DEF Outer
<1>7. Inner(k.cfg) = k.phases
  BY <1>1, <1>4, <1>5 DEF Inner
<1>8. \A n \in 2..8 : k.cfg[n] \in Insns(k)
  BY DEF Insns
<1> QED BY <1>1, <1>2, <1>4, <1>6, <1>7, <1>8

\* An instruction that was generated is executed.
LEMMA EmitExecutes ==
  ASSUME NEW S, NEW b \in Nat, got \in [1..b -> Seq(S)], NEW n \in 1..b, NEW i \in S,
         got' = [got EXCEPT ![n] = Append(@, i)],
         IF got' = got THEN UNCHANGED <<acc, rwc>>
         ELSE \E m \in DOMAIN got : got'[m] # got[m] /\ ExecuteMath(got'[m][Len(got'[m])])
  PROVE  ExecuteMath(i) /\ got' \in [1..b -> Seq(S)]
<1>1. got[n] \in Seq(S)
  OBVIOUS
<1>2. /\ Append(got[n], i) \in Seq(S) /\ Append(got[n], i) # got[n]
      /\ Append(got[n], i)[Len(Append(got[n], i))] = i
  BY <1>1, SMTT(60)
<1>3. DOMAIN got = 1..b
  OBVIOUS
<1>4. got'[n] = Append(got[n], i) /\ \A m \in 1..b : m # n => got'[m] = got[m]
  BY <1>3
<1>5. got' # got
  BY <1>2, <1>4
<1>6. PICK m \in 1..b : got'[m] # got[m] /\ ExecuteMath(got'[m][Len(got'[m])])
  BY <1>3, <1>5
<1>7. m = n
  BY <1>4, <1>6
<1>8. got' \in [1..b -> Seq(S)]
  BY <1>2, <1>3
<1> QED BY <1>2, <1>4, <1>6, <1>7, <1>8

\* A running MOP of such a kernel.
LEMMA WalkingFields ==
  ASSUME WalkInv, Walks(kernel), st.active
  PROVE  /\ st # Idle /\ st \in Walking(kernel) /\ got \in [1..kernel.blocks -> Seq(Insns(kernel))]
         /\ st.j \in 0..kernel.blocks /\ st.j \in Nat /\ st.i \in 0..kernel.phases /\ st.phase \in 0..3
         /\ st.outer = kernel.blocks /\ st.inner = kernel.phases /\ st.loop_op = kernel.cfg[5]
         /\ st.tmpl = 1 /\ st.active = TRUE
         /\ Completed = runs * kernel.blocks + st.j /\ Completed \in Nat
<1>1. st # Idle
  <2>1. ~Idle.active
    BY DEF Idle
  <2> QED BY <2>1
<1>2. st \in Walking(kernel) /\ got \in [1..kernel.blocks -> Seq(Insns(kernel))] /\ runs \in Nat
  BY <1>1 DEF WalkInv, WalkType
<1>3. st.j \in 0..kernel.blocks /\ st.i \in 0..kernel.phases /\ st.phase \in 0..3
         /\ st.outer = kernel.blocks /\ st.inner = kernel.phases /\ st.loop_op = kernel.cfg[5]
         /\ st.tmpl = 1 /\ st.active = TRUE
  BY <1>2 DEF Walking
<1>4. st.j \in Nat
  BY <1>3, WalkFacts, SMTT(60)
<1>5. Completed = runs * kernel.blocks + st.j
  BY <1>1 DEF Completed
<1>6. runs * kernel.blocks + st.j \in Nat
  <2>1. \A x, y, z \in Nat : x * y + z \in Nat
    BY SMTT(60)
  <2> QED BY <1>2, <1>4, <2>1, WalkFacts
<1> QED BY <1>1, <1>2, <1>3, <1>4, <1>5, <1>6

\* The counter at the present block, and at the next.
LEMMA WalkCounter ==
  ASSUME WalkInv, Walks(kernel), st.active, st.j # kernel.blocks
  PROVE  /\ Pos(kernel, Completed) \in Nat
         /\ CounterAt(kernel, Completed) \in 0..(CountMod - 1)
         /\ CounterAt(kernel, Completed + 1) =
              IF kernel.rewind /\ st.j = kernel.blocks - 1 THEN 0
              ELSE (CounterAt(kernel, Completed) + Block) % CountMod
<1>1. runs \in Nat
  BY DEF WalkInv, WalkType
<1>2. kernel.blocks \in 1..127 /\ st.j \in 0..kernel.blocks
  BY WalkFacts, WalkingFields
<1>3. st.j \in 0..(kernel.blocks - 1)
  BY <1>2, SMTT(60)
<1> DEFINE n == runs * kernel.blocks + st.j
<1>4. /\ Pos(kernel, n) \in Nat /\ CounterAt(kernel, n) \in 0..(CountMod - 1)
      /\ CounterAt(kernel, n + 1) = IF kernel.rewind /\ st.j = kernel.blocks - 1 THEN 0
                                    ELSE (CounterAt(kernel, n) + Block) % CountMod
  BY <1>1, <1>2, <1>3, CounterStep
<1>5. Completed = n
  BY WalkingFields
<1> HIDE DEF n
<1> QED BY <1>4, <1>5

\* A turn of the loop that generates nothing.
LEMMA QuietTurn ==
  ASSUME WalkInv, WalkType', kernel' = kernel, rwc' = rwc, acc' = acc,
         Completed' = Completed, Done' = Done, Moved' <=> Moved
  PROVE  WalkInv'
BY DEF WalkInv, Position

\* The state after a step of the running MOP.
LEMMA WalkOn ==
  ASSUME WalkInv, Walks(kernel), st.active, kernel' = kernel, cfg' = cfg, runs' = runs,
         got' \in [1..kernel.blocks -> Seq(Insns(kernel))], st' \in Walking(kernel),
         st'.j = kernel.blocks => st'.phase = 0
  PROVE  /\ WalkType' /\ st' # Idle
         /\ Completed' = runs * kernel.blocks + st'.j
         /\ Done' = IF st'.phase = 0 THEN 0 ELSE IF st'.phase = 1 THEN st'.i ELSE kernel.phases
         /\ Moved' <=> Done' = kernel.phases /\ (kernel.cfg[3] = NOP \/ st'.phase = 3)
<1>1. st' # Idle
  <2>1. ~Idle.active /\ st'.active = TRUE
    BY DEF Idle, Walking
  <2> QED BY <2>1
<1>2. WalkType'
  BY <1>1 DEF WalkInv, WalkType, Walking
<1>3. Completed' = runs * kernel.blocks + st'.j
  BY <1>1 DEF Completed
<1>4. Done' = IF st'.phase = 0 THEN 0 ELSE IF st'.phase = 1 THEN st'.i ELSE kernel.phases
  BY <1>1 DEF Done
<1>5. Moved' <=> Done' = kernel.phases /\ (kernel.cfg[3] = NOP \/ st'.phase = 3)
  BY DEF Moved
<1> QED BY <1>1, <1>2, <1>3, <1>4, <1>5

\* There is no start instruction.
LEMMA StartTurn ==
  ASSUME WalkInv, Walks(kernel), st.active, kernel' = kernel, cfg' = cfg, runs' = runs,
         rwc' = rwc, acc' = acc, got' = got, st.phase = 0, st.j # kernel.blocks,
         st' = [[st EXCEPT !.phase = 1, !.i = 0] EXCEPT !.busy = TRUE]
  PROVE  WalkInv'
<1>1. 1 \in 0..3 /\ 1 # 0 /\ 0 \in 0..kernel.phases /\ 0 # kernel.phases
  BY WalkFacts, SMTT(60)
<1>2. st' \in Walking(kernel) /\ st'.phase = 1 /\ st'.i = 0 /\ st'.j = st.j
  BY <1>1, WalkingFields DEF Walking
<1>3. /\ WalkType' /\ Completed' = runs * kernel.blocks + st'.j
      /\ Done' = IF st'.phase = 0 THEN 0 ELSE IF st'.phase = 1 THEN st'.i ELSE kernel.phases
      /\ Moved' <=> Done' = kernel.phases /\ (kernel.cfg[3] = NOP \/ st'.phase = 3)
  BY <1>2, WalkOn, WalkingFields
<1>4. Done = 0 /\ ~Moved
  BY <1>1, WalkingFields DEF Done, Moved
<1>5. Completed' = Completed
  BY <1>2, <1>3, WalkingFields
<1> QED BY <1>1, <1>2, <1>3, <1>4, <1>5, QuietTurn

\* After the last instruction of the inner loop.
LEMMA InnerEnds ==
  ASSUME WalkInv, Walks(kernel), st.active, kernel' = kernel, cfg' = cfg, runs' = runs,
         rwc' = rwc, acc' = acc, got' = got, st.phase = 1, st.i = kernel.phases,
         st.j # kernel.blocks, st' = [[st EXCEPT !.phase = 2] EXCEPT !.busy = TRUE]
  PROVE  WalkInv'
<1>1. 2 \in 0..3 /\ 2 # 0 /\ 2 # 1 /\ 2 # 3 /\ 1 # 0 /\ 1 # 3
  BY SMTT(60)
<1>2. st' \in Walking(kernel) /\ st'.phase = 2 /\ st'.j = st.j
  BY <1>1, WalkingFields DEF Walking
<1>3. /\ WalkType' /\ Completed' = runs * kernel.blocks + st'.j
      /\ Done' = IF st'.phase = 0 THEN 0 ELSE IF st'.phase = 1 THEN st'.i ELSE kernel.phases
      /\ Moved' <=> Done' = kernel.phases /\ (kernel.cfg[3] = NOP \/ st'.phase = 3)
  BY <1>2, WalkOn, WalkingFields
<1>4. Done = kernel.phases /\ (Moved <=> kernel.cfg[3] = NOP)
  BY <1>1, WalkingFields DEF Done, Moved
<1>5. Completed' = Completed
  BY <1>2, <1>3, WalkingFields
<1> QED BY <1>1, <1>2, <1>3, <1>4, <1>5, QuietTurn

\* The end of a block without an instruction for it.
LEMMA QuietEnd ==
  ASSUME WalkInv, Walks(kernel), st.active, kernel' = kernel, cfg' = cfg, runs' = runs,
         rwc' = rwc, acc' = acc, got' = got, st.phase = 2, kernel.cfg[3] = NOP,
         st.j # kernel.blocks, st' = [[st EXCEPT !.phase = 3] EXCEPT !.busy = TRUE]
  PROVE  WalkInv'
<1>1. 3 \in 0..3 /\ 3 # 0 /\ 3 # 1 /\ 2 # 0 /\ 2 # 1
  BY SMTT(60)
<1>2. st' \in Walking(kernel) /\ st'.phase = 3 /\ st'.j = st.j
  BY <1>1, WalkingFields DEF Walking
<1>3. /\ WalkType' /\ Completed' = runs * kernel.blocks + st'.j
      /\ Done' = IF st'.phase = 0 THEN 0 ELSE IF st'.phase = 1 THEN st'.i ELSE kernel.phases
      /\ Moved' <=> Done' = kernel.phases /\ (kernel.cfg[3] = NOP \/ st'.phase = 3)
  BY <1>2, WalkOn, WalkingFields
<1>4. Done = kernel.phases /\ Moved
  BY <1>1, WalkingFields DEF Done, Moved
<1>5. Completed' = Completed
  BY <1>2, <1>3, WalkingFields
<1> QED BY <1>1, <1>2, <1>3, <1>4, <1>5, QuietTurn

\* A block of which all phases are done is a block completed.
LEMMA TotalsOfBlock ==
  ASSUME NEW k, Walks(k), NEW n \in Nat
  PROVE  Totals(k, n, k.phases) = Totals(k, n + 1, 0)
<1>1. \A p \in Phases : ~(p < 0)
  BY SMTT(60) DEF Phases
<1>2. 0 < k.phases
  BY WalkFacts, SMTT(60)
<1>3. \A r \in DstRows, p \in Phases : Total(k, r, p, n, k.phases) = Total(k, r, p, n + 1, 0)
  <2> SUFFICES ASSUME NEW r \in DstRows, NEW p \in Phases
               PROVE  Total(k, r, p, n, k.phases) = Total(k, r, p, n + 1, 0)
    OBVIOUS
  <2>1. CASE Due(k, r, p)
    <3>1. p < k.phases
      BY <1>2, <2>1 DEF Due
    <3> QED BY <1>1, <2>1, <3>1 DEF Total
  <2>2. CASE ~Due(k, r, p)
    BY <2>2 DEF Total
  <2> QED BY <2>1, <2>2
<1> QED BY <1>3, SMTT(60) DEF Totals

\* On to the next block.
LEMMA BlockEnd ==
  ASSUME WalkInv, Walks(kernel), st.active, kernel' = kernel, cfg' = cfg, runs' = runs,
         rwc' = rwc, acc' = acc, got' = got, st.phase = 3, st.j # kernel.blocks,
         st' = [[st EXCEPT !.phase = 0, !.j = @ + 1] EXCEPT !.busy = TRUE]
  PROVE  WalkInv'
<1>1. 0 \in 0..3 /\ 3 # 0 /\ 3 # 1 /\ 0 # kernel.phases /\ 0 < kernel.phases
  BY WalkFacts, SMTT(60)
<1>2. st.j + 1 \in 0..kernel.blocks
  BY WalkFacts, WalkingFields, SMTT(60)
<1>3. st' \in Walking(kernel) /\ st'.phase = 0 /\ st'.j = st.j + 1
  BY <1>1, <1>2, WalkingFields DEF Walking
<1>4. /\ WalkType' /\ Completed' = runs * kernel.blocks + st'.j
      /\ Done' = IF st'.phase = 0 THEN 0 ELSE IF st'.phase = 1 THEN st'.i ELSE kernel.phases
      /\ Moved' <=> Done' = kernel.phases /\ (kernel.cfg[3] = NOP \/ st'.phase = 3)
  BY <1>3, WalkOn, WalkingFields
<1>5. Done = kernel.phases /\ Moved
  BY <1>1, WalkingFields DEF Done, Moved
<1>6. Completed' = Completed + 1 /\ Done' = 0 /\ ~Moved'
  <2>1. \A x, y, z \in Nat : x * y + (z + 1) = x * y + z + 1
    BY SMTT(60)
  <2>2. runs \in Nat
    BY DEF WalkInv, WalkType
  <2>3. runs * kernel.blocks + (st.j + 1) = runs * kernel.blocks + st.j + 1
    BY <2>1, <2>2, WalkFacts, WalkingFields
  <2>4. Completed = runs * kernel.blocks + st.j
    BY WalkingFields
  <2>5. Completed' = Completed + 1
    BY <1>3, <1>4, <2>3, <2>4
  <2> QED BY <1>1, <1>3, <1>4, <2>5
<1>7. acc' = Totals(kernel', Completed', Done')
  <2>1. acc = Totals(kernel, Completed, kernel.phases)
    BY <1>5 DEF WalkInv
  <2>2. Totals(kernel, Completed, kernel.phases) = Totals(kernel, Completed + 1, 0)
    BY TotalsOfBlock, WalkingFields
  <2> QED BY <1>6, <2>1, <2>2
<1>8. ~(kernel.phases < kernel.phases)
  BY WalkFacts, SMTT(60)
<1>9. Position'
  <2>1. /\ rwc.d = CounterAt(kernel, Completed + 1) /\ rwc.fid = 0
        /\ Level(kernel) => rwc.dcr = rwc.d
    BY <1>5, <1>8 DEF WalkInv, Position
  <2> QED BY <1>1, <1>6, <2>1 DEF Position
<1> QED BY <1>4, <1>7, <1>9 DEF WalkInv

\* The end of the MOP: all its blocks are completed.
LEMMA FinishTurn ==
  ASSUME WalkInv, Walks(kernel), st.active, kernel' = kernel, cfg' = cfg, runs' = runs + 1,
         rwc' = rwc, acc' = acc, st.j = kernel.blocks, st' = Idle
  PROVE  WalkInv'
<1>1. runs \in Nat /\ st.phase = 0 /\ kernel.phases # 0
  BY WalkFacts, WalkingFields DEF WalkInv, WalkType
<1>2. runs + 1 \in Nat
  BY <1>1, SMTT(60)
<1>3. WalkType'
  BY <1>2 DEF WalkInv, WalkType
<1>4. Completed' = Completed
  <2>1. \A x, y \in Nat : (x + 1) * y + 0 = x * y + y
    BY SMTT(60)
  <2>2. Completed' = (runs + 1) * kernel.blocks + 0
    BY DEF Completed
  <2> QED BY <1>1, <2>1, <2>2, WalkFacts, WalkingFields
<1>5. Done' = 0 /\ Done = 0
  BY <1>1, WalkingFields DEF Done
<1>6. ~Moved /\ ~Moved'
  BY <1>1, <1>5 DEF Moved
<1> QED BY <1>3, <1>4, <1>5, <1>6, QuietTurn

\* SETRWC or INCRWC moves on to the next block.
LEMMA EndTurn ==
  ASSUME WalkInv, Walks(kernel), st.active, kernel' = kernel, cfg' = cfg, runs' = runs,
         got' \in [1..kernel.blocks -> Seq(Insns(kernel))], st.phase = 2, kernel.cfg[3] # NOP,
         st.j # kernel.blocks, st' = [[st EXCEPT !.phase = 3] EXCEPT !.busy = FALSE],
         ExecuteMath(kernel.cfg[3])
  PROVE  WalkInv'
<1>1. 3 \in 0..3 /\ 3 # 0 /\ 3 # 1 /\ 2 # 0 /\ 2 # 1 /\ 2 # 3 /\ ~(kernel.phases < kernel.phases)
  BY WalkFacts, SMTT(60)
<1>2. st' \in Walking(kernel) /\ st'.phase = 3 /\ st'.j = st.j
  BY <1>1, WalkingFields DEF Walking
<1>3. /\ WalkType' /\ Completed' = runs * kernel.blocks + st'.j
      /\ Done' = IF st'.phase = 0 THEN 0 ELSE IF st'.phase = 1 THEN st'.i ELSE kernel.phases
      /\ Moved' <=> Done' = kernel.phases /\ (kernel.cfg[3] = NOP \/ st'.phase = 3)
  BY <1>2, WalkOn, WalkingFields
<1>4. Done = kernel.phases /\ ~Moved
  BY <1>1, WalkingFields DEF Done, Moved
<1>5. Completed' = Completed /\ Done' = kernel.phases /\ Moved'
  BY <1>1, <1>2, <1>3, WalkingFields
<1>7. /\ rwc.d = CounterAt(kernel, Completed) /\ rwc.fid = 0 /\ rwc.dcr = rwc.d
  BY <1>1, <1>4 DEF WalkInv, Position, Level
<1>8. /\ CounterAt(kernel, Completed) \in 0..(CountMod - 1)
      /\ CounterAt(kernel, Completed + 1) =
           IF kernel.rewind /\ st.j = kernel.blocks - 1 THEN 0
           ELSE (CounterAt(kernel, Completed) + Block) % CountMod
  BY WalkCounter
<1>9. /\ acc' = acc /\ rwc'.fid = 0 /\ rwc'.d = (rwc.d + Block) % CountMod
      /\ rwc'.dcr = rwc'.d /\ ~kernel.rewind
  BY <1>7, <1>8, EndStep
<1>10. Position'
  BY <1>1, <1>5, <1>7, <1>8, <1>9 DEF Position
<1> QED BY <1>3, <1>4, <1>5, <1>9, <1>10 DEF WalkInv

\* An instruction of the inner loop: one phase more; the last one moves on.
LEMMA InnerTurn ==
  ASSUME WalkInv, Walks(kernel), st.active, kernel' = kernel, cfg' = cfg, runs' = runs,
         got' \in [1..kernel.blocks -> Seq(Insns(kernel))], st.phase = 1, st.i # kernel.phases,
         st.j # kernel.blocks,
         st' = [[st EXCEPT !.i = @ + 1, !.loop_op = st.other, !.other = st.loop_op] EXCEPT !.busy = FALSE],
         ExecuteMath(IF st.i # kernel.phases - 1 THEN kernel.cfg[5]
                     ELSE IF st.j # kernel.blocks - 1 THEN kernel.cfg[8] ELSE kernel.cfg[7])
  PROVE  WalkInv'
<1> DEFINE e == st.i  P == kernel.phases  n == Completed
           last == st.j = kernel.blocks - 1
           insn == IF e # P - 1 THEN kernel.cfg[5]
                   ELSE IF st.j # kernel.blocks - 1 THEN kernel.cfg[8] ELSE kernel.cfg[7]
<1>1. e \in 0..P /\ P \in 1..4
  BY WalkFacts, WalkingFields
<1>2. /\ e \in 0..(P - 1) /\ e + 1 \in 0..P /\ e < P /\ 1 # 0 /\ 1 # 3 /\ ~(P < P)
      /\ e = P - 1 => e + 1 = P
      /\ e # P - 1 => e \in 0..(P - 2) /\ e + 1 < P /\ e + 1 # P
  <2>1. e # P
    OBVIOUS
  <2> HIDE DEF e, P
  <2> QED BY <1>1, <2>1, SMTT(60)
<1>3. st' \in Walking(kernel) /\ st'.phase = 1 /\ st'.i = e + 1 /\ st'.j = st.j
  BY <1>2, WalkingFields DEF Walking
<1>4. /\ WalkType' /\ Completed' = runs * kernel.blocks + st'.j
      /\ Done' = IF st'.phase = 0 THEN 0 ELSE IF st'.phase = 1 THEN st'.i ELSE P
      /\ Moved' <=> Done' = P /\ (kernel.cfg[3] = NOP \/ st'.phase = 3)
  BY <1>3, WalkOn, WalkingFields
<1>5. Done = e /\ ~Moved
  BY <1>1, <1>2, WalkingFields DEF Done, Moved
<1>6. Completed' = n /\ Done' = e + 1 /\ (Moved' <=> e + 1 = P /\ kernel.cfg[3] = NOP)
  BY <1>2, <1>3, <1>4, WalkingFields
<1>7. rwc.d = CounterAt(kernel, n) /\ rwc.fid = e /\ (Level(kernel) => rwc.dcr = rwc.d)
  BY <1>2, <1>5 DEF WalkInv, Position
<1>8. n \in Nat /\ Pos(kernel, n) \in Nat /\ rwc.d \in 0..(CountMod - 1)
  BY <1>7, WalkCounter, WalkingFields
<1>9. /\ insn.op = kernel.op /\ insn.dst = 0
      /\ kernel.op \in {"MVMUL", "ELWMUL", "GAPOOL"}
  <2>1. 5 \in {5, 7, 8} /\ 7 \in {5, 7, 8} /\ 8 \in {5, 7, 8}
    OBVIOUS
  <2> QED BY <2>1, WalkFacts
<1>10. acc' = Totals(kernel, n, e + 1)
  <2>1. acc = Totals(kernel, n, e)
    BY <1>5 DEF WalkInv
  <2>2. ExecuteMath(insn)
    OBVIOUS
  <2> HIDE DEF insn, e, n, P
  <2> QED BY <1>2, <1>7, <1>8, <1>9, <2>1, <2>2, AccStep DEF P
<1>11. Position'
  <2>1. CASE e # P - 1
    <3>1. rwc'.d = rwc.d /\ rwc'.dcr = rwc.dcr /\ rwc'.fid = e + 1
      BY <1>2, <1>7, <1>8, <2>1, LoopPhase
    <3> QED BY <1>2, <1>6, <1>7, <2>1, <3>1 DEF Position
  <2>2. CASE e = P - 1
    <3>1. insn = kernel.cfg[IF last THEN 7 ELSE 8]
      BY <2>2
    <3>2. ApplyAddrMod(ModeOf(kernel, IF last THEN 7 ELSE 8))
      BY <1>9, <3>1, ExecuteMultiply DEF ModeOf
    <3>3. /\ rwc'.fid = 0
          /\ kernel.cfg[3] # NOP => rwc'.d = rwc.d
          /\ kernel.cfg[3] = NOP =>
                rwc'.d = IF kernel.rewind /\ last THEN 0 ELSE (rwc.d + Block) % CountMod
          /\ Level(kernel) => rwc'.dcr = rwc'.d
      <4>1. last \in BOOLEAN
        OBVIOUS
      <4> HIDE DEF last
      <4> QED BY <1>7, <1>8, <3>2, <4>1, LastMode
    <3>4. CounterAt(kernel, n + 1) = IF kernel.rewind /\ last THEN 0 ELSE (rwc.d + Block) % CountMod
      BY <1>7, WalkCounter
    <3> HIDE DEF last, e, n
    <3> QED BY <1>2, <1>6, <1>7, <2>2, <3>3, <3>4 DEF Position
  <2> QED BY <2>1, <2>2
<1> QED BY <1>4, <1>6, <1>10, <1>11 DEF WalkInv

\* Every turn of the generator.
LEMMA GenerateWalk ==
  ASSUME WalkInv, Walks(kernel), MuGenerate
  PROVE  WalkInv'
<1> DEFINE k == kernel
<1>1. /\ Generate /\ st.active /\ kernel' = kernel /\ cfg' = cfg
      /\ runs' = IF st'.active THEN runs ELSE runs + 1
      /\ IF got' = got THEN UNCHANGED <<acc, rwc>>
         ELSE \E m \in DOMAIN got : got'[m] # got[m] /\ ExecuteMath(got'[m][Len(got'[m])])
  BY DEF MuGenerate, Generate
<1>2. cfg = k.cfg
  BY DEF WalkInv, WalkType
<1>3. /\ st \in Walking(k) /\ got \in [1..k.blocks -> Seq(Insns(k))] /\ st.phase \in 0..3
      /\ st.j \in 0..k.blocks /\ st.i \in 0..k.phases /\ st.outer = k.blocks /\ st.inner = k.phases
      /\ st.loop_op = k.cfg[5] /\ st.tmpl = 1 /\ st.active = TRUE
  BY <1>1, WalkingFields
<1>4. Generate1
  <2>1. 1 # 0
    BY SMTT(60)
  <2> QED BY <1>1, <1>3, <2>1 DEF Generate
<1>5. k.blocks \in Nat /\ k.phases \in Nat
  BY WalkFacts
<1>6. /\ st.j >= st.outer <=> st.j = k.blocks
      /\ st.j < st.outer <=> st.j # k.blocks
      /\ st.i >= st.inner <=> st.i = k.phases
      /\ st.i < st.inner <=> st.i # k.phases
      /\ st.j # k.blocks => st.j + 1 \in 1..k.blocks
  BY <1>3, <1>5, SMTT(60)
<1>7. ~Idle.active
  BY DEF Idle
<1>8. CASE st.j = k.blocks
  <2>1. Finish
    BY <1>4, <1>6, <1>8, SMTT(60) DEF Generate1
  <2> QED BY <1>1, <1>7, <1>8, <2>1, FinishTurn DEF Finish
<1>9. CASE st.j # k.blocks /\ st.phase = 0
  <2>1. Start
    BY <1>4, <1>6, <1>9, SMTT(60) DEF Generate1
  <2>2. Skip([st EXCEPT !.phase = 1, !.i = 0])
    BY <1>2, <2>1, WalkFacts DEF Start, EmitUnless
  <2>3. st'.active
    BY <1>3, <2>2 DEF Skip, Walking
  <2> QED BY <1>1, <1>9, <2>2, <2>3, StartTurn DEF Skip
<1>10. CASE st.j # k.blocks /\ st.phase = 1 /\ st.i # k.phases
  <2> DEFINE insn == IF st.i # k.phases - 1 THEN k.cfg[5]
                     ELSE IF st.j # k.blocks - 1 THEN k.cfg[8] ELSE k.cfg[7]
  <2>1. InnerInsn
    BY <1>4, <1>6, <1>10, SMTT(60) DEF Generate1
  <2>2. /\ got' = [got EXCEPT ![st.j + 1] = Append(@, insn)]
        /\ st' = [[st EXCEPT !.i = @ + 1, !.loop_op = st.other, !.other = st.loop_op] EXCEPT !.busy = FALSE]
    BY <1>2, <1>3, <2>1 DEF InnerInsn, Emit
  <2>3. insn \in Insns(k)
    <3>1. 5 \in 2..8 /\ 7 \in 2..8 /\ 8 \in 2..8
      BY SMTT(60)
    <3> QED BY <3>1, WalkFacts
  <2>4. st'.active
    BY <1>3, <2>2 DEF Walking
  <2>5. ExecuteMath(insn) /\ got' \in [1..k.blocks -> Seq(Insns(k))]
    <3> HIDE DEF insn
    <3> QED BY <1>1, <1>3, <1>5, <1>6, <1>10, <2>2, <2>3, EmitExecutes
  <2> QED BY <1>1, <1>10, <2>2, <2>4, <2>5, InnerTurn
<1>11. CASE st.j # k.blocks /\ st.phase = 1 /\ st.i = k.phases
  <2>1. Skip([st EXCEPT !.phase = 2])
    BY <1>4, <1>6, <1>11, SMTT(60) DEF Generate1
  <2>2. st'.active
    BY <1>3, <2>1 DEF Skip, Walking
  <2> QED BY <1>1, <1>11, <2>1, <2>2, InnerEnds DEF Skip
<1>12. CASE st.j # k.blocks /\ st.phase = 2
  <2>1. EmitUnless(cfg[3], [st EXCEPT !.phase = 3])
    BY <1>4, <1>6, <1>12, SMTT(60) DEF Generate1
  <2>2. st'.active
    BY <1>3, <2>1 DEF EmitUnless, Emit, Skip, Walking
  <2>3. CASE k.cfg[3] = NOP
    BY <1>1, <1>2, <1>12, <2>1, <2>2, <2>3, QuietEnd DEF EmitUnless, Skip
  <2>4. CASE k.cfg[3] # NOP
    <3>1. /\ got' = [got EXCEPT ![st.j + 1] = Append(@, k.cfg[3])]
          /\ st' = [[st EXCEPT !.phase = 3] EXCEPT !.busy = FALSE]
      BY <1>2, <2>1, <2>4 DEF EmitUnless, Emit
    <3>2. k.cfg[3] \in Insns(k)
      <4>1. 3 \in 2..8
        BY SMTT(60)
      <4> QED BY <4>1, WalkFacts
    <3>3. ExecuteMath(k.cfg[3]) /\ got' \in [1..k.blocks -> Seq(Insns(k))]
      BY <1>1, <1>3, <1>5, <1>6, <1>12, <3>1, <3>2, EmitExecutes
    <3> QED BY <1>1, <1>12, <2>2, <2>4, <3>1, <3>3, EndTurn
  <2> QED BY <2>3, <2>4
<1>13. CASE st.j # k.blocks /\ st.phase = 3
  <2>1. EmitUnless(cfg[4], [st EXCEPT !.phase = 0, !.j = @ + 1])
    BY <1>4, <1>6, <1>13, SMTT(60) DEF Generate1
  <2>2. Skip([st EXCEPT !.phase = 0, !.j = @ + 1])
    BY <1>2, <2>1, WalkFacts DEF EmitUnless
  <2>3. st'.active
    BY <1>3, <2>2 DEF Skip, Walking
  <2> QED BY <1>1, <1>13, <2>2, <2>3, BlockEnd DEF Skip
<1>14. st.phase = 0 \/ st.phase = 1 \/ st.phase = 2 \/ st.phase = 3
  BY <1>3, SMTT(60)
<1> QED BY <1>8, <1>9, <1>10, <1>11, <1>12, <1>13, <1>14
-----------------------------------------------------------------------------
(* The theorem. *)

\* A kernel begins with its counters and Dst cleared.
LEMMA WalkInit ==
  ASSUME MuInit, Walks(kernel)
  PROVE  WalkInv
<1>1. st = Idle /\ runs = 0 /\ acc = Cleared /\ kernel \in Kernels /\ cfg = kernel.cfg
      /\ rwc.d = 0 /\ rwc.dcr = 0 /\ rwc.fid = 0
  BY DEF MuInit, MopInit, RwcInit
<1>2. kernel.blocks \in Nat /\ kernel.blocks \in 1..127 /\ kernel.phases # 0 /\ 0 < kernel.phases
  BY WalkFacts, SMTT(60)
<1>3. 0 * kernel.blocks + 0 = 0 /\ 0 \in Nat /\ 0 * Block = 0 /\ 0 \in 0..(CountMod - 1)
  BY <1>2, Sizes, SMTT(60)
<1>4. Completed = 0 /\ Done = 0
  BY <1>1, <1>3 DEF Completed, Done
<1>5. ~Moved
  BY <1>2, <1>4 DEF Moved
<1>6. CounterAt(kernel, 0) = 0
  <2>1. 0 \in 0..(kernel.blocks - 1) /\ kernel.blocks \in Nat \ {0}
    BY <1>2, SMTT(60)
  <2>2. 0 % kernel.blocks = 0
    BY <2>1, ModSmall
  <2>3. 0 % CountMod = 0
    BY <1>3, Sizes, ModSmall
  <2>4. Pos(kernel, 0) = 0
    BY <2>2 DEF Pos
  <2> QED BY <1>3, <2>3, <2>4 DEF CounterAt
<1>7. Position
  BY <1>1, <1>2, <1>4, <1>5, <1>6 DEF Position
<1>8. acc = Totals(kernel, Completed, Done)
  <2>1. \A p \in Phases : ~(p < 0)
    BY SMTT(60) DEF Phases
  <2>2. \A r \in DstRows, p \in Phases : Total(kernel, r, p, 0, 0) = 0
    BY <1>3, <2>1, HitsStep DEF Total
  <2> QED BY <1>1, <1>4, <2>2, SMTT(60) DEF Totals, Cleared
<1>9. WalkType
  BY <1>1, <1>3 DEF WalkType
<1> QED BY <1>7, <1>8, <1>9 DEF WalkInv

\* Its MOPs start where the last one ended.
LEMMA MopTurn ==
  ASSUME WalkInv, Walks(kernel), CoreStep
  PROVE  WalkInv'
<1>1. kernel.op # "none" /\ kernel.op \in {"MVMUL", "ELWMUL", "GAPOOL"}
  BY WalkFacts
<1>2. PICK p \in Params, direct \in BOOLEAN : p.tmpl = 1 /\ Mop(p, direct)
  BY <1>1 DEF CoreStep
<1>3. acc' = acc /\ rwc' = rwc /\ runs' = runs /\ kernel' = kernel
  BY DEF CoreStep
<1>4. cfg' = cfg /\ cfg = kernel.cfg /\ ~st.active
  BY <1>2 DEF Mop, WalkInv, WalkType
<1>5. st = Idle /\ runs \in Nat /\ kernel \in Kernels
  BY <1>4 DEF WalkInv, WalkType, Walking
<1>6. /\ Count(cfg[0]) = kernel.blocks /\ Count(cfg[1]) = kernel.phases /\ cfg[6] = NOP
      /\ kernel.phases # 0 /\ Outer(cfg) = kernel.blocks /\ kernel.blocks # 0
  BY <1>4, WalkFacts
<1>7. 1 # 0 /\ kernel.blocks + 0 = kernel.blocks /\ 0 \in 0..3
      /\ 0 \in 0..kernel.blocks /\ 0 \in 0..kernel.phases /\ 0 # kernel.phases /\ 0 # kernel.blocks
  BY WalkFacts, SMTT(60)
<1>8. st' = [active |-> TRUE, busy |-> FALSE, tmpl |-> 1, j |-> 0, i |-> 0, phase |-> 0,
             outer |-> kernel.blocks, inner |-> kernel.phases, loop_op |-> cfg[5], other |-> cfg[5]]
  <2>1. Expand(p)
    BY <1>2 DEF Mop
  <2> QED BY <1>2, <1>6, <1>7, <2>1 DEF Expand
<1>9. st' \in Walking(kernel) /\ st' # Idle /\ st'.phase = 0 /\ st'.j = 0
  <2>1. st'.active /\ ~Idle.active
    BY <1>8 DEF Idle
  <2>2. st' \in Walking(kernel) /\ st'.phase = 0 /\ st'.j = 0
    BY <1>4, <1>7, <1>8 DEF Walking
  <2> QED BY <2>1, <2>2
<1>10. got' \in [1..kernel.blocks -> Seq(Insns(kernel))]
  <2>1. Meaning(p) = NestedLoops(cfg)
    BY <1>2, <1>7 DEF Meaning
  <2>2. DOMAIN NestedLoops(cfg) = 1..kernel.blocks
    BY <1>6 DEF NestedLoops
  <2>3. got' = [n \in 1..kernel.blocks |-> <<>>]
    BY <1>2, <2>1, <2>2 DEF Mop
  <2>4. <<>> \in Seq(Insns(kernel))
    BY SMTT(60)
  <2> QED BY <2>3, <2>4
<1>11. WalkType'
  BY <1>3, <1>4, <1>5, <1>7, <1>9, <1>10 DEF WalkType, Walking
<1>12. Completed' = Completed /\ Done' = Done /\ Done = 0
  BY <1>3, <1>5, <1>9 DEF Completed, Done
<1>13. ~Moved /\ ~Moved'
  BY <1>3, <1>6, <1>12 DEF Moved
<1> QED BY <1>3, <1>11, <1>12, <1>13, QuietTurn

\* Every step of the core and of the generator keeps the invariant.
LEMMA WalkNext ==
  ASSUME Walks(kernel) => WalkInv, [MuNext]_muVars
  PROVE  (Walks(kernel) => WalkInv)'
<1> SUFFICES ASSUME Walks(kernel)' PROVE WalkInv'
  OBVIOUS
<1>1. kernel' = kernel
  BY DEF MuNext, MuGenerate, CoreStep, muVars
<1>2. Walks(kernel) /\ WalkInv
  BY <1>1 DEF Walks, Rewinds, GoesOn, StepsAtEnd, ModeOf
<1>3. CASE MuGenerate
  BY <1>2, <1>3, GenerateWalk
<1>4. CASE CoreStep
  BY <1>2, <1>4, MopTurn
<1>5. CASE UNCHANGED muVars
  <2>1. WalkType'
    BY <1>2, <1>5 DEF muVars, mopVars, WalkInv, WalkType, Walking
  <2>2. /\ kernel' = kernel /\ rwc' = rwc /\ acc' = acc
        /\ Completed' = Completed /\ Done' = Done /\ (Moved' <=> Moved)
    BY <1>5 DEF muVars, mopVars, Completed, Done, Moved
  <2> QED BY <1>2, <2>1, <2>2, QuietTurn
<1> QED BY <1>3, <1>4, <1>5 DEF MuNext

\* Between MOPs the totals are the products.
LEMMA WalkExact ==
  ASSUME Walks(kernel), WalkInv
  PROVE  EachProductOnce
<1> SUFFICES ASSUME ~st.active, NEW r \in DstRows, NEW p \in Phases PROVE acc[r][p] = Products(r, p)
  BY DEF EachProductOnce
<1>1. st = Idle /\ runs \in Nat
  BY DEF WalkInv, WalkType, Walking
<1>2. kernel.blocks \in Nat /\ kernel.op \in {"MVMUL", "ELWMUL", "GAPOOL"}
  BY WalkFacts
<1>3. runs * kernel.blocks + 0 = runs * kernel.blocks
  BY <1>1, <1>2, SMTT(60)
<1>4. Completed = runs * kernel.blocks /\ Done = 0
  BY <1>1, <1>3 DEF Completed, Done
<1>5. ~(p < 0)
  BY SMTT(60) DEF Phases
<1>6. acc[r][p] = IF Due(kernel, r, p) THEN Hits(kernel, r, runs * kernel.blocks) ELSE 0
  BY <1>4, <1>5 DEF WalkInv, Totals, Total
<1>7. Hits(kernel, r, runs * kernel.blocks) = Visits(r)
  BY DEF Hits, Visits, Pos, NBlocks
<1>8. Products(r, p) = IF Due(kernel, r, p) THEN Visits(r) ELSE 0
  BY <1>2, SMTT(60) DEF Products, Due
<1>9. CASE Due(kernel, r, p)
  BY <1>6, <1>7, <1>8, <1>9
<1>10. CASE ~Due(kernel, r, p)
  BY <1>6, <1>8, <1>10
<1> QED BY <1>9, <1>10

\* Every kernel that walks through Dst adds every product exactly once to every row it
\* comes to, one slice per phase (ELWMUL) or in phase 0 only (MVMUL, GAPOOL), whichever way
\* it steps its counters and wherever they wrap (mop_generate_next_t1, apply_addr_mod,
\* ttmvmul, ttelwmul, ttgapool, ttsetrwc, ttincrwc).
THEOREM ProductsOnce == MuSpec => [](Walks(kernel) => EachProductOnce)
<1>1. MuInit => (Walks(kernel) => WalkInv)
  BY WalkInit
<1>2. (Walks(kernel) => WalkInv) /\ [MuNext]_muVars => (Walks(kernel) => WalkInv)'
  BY WalkNext
<1>3. (Walks(kernel) => WalkInv) => (Walks(kernel) => EachProductOnce)
  BY WalkExact
<1> QED BY <1>1, <1>2, <1>3, PTL DEF MuSpec
=============================================================================
