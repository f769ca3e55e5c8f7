--------------------------- MODULE TensixCopProofs ---------------------------
(***************************************************************************)
(* The coprocessor.                                                        *)
(*                                                                         *)
(* Its source registers, for any set of tiles: the type invariant for      *)
(* every set of instructions, and the agreement of pointers and flags for  *)
(* programs in which every unguarded instruction stands behind a           *)
(* STALLWAIT.  If also none clears both banks at once after a look at one, *)
(* the banks implement a queue of two places, and the unpackers never      *)
(* write a bank the matrix unit owns.                                      *)
(*                                                                         *)
(* Its front end, for any programs, any FIFO size and any replay buffer:   *)
(* types and bounds, the wait gate on both ways in, and the mutexes.       *)
(* (TensixOrderProofs has the order of what is executed, TensixOnceProofs  *)
(* that direct instructions are executed once, TensixSemProofs the         *)
(* semaphores.)                                                            *)
(***************************************************************************)
EXTENDS TensixCop, TLAPS

\* Every instruction that does not wait by itself is issued behind a STALLWAIT.
Careful == Instrs \cap Unguarded \subseteq Stalled
-----------------------------------------------------------------------------
(* One register r: what the operators do to its fields. *)

\* Fill writes contents and leaves flags and pointers alone.
LEMMA FillType ==
  ASSUME NEW r \in SrcType, NEW bs, NEW c \in Content
  PROVE  /\ Fill(r, bs, c) \in SrcType
         /\ Fill(r, bs, c).dvalid = r.dvalid
         /\ Fill(r, bs, c).unp = r.unp
         /\ Fill(r, bs, c).math = r.math
BY DEF Fill, SrcType

\* Give sets the flag of the unpacker's bank and moves its pointer.
LEMMA GiveType ==
  ASSUME NEW r \in SrcType
  PROVE  /\ Give(r) \in SrcType
         /\ Give(r).dvalid = [r.dvalid EXCEPT ![r.unp] = TRUE]
         /\ Give(r).unp = 1 - r.unp
         /\ Give(r).math = r.math
         /\ Give(r).data = r.data
<1> DEFINE d == [r.dvalid EXCEPT ![r.unp] = TRUE]
<1> DEFINE u == 1 - r.unp
<1>1. d \in [Banks -> BOOLEAN]
  BY DEF SrcType
<1>2. u \in Banks
  BY DEF SrcType, Banks
<1>3. Give(r) = [r EXCEPT !.dvalid = d, !.unp = u]
  BY DEF Give
<1> HIDE DEF d, u
<1>4. Give(r) \in SrcType
  BY <1>1, <1>2, <1>3, Zenon DEF SrcType
<1> QED
  BY <1>3, <1>4 DEF SrcType, d, u

\* Release clears the flag of the matrix unit's bank and moves its pointer.
LEMMA ReleaseType ==
  ASSUME NEW r \in SrcType
  PROVE  /\ Release(r) \in SrcType
         /\ Release(r).dvalid = [r.dvalid EXCEPT ![r.math] = FALSE]
         /\ Release(r).math = 1 - r.math
         /\ Release(r).unp = r.unp
         /\ Release(r).data = r.data
<1> DEFINE d == [r.dvalid EXCEPT ![r.math] = FALSE]
<1> DEFINE u == 1 - r.math
<1>1. d \in [Banks -> BOOLEAN]
  BY DEF SrcType
<1>2. u \in Banks
  BY DEF SrcType, Banks
<1>3. Release(r) = [r EXCEPT !.dvalid = d, !.math = u]
  BY DEF Release
<1> HIDE DEF d, u
<1>4. Release(r) \in SrcType
  BY <1>1, <1>2, <1>3, Zenon DEF SrcType
<1> QED
  BY <1>3, <1>4 DEF SrcType, d, u

\* The registers as tensix_init leaves them are well-formed and in sync.
LEMMA FreshType == FreshSrc \in SrcType /\ InSync(FreshSrc)
BY DEF FreshSrc, SrcType, Banks, Content, InSync

\* A register in sync stays so when the unpacker gives a bank it owns.
LEMMA GiveSync ==
  ASSUME NEW r \in SrcType, InSync(r), UnpackerOwns(r)
  PROVE  InSync(Give(r))
<1> DEFINE g == Give(r)
<1>1. /\ r.dvalid \in [Banks -> BOOLEAN]
      /\ r.dvalid[0] \in BOOLEAN /\ r.dvalid[1] \in BOOLEAN
      /\ r.unp \in {0, 1} /\ r.math \in {0, 1}
  BY DEF SrcType, Banks
<1>2. g.dvalid = [r.dvalid EXCEPT ![r.unp] = TRUE] /\ g.unp = 1 - r.unp /\ g.math = r.math
  BY GiveType
<1> HIDE DEF g
<1>3. CASE r.unp = 0
  <2>1. g.dvalid[0] = TRUE /\ g.dvalid[1] = r.dvalid[1] /\ g.unp = 1
    BY <1>1, <1>2, <1>3 DEF Banks
  <2>2. r.dvalid[0] = FALSE
    BY <1>1, <1>3 DEF UnpackerOwns
  <2>3. IF r.math = 0 THEN r.dvalid[0] = r.dvalid[1] ELSE r.dvalid[1] /\ ~r.dvalid[0]
    BY <1>1, <1>3 DEF InSync
  <2> QED BY <1>1, <1>2, <2>1, <2>2, <2>3, ZenonT(60) DEF InSync, g
<1>4. CASE r.unp = 1
  <2>1. g.dvalid[1] = TRUE /\ g.dvalid[0] = r.dvalid[0] /\ g.unp = 0
    BY <1>1, <1>2, <1>4 DEF Banks
  <2>2. r.dvalid[1] = FALSE
    BY <1>1, <1>4 DEF UnpackerOwns
  <2>3. IF r.math = 1 THEN r.dvalid[0] = r.dvalid[1] ELSE r.dvalid[0] /\ ~r.dvalid[1]
    BY <1>1, <1>4 DEF InSync
  <2> QED BY <1>1, <1>2, <2>1, <2>2, <2>3, ZenonT(60) DEF InSync, g
<1> QED BY <1>1, <1>3, <1>4

\* And when the matrix unit gives back a bank it owns.
LEMMA ReleaseSync ==
  ASSUME NEW r \in SrcType, InSync(r), MatrixOwns(r)
  PROVE  InSync(Release(r))
<1> DEFINE g == Release(r)
<1>1. /\ r.dvalid \in [Banks -> BOOLEAN]
      /\ r.dvalid[0] \in BOOLEAN /\ r.dvalid[1] \in BOOLEAN
      /\ r.unp \in {0, 1} /\ r.math \in {0, 1}
  BY DEF SrcType, Banks
<1>2. g.dvalid = [r.dvalid EXCEPT ![r.math] = FALSE] /\ g.math = 1 - r.math /\ g.unp = r.unp
  BY ReleaseType
<1> HIDE DEF g
<1>3. CASE r.math = 0
  <2>1. g.dvalid[0] = FALSE /\ g.dvalid[1] = r.dvalid[1] /\ g.math = 1
    BY <1>1, <1>2, <1>3 DEF Banks
  <2>2. r.dvalid[0] = TRUE
    BY <1>1, <1>3 DEF MatrixOwns
  <2>3. IF r.unp = 0 THEN r.dvalid[0] = r.dvalid[1] ELSE ~r.dvalid[1]
    BY <1>1, <1>3 DEF InSync
  <2> QED BY <1>1, <1>2, <2>1, <2>2, <2>3, ZenonT(60) DEF InSync, g
<1>4. CASE r.math = 1
  <2>1. g.dvalid[1] = FALSE /\ g.dvalid[0] = r.dvalid[0] /\ g.math = 0
    BY <1>1, <1>2, <1>4 DEF Banks
  <2>2. r.dvalid[1] = TRUE
    BY <1>1, <1>4 DEF MatrixOwns
  <2>3. IF r.unp = 1 THEN r.dvalid[0] = r.dvalid[1] ELSE ~r.dvalid[0]
    BY <1>1, <1>4 DEF InSync
  <2> QED BY <1>1, <1>2, <2>1, <2>2, <2>3, ZenonT(60) DEF InSync, g
<1> QED BY <1>1, <1>3, <1>4

\* A second valid bank is the one the matrix unit turns to.
LEMMA ReleaseOther ==
  ASSUME NEW r \in SrcType, r.dvalid[1 - r.math]
  PROVE  MatrixOwns(Release(r))
<1>1. r.math \in {0, 1} /\ DOMAIN r.dvalid = {0, 1}
  BY DEF SrcType, Banks
<1>2. Release(r).math = 1 - r.math /\ Release(r).dvalid = [r.dvalid EXCEPT ![r.math] = FALSE]
  BY ReleaseType
<1>3. [r.dvalid EXCEPT ![r.math] = FALSE][1 - r.math] = r.dvalid[1 - r.math]
  <2>1. 1 - r.math \in DOMAIN r.dvalid /\ 1 - r.math # r.math
    BY <1>1, SMTT(60)
  <2> QED BY <2>1, Zenon
<1> QED BY <1>2, <1>3, Zenon DEF MatrixOwns

\* Fill and InSync.
LEMMA FillSync ==
  ASSUME NEW r \in SrcType, NEW bs, NEW c \in Content, InSync(r)
  PROVE  InSync(Fill(r, bs, c))
BY FillType DEF InSync

\* In sync, one side owns the bank in front of it; and when the matrix unit has none,
\* the unpacker's bank is free.
LEMMA SyncOwner ==
  ASSUME NEW r \in SrcType, InSync(r)
  PROVE  UnpackerOwns(r) \/ MatrixOwns(r)
<1>1. /\ r.dvalid[0] \in BOOLEAN /\ r.dvalid[1] \in BOOLEAN
      /\ r.unp \in {0, 1} /\ r.math \in {0, 1}
  BY DEF SrcType, Banks
<1> QED BY <1>1 DEF InSync, UnpackerOwns, MatrixOwns
-----------------------------------------------------------------------------
(* Both registers. *)

\* Flipping the banks of a matrix instruction keeps the registers well-formed.
LEMMA ReleaseAllType ==
  ASSUME NEW f \in [Srcs -> SrcType], NEW F
  PROVE  ReleaseAll(f, F) \in [Srcs -> SrcType]
BY ReleaseType, Zenon DEF ReleaseAll

\* And in sync, when the matrix unit owns the banks it flips.
LEMMA ReleaseAllSync ==
  ASSUME NEW f \in [Srcs -> SrcType], NEW F \in SUBSET Srcs,
         \A s \in Srcs : InSync(f[s]),
         \A s \in F : MatrixOwns(f[s])
  PROVE  \A s \in Srcs : InSync(ReleaseAll(f, F)[s])
BY ReleaseSync DEF ReleaseAll

\* An optional hand-over (SetDatValid) keeps a register well-formed.
LEMMA GiveIfType ==
  ASSUME NEW r \in SrcType, NEW cond
  PROVE  GiveIf(cond, r) \in SrcType
BY GiveType, Zenon DEF GiveIf

\* And in sync, when the unpacker owns the bank.
LEMMA GiveIfSync ==
  ASSUME NEW r \in SrcType, NEW cond, InSync(r), cond => UnpackerOwns(r)
  PROVE  InSync(GiveIf(cond, r))
BY GiveSync DEF GiveIf

\* Filling a bank and handing it over.
LEMMA FillGive ==
  ASSUME NEW r \in SrcType, NEW bs, NEW c \in Content, NEW cond
  PROVE  /\ GiveIf(cond, Fill(r, bs, c)) \in SrcType
         /\ InSync(r) /\ UnpackerOwns(r) => InSync(GiveIf(cond, Fill(r, bs, c)))
<1>1. /\ Fill(r, bs, c) \in SrcType
      /\ InSync(r) => InSync(Fill(r, bs, c))
      /\ UnpackerOwns(r) => UnpackerOwns(Fill(r, bs, c))
  BY FillType, FillSync DEF UnpackerOwns
<1> QED BY <1>1, GiveIfType, GiveIfSync, SMTT(60)
-----------------------------------------------------------------------------
(* The type invariant. *)

\* Every instruction keeps the registers well-formed, guarded or not.
LEMMA TypeStep == BanksTypeOK /\ [BanksNext]_bankVars => BanksTypeOK'
<1> SUFFICES ASSUME BanksTypeOK, [BanksNext]_bankVars
             PROVE  BanksTypeOK'
  OBVIOUS
<1> USE DEF BanksTypeOK
<1>0. Zero \in Content /\ Banks = {0, 1}
  BY DEF Content, Banks
<1>1. ASSUME NEW s \in Srcs, NEW t \in Content, NEW v \in BOOLEAN, Unpacr(s, t, v)
      PROVE  BanksTypeOK'
  <2>1. GiveIf(v, Fill(src[s], {src[s].unp}, t)) \in SrcType
    BY FillGive
  <2> QED BY <1>1, <2>1, Zenon DEF Unpacr
<1>2. ASSUME NEW s \in Srcs, NEW v \in BOOLEAN, UnpacrToDst(s, v)
      PROVE  BanksTypeOK'
  <2>1. GiveIf(v, src[s]) \in SrcType
    BY GiveIfType
  <2> QED BY <1>2, <2>1, SMTT(60) DEF UnpacrToDst
<1>3. ASSUME NEW s \in Srcs, NEW w \in BOOLEAN, NEW both \in BOOLEAN, NEW v \in BOOLEAN,
             UnpacrNop(s, w, both, v)
      PROVE  BanksTypeOK'
  <2> DEFINE bs == IF both THEN Banks ELSE {src[s].unp}
  <2>1. GiveIf(v, Fill(src[s], bs, Zero)) \in SrcType
    BY <1>0, FillGive
  <2>2. [b \in Banks |-> b \in bs \/ srcb_zeroed[b]] \in [Banks -> BOOLEAN]
    BY SMTT(60)
  <2>3. src' = [src EXCEPT ![s] = GiveIf(v, Fill(src[s], bs, Zero))]
    BY <1>3, SMTT(60) DEF UnpacrNop
  <2>4. srcb_zeroed' = IF s = "B" THEN [b \in Banks |-> b \in bs \/ srcb_zeroed[b]]
                                  ELSE srcb_zeroed
    BY <1>3 DEF UnpacrNop
  <2>5. dest_dvalid' = dest_dvalid
    BY <1>3 DEF UnpacrNop
  <2> HIDE DEF bs
  <2>6. src' \in [Srcs -> SrcType]
    BY <2>1, <2>3
  <2>7. srcb_zeroed' \in [Banks -> BOOLEAN]
    BY <2>2, <2>4
  <2> QED BY <2>5, <2>6, <2>7, SMTT(60)
<1>4. ASSUME NEW F \in SUBSET Srcs, Setdvalid(F)
      PROVE  BanksTypeOK'
  <2>1. [s \in Srcs |-> GiveIf(s \in F, src[s])] \in [Srcs -> SrcType]
    BY GiveIfType
  <2> QED BY <1>4, <2>1 DEF Setdvalid
<1>5. ASSUME NEW F \in SUBSET Srcs, Elw(F) \/ Gapool(F) \/ Cleardvalid(F)
      PROVE  BanksTypeOK'
  BY <1>5, ReleaseAllType DEF Elw, Gapool, Cleardvalid
<1>6. ASSUME NEW F \in SUBSET Srcs, Mvmul(F)
      PROVE  BanksTypeOK'
  <2>1. (IF SkipZeroed THEN ReleaseAll(src, {"B"}) ELSE src) \in [Srcs -> SrcType]
    BY ReleaseAllType
  <2>2. src' \in [Srcs -> SrcType]
    BY <1>6, <2>1, ReleaseAllType DEF Mvmul
  <2> QED BY <1>6, <2>2, Zenon DEF Mvmul
<1>7. ASSUME NEW F \in SUBSET Srcs, Setrwc(F)
      PROVE  BanksTypeOK'
  BY <1>7, ReleaseAllType DEF Setrwc
<1>8. CASE CleardvalidReset
  <2>1. ASSUME NEW s \in Srcs
        PROVE  [FreshSrc EXCEPT !.data = src[s].data] \in SrcType
    BY Zenon DEF FreshSrc, SrcType, Banks
  <2> QED BY <1>8, <2>1, Zenon DEF CleardvalidReset
<1>9. CASE SempostByMath
  BY <1>9, SMTT(60) DEF SempostByMath
<1>10. ASSUME NEW s \in Srcs, NEW c \in Content, MoveTo(s, c)
       PROVE  BanksTypeOK'
  <2>1. Fill(src[s], {src[s].math}, c) \in SrcType /\ src[s] \in SrcType
    BY FillType
  <2>2. [Fill(src[s], {src[s].math}, c) EXCEPT !.dvalid[src[s].math] = TRUE] \in SrcType
    BY <2>1, Zenon DEF SrcType
  <2> QED BY <1>10, <2>2, SMTT(60) DEF MoveTo
<1>11. ASSUME NEW c \in Content, Movd2a(c) \/ Movd2b(c)
       PROVE  BanksTypeOK'
  BY <1>10, <1>11 DEF Movd2a, Movd2b, Srcs
<1>12. CASE Movb2a
  <2>1. src["B"].data[src["B"].math] \in Content
    BY SMTT(60) DEF Srcs, SrcType
  <2> QED BY <1>10, <1>12, <2>1, SMTT(60) DEF Movb2a, Srcs
<1>13. ASSUME NEW F \in SUBSET Srcs, NEW m \in BOOLEAN, NEW both \in BOOLEAN,
              Zerosrc(F, m, both)
       PROVE  BanksTypeOK'
  <2>1. \A s \in Srcs, bs \in SUBSET Banks : Fill(src[s], bs, Zero) \in SrcType
    BY <1>0, FillType, SMTT(60)
  <2>2. \A s \in Srcs : (IF both THEN Banks
                         ELSE {IF m THEN src[s].math ELSE src[s].unp}) \in SUBSET Banks
    BY SMTT(60) DEF SrcType
  <2>3. src' \in [Srcs -> SrcType]
    BY <1>13, <2>1, <2>2 DEF Zerosrc
  <2> QED BY <1>13, <2>3, SMTT(60) DEF Zerosrc
<1>13a. ASSUME NEW t \in Content, Trnspsrcb(t)
       PROVE  BanksTypeOK'
  <2>1. "B" \in Srcs /\ Fill(src["B"], {src["B"].math}, t) \in SrcType
    BY FillType DEF Srcs
  <2> QED BY <1>13a, <2>1, SMTT(60) DEF Trnspsrcb
<1>14. CASE UNCHANGED bankVars
  BY <1>14 DEF bankVars
<1>15. CASE UnpackerNext
  BY <1>1, <1>2, <1>3, <1>4, <1>15 DEF UnpackerNext
<1>16. CASE MatrixNext
  BY <1>5, <1>6, <1>7, <1>8, <1>9, <1>11, <1>12, <1>13, <1>16, <1>13a, Zenon DEF MatrixNext
<1> QED BY <1>14, <1>15, <1>16 DEF BanksNext

\* Whatever the kernels execute, the flags, pointers and contents stay what they are
\* declared to be; in particular no pointer ever leaves {0, 1}.
THEOREM BanksType == BanksSpec => []BanksTypeOK
<1>1. BanksInit => BanksTypeOK
  BY FreshType, Zenon DEF BanksInit, BanksTypeOK
<1> QED BY <1>1, TypeStep, PTL DEF BanksSpec
-----------------------------------------------------------------------------
(* Pointers and flags. *)

\* Every instruction keeps flags and pointers in step when the unguarded ones are stalled.
LEMMA SyncStep ==
  ASSUME Careful, BanksTypeOK, BankSync, [BanksNext]_bankVars
  PROVE  BankSync'
<1>0. /\ src \in [Srcs -> SrcType]
      /\ \A s \in Srcs : src[s] \in SrcType /\ InSync(src[s])
      /\ Zero \in Content
  BY DEF BanksTypeOK, BankSync, Content
<1>a. \A i \in Instrs \cap Unguarded : i \in Stalled
  BY SMTT(60) DEF Careful
<1>1. ASSUME NEW s \in Srcs, NEW t \in Content, NEW v \in BOOLEAN, Unpacr(s, t, v)
      PROVE  BankSync'
  <2>1. InSync(GiveIf(v, Fill(src[s], {src[s].unp}, t)))
    BY <1>0, <1>1, FillGive, SMTT(60) DEF Unpacr, UnpacrReady
  <2> QED BY <1>0, <1>1, <2>1, SMTT(60) DEF Unpacr, BankSync
<1>2. ASSUME NEW s \in Srcs, NEW v \in BOOLEAN, UnpacrToDst(s, v)
      PROVE  BankSync'
  <2>1. InSync(GiveIf(v, src[s]))
    BY <1>0, <1>2, GiveIfSync, SMTT(60) DEF UnpacrToDst, UnpacrReady
  <2> QED BY <1>0, <1>2, <2>1, SMTT(60) DEF UnpacrToDst, BankSync
<1>3. ASSUME NEW s \in Srcs, NEW w \in BOOLEAN, NEW both \in BOOLEAN, NEW v \in BOOLEAN,
             UnpacrNop(s, w, both, v)
      PROVE  BankSync'
  <2> DEFINE bs == IF both THEN Banks ELSE {src[s].unp}
  <2>1. ZerosrcReady(s, w)
    BY <1>3, SMTT(60) DEF UnpacrNop
  <2>2. UnpackerOwns(src[s])
    BY <1>0, <2>1, SyncOwner DEF ZerosrcReady, UnpackerOwns, MatrixOwns
  <2>3. InSync(GiveIf(v, Fill(src[s], bs, Zero)))
    BY <1>0, <2>2, FillGive, SMTT(60)
  <2>4. src' = [src EXCEPT ![s] = GiveIf(v, Fill(src[s], bs, Zero))]
    BY <1>3, SMTT(60) DEF UnpacrNop
  <2> QED BY <1>0, <2>3, <2>4, SMTT(60) DEF BankSync
<1>4. ASSUME NEW F \in SUBSET Srcs, Setdvalid(F)
      PROVE  BankSync'
  <2>1. \A s \in F : UnpackerOwns(src[s])
    BY <1>a, <1>4 DEF Setdvalid, SrcClear, Unguarded
  <2>2. \A s \in Srcs : InSync(GiveIf(s \in F, src[s]))
    BY <1>0, <2>1, GiveIfSync, Zenon
  <2> QED BY <1>4, <2>2, SMTT(60) DEF Setdvalid, BankSync
<1>5. ASSUME NEW F \in SUBSET Srcs, Elw(F) \/ Gapool(F) \/ Cleardvalid(F)
      PROVE  BankSync'
  <2>1. \A s \in F : MatrixOwns(src[s])
    BY <1>a, <1>5 DEF Elw, BothOwned, Gapool, GapoolReady, Cleardvalid, SrcValid, Unguarded
  <2>2. src' = ReleaseAll(src, F)
    BY <1>5, SMTT(60) DEF Elw, Gapool, Cleardvalid
  <2> QED BY <1>0, <2>1, <2>2, ReleaseAllSync, SMTT(60) DEF BankSync
<1>6. ASSUME NEW F \in SUBSET Srcs, Mvmul(F)
      PROVE  BankSync'
  <2> DEFINE f == IF SkipZeroed THEN ReleaseAll(src, {"B"}) ELSE src
  <2>1. BothOwned /\ src' = ReleaseAll(f, F)
    BY <1>6 DEF Mvmul
  <2>2. f \in [Srcs -> SrcType]
    BY <1>0, ReleaseAllType, SMTT(60)
  <2>3. \A s \in Srcs : InSync(f[s])
    <3>1. {"B"} \in SUBSET Srcs /\ \A s \in {"B"} : MatrixOwns(src[s])
      BY <2>1 DEF BothOwned, Srcs
    <3> QED BY <1>0, <3>1, ReleaseAllSync, SMTT(60)
  <2>4. \A s \in F : MatrixOwns(f[s])
    <3>1. ASSUME SkipZeroed
          PROVE  MatrixOwns(Release(src["B"]))
      <4>1. src["B"] \in SrcType
        BY <1>0, SMTT(60) DEF Srcs
      <4>2. src["B"].dvalid[1 - src["B"].math]
        BY <3>1, SMTT(60) DEF SkipZeroed
      <4> QED BY <4>1, <4>2, ReleaseOther, SMTT(60)
    <3>2. CASE SkipZeroed
      <4>1. f = [s \in Srcs |-> IF s \in {"B"} THEN Release(src[s]) ELSE src[s]]
        BY <3>2 DEF ReleaseAll
      <4> QED BY <2>1, <3>1, <3>2, <4>1, SMTT(60) DEF BothOwned, Srcs
    <3>3. CASE ~SkipZeroed
      BY <2>1, <3>3, SMTT(60) DEF BothOwned
    <3> QED BY <3>2, <3>3
  <2> HIDE DEF f
  <2> QED BY <2>1, <2>2, <2>3, <2>4, ReleaseAllSync, SMTT(60) DEF BankSync
<1>7. ASSUME NEW F \in SUBSET Srcs, Setrwc(F)
      PROVE  BankSync'
  <2>1. {s \in F : MatrixOwns(src[s])} \in SUBSET Srcs
    OBVIOUS
  <2> QED BY <1>0, <1>7, <2>1, ReleaseAllSync DEF Setrwc, BankSync
<1>8. CASE CleardvalidReset
  <2>1. \A s \in Srcs : src'[s] = [FreshSrc EXCEPT !.data = src[s].data]
    BY <1>8 DEF CleardvalidReset
  <2>2. \A d : /\ [FreshSrc EXCEPT !.data = d].dvalid = FreshSrc.dvalid
               /\ [FreshSrc EXCEPT !.data = d].unp = FreshSrc.unp
               /\ [FreshSrc EXCEPT !.data = d].math = FreshSrc.math
    BY DEF FreshSrc
  <2>3. \A d : InSync([FreshSrc EXCEPT !.data = d])
    BY <2>2, FreshType DEF InSync
  <2> QED BY <2>1, <2>3, ZenonT(60) DEF BankSync
<1>9. CASE SempostByMath
  BY <1>9 DEF SempostByMath, BankSync
<1>10. ASSUME NEW s \in Srcs, NEW c \in Content, MoveTo(s, c), MatrixOwns(src[s])
       PROVE  BankSync'
  <2> DEFINE g == Fill(src[s], {src[s].math}, c)
  <2>1. g \in SrcType /\ InSync(g) /\ src[s] \in SrcType /\ g.dvalid = src[s].dvalid
    BY <1>0, FillType, FillSync
  <2>2. g.dvalid[src[s].math] = TRUE
    BY <1>10, <2>1, Zenon DEF MatrixOwns, SrcType
  <2>3. src' = [src EXCEPT ![s] = [g EXCEPT !.dvalid[src[s].math] = TRUE]]
    BY <1>10 DEF MoveTo
  <2> HIDE DEF g
  <2>4. /\ [g EXCEPT !.dvalid[src[s].math] = TRUE].dvalid = g.dvalid
        /\ [g EXCEPT !.dvalid[src[s].math] = TRUE].unp = g.unp
        /\ [g EXCEPT !.dvalid[src[s].math] = TRUE].math = g.math
    BY <2>1, <2>2, ZenonT(60) DEF SrcType
  <2>5. InSync([g EXCEPT !.dvalid[src[s].math] = TRUE])
    BY <2>1, <2>4, Zenon DEF InSync
  <2> QED BY <1>0, <2>3, <2>5 DEF BankSync
<1>11. ASSUME NEW c \in Content, Movd2a(c) \/ Movd2b(c)
       PROVE  BankSync'
  BY <1>a, <1>10, <1>11 DEF Movd2a, Movd2b, SrcValid, Unguarded, Srcs
<1>12. CASE Movb2a
  <2>1. src["B"].data[src["B"].math] \in Content
    BY <1>0 DEF Srcs, SrcType
  <2> QED BY <1>a, <1>10, <1>12, <2>1 DEF Movb2a, SrcValid, Unguarded, Srcs
<1>13. ASSUME NEW F \in SUBSET Srcs, NEW m \in BOOLEAN, NEW both \in BOOLEAN,
              Zerosrc(F, m, both)
       PROVE  BankSync'
  <2>1. \A s \in Srcs : \A bs : InSync(Fill(src[s], bs, Zero))
    BY <1>0, FillSync
  <2> QED BY <1>0, <1>13, <2>1 DEF Zerosrc, BankSync
<1>13a. ASSUME NEW t \in Content, Trnspsrcb(t)
       PROVE  BankSync'
  <2>1. "B" \in Srcs /\ InSync(Fill(src["B"], {src["B"].math}, t))
    BY <1>0, FillSync DEF Srcs
  <2> QED BY <1>0, <1>13a, <2>1 DEF Trnspsrcb, BankSync
<1>14. CASE UNCHANGED bankVars
  BY <1>14 DEF bankVars, BankSync
<1>15. CASE UnpackerNext
  BY <1>1, <1>2, <1>3, <1>4, <1>15, SMTT(60) DEF UnpackerNext
<1>16. CASE MatrixNext
  BY <1>5, <1>6, <1>7, <1>8, <1>9, <1>11, <1>12, <1>13, <1>16, <1>13a, SMTT(60) DEF MatrixNext
<1> QED BY <1>14, <1>15, <1>16, SMTT(60) DEF BanksNext

\* In kernels that put a STALLWAIT before every instruction that does not wait by
\* itself, the bank pointers never fall out of step with the data-valid flags.
THEOREM BanksInSync ==
  ASSUME Careful
  PROVE  BanksSpec => []BankSync
<1>1. BanksInit => BankSync
  BY FreshType DEF BanksInit, BankSync
<1>2. BanksTypeOK /\ BankSync /\ [BanksNext]_bankVars => BankSync'
  BY SyncStep
<1> QED BY <1>1, <1>2, BanksType, PTL DEF BanksSpec

\* In such kernels the unpacker and the matrix unit never both wait on one source.
THEOREM BanksNoStandoff ==
  ASSUME Careful
  PROVE  BanksSpec => []NoStandoff
<1>1. BanksTypeOK /\ BankSync => NoStandoff
  BY SyncOwner DEF BanksTypeOK, BankSync, NoStandoff
<1> QED BY <1>1, BanksType, BanksInSync, PTL
-----------------------------------------------------------------------------
(* The banks as a queue. *)

\* No instruction clears both banks of a source after looking at one of them.
OneBank == Instrs \cap BothBanks = {}
-----------------------------------------------------------------------------
(* One register r: its banks as a sequence. *)

\* The fields of a register, for the provers.
LEMMA Fields ==
  ASSUME NEW r \in SrcType
  PROVE  /\ r.dvalid \in [Banks -> BOOLEAN] /\ r.data \in [Banks -> Content]
         /\ r.dvalid[0] \in BOOLEAN /\ r.dvalid[1] \in BOOLEAN
         /\ r.unp \in {0, 1} /\ r.math \in {0, 1}
         /\ 1 - r.unp \in {0, 1} /\ 1 - r.math \in {0, 1}
         /\ 0 \in Banks /\ 1 \in Banks
BY SMTT(60) DEF SrcType, Banks

\* At most two banks are pending.
LEMMA PendingType ==
  ASSUME NEW r \in SrcType
  PROVE  /\ PendingBanks(r) \in Seq(Content)
         /\ MatrixOwns(r) <=> PendingBanks(r) # <<>>
<1>1. r.data[r.math] \in Content /\ r.data[1 - r.math] \in Content
  BY Fields, SMTT(60) DEF Banks
<1> QED BY <1>1, SMTT(60) DEF PendingBanks, MatrixOwns

\* Two registers with the same flags, matrix pointer and owned contents have the same banks
\* pending.
LEMMA PendingSame ==
  ASSUME NEW r \in SrcType, NEW q \in SrcType,
         q.dvalid = r.dvalid, q.math = r.math,
         \A b \in Banks : r.dvalid[b] => q.data[b] = r.data[b]
  PROVE  PendingBanks(q) = PendingBanks(r)
<1>1. r.math \in Banks /\ 1 - r.math \in Banks
  BY Fields, SMTT(60) DEF Banks
<1> QED BY <1>1 DEF PendingBanks

\* A bank the unpacker gives joins the end of the queue, which has room for it.
LEMMA PendingGive ==
  ASSUME NEW r \in SrcType, InSync(r), UnpackerOwns(r)
  PROVE  /\ Len(PendingBanks(r)) < 2
         /\ PendingBanks(Give(r)) = Append(PendingBanks(r), r.data[r.unp])
<1> DEFINE g == Give(r)
<1>1. /\ g.dvalid = [r.dvalid EXCEPT ![r.unp] = TRUE]
      /\ g.math = r.math /\ g.data = r.data
  BY GiveType
<1> HIDE DEF g
<1>2. CASE r.unp = r.math
  <2>1. ~r.dvalid[r.math] /\ ~r.dvalid[1 - r.math]
    BY <1>2, Fields, SMTT(60) DEF InSync, UnpackerOwns
  <2>2. g.dvalid[g.math] /\ ~g.dvalid[1 - g.math]
    BY <1>1, <1>2, <2>1, Fields, SMTT(60) DEF Banks
  <2>3. PendingBanks(r) = <<>> /\ PendingBanks(g) = <<r.data[r.math]>>
    BY <1>1, <2>1, <2>2, SMTT(60) DEF PendingBanks
  <2> QED BY <1>2, <2>3, SMTT(60) DEF g
<1>3. CASE r.unp # r.math
  <2>1. r.dvalid[r.math] /\ ~r.dvalid[1 - r.math] /\ r.unp = 1 - r.math
    BY <1>3, Fields, SMTT(60) DEF InSync, UnpackerOwns
  <2>2. g.dvalid[g.math] /\ g.dvalid[1 - g.math]
    BY <1>1, <2>1, Fields, SMTT(60) DEF Banks
  <2>3. PendingBanks(r) = <<r.data[r.math]>> /\ PendingBanks(g) = <<r.data[r.math], r.data[r.unp]>>
    BY <1>1, <2>1, <2>2, SMTT(60) DEF PendingBanks
  <2> QED BY <2>3, SMTT(60) DEF g
<1> QED BY <1>2, <1>3, SMTT(60)

\* The bank the matrix unit gives back is the oldest one.
LEMMA PendingRelease ==
  ASSUME NEW r \in SrcType, MatrixOwns(r)
  PROVE  PendingBanks(Release(r)) = Tail(PendingBanks(r))
<1> DEFINE g == Release(r)
<1>1. /\ g.dvalid = [r.dvalid EXCEPT ![r.math] = FALSE]
      /\ g.math = 1 - r.math /\ g.data = r.data
  BY ReleaseType, SMTT(60)
<1> HIDE DEF g
<1>2. g.dvalid[g.math] = r.dvalid[1 - r.math] /\ ~g.dvalid[1 - g.math]
  <2>1. CASE r.math = 0
    BY <1>1, <2>1, Fields, SMTT(60) DEF Banks
  <2>2. CASE r.math = 1
    BY <1>1, <2>2, Fields, SMTT(60) DEF Banks
  <2> QED BY <2>1, <2>2, Fields, SMTT(60)
<1>3. CASE r.dvalid[1 - r.math]
  <2>1. PendingBanks(r) = <<r.data[r.math], r.data[1 - r.math]>>
    BY <1>3 DEF PendingBanks, MatrixOwns
  <2>2. PendingBanks(g) = <<r.data[1 - r.math]>>
    BY <1>1, <1>2, <1>3, Zenon DEF PendingBanks
  <2> QED BY <2>1, <2>2, SMTT(60) DEF g
<1>4. CASE ~r.dvalid[1 - r.math]
  <2>1. PendingBanks(r) = <<r.data[r.math]>>
    BY <1>4 DEF PendingBanks, MatrixOwns
  <2>2. PendingBanks(g) = <<>>
    BY <1>2, <1>4, SMTT(60) DEF PendingBanks
  <2> QED BY <2>1, <2>2 DEF g
<1> QED BY <1>3, <1>4, SMTT(60)

\* What is written into banks the matrix unit does not own is not seen.
LEMMA PendingFillFree ==
  ASSUME NEW r \in SrcType, NEW bs, NEW c \in Content, \A b \in bs \cap Banks : ~r.dvalid[b]
  PROVE  PendingBanks(Fill(r, bs, c)) = PendingBanks(r)
<1>1. Fill(r, bs, c).data = [b \in Banks |-> IF b \in bs THEN c ELSE r.data[b]]
  BY SMTT(60) DEF Fill, SrcType
<1> QED BY <1>1, FillType, PendingSame, SMTT(60)

\* What is written into the matrix unit's bank replaces the oldest content.
LEMMA PendingFillMath ==
  ASSUME NEW r \in SrcType, NEW c \in Content, MatrixOwns(r)
  PROVE  PendingBanks(Fill(r, {r.math}, c)) = [PendingBanks(r) EXCEPT ![1] = c]
<1> DEFINE g == Fill(r, {r.math}, c)
<1>1. /\ g.dvalid = r.dvalid /\ g.math = r.math
      /\ g.data = [b \in Banks |-> IF b \in {r.math} THEN c ELSE r.data[b]]
  BY FillType, SMTT(60) DEF Fill, SrcType
<1> HIDE DEF g
<1>2. g.data[r.math] = c /\ g.data[1 - r.math] = r.data[1 - r.math]
  BY <1>1, Fields, SMTT(60) DEF Banks
<1>3. CASE r.dvalid[1 - r.math]
  <2>1. /\ PendingBanks(r) = <<r.data[r.math], r.data[1 - r.math]>>
        /\ PendingBanks(g) = <<c, r.data[1 - r.math]>>
    BY <1>1, <1>2, <1>3, SMTT(60) DEF PendingBanks, MatrixOwns
  <2> QED BY <2>1, SMTT(60) DEF g
<1>4. CASE ~r.dvalid[1 - r.math]
  <2>1. /\ PendingBanks(r) = <<r.data[r.math]>>
        /\ PendingBanks(g) = <<c>>
    BY <1>1, <1>2, <1>4, SMTT(60) DEF PendingBanks, MatrixOwns
  <2> QED BY <2>1, SMTT(60) DEF g
<1> QED BY <1>3, <1>4, SMTT(60)

-----------------------------------------------------------------------------
(* Both registers as queues. *)

Queue == [s \in Srcs |-> PendingBanks(src[s])]

\* Handing over the banks of the sources in F, each filled with c[s] before.
LEMMA QueueHandOver ==
  ASSUME NEW F \in SUBSET Srcs, NEW f \in [Srcs -> SrcType],
         \A s \in Srcs : s \notin F => PendingBanks(f[s]) = PendingBanks(src[s]),
         \A s \in F : /\ UnpackerOwns(f[s]) /\ InSync(f[s])
                      /\ PendingBanks(f[s]) = PendingBanks(src[s]),
         src' = [s \in Srcs |-> GiveIf(s \in F, f[s])]
  PROVE  Abstract!QueueNext
<1> DEFINE c == [s \in Srcs |-> f[s].data[f[s].unp]]
<1>1. c \in [Srcs -> Content]
  BY Fields, SMTT(60) DEF Banks
<1>2. \A s \in F : /\ Len(PendingBanks(src[s])) < 2
                   /\ PendingBanks(src'[s]) = Append(PendingBanks(src[s]), c[s])
  BY PendingGive DEF GiveIf
<1>3. \A s \in Srcs : s \notin F => PendingBanks(src'[s]) = PendingBanks(src[s])
  BY DEF GiveIf
<1> HIDE DEF c
<1>4. Abstract!HandOver(F, c)
  BY <1>2, <1>3, Zenon DEF Abstract!HandOver, Abstract!Depth, Abstract!Srcs, Srcs
<1> QED BY <1>1, <1>4, SMTT(60) DEF Abstract!QueueNext, Abstract!Srcs, Srcs

\* Giving back the banks of the sources in F.
LEMMA QueueGiveBack ==
  ASSUME BanksTypeOK, NEW F \in SUBSET Srcs, \A s \in F : MatrixOwns(src[s]),
         src' = ReleaseAll(src, F)
  PROVE  Abstract!QueueNext
<1>1. \A s \in F : PendingBanks(src[s]) # <<>> /\ PendingBanks(src'[s]) = Tail(PendingBanks(src[s]))
  BY PendingType, PendingRelease, SMTT(60) DEF ReleaseAll, BanksTypeOK
<1>2. \A s \in Srcs : s \notin F => src'[s] = src[s]
  BY DEF ReleaseAll, BanksTypeOK
<1>3. Abstract!GiveBack(F)
  BY <1>1, <1>2, Zenon DEF Abstract!GiveBack, Abstract!Srcs, Srcs
<1> QED BY <1>3, SMTT(60) DEF Abstract!QueueNext, Abstract!Srcs, Srcs

\* Writing c into the matrix unit's banks of the sources in F.
LEMMA QueueRewrite ==
  ASSUME BanksTypeOK, NEW F \in SUBSET Srcs, NEW c \in Content, \A s \in F : MatrixOwns(src[s]),
         \A s \in F : PendingBanks(src'[s]) = PendingBanks(Fill(src[s], {src[s].math}, c)),
         \A s \in Srcs : s \notin F => src'[s] = src[s]
  PROVE  Abstract!QueueNext
<1>1. \A s \in F : /\ PendingBanks(src[s]) # <<>>
                   /\ PendingBanks(src'[s]) = [PendingBanks(src[s]) EXCEPT ![1] = c]
  BY PendingType, PendingFillMath, Zenon DEF BanksTypeOK
<1>2. Abstract!Rewrite(F, c)
  BY <1>1 DEF Abstract!Rewrite, Abstract!Srcs, Srcs
<1> QED BY <1>2 DEF Abstract!QueueNext, Abstract!Srcs, Srcs
\* MVMUL passes over one SrcB bank and gives back those of F.
LEMMA QueueSkip ==
  ASSUME BanksTypeOK, NEW F \in SUBSET Srcs, BothOwned, SkipZeroed,
         src' = ReleaseAll(ReleaseAll(src, {"B"}), F)
  PROVE  Abstract!QueueNext
<1> DEFINE b == src["B"]
<1>1. src["A"] \in SrcType /\ b \in SrcType /\ MatrixOwns(src["A"]) /\ MatrixOwns(b)
  BY SMTT(60) DEF BanksTypeOK, BothOwned, Srcs
<1>2. PendingBanks(b) = <<b.data[b.math], b.data[1 - b.math]>>
  BY <1>1 DEF SkipZeroed, MatrixOwns, PendingBanks
<1>3. Release(b) \in SrcType /\ MatrixOwns(Release(b))
  BY <1>1, ReleaseType, ReleaseOther, Zenon DEF SkipZeroed
<1>4. /\ PendingBanks(Release(b)) = Tail(PendingBanks(b))
      /\ PendingBanks(Release(Release(b))) = Tail(Tail(PendingBanks(b)))
  BY <1>1, <1>3, PendingRelease, SMTT(60)
<1>5. src'["B"] = IF "B" \in F THEN Release(Release(b)) ELSE Release(b)
  BY DEF ReleaseAll, Srcs
<1>6. src'["A"] = IF "A" \in F THEN Release(src["A"]) ELSE src["A"]
  BY SMTT(60) DEF ReleaseAll, Srcs
<1>7. /\ PendingBanks(src["A"]) # <<>>
      /\ PendingBanks(Release(src["A"])) = Tail(PendingBanks(src["A"]))
  BY <1>1, PendingType, PendingRelease, SMTT(60)
<1> HIDE DEF b
<1>8. Len(PendingBanks(b)) = 2 /\ Tail(Tail(PendingBanks(b))) = <<>>
  BY <1>2
<1>9. PendingBanks(src'["B"]) = IF "B" \in F THEN <<>> ELSE Tail(PendingBanks(b))
  BY <1>4, <1>5, <1>8, Zenon
<1>10. PendingBanks(src'["A"]) = IF "A" \in F THEN Tail(PendingBanks(src["A"]))
                                             ELSE PendingBanks(src["A"])
  BY <1>6, <1>7, Zenon
<1>11. Abstract!SkipAndGiveBack(F)
  BY <1>7, <1>8, <1>9, <1>10, SMTT(60) DEF b, Abstract!SkipAndGiveBack, Abstract!Depth, Abstract!Srcs, Srcs
<1> QED BY <1>11 DEF Abstract!QueueNext, Abstract!Srcs, Srcs

\* An unpacker instruction on source s that fills free banks bs and may hand the bank over.
LEMMA QueueUnpack ==
  ASSUME BanksTypeOK, BankSync, NEW s \in Srcs, NEW g \in SrcType, NEW v \in BOOLEAN,
         UnpackerOwns(g), InSync(g), PendingBanks(g) = PendingBanks(src[s]),
         src' = [src EXCEPT ![s] = GiveIf(v, g)]
  PROVE  Abstract!QueueNext \/ UNCHANGED Queue
<1>1. CASE v
  <2> DEFINE f == [src EXCEPT ![s] = g]
  <2>1. f \in [Srcs -> SrcType] /\ f[s] = g /\ \A x \in Srcs : x # s => f[x] = src[x]
    BY DEF BanksTypeOK
  <2>2. src' = [x \in Srcs |-> GiveIf(x \in {s}, f[x])]
    BY <1>1, Zenon DEF BanksTypeOK, GiveIf
  <2> HIDE DEF f
  <2>3. {s} \in SUBSET Srcs
    BY SMTT(60)
  <2>4. \A x \in Srcs : x \notin {s} => PendingBanks(f[x]) = PendingBanks(src[x])
    BY <2>1, SMTT(60)
  <2>5. \A x \in {s} : /\ UnpackerOwns(f[x]) /\ InSync(f[x])
                       /\ PendingBanks(f[x]) = PendingBanks(src[x])
    BY <2>1, SMTT(60)
  <2>6. Abstract!QueueNext
    BY <2>1, <2>2, <2>3, <2>4, <2>5, QueueHandOver, ZenonT(60)
  <2> QED BY <2>6
<1>2. CASE ~v
  BY <1>2 DEF Queue, GiveIf, BanksTypeOK
<1> QED BY <1>1, <1>2

\* The banks UNPACR_NOP clears are free: the unpacker's, or both when the matrix unit has none.
LEMMA NopFree ==
  ASSUME BanksTypeOK, BankSync, OneBank, NEW s \in Srcs,
         NEW w \in BOOLEAN, NEW both \in BOOLEAN, NEW v \in BOOLEAN, UnpacrNop(s, w, both, v)
  PROVE  /\ UnpackerOwns(src[s])
         /\ \A b \in (IF both THEN Banks ELSE {src[s].unp}) : ~src[s].dvalid[b]
<1>1. src[s] \in SrcType /\ InSync(src[s])
  BY SMTT(60) DEF BanksTypeOK, BankSync
<1>2. ZerosrcReady(s, w)
  BY SMTT(60) DEF UnpacrNop
<1>3. UnpackerOwns(src[s])
  BY <1>1, <1>2, SyncOwner, SMTT(60) DEF ZerosrcReady, UnpackerOwns, MatrixOwns
<1>4. CASE both
  <2>1. ~w
    BY <1>4, SMTT(60) DEF UnpacrNop, OneBank, BothBanks
  <2>2. ~src[s].dvalid[src[s].math]
    BY <1>2, <2>1, SMTT(60) DEF ZerosrcReady
  <2>3. ~src[s].dvalid[0] /\ ~src[s].dvalid[1]
    BY <1>1, <1>3, <2>2, Fields, SMTT(60) DEF InSync, UnpackerOwns
  <2> QED BY <1>3, <1>4, <2>3, SMTT(60) DEF Banks
<1>5. CASE ~both
  BY <1>3, <1>5, SMTT(60) DEF UnpackerOwns
<1> QED BY <1>4, <1>5, SMTT(60)

\* Every instruction is a step of the queue or leaves it alone.
LEMMA QueueStep ==
  ASSUME Careful, OneBank, BanksTypeOK, BankSync, [BanksNext]_bankVars
  PROVE  Abstract!QueueNext \/ UNCHANGED Queue
<1>0. /\ src \in [Srcs -> SrcType]
      /\ \A s \in Srcs : src[s] \in SrcType /\ InSync(src[s])
      /\ Zero \in Content
  BY DEF BanksTypeOK, BankSync, Content
<1>a. \A i \in Instrs \cap Unguarded : i \in Stalled
  BY DEF Careful
<1>1. ASSUME NEW s \in Srcs, NEW t \in Content, NEW v \in BOOLEAN, Unpacr(s, t, v)
      PROVE  Abstract!QueueNext \/ UNCHANGED Queue
  <2> DEFINE g == Fill(src[s], {src[s].unp}, t)
  <2>1. UnpackerOwns(src[s]) /\ src' = [src EXCEPT ![s] = GiveIf(v, g)]
    BY <1>1, SMTT(60) DEF Unpacr, UnpacrReady
  <2>2. g \in SrcType /\ InSync(g) /\ UnpackerOwns(g)
    BY <1>0, <2>1, FillType, FillSync, SMTT(60) DEF UnpackerOwns
  <2>3. PendingBanks(g) = PendingBanks(src[s])
    BY <1>0, <2>1, PendingFillFree, SMTT(60) DEF UnpackerOwns
  <2> HIDE DEF g
  <2> QED BY <2>1, <2>2, <2>3, QueueUnpack, Zenon
<1>2. ASSUME NEW s \in Srcs, NEW v \in BOOLEAN, UnpacrToDst(s, v)
      PROVE  Abstract!QueueNext \/ UNCHANGED Queue
  <2>1. UnpackerOwns(src[s]) /\ src' = [src EXCEPT ![s] = GiveIf(v, src[s])]
    BY <1>2 DEF UnpacrToDst, UnpacrReady
  <2> QED BY <1>0, <2>1, QueueUnpack, Zenon
<1>3. ASSUME NEW s \in Srcs, NEW w \in BOOLEAN, NEW both \in BOOLEAN, NEW v \in BOOLEAN,
             UnpacrNop(s, w, both, v)
      PROVE  Abstract!QueueNext \/ UNCHANGED Queue
  <2> DEFINE bs == IF both THEN Banks ELSE {src[s].unp}
  <2> DEFINE g == Fill(src[s], bs, Zero)
  <2>1. src' = [src EXCEPT ![s] = GiveIf(v, g)]
    BY <1>3, SMTT(60) DEF UnpacrNop
  <2>2. UnpackerOwns(src[s]) /\ \A b \in bs : ~src[s].dvalid[b]
    BY <1>3, NopFree, SMTT(60)
  <2> HIDE DEF bs
  <2>3. g \in SrcType /\ InSync(g) /\ UnpackerOwns(g)
    BY <1>0, <2>2, FillType, FillSync, SMTT(60) DEF UnpackerOwns
  <2>4. PendingBanks(g) = PendingBanks(src[s])
    BY <1>0, <2>2, PendingFillFree, SMTT(60)
  <2> HIDE DEF g
  <2> QED BY <2>1, <2>3, <2>4, QueueUnpack, ZenonT(60)
<1>4. ASSUME NEW F \in SUBSET Srcs, Setdvalid(F)
      PROVE  Abstract!QueueNext
  <2>1. \A s \in F : UnpackerOwns(src[s])
    BY <1>a, <1>4, SMTT(60) DEF Setdvalid, SrcClear, Unguarded
  <2>2. src' = [s \in Srcs |-> GiveIf(s \in F, src[s])]
    BY <1>4, SMTT(60) DEF Setdvalid
  <2> QED BY <1>0, <2>1, <2>2, QueueHandOver, SMTT(60)
<1>5. ASSUME NEW F \in SUBSET Srcs, Elw(F) \/ Gapool(F) \/ Cleardvalid(F)
      PROVE  Abstract!QueueNext
  <2>1. \A s \in F : MatrixOwns(src[s])
    BY <1>a, <1>5, SMTT(60) DEF Elw, BothOwned, Gapool, GapoolReady, Cleardvalid, SrcValid, Unguarded
  <2>2. src' = ReleaseAll(src, F)
    BY <1>5, SMTT(60) DEF Elw, Gapool, Cleardvalid
  <2> QED BY <2>1, <2>2, QueueGiveBack, SMTT(60)
<1>6. ASSUME NEW F \in SUBSET Srcs, Mvmul(F)
      PROVE  Abstract!QueueNext
  <2>1. CASE SkipZeroed
    <3>1. BothOwned /\ src' = ReleaseAll(ReleaseAll(src, {"B"}), F)
      BY <1>6, <2>1, SMTT(60) DEF Mvmul
    <3> QED BY <2>1, <3>1, QueueSkip, SMTT(60)
  <2>2. CASE ~SkipZeroed
    <3>1. (\A s \in F : MatrixOwns(src[s])) /\ src' = ReleaseAll(src, F)
      BY <1>6, <2>2, SMTT(60) DEF Mvmul, BothOwned
    <3> QED BY <3>1, QueueGiveBack, SMTT(60)
  <2> QED BY <2>1, <2>2, SMTT(60)
<1>7. ASSUME NEW F \in SUBSET Srcs, Setrwc(F)
      PROVE  Abstract!QueueNext
  <2> DEFINE G == {s \in F : MatrixOwns(src[s])}
  <2>1. G \in SUBSET Srcs /\ (\A s \in G : MatrixOwns(src[s])) /\ src' = ReleaseAll(src, G)
    BY <1>7, SMTT(60) DEF Setrwc
  <2> HIDE DEF G
  <2> QED BY <2>1, QueueGiveBack, SMTT(60)
<1>8. CASE CleardvalidReset
  <2> DEFINE e(d) == [FreshSrc EXCEPT !.data = d]
  <2>1. \A s \in Srcs : src'[s] = e(src[s].data)
    BY <1>8, SMTT(60) DEF CleardvalidReset
  <2>2. \A d : e(d).dvalid = FreshSrc.dvalid /\ e(d).math = FreshSrc.math
    BY SMTT(60) DEF FreshSrc
  <2>3. ~FreshSrc.dvalid[FreshSrc.math]
    BY SMTT(60) DEF FreshSrc, Banks
  <2> HIDE DEF e
  <2>4. \A s \in Srcs : PendingBanks(src'[s]) = <<>>
    BY <2>1, <2>2, <2>3, SMTT(60) DEF PendingBanks
  <2>5. Abstract!Discard
    BY <2>4 DEF Abstract!Discard, Abstract!Srcs, Srcs
  <2> QED BY <2>5, SMTT(60) DEF Abstract!QueueNext
<1>9. CASE SempostByMath
  BY <1>9 DEF SempostByMath, Queue
<1>10. ASSUME NEW s \in Srcs, NEW c \in Content, MoveTo(s, c), MatrixOwns(src[s])
       PROVE  Abstract!QueueNext
  <2> DEFINE g == Fill(src[s], {src[s].math}, c)
  <2>1. g \in SrcType /\ g.dvalid = src[s].dvalid /\ g.math = src[s].math
    BY <1>0, FillType
  <2>2. g.dvalid[src[s].math] = TRUE
    BY <1>0, <1>10, <2>1, Fields, Zenon DEF MatrixOwns, Banks
  <2>3. src' = [src EXCEPT ![s] = [g EXCEPT !.dvalid[src[s].math] = TRUE]]
    BY <1>10, SMTT(60) DEF MoveTo
  <2> HIDE DEF g
  <2>4. [g EXCEPT !.dvalid[src[s].math] = TRUE] = g
    BY <2>1, <2>2, SMTT(60) DEF SrcType
  <2>5. src'[s] = g /\ \A x \in Srcs : x # s => src'[x] = src[x]
    BY <1>0, <2>3, <2>4, SMTT(60)
  <2>6. \A x \in {s} : /\ MatrixOwns(src[x])
                       /\ PendingBanks(src'[x]) = PendingBanks(Fill(src[x], {src[x].math}, c))
    BY <1>10, <2>5, SMTT(60) DEF g
  <2>7. {s} \in SUBSET Srcs /\ \A x \in Srcs : x \notin {s} => src'[x] = src[x]
    BY <2>5, SMTT(60)
  <2> QED BY <2>6, <2>7, QueueRewrite, ZenonT(60)
<1>11. ASSUME NEW c \in Content, Movd2a(c) \/ Movd2b(c)
       PROVE  Abstract!QueueNext
  BY <1>a, <1>10, <1>11, SMTT(60) DEF Movd2a, Movd2b, SrcValid, Unguarded, Srcs
<1>12. CASE Movb2a
  <2>1. src["B"].data[src["B"].math] \in Content
    BY <1>0 DEF Srcs, SrcType
  <2> QED BY <1>a, <1>10, <1>12, <2>1, SMTT(60) DEF Movb2a, SrcValid, Unguarded, Srcs
<1>13. ASSUME NEW t \in Content, Trnspsrcb(t)
       PROVE  Abstract!QueueNext
  <2>1. "B" \in Srcs /\ MatrixOwns(src["B"])
    BY <1>a, <1>13, SMTT(60) DEF Trnspsrcb, SrcValid, Unguarded, Srcs
  <2>2. /\ src'["B"] = Fill(src["B"], {src["B"].math}, t)
        /\ \A x \in Srcs : x \notin {"B"} => src'[x] = src[x]
    BY <1>0, <1>13, <2>1 DEF Trnspsrcb
  <2>3. {"B"} \in SUBSET Srcs
    BY <2>1, SMTT(60)
  <2>4. \A x \in {"B"} : /\ MatrixOwns(src[x])
                         /\ PendingBanks(src'[x]) = PendingBanks(Fill(src[x], {src[x].math}, t))
    BY <2>1, <2>2, SMTT(60)
  <2> QED BY <2>2, <2>3, <2>4, QueueRewrite, ZenonT(60)
<1>14. ASSUME NEW F \in SUBSET Srcs, NEW m \in BOOLEAN, NEW both \in BOOLEAN,
              Zerosrc(F, m, both)
       PROVE  Abstract!QueueNext \/ UNCHANGED Queue
  <2>1. ~both /\ "ZEROSRC" \in Stalled
    BY <1>a, <1>14, SMTT(60) DEF Zerosrc, OneBank, BothBanks, Unguarded
  <2>2. \A s \in Srcs : src'[s] = IF s \in F THEN Fill(src[s], {IF m THEN src[s].math ELSE src[s].unp}, Zero)
                                             ELSE src[s]
    BY <1>14, <2>1, SMTT(60) DEF Zerosrc
  <2>3. CASE m
    <3>1. \A s \in F : MatrixOwns(src[s])
      BY <1>14, <2>1, <2>3, SMTT(60) DEF Zerosrc, SrcValid
    <3>2. \A s \in F : src'[s] = Fill(src[s], {src[s].math}, Zero)
      BY <2>2, <2>3
    <3> QED BY <1>0, <2>2, <3>1, <3>2, QueueRewrite, Zenon
  <2>4. CASE ~m
    <3>1. \A s \in F : ~src[s].dvalid[src[s].unp]
      BY <1>14, <2>1, <2>4, SMTT(60) DEF Zerosrc, SrcClear, UnpackerOwns
    <3>2. \A s \in F : src'[s] = Fill(src[s], {src[s].unp}, Zero)
      BY <2>2, <2>4
    <3>3. \A s \in F : PendingBanks(src'[s]) = PendingBanks(src[s])
      <4> SUFFICES ASSUME NEW s \in F
                   PROVE  PendingBanks(src'[s]) = PendingBanks(src[s])
        OBVIOUS
      <4>1. src[s] \in SrcType /\ \A b \in {src[s].unp} \cap Banks : ~src[s].dvalid[b]
        BY <1>0, <3>1, SMTT(60)
      <4>2. PendingBanks(Fill(src[s], {src[s].unp}, Zero)) = PendingBanks(src[s])
        BY <1>0, <4>1, PendingFillFree
      <4> QED BY <3>2, <4>2
    <3> QED BY <2>2, <3>3, Zenon DEF Queue
  <2> QED BY <2>3, <2>4, SMTT(60)
<1>15. CASE UNCHANGED bankVars
  BY <1>15 DEF bankVars, Queue
<1>16. CASE UnpackerNext
  BY <1>1, <1>2, <1>3, <1>4, <1>16, SMTT(60) DEF UnpackerNext
<1>17. CASE MatrixNext
  BY <1>5, <1>6, <1>7, <1>8, <1>9, <1>11, <1>12, <1>13, <1>14, <1>17, SMTT(60) DEF MatrixNext
<1> QED BY <1>15, <1>16, <1>17, SMTT(60) DEF BanksNext
\* SrcA and SrcB are queues of two banks: no tile is lost, repeated, overtaken or changed on
\* its way from the unpackers to the matrix unit (ttunpacr, ttmvmul and the others that
\* take, give or clear banks), whatever the interleaving.
THEOREM BanksImplementQueue ==
  ASSUME Careful, OneBank
  PROVE  BanksSpec => ImplementsQueue
<1>1. BanksInit => Abstract!QueueInit
  <2>1. ~FreshSrc.dvalid[FreshSrc.math]
    BY DEF FreshSrc, Banks
  <2>2. PendingBanks(FreshSrc) = <<>>
    BY <2>1 DEF PendingBanks
  <2> QED BY <2>2, SMTT(60) DEF BanksInit, Abstract!QueueInit, Abstract!Srcs, Srcs
<1>2. BanksTypeOK /\ BankSync /\ [BanksNext]_bankVars
        => [Abstract!QueueNext]_[s \in Srcs |-> PendingBanks(src[s])]
  BY QueueStep DEF Queue
<1>3. BanksSpec => []BanksTypeOK
  BY BanksType
<1>4. BanksSpec => []BankSync
  BY BanksInSync, SMTT(60)
<1> QED BY <1>1, <1>2, <1>3, <1>4, PTL DEF BanksSpec, ImplementsQueue, Abstract!QueueSpec
-----------------------------------------------------------------------------
(* Ownership. *)

\* Filling free banks, with or without a hand-over, leaves the owned contents alone.
LEMMA FreeFill ==
  ASSUME NEW r \in SrcType, NEW bs, NEW c \in Content, NEW v, NEW b \in Banks,
         \A x \in bs \cap Banks : ~r.dvalid[x], r.dvalid[b]
  PROVE  GiveIf(v, Fill(r, bs, c)).data[b] = r.data[b]
<1>1. Fill(r, bs, c).data = [x \in Banks |-> IF x \in bs THEN c ELSE r.data[x]]
  BY DEF Fill, SrcType
<1>2. Fill(r, bs, c).data[b] = r.data[b]
  BY <1>1
<1>3. GiveIf(v, Fill(r, bs, c)).data = Fill(r, bs, c).data
  BY FillType, GiveType, Zenon DEF GiveIf
<1> QED BY <1>2, <1>3

\* An unpacker instruction leaves the contents of every bank the matrix unit owns alone.
LEMMA OwnedStep ==
  ASSUME OneBank, BanksTypeOK, BankSync, UnpackerNext, NEW s \in Srcs, NEW b \in Banks,
         src[s].dvalid[b]
  PROVE  src'[s].data[b] = src[s].data[b]
<1>0. src \in [Srcs -> SrcType] /\ \A x \in Srcs : src[x] \in SrcType
  BY SMTT(60) DEF BanksTypeOK
<1>1. ASSUME NEW q \in Srcs, NEW t \in Content, NEW v \in BOOLEAN, Unpacr(q, t, v)
      PROVE  src'[s].data[b] = src[s].data[b]
  <2>1. src' = [src EXCEPT ![q] = GiveIf(v, Fill(src[q], {src[q].unp}, t))]
    BY <1>1, SMTT(60) DEF Unpacr
  <2>2. \A x \in {src[q].unp} \cap Banks : ~src[q].dvalid[x]
    BY <1>1, SMTT(60) DEF Unpacr, UnpacrReady, UnpackerOwns
  <2>3. CASE q = s
    <3>1. GiveIf(v, Fill(src[s], {src[s].unp}, t)).data[b] = src[s].data[b]
      BY <1>0, <2>2, <2>3, FreeFill, SMTT(60)
    <3> QED BY <1>0, <2>1, <2>3, <3>1, SMTT(60)
  <2> QED BY <1>0, <2>1, <2>3, SMTT(60)
<1>2. ASSUME NEW q \in Srcs, NEW v \in BOOLEAN, UnpacrToDst(q, v)
      PROVE  src'[s].data[b] = src[s].data[b]
  <2>1. GiveIf(v, src[q]).data = src[q].data
    BY <1>0, GiveType, Zenon DEF GiveIf
  <2> QED BY <1>0, <1>2, <2>1 DEF UnpacrToDst
<1>3. ASSUME NEW q \in Srcs, NEW w \in BOOLEAN, NEW both \in BOOLEAN, NEW v \in BOOLEAN,
             UnpacrNop(q, w, both, v)
      PROVE  src'[s].data[b] = src[s].data[b]
  <2> DEFINE bs == IF both THEN Banks ELSE {src[q].unp}
  <2>1. src' = [src EXCEPT ![q] = GiveIf(v, Fill(src[q], bs, Zero))]
    BY <1>3, SMTT(60) DEF UnpacrNop
  <2>2. \A x \in bs : ~src[q].dvalid[x]
    BY <1>3, NopFree, SMTT(60)
  <2> HIDE DEF bs
  <2>3. CASE q = s
    <3>1. GiveIf(v, Fill(src[s], bs, Zero)).data[b] = src[s].data[b]
      BY <1>0, <2>2, <2>3, FreeFill, SMTT(60) DEF Content
    <3> QED BY <1>0, <2>1, <2>3, <3>1, SMTT(60)
  <2> QED BY <1>0, <2>1, <2>3, SMTT(60)
<1>4. ASSUME NEW F \in SUBSET Srcs, Setdvalid(F)
      PROVE  src'[s].data[b] = src[s].data[b]
  <2>1. GiveIf(s \in F, src[s]).data = src[s].data
    BY <1>0, GiveType, Zenon DEF GiveIf
  <2> QED BY <1>4, <2>1 DEF Setdvalid
<1> QED BY <1>1, <1>2, <1>3, <1>4 DEF UnpackerNext

\* No unpacker instruction ever changes a bank the matrix unit owns (tensix.h: "true=MatrixUnit
\* owns"), in kernels of the same discipline.
THEOREM BanksOwnedStable ==
  ASSUME Careful, OneBank
  PROVE  BanksSpec => OwnedStable
<1>1. BanksTypeOK /\ BankSync /\ [BanksNext]_bankVars
        => [UnpackerNext => \A s \in Srcs, b \in Banks :
               src[s].dvalid[b] => src'[s].data[b] = src[s].data[b]]_bankVars
  BY OwnedStep
<1>2. BanksSpec => []BanksTypeOK
  BY BanksType
<1>3. BanksSpec => []BankSync
  BY BanksInSync
<1> QED BY <1>1, <1>2, <1>3, PTL DEF BanksSpec, OwnedStable
-----------------------------------------------------------------------------
(* The front end: types. *)

Ids == Hosts \X Nat \X Nat \X Nat
Tokens == [id : Ids, ins : Words]
Gates == {NoGate} \cup {Latch(i) : i \in {j \in Words : j.op \in WaitOps}}
Mops == [active : BOOLEAN, rest : Seq(Tokens)]
Recordings == [left : Nat, index : Nat, ewl : BOOLEAN]
Expansions == [on : BOOLEAN, start : Nat, count : Nat, pos : Nat, by : Ids \cup {<<>>}]
Slots == 0..(ReplaySize - 1)

\* An instruction that core id[1] pushed to thread t, and one that an expander produced.
PushedTo(t, id) ==
    IsPushed(id) /\ id[2] \in 1..Len(prog[id[1]]) /\ prog[id[1]][id[2]].to = t
FromExpander(id) == id[3] # 0 \/ id[4] # 0

Thread == [fifo : Seq(Tokens), cur : Seq(Tokens), gate : Gates, mop : Mops,
           rec : Recordings, exp : Expansions, buf : [Slots -> Words]]

\* What the expanders are to produce comes from places of a body or from an instruction.
ExpandersOK(T) ==
    /\ \A n \in 1..Len(T.mop.rest) : T.mop.rest[n].id[3] # 0
    /\ T.exp.on => T.exp.by \in Ids

\* Where the instructions of thread t's state T came from.
KindsOK(t, T) ==
    /\ Len(T.fifo) <= FifoSize /\ Len(T.cur) <= 1
    /\ \A n \in 1..Len(T.fifo) : PushedTo(t, T.fifo[n].id)
    /\ \A n \in 1..Len(T.cur) : PushedTo(t, T.cur[n].id) \/ FromExpander(T.cur[n].id)
    /\ ExpandersOK(T)

\* The inductive invariant: a core is inside a direct call only at a direct operation, and
\* what was pushed comes from operations it has left behind.
CopInv ==
    /\ CopTypeOK
    /\ prog \in Programs
    /\ pc \in [Hosts -> Nat] /\ phase \in [Hosts -> CopPhases]
    /\ mutex \in [Mutexes -> Threads \cup {Free}]
    /\ th \in [Threads -> Thread]
    /\ done \in [Threads -> Seq(Ids)] /\ pushed \in [Threads -> Seq(Ids)]
    /\ \A h \in Hosts : phase[h] \notin {"ready", "post", "push"} => HasOp(h, "direct")
    /\ \A t \in Threads : KindsOK(t, th[t])
    /\ \A t \in Threads : \A n \in 1..Len(pushed[t]) :
          PushedTo(t, pushed[t][n]) /\ pushed[t][n][2] < pc[pushed[t][n][1]]
-----------------------------------------------------------------------------
(* What the operators do to a thread's state. *)

\* A token's parts, and a token from its parts.
LEMMA TokenType ==
  ASSUME NEW h \in Hosts, NEW k \in Nat, NEW j \in Nat, NEW r \in Nat, NEW i \in Words
  PROVE  /\ Token(<<h, k, j, r>>, i) \in Tokens
         /\ Token(<<h, k, j, r>>, i).id = <<h, k, j, r>>
         /\ Token(<<h, k, j, r>>, i).ins = i
BY Zenon DEF Token, Tokens, Ids

\* The parts of an id.
LEMMA IdParts ==
  ASSUME NEW id \in Ids
  PROVE  /\ id[1] \in Hosts /\ id[2] \in Nat /\ id[3] \in Nat /\ id[4] \in Nat
         /\ id = <<id[1], id[2], id[3], id[4]>>
BY SMTT(60) DEF Ids

\* The instruction a thread takes up, and the thread without it.
LEMMA PoppedThread ==
  ASSUME NEW T \in Thread, ~Idle(T)
  PROVE  /\ Fetched(T) \in Tokens /\ Popped(T) \in Thread
         /\ Popped(T).cur = <<>>
         /\ Popped(T).fifo = IF T.cur # <<>> THEN T.fifo ELSE Tail(T.fifo)
         /\ Popped(T).gate = T.gate /\ Popped(T).mop = T.mop /\ Popped(T).rec = T.rec
         /\ Popped(T).exp = T.exp /\ Popped(T).buf = T.buf
<1>1. T.cur \in Seq(Tokens) /\ T.fifo \in Seq(Tokens)
  BY Zenon DEF Thread
<1>2. <<>> \in Seq(Tokens)
  BY SMTT(60)
<1>3. CASE T.cur # <<>>
  <2>1. T.cur[1] \in Tokens
    BY <1>1, <1>3, SMTT(60)
  <2>2. Fetched(T) = T.cur[1] /\ Popped(T) = [T EXCEPT !.cur = <<>>]
    BY <1>3, Zenon DEF Fetched, Popped
  <2> QED BY <1>2, <1>3, <2>1, <2>2, Zenon DEF Thread
<1>4. CASE T.cur = <<>>
  <2>1. Head(T.fifo) \in Tokens /\ Tail(T.fifo) \in Seq(Tokens)
    BY <1>1, <1>4, SMTT(60) DEF Idle
  <2>2. Fetched(T) = Head(T.fifo) /\ Popped(T) = [T EXCEPT !.fifo = Tail(@)]
    BY <1>4, Zenon DEF Fetched, Popped
  <2> QED BY <1>4, <2>1, <2>2, Zenon DEF Thread
<1> QED BY <1>3, <1>4, Zenon

\* Instructions are what the assumption on the programs says.
LEMMA WordOK ==
  ASSUME NEW i \in Words
  PROVE  InsOK(i)
BY WordsAssumption

\* ttmop: the expansion's tokens stand for places of the MOP's body.
LEMMA MopThread ==
  ASSUME NEW T \in Thread, NEW tok \in Tokens, tok.ins.op = MOP
  PROVE  /\ MopExpand(T, tok) \in Thread
         /\ MopExpand(T, tok).cur = <<>> /\ MopExpand(T, tok).fifo = T.fifo
         /\ MopExpand(T, tok).gate = T.gate /\ MopExpand(T, tok).exp = T.exp
         /\ MopExpand(T, tok).rec = T.rec
         /\ \A n \in 1..Len(MopExpand(T, tok).mop.rest) : MopExpand(T, tok).mop.rest[n].id[3] # 0
<1> DEFINE b == tok.ins.body
           R == [j \in 1..Len(b) |-> Token(<<tok.id[1], tok.id[2], j, 0>>, b[j])]
           M == [active |-> TRUE, rest |-> R]
<1>1. b \in Seq(Words)
  BY WordOK, Zenon DEF Tokens, InsOK
<1>2. tok.id[1] \in Hosts /\ tok.id[2] \in Nat
  BY IdParts, Zenon DEF Tokens
<1>3. Len(b) \in Nat /\ \A j \in 1..Len(b) : b[j] \in Words /\ j \in Nat /\ j # 0 /\ 0 \in Nat
  BY <1>1, SMTT(60)
<1> HIDE DEF b
<1>4. ASSUME NEW j \in 1..Len(b) PROVE R[j] \in Tokens /\ R[j].id[3] = j /\ j # 0
  <2>1. R[j] = Token(<<tok.id[1], tok.id[2], j, 0>>, b[j])
    BY Zenon
  <2> HIDE DEF R
  <2>0. b[j] \in Words /\ j \in Nat /\ 0 \in Nat
    BY <1>3, Zenon
  <2>1a. /\ Token(<<tok.id[1], tok.id[2], j, 0>>, b[j]) \in Tokens
         /\ Token(<<tok.id[1], tok.id[2], j, 0>>, b[j]).id = <<tok.id[1], tok.id[2], j, 0>>
    BY <1>2, <2>0, Zenon DEF Token, Tokens, Ids
  <2>2. R[j] \in Tokens /\ R[j].id = <<tok.id[1], tok.id[2], j, 0>>
    BY <2>1, <2>1a, Zenon
  <2>3. R[j].id[3] = j
    BY <2>2, SMTT(60)
  <2> QED BY <1>3, <2>2, <2>3, Zenon
<1>5. R \in Seq(Tokens) /\ Len(R) = Len(b)
  <2>1. R \in [1..Len(b) -> Tokens]
    BY <1>4, Zenon
  <2>2. DOMAIN R = 1..Len(b)
    BY Zenon
  <2> HIDE DEF R
  <2> QED BY <1>3, <2>1, <2>2, SMTT(60)
<1>6. MopExpand(T, tok) = [T EXCEPT !.mop = M, !.cur = <<>>]
  BY Zenon DEF MopExpand, b
<1>7. M \in Mops /\ M.rest = R
  BY <1>5, Zenon DEF Mops
<1>8. <<>> \in Seq(Tokens)
  BY SMTT(60)
<1> HIDE DEF M, R
<1>9. /\ MopExpand(T, tok) \in Thread /\ MopExpand(T, tok).mop = M
      /\ MopExpand(T, tok).cur = <<>> /\ MopExpand(T, tok).fifo = T.fifo
      /\ MopExpand(T, tok).gate = T.gate /\ MopExpand(T, tok).exp = T.exp
      /\ MopExpand(T, tok).rec = T.rec
  BY <1>6, <1>7, <1>8, Zenon DEF Thread
<1> QED BY <1>4, <1>5, <1>7, <1>9, Zenon

\* ttreplay: nothing of the FIFO and of what waits is touched.
LEMMA ReplayThread ==
  ASSUME NEW T \in Thread, NEW tok \in Tokens, tok.ins.op = "REPLAY", ExpandersOK(T)
  PROVE  /\ SetReplay(T, tok) \in Thread /\ ExpandersOK(SetReplay(T, tok))
         /\ SetReplay(T, tok).cur = T.cur /\ SetReplay(T, tok).fifo = T.fifo
         /\ SetReplay(T, tok).gate = T.gate
<1> DEFINE r == [left |-> tok.ins.count, index |-> tok.ins.start, ewl |-> tok.ins.ewl]
           e == [on |-> TRUE, start |-> tok.ins.start, count |-> tok.ins.count, pos |-> 0,
                 by |-> tok.id]
<1>1. /\ tok.ins.count \in Nat /\ tok.ins.start \in Nat /\ tok.ins.ewl \in BOOLEAN
      /\ tok.id \in Ids /\ 0 \in Nat
  BY WordOK, Zenon DEF Tokens, InsOK
<1>2. r \in Recordings
  BY <1>1, Zenon DEF Recordings
<1>3. e \in Expansions /\ e.by \in Ids
  BY <1>1, Zenon DEF Expansions
<1>4. SetReplay(T, tok) = [T EXCEPT !.rec = r] \/ SetReplay(T, tok) = [T EXCEPT !.exp = e]
  BY Zenon DEF SetReplay
<1> HIDE DEF r, e
<1>5. CASE SetReplay(T, tok) = [T EXCEPT !.rec = r]
  BY <1>2, <1>5, Zenon DEF Thread, ExpandersOK
<1>6. CASE SetReplay(T, tok) = [T EXCEPT !.exp = e]
  BY <1>3, <1>6, Zenon DEF Thread, ExpandersOK
<1> QED BY <1>4, <1>5, <1>6, Zenon

\* Executing an instruction leaves FIFO and gate alone, and drops what waits only when it
\* is a MOP.
LEMMA AfterThread ==
  ASSUME NEW T \in Thread, NEW tok \in Tokens, ExpandersOK(T)
  PROVE  /\ ThreadAfter(T, tok) \in Thread /\ ExpandersOK(ThreadAfter(T, tok))
         /\ ThreadAfter(T, tok).cur = IF tok.ins.op = MOP THEN <<>> ELSE T.cur
         /\ ThreadAfter(T, tok).fifo = T.fifo /\ ThreadAfter(T, tok).gate = T.gate
<1>1. CASE tok.ins.op = MOP
  <2> DEFINE U == MopExpand(T, tok)
  <2>0. tok.ins.op # "REPLAY"
    BY <1>1, SMTT(60) DEF MOP
  <2>1. ThreadAfter(T, tok) = U
    BY <1>1, <2>0, Zenon DEF ThreadAfter
  <2>2. /\ U \in Thread /\ U.cur = <<>> /\ U.fifo = T.fifo /\ U.gate = T.gate /\ U.exp = T.exp
        /\ \A n \in 1..Len(U.mop.rest) : U.mop.rest[n].id[3] # 0
    BY <1>1, MopThread, Zenon
  <2> HIDE DEF U
  <2>3. ExpandersOK(U)
    BY <2>2, Zenon DEF ExpandersOK
  <2> QED BY <1>1, <2>1, <2>2, <2>3, Zenon
<1>2. CASE tok.ins.op = "REPLAY"
  <2>1. tok.ins.op # MOP
    BY <1>2, SMTT(60) DEF MOP
  <2>2. ThreadAfter(T, tok) = SetReplay(T, tok)
    BY <1>2, <2>1, Zenon DEF ThreadAfter
  <2> DEFINE U == SetReplay(T, tok)
  <2>3. U \in Thread /\ ExpandersOK(U) /\ U.cur = T.cur /\ U.fifo = T.fifo /\ U.gate = T.gate
    BY <1>2, ReplayThread, Zenon
  <2> QED BY <1>2, <2>1, <2>2, <2>3, Zenon
<1>3. CASE tok.ins.op # MOP /\ tok.ins.op # "REPLAY"
  <2>1. ThreadAfter(T, tok) = T
    BY <1>3, Zenon DEF ThreadAfter
  <2> QED BY <1>3, <2>1, Zenon
<1> QED BY <1>1, <1>2, <1>3, Zenon

\* A gate put behind an instruction is a gate, and so is the one a wait instruction latches.
LEMMA GateType ==
  ASSUME NEW g \in Gates, NEW i \in Words
  PROVE  GateBehind(g, i) \in Gates /\ (i.op \in WaitOps => Latch(i) \in Gates)
BY Zenon DEF GateBehind, Gates

\* Changing a thread's gate changes nothing else.
LEMMA GateSet ==
  ASSUME NEW T \in Thread, NEW g \in Gates
  PROVE  /\ [T EXCEPT !.gate = g] \in Thread /\ [T EXCEPT !.gate = g].gate = g
         /\ [T EXCEPT !.gate = g].cur = T.cur /\ [T EXCEPT !.gate = g].fifo = T.fifo
         /\ [T EXCEPT !.gate = g].mop = T.mop /\ [T EXCEPT !.gate = g].exp = T.exp
BY Zenon DEF Thread

\* The same with the latch of a wait instruction.
LEMMA LatchThread ==
  ASSUME NEW T \in Thread, NEW tok \in Tokens, ExpandersOK(T)
  PROVE  /\ LatchIfWait(T, tok) \in Thread /\ ExpandersOK(LatchIfWait(T, tok))
         /\ LatchIfWait(T, tok).cur = IF tok.ins.op = MOP THEN <<>> ELSE T.cur
         /\ LatchIfWait(T, tok).fifo = T.fifo
         /\ LatchIfWait(T, tok).gate = IF tok.ins.op \in WaitOps THEN Latch(tok.ins) ELSE T.gate
<1>1. CASE tok.ins.op \in WaitOps
  <2>1. tok.ins.op # MOP
    BY <1>1, SMTT(60) DEF MOP, WaitOps
  <2>2. LatchIfWait(T, tok) = [T EXCEPT !.gate = Latch(tok.ins)]
    BY <1>1, Zenon DEF LatchIfWait
  <2>3. Latch(tok.ins) \in Gates /\ T.gate \in Gates
    BY <1>1, GateType, Zenon DEF Tokens, Thread
  <2> DEFINE U == [T EXCEPT !.gate = Latch(tok.ins)]
  <2>4. /\ U \in Thread /\ U.gate = Latch(tok.ins) /\ U.cur = T.cur /\ U.fifo = T.fifo
        /\ U.mop = T.mop /\ U.exp = T.exp
    BY <2>3, GateSet, Zenon
  <2> HIDE DEF U
  <2>5. ExpandersOK(U)
    BY <2>4, Zenon DEF ExpandersOK
  <2>6. LatchIfWait(T, tok) = U
    BY <2>2 DEF U
  <2> QED BY <1>1, <2>1, <2>4, <2>5, <2>6, Zenon
<1>2. CASE tok.ins.op \notin WaitOps
  <2>1. LatchIfWait(T, tok) = ThreadAfter(T, tok)
    BY <1>2, Zenon DEF LatchIfWait
  <2> DEFINE U == ThreadAfter(T, tok)
  <2>2. /\ U \in Thread /\ ExpandersOK(U) /\ U.cur = IF tok.ins.op = MOP THEN <<>> ELSE T.cur
        /\ U.fifo = T.fifo /\ U.gate = T.gate
    BY AfterThread, Zenon
  <2> QED BY <1>2, <2>1, <2>2, Zenon
<1> QED BY <1>1, <1>2, Zenon
-----------------------------------------------------------------------------
(* The wait gate. *)

\* A latched gate blocks something, so that every wait instruction meets it.
LEMMA GateBlocks ==
  ASSUME NEW g \in Gates, g # NoGate
  PROVE  g.block \subseteq 0..8 /\ g.block # {}
<1>1. PICK i \in Words : i.op \in WaitOps /\ g = Latch(i)
  BY Zenon DEF Gates
<1>2. i.block \subseteq 0..8
  BY <1>1, WordOK, Zenon DEF InsOK
<1>3. g.block = IF i.block = {} THEN {6} ELSE i.block
  BY <1>1, Zenon DEF Latch
<1>4. {6} \subseteq 0..8 /\ {6} # {}
  BY SMTT(60)
<1> QED BY <1>2, <1>3, <1>4, Zenon

\* With no gate there is nothing to wait for.
LEMMA NoGateOpen == GateOpen(NoGate)
<1>1. NoGate.op = "none"
  BY Zenon DEF NoGate
<1>2. NoGate.op # "STALLWAIT" /\ NoGate.op # "SEMWAIT"
  BY <1>1, SMTT(60)
<1> QED BY <1>2, Zenon DEF GateOpen

\* An instruction that passes leaves the gate as it was, or the gate was open.
LEMMA GateMove ==
  ASSUME NEW g \in Gates, NEW i \in Words, Passes(g, i), NEW g2,
         g2 = GateBehind(g, i) \/ (i.op \in WaitOps /\ g2 = Latch(i)),
         g2 # g
  PROVE  GateOpen(g)
<1>1. CASE g = NoGate
  BY <1>1, NoGateOpen, Zenon
<1>2. CASE g # NoGate /\ i.op \notin WaitOps
  BY <1>2, Zenon DEF Passes, GateBehind
<1>3. CASE g # NoGate /\ i.op \in WaitOps
  <2>1. BlockBits(i.op) = 0..8
    BY <1>3, SMTT(60) DEF BlockBits, WaitOps
  <2>2. BlockBits(i.op) \cap g.block # {}
    BY <1>3, <2>1, GateBlocks, Zenon
  <2> QED BY <1>3, <2>2, Zenon DEF Passes, Matches
<1> QED BY <1>1, <1>2, <1>3, Zenon
-----------------------------------------------------------------------------
(* What went through a thread and what is on its way. *)

Way(T, d) == d \o IdsOf(T.cur) \o IdsOf(T.fifo)

\* The ids of a sequence of instructions.
LEMMA IdsType ==
  ASSUME NEW s \in Seq(Tokens)
  PROVE  /\ IdsOf(s) \in Seq(Ids) /\ Len(IdsOf(s)) = Len(s)
         /\ \A n \in 1..Len(s) : IdsOf(s)[n] = s[n].id
<1>1. Len(s) \in Nat /\ \A n \in 1..Len(s) : s[n] \in Tokens
  BY SMTT(60)
<1>2. \A n \in 1..Len(s) : s[n].id \in Ids
  BY <1>1, Zenon DEF Tokens
<1>3. IdsOf(s) \in [1..Len(s) -> Ids] /\ \A n \in 1..Len(s) : IdsOf(s)[n] = s[n].id
  BY <1>2, Zenon DEF IdsOf
<1> QED BY <1>1, <1>3, SMTT(60)

\* No instruction, one instruction, and one before others.
LEMMA IdsOfOne ==
  ASSUME NEW tok \in Tokens
  PROVE  IdsOf(<<>>) = <<>> /\ IdsOf(<<tok>>) = <<tok.id>>
<1>1. <<>> \in Seq(Tokens) /\ Len(<<>>) = 0 /\ <<tok>> \in Seq(Tokens) /\ Len(<<tok>>) = 1
      /\ <<tok>>[1] = tok
  BY SMTT(60)
<1>2. Len(IdsOf(<<>>)) = 0 /\ IdsOf(<<>>) \in Seq(Ids)
  BY <1>1, IdsType, Zenon
<1>3. IdsOf(<<tok>>) \in Seq(Ids) /\ Len(IdsOf(<<tok>>)) = 1
  BY <1>1, IdsType, Zenon
<1>4. IdsOf(<<tok>>)[1] = tok.id
  <2>1. 1 \in 1..Len(<<tok>>)
    BY <1>1, SMTT(60)
  <2> QED BY <1>1, <2>1, IdsType, Zenon
<1> QED BY <1>2, <1>3, <1>4, SMTT(60)

\* The first id, and the others.
LEMMA IdsOfHead ==
  ASSUME NEW s \in Seq(Tokens), s # <<>>
  PROVE  IdsOf(s) = <<Head(s).id>> \o IdsOf(Tail(s))
<1> DEFINE a == IdsOf(s)
           b == IdsOf(Tail(s))
<1>1. /\ Tail(s) \in Seq(Tokens) /\ Len(Tail(s)) = Len(s) - 1 /\ Len(s) \in Nat /\ Len(s) > 0
      /\ Head(s) = s[1] /\ \A n \in 1..(Len(s) - 1) : Tail(s)[n] = s[n + 1]
  BY SMTT(60)
<1>2. a \in Seq(Ids) /\ Len(a) = Len(s) /\ \A n \in 1..Len(s) : a[n] = s[n].id
  BY IdsType, Zenon
<1>3. b \in Seq(Ids) /\ Len(b) = Len(s) - 1 /\ \A n \in 1..(Len(s) - 1) : b[n] = Tail(s)[n].id
  BY <1>1, IdsType, Zenon
<1> HIDE DEF a, b
<1>4. a[1] = Head(s).id /\ \A n \in 1..(Len(s) - 1) : b[n] = a[n + 1]
  <2>1. 1 \in 1..Len(s) /\ \A n \in 1..(Len(s) - 1) : n + 1 \in 1..Len(s)
    BY <1>1, SMTT(60)
  <2> QED BY <1>1, <1>2, <1>3, <2>1, ZenonT(60)
<1>5. a = <<a[1]>> \o b
  BY <1>1, <1>2, <1>3, <1>4, SMTT(60)
<1> QED BY <1>4, <1>5, Zenon DEF a, b

\* Taking up an instruction, to keep it or to run it, leaves the passage as it was.
LEMMA WayTaken ==
  ASSUME NEW T \in Thread, Len(T.cur) <= 1, ~Idle(T), NEW d \in Seq(Ids)
  PROVE  /\ d \o IdsOf(<<Fetched(T)>>) \o IdsOf(Popped(T).fifo) = Way(T, d)
         /\ Append(d, Fetched(T).id) \o IdsOf(<<>>) \o IdsOf(Popped(T).fifo) = Way(T, d)
<1> DEFINE x == Fetched(T).id
           f == IdsOf(Popped(T).fifo)
<1>1. /\ Fetched(T) \in Tokens /\ Popped(T) \in Thread
      /\ Popped(T).fifo = IF T.cur # <<>> THEN T.fifo ELSE Tail(T.fifo)
  BY PoppedThread, Zenon
<1>2. T.cur \in Seq(Tokens) /\ T.fifo \in Seq(Tokens) /\ Popped(T).fifo \in Seq(Tokens)
  BY <1>1, Zenon DEF Thread
<1>3. IdsOf(<<>>) = <<>> /\ IdsOf(<<Fetched(T)>>) = <<x>>
  BY <1>1, IdsOfOne, Zenon
<1>4. x \in Ids /\ f \in Seq(Ids)
  BY <1>1, <1>2, IdsType, Zenon DEF Tokens
<1>5. Way(T, d) = d \o <<x>> \o f
  <2>1. CASE T.cur # <<>>
    <3>1. T.cur = <<T.cur[1]>>
      BY <1>2, <2>1, SMTT(60)
    <3>2. T.cur[1] = Fetched(T) /\ f = IdsOf(T.fifo)
      BY <1>1, <2>1, Zenon DEF Fetched
    <3>3. IdsOf(T.cur) = <<x>>
      BY <1>3, <3>1, <3>2, Zenon
    <3> QED BY <3>2, <3>3, Zenon DEF Way
  <2>2. CASE T.cur = <<>>
    <3>1. T.fifo # <<>> /\ Fetched(T) = Head(T.fifo) /\ f = IdsOf(Tail(T.fifo))
      BY <1>1, <2>2, Zenon DEF Fetched, Idle
    <3>2. IdsOf(T.fifo) = <<x>> \o f
      BY <1>2, <3>1, IdsOfHead, Zenon
    <3>3. Way(T, d) = d \o <<>> \o (<<x>> \o f)
      BY <1>3, <2>2, <3>2, Zenon DEF Way
    <3> HIDE DEF x, f
    <3> QED BY <1>4, <3>3, SMTT(60)
  <2> QED BY <2>1, <2>2, Zenon
<1> HIDE DEF x, f
<1>6. Append(d, x) \o <<>> \o f = d \o <<x>> \o f
  BY <1>4, SMTT(60)
<1> QED BY <1>3, <1>5, <1>6, Zenon DEF x, f
-----------------------------------------------------------------------------
(* One call of tensix_cop_step. *)

\* What is taken up, and what is left in the FIFO, came in where it should.
LEMMA TakenKinds ==
  ASSUME NEW t, NEW T \in Thread, KindsOK(t, T), ~Idle(T)
  PROVE  /\ Len(Popped(T).fifo) <= FifoSize
         /\ \A n \in 1..Len(Popped(T).fifo) : PushedTo(t, Popped(T).fifo[n].id)
         /\ PushedTo(t, Fetched(T).id) \/ FromExpander(Fetched(T).id)
<1>1. T.cur \in Seq(Tokens) /\ T.fifo \in Seq(Tokens)
  BY Zenon DEF Thread
<1>2. Popped(T).fifo = IF T.cur # <<>> THEN T.fifo ELSE Tail(T.fifo)
  BY PoppedThread, Zenon
<1>3. /\ Len(T.fifo) <= FifoSize
      /\ \A n \in 1..Len(T.fifo) : PushedTo(t, T.fifo[n].id)
      /\ \A n \in 1..Len(T.cur) : PushedTo(t, T.cur[n].id) \/ FromExpander(T.cur[n].id)
  BY Zenon DEF KindsOK
<1>4. CASE T.cur # <<>>
  <2>1. 1 \in 1..Len(T.cur)
    BY <1>1, <1>4, SMTT(60)
  <2> QED BY <1>2, <1>3, <1>4, <2>1, Zenon DEF Fetched
<1>5. CASE T.cur = <<>>
  <2>1. /\ Len(Tail(T.fifo)) <= FifoSize /\ 1 \in 1..Len(T.fifo) /\ Head(T.fifo) = T.fifo[1]
        /\ \A n \in 1..Len(Tail(T.fifo)) :
              Tail(T.fifo)[n] = T.fifo[n + 1] /\ n + 1 \in 1..Len(T.fifo)
    BY <1>1, <1>3, <1>5, SizesAssumption, SMTT(60) DEF Idle
  <2>2. \A n \in 1..Len(Tail(T.fifo)) : PushedTo(t, Tail(T.fifo)[n].id)
    BY <1>3, <2>1, Zenon
  <2>3. PushedTo(t, Fetched(T).id)
    BY <1>3, <1>5, <2>1, Zenon DEF Fetched
  <2> QED BY <1>2, <1>5, <2>1, <2>2, <2>3, Zenon
<1> QED BY <1>4, <1>5, Zenon

\* The thread after tensix_cop_step returned true.
RanOne(T) ==
    LatchIfWait([Popped(T) EXCEPT !.gate = GateBehind(@, Fetched(T).ins)], Fetched(T))

\* It is a thread's state, and its FIFO and expanders are in order.
LEMMA RanThread ==
  ASSUME NEW t, NEW T \in Thread, KindsOK(t, T), ~Idle(T)
  PROVE  /\ RanOne(T) \in Thread /\ KindsOK(t, RanOne(T))
         /\ RanOne(T).cur = <<>> /\ RanOne(T).fifo = Popped(T).fifo
         /\ RanOne(T).gate = IF Fetched(T).ins.op \in WaitOps THEN Latch(Fetched(T).ins)
                             ELSE GateBehind(T.gate, Fetched(T).ins)
<1> DEFINE P == Popped(T)
           tok == Fetched(T)
           g == GateBehind(T.gate, tok.ins)
           G == [P EXCEPT !.gate = g]
           U == LatchIfWait(G, tok)
<1>1. /\ tok \in Tokens /\ P \in Thread /\ P.cur = <<>> /\ P.gate = T.gate /\ P.mop = T.mop
      /\ P.exp = T.exp
  BY PoppedThread, Zenon
<1>2. tok.ins \in Words /\ T.gate \in Gates
  BY <1>1, Zenon DEF Tokens, Thread
<1>3. g \in Gates
  BY <1>2, GateType, Zenon
<1>4. /\ Len(P.fifo) <= FifoSize
      /\ \A n \in 1..Len(P.fifo) : PushedTo(t, P.fifo[n].id)
  BY TakenKinds, Zenon
<1>5. ExpandersOK(T)
  BY Zenon DEF KindsOK
<1>6. RanOne(T) = U
  BY <1>1, Zenon DEF RanOne
<1> HIDE DEF P, tok, g
<1>7. /\ G \in Thread /\ G.gate = g /\ G.cur = <<>> /\ G.fifo = P.fifo
      /\ G.mop = T.mop /\ G.exp = T.exp
  BY <1>1, <1>3, GateSet, ZenonT(60)
<1> HIDE DEF G
<1>8. ExpandersOK(G)
  BY <1>5, <1>7, Zenon DEF ExpandersOK
<1>9. /\ U \in Thread /\ ExpandersOK(U) /\ U.cur = <<>> /\ U.fifo = P.fifo
      /\ U.gate = IF tok.ins.op \in WaitOps THEN Latch(tok.ins) ELSE g
  <2>1. /\ U \in Thread /\ ExpandersOK(U) /\ U.cur = IF tok.ins.op = MOP THEN <<>> ELSE G.cur
        /\ U.fifo = G.fifo /\ U.gate = IF tok.ins.op \in WaitOps THEN Latch(tok.ins) ELSE G.gate
    BY <1>1, <1>7, <1>8, LatchThread, Zenon
  <2> HIDE DEF U
  <2> QED BY <1>7, <2>1, Zenon
<1> HIDE DEF U
<1>10. Len(<<>>) <= 1 /\ ~(\E n \in 1..Len(<<>>) : TRUE)
  BY SMTT(60)
<1>11. KindsOK(t, U)
  BY <1>4, <1>9, <1>10, Zenon DEF KindsOK
<1> QED BY <1>6, <1>9, <1>11, Zenon DEF P, tok, g

\* The thread after tensix_cop_step kept what it took up, with either gate.
KeptOne(T, g) == [Popped(T) EXCEPT !.cur = <<Fetched(T)>>, !.gate = g]

\* The same for what was kept.
LEMMA KeptThread ==
  ASSUME NEW t, NEW T \in Thread, KindsOK(t, T), ~Idle(T), NEW g \in Gates
  PROVE  /\ KeptOne(T, g) \in Thread /\ KindsOK(t, KeptOne(T, g))
         /\ KeptOne(T, g).cur = <<Fetched(T)>> /\ KeptOne(T, g).fifo = Popped(T).fifo
         /\ KeptOne(T, g).gate = g
<1> DEFINE P == Popped(T)
           tok == Fetched(T)
           U == [P EXCEPT !.cur = <<tok>>, !.gate = g]
<1>1. tok \in Tokens /\ P \in Thread /\ P.mop = T.mop /\ P.exp = T.exp
  BY PoppedThread, Zenon
<1>2. /\ Len(P.fifo) <= FifoSize
      /\ \A n \in 1..Len(P.fifo) : PushedTo(t, P.fifo[n].id)
      /\ PushedTo(t, tok.id) \/ FromExpander(tok.id)
  BY TakenKinds, Zenon
<1>3. KeptOne(T, g) = U
  BY Zenon DEF KeptOne
<1> HIDE DEF P, tok
<1>4. <<tok>> \in Seq(Tokens) /\ Len(<<tok>>) <= 1 /\ \A n \in 1..Len(<<tok>>) : <<tok>>[n] = tok
  BY <1>1, SMTT(60)
<1>5. /\ U \in Thread /\ U.cur = <<tok>> /\ U.fifo = P.fifo /\ U.gate = g /\ U.mop = T.mop
      /\ U.exp = T.exp
  BY <1>1, <1>4, Zenon DEF Thread
<1> HIDE DEF U
<1>6. ExpandersOK(U)
  BY <1>5, Zenon DEF KindsOK, ExpandersOK
<1>7. KindsOK(t, U)
  BY <1>2, <1>4, <1>5, <1>6, Zenon DEF KindsOK
<1> QED BY <1>3, <1>5, <1>7, Zenon DEF P, tok

\* Thread t moves and no other.
OnlyMoves(t) ==
    /\ th' \in [Threads -> Thread] /\ done' \in [Threads -> Seq(Ids)]
    /\ KindsOK(t, th'[t])
    /\ \A u \in Threads : u # t => th'[u] = th[u] /\ done'[u] = done[u]

\* What an instruction does to the banks, the semaphores and the mutexes.
UnitsOK(t) ==
    /\ BanksTypeOK' /\ sem' \in [Sems -> 0..SemCap]
    /\ mutex' \in [Mutexes -> Threads \cup {Free}]
    /\ \A m \in Mutexes, u \in Threads : mutex[m] = u /\ mutex'[m] # u => u = t

\* Nothing at all.
LEMMA UnitsStay ==
  ASSUME CopInv, UNCHANGED <<bankVars, syncVars>>, NEW t
  PROVE  UnitsOK(t) /\ mutex' = mutex
<1>1. BanksTypeOK /\ sem \in [Sems -> 0..SemCap] /\ mutex \in [Mutexes -> Threads \cup {Free}]
  BY Zenon DEF CopInv, CopTypeOK
<1>2. sem' = sem /\ mutex' = mutex
  BY Zenon DEF syncVars
<1>3. BanksTypeOK'
  BY <1>1, TypeStep, Zenon
<1> QED BY <1>1, <1>2, <1>3, Zenon DEF UnitsOK

\* tensix_cop_execute_insn: semaphores saturate, a mutex is taken when free and given back
\* by its holder only.
LEMMA ExecuteUnits ==
  ASSUME CopInv, NEW t \in Threads, NEW i \in Words, Execute(t, i)
  PROVE  UnitsOK(t)
<1>1. BanksTypeOK /\ sem \in [Sems -> 0..SemCap] /\ mutex \in [Mutexes -> Threads \cup {Free}]
  BY Zenon DEF CopInv, CopTypeOK
<1>2. InsOK(i)
  BY WordOK, Zenon
<1>3. [BanksNext]_bankVars
  <2>1. CASE i.op = "UNPACR" /\ Unpacr(i.src, i.tile, TRUE)
    BY <1>2, <2>1, Zenon DEF InsOK, BanksNext, UnpackerNext
  <2>2. CASE i.op = "SETDVALID" /\ Setdvalid(i.flip)
    BY <1>2, <2>2, Zenon DEF InsOK, BanksNext, UnpackerNext
  <2>3. CASE i.op = "ELW" /\ Elw(i.flip)
    BY <1>2, <2>3, Zenon DEF InsOK, BanksNext, MatrixNext
  <2>4. CASE i.op = "SETRWC" /\ Setrwc(i.flip)
    BY <1>2, <2>4, Zenon DEF InsOK, BanksNext, MatrixNext
  <2>5. CASE SempostByMath
    BY <2>5, Zenon DEF BanksNext, MatrixNext
  <2>6. CASE UNCHANGED bankVars
    BY <2>6, Zenon
  <2> QED BY <2>1, <2>2, <2>3, <2>4, <2>5, <2>6, Zenon DEF Execute
<1>4. BanksTypeOK'
  BY <1>1, <1>3, TypeStep, Zenon
<1>5. sem' \in [Sems -> 0..SemCap]
  <2>1. CASE i.op = "SEMINIT" /\ Seminit(i.sems, i.max, i.init)
    BY <1>1, <1>2, <2>1, Zenon DEF InsOK, Seminit
  <2>2. CASE Sempost(i.sems)
    BY <1>1, <2>2, SemCapAssumption, SMTT(60) DEF Sempost
  <2>3. CASE Semget(i.sems)
    BY <1>1, <2>3, SemCapAssumption, SMTT(60) DEF Semget
  <2>4. CASE sem' = sem
    BY <1>1, <2>4, Zenon
  <2> QED BY <2>1, <2>2, <2>3, <2>4, Zenon DEF Execute, Atgetm, Atrelm, syncVars
<1>6. /\ mutex' \in [Mutexes -> Threads \cup {Free}]
      /\ \A m \in Mutexes, u \in Threads : mutex[m] = u /\ mutex'[m] # u => u = t
  <2>1. CASE Atgetm(t, i.mutex)
    <3>1. \A u \in Threads : u # Free
      BY ThreadsAssumption, SMTT(60) DEF Free
    <3> QED BY <1>1, <2>1, <3>1, Zenon DEF Atgetm
  <2>2. CASE Atrelm(t, i.mutex)
    BY <1>1, <2>2, Zenon DEF Atrelm
  <2>3. CASE mutex' = mutex
    BY <1>1, <2>3, Zenon
  <2> QED BY <2>1, <2>2, <2>3, Zenon DEF Execute, Seminit, Sempost, Semget, syncVars
<1> QED BY <1>4, <1>5, <1>6, Zenon DEF UnitsOK

\* tensix_cop_step returned true.
LEMMA StepTrueEffect ==
  ASSUME CopInv, NEW t \in Threads, StepTrue(t)
  PROVE  /\ OnlyMoves(t) /\ UnitsOK(t)
         /\ done'[t] = Append(done[t], Fetched(th[t]).id)
         /\ Way(th'[t], done'[t]) = Way(th[t], done[t])
         /\ Passes(th[t].gate, Fetched(th[t]).ins) /\ Fetched(th[t]).ins \in Words
         /\ th'[t].gate = IF Fetched(th[t]).ins.op \in WaitOps THEN Latch(Fetched(th[t]).ins)
                          ELSE GateBehind(th[t].gate, Fetched(th[t]).ins)
         /\ th'[t].cur = <<>> /\ ~Idle(th[t])
<1> DEFINE T == th[t]
           tok == Fetched(T)
           U == RanOne(T)
           e == Append(done[t], tok.id)
<1>1. /\ th \in [Threads -> Thread] /\ T \in Thread /\ KindsOK(t, T) /\ done[t] \in Seq(Ids)
      /\ done \in [Threads -> Seq(Ids)]
  BY Zenon DEF CopInv
<1>2. /\ ~Idle(T) /\ Passes(T.gate, tok.ins) /\ th' = [th EXCEPT ![t] = U]
      /\ Execute(t, tok.ins) /\ done' = [done EXCEPT ![t] = e]
  BY Zenon DEF StepTrue, RanOne
<1>3. tok \in Tokens /\ tok.id \in Ids /\ tok.ins \in Words
  BY <1>1, <1>2, PoppedThread, Zenon DEF Tokens
<1>4. /\ U \in Thread /\ KindsOK(t, U) /\ U.cur = <<>> /\ U.fifo = Popped(T).fifo
      /\ U.gate = IF tok.ins.op \in WaitOps THEN Latch(tok.ins) ELSE GateBehind(T.gate, tok.ins)
  BY <1>1, <1>2, RanThread, Zenon
<1>5. e \in Seq(Ids)
  <2> HIDE DEF tok
  <2> QED BY <1>1, <1>3, SMTT(60)
<1>6. Way(U, e) = Way(T, done[t])
  <2>1. Len(T.cur) <= 1
    BY <1>1, Zenon DEF KindsOK
  <2>2. e \o IdsOf(<<>>) \o IdsOf(Popped(T).fifo) = Way(T, done[t])
    BY <1>1, <1>2, <2>1, WayTaken, Zenon
  <2>3. Way(U, e) = e \o IdsOf(U.cur) \o IdsOf(U.fifo)
    BY Zenon DEF Way
  <2> HIDE DEF U, e
  <2> QED BY <1>4, <2>2, <2>3, Zenon
<1>7. UnitsOK(t)
  BY <1>2, <1>3, ExecuteUnits, Zenon
<1> HIDE DEF U, e
<1>8. th'[t] = U /\ done'[t] = e
  BY <1>1, <1>2, Zenon
<1>9. OnlyMoves(t)
  BY <1>1, <1>2, <1>4, <1>5, Zenon DEF OnlyMoves
<1> QED BY <1>2, <1>3, <1>4, <1>6, <1>7, <1>8, <1>9, ZenonT(60) DEF e

\* Keeping the gate as it was.
LEMMA KeptSame ==
  ASSUME NEW P \in Thread, NEW c
  PROVE  [P EXCEPT !.cur = c] = [P EXCEPT !.cur = c, !.gate = P.gate]
BY Zenon DEF Thread

\* tensix_cop_step returned false.
LEMMA StepFalseEffect ==
  ASSUME CopInv, NEW t \in Threads, StepFalse(t)
  PROVE  /\ OnlyMoves(t) /\ UnitsOK(t) /\ mutex' = mutex /\ done' = done
         /\ Way(th'[t], done[t]) = Way(th[t], done[t])
         /\ \/ th'[t].gate = th[t].gate
            \/ /\ Passes(th[t].gate, Fetched(th[t]).ins) /\ Fetched(th[t]).ins \in Words
               /\ th'[t].gate = GateBehind(th[t].gate, Fetched(th[t]).ins)
<1> DEFINE T == th[t]
           tok == Fetched(T)
           h == GateBehind(T.gate, tok.ins)
<1>1. /\ th \in [Threads -> Thread] /\ T \in Thread /\ KindsOK(t, T) /\ done[t] \in Seq(Ids)
      /\ done \in [Threads -> Seq(Ids)]
  BY Zenon DEF CopInv
<1>2. done' = done /\ UNCHANGED <<bankVars, syncVars>>
  BY Zenon DEF StepFalse
<1>3. UnitsOK(t) /\ mutex' = mutex
  BY <1>2, UnitsStay, Zenon
<1>4. CASE th' = th
  BY <1>1, <1>2, <1>3, <1>4, Zenon DEF OnlyMoves
<1>5. ASSUME ~Idle(T), NEW g \in Gates, th' = [th EXCEPT ![t] = KeptOne(T, g)]
      PROVE  /\ OnlyMoves(t) /\ th'[t].gate = g
             /\ Way(th'[t], done[t]) = Way(th[t], done[t])
  <2> DEFINE U == KeptOne(T, g)
  <2>1. /\ U \in Thread /\ KindsOK(t, U) /\ U.cur = <<tok>> /\ U.fifo = Popped(T).fifo
        /\ U.gate = g
    BY <1>1, <1>5, KeptThread, ZenonT(60)
  <2>2. Way(U, done[t]) = Way(T, done[t])
    <3>1. Len(T.cur) <= 1
      BY <1>1, Zenon DEF KindsOK
    <3>2. done[t] \o IdsOf(<<tok>>) \o IdsOf(Popped(T).fifo) = Way(T, done[t])
      BY <1>1, <1>5, <3>1, WayTaken, Zenon
    <3>3. Way(U, done[t]) = done[t] \o IdsOf(U.cur) \o IdsOf(U.fifo)
      BY Zenon DEF Way
    <3> HIDE DEF U
    <3> QED BY <2>1, <3>2, <3>3, Zenon
  <2> HIDE DEF U
  <2>3. th' = [th EXCEPT ![t] = U]
    BY <1>5, Zenon DEF U
  <2>4. th'[t] = U
    BY <1>1, <2>3, Zenon
  <2>5. OnlyMoves(t)
    BY <1>1, <1>2, <2>1, <2>3, Zenon DEF OnlyMoves
  <2> QED BY <2>1, <2>2, <2>4, <2>5, Zenon
<1>6. CASE ~Idle(T) /\ th' = [th EXCEPT ![t] = [Popped(T) EXCEPT !.cur = <<tok>>]]
  <2>1. Popped(T) \in Thread /\ Popped(T).gate = T.gate /\ T.gate \in Gates
    BY <1>1, <1>6, PoppedThread, Zenon DEF Thread
  <2>2. [Popped(T) EXCEPT !.cur = <<tok>>] = KeptOne(T, T.gate)
    BY <2>1, KeptSame, Zenon DEF KeptOne
  <2> QED BY <1>2, <1>3, <1>5, <1>6, <2>1, <2>2, Zenon
<1>7. CASE /\ ~Idle(T) /\ Passes(T.gate, tok.ins)
           /\ th' = [th EXCEPT ![t] = [Popped(T) EXCEPT !.cur = <<tok>>,
                                         !.gate = GateBehind(@, tok.ins)]]
  <2>1. Popped(T).gate = T.gate /\ T.gate \in Gates /\ tok.ins \in Words
    BY <1>1, <1>7, PoppedThread, Zenon DEF Thread, Tokens
  <2>2. h \in Gates
    BY <2>1, GateType, Zenon
  <2>3. [Popped(T) EXCEPT !.cur = <<tok>>, !.gate = GateBehind(@, tok.ins)] = KeptOne(T, h)
    BY <2>1, SMTT(60) DEF KeptOne
  <2>4. th' = [th EXCEPT ![t] = KeptOne(T, h)]
    BY <1>7, <2>3, Zenon
  <2> QED BY <1>2, <1>3, <1>5, <1>7, <2>1, <2>2, <2>4, ZenonT(60)
<1> QED BY <1>4, <1>6, <1>7, ZenonT(60) DEF StepFalse
-----------------------------------------------------------------------------
(* The other steps of a thread. *)

\* The operation a core is at.
LEMMA OpWord ==
  ASSUME CopInv, NEW h \in Hosts, NEW via, HasOp(h, via)
  PROVE  /\ Op(h) \in Operations /\ Op(h).via = via /\ Op(h).ins \in Words
         /\ pc[h] \in Nat /\ pc[h] \in 1..Len(prog[h])
         /\ Len(prog[h]) \in Nat
<1>1. prog \in [Hosts -> Seq(Operations)] /\ pc[h] \in Nat /\ pc[h] \in 1..(Len(prog[h]) + 1)
  BY ProgramsAssumption, Zenon DEF CopInv, CopTypeOK
<1>2. pc[h] <= Len(prog[h]) /\ Op(h).via = via
  BY Zenon DEF HasOp
<1>3. prog[h] \in Seq(Operations)
  BY <1>1, Zenon
<1>4. Len(prog[h]) \in Nat /\ pc[h] \in 1..Len(prog[h]) /\ prog[h][pc[h]] \in Operations
  BY <1>1, <1>2, <1>3, SMTT(60)
<1>5. Op(h) \in Operations
  BY <1>4, Zenon DEF Op
<1>6. Op(h).ins \in Words
  BY <1>5, Zenon DEF Words
<1> QED BY <1>1, <1>2, <1>4, <1>5, <1>6, Zenon

\* Only a TRISC issues directly, and what it issues is not a pushed instruction.
LEMMA DirectOp ==
  ASSUME CopInv, NEW h \in Hosts, HasOp(h, "direct")
  PROVE  /\ h \in Threads /\ Direct(h) \in Tokens /\ Direct(h).id = <<h, pc[h], 0, 0>>
         /\ Direct(h).ins = Op(h).ins /\ Direct(h).id \in Ids
         /\ Via(Direct(h).id) = "direct" /\ ~IsPushed(Direct(h).id) /\ ~FromExpander(Direct(h).id)
<1>1. /\ Op(h).via = "direct" /\ Op(h).ins \in Words /\ pc[h] \in Nat /\ pc[h] \in 1..Len(prog[h])
  BY OpWord, Zenon
<1>2. h \in Threads
  BY <1>1, OperationsAssumption, Zenon DEF CopInv, Op
<1>3. 0 \in Nat
  BY SMTT(60)
<1>4. /\ Direct(h) \in Tokens /\ Direct(h).id = <<h, pc[h], 0, 0>> /\ Direct(h).ins = Op(h).ins
  BY <1>1, <1>3, Zenon DEF Direct, Token, Tokens, Ids
<1>5. /\ Direct(h).id[1] = h /\ Direct(h).id[2] = pc[h]
      /\ Direct(h).id[3] = 0 /\ Direct(h).id[4] = 0
  BY <1>4, SMTT(60)
<1>6. Via(Direct(h).id) = "direct"
  BY <1>1, <1>5, Zenon DEF Via, Op
<1>7. ~IsPushed(Direct(h).id)
  BY <1>6, SMTT(60) DEF IsPushed
<1>8. ~FromExpander(Direct(h).id)
  BY <1>5, Zenon DEF FromExpander
<1>9. Direct(h).id \in Ids
  BY <1>4, Zenon DEF Tokens
<1> QED BY <1>2, <1>4, <1>6, <1>7, <1>8, <1>9, ZenonT(60)

\* An expander fills the place of the waiting instruction.
Refilled(t) ==
    /\ done' = done /\ th[t].cur = <<>> /\ th'[t].fifo = th[t].fifo /\ th'[t].gate = th[t].gate
    /\ \E tok \in Tokens : FromExpander(tok.id) /\ th'[t].cur = <<tok>>

\* An expander comes to its end.
Idled(t) ==
    /\ done' = done /\ th'[t].cur = th[t].cur /\ th'[t].fifo = th[t].fifo
    /\ th'[t].gate = th[t].gate

\* A thread's state with other contents of cur, mop and exp.
LEMMA RefillOnly ==
  ASSUME CopInv, NEW t \in Threads, NEW U \in Thread, th' = [th EXCEPT ![t] = U], done' = done,
         UNCHANGED <<bankVars, syncVars>>,
         U.fifo = th[t].fifo, U.gate = th[t].gate, ExpandersOK(U), Len(U.cur) <= 1,
         \A n \in 1..Len(U.cur) : PushedTo(t, U.cur[n].id) \/ FromExpander(U.cur[n].id)
  PROVE  OnlyMoves(t) /\ UnitsOK(t) /\ mutex' = mutex /\ th'[t] = U
<1>1. th \in [Threads -> Thread] /\ done \in [Threads -> Seq(Ids)] /\ KindsOK(t, th[t])
  BY Zenon DEF CopInv
<1>2. UnitsOK(t) /\ mutex' = mutex
  BY UnitsStay, Zenon
<1>3. KindsOK(t, U)
  BY <1>1, Zenon DEF KindsOK
<1>4. th'[t] = U
  BY <1>1, Zenon
<1>5. OnlyMoves(t)
  BY <1>1, <1>3, Zenon DEF OnlyMoves
<1> QED BY <1>2, <1>4, <1>5, Zenon

\* drain_replay_expansion: the next slot of the replay buffer.
LEMMA ReplayRefill ==
  ASSUME CopInv, NEW t \in Threads, th[t].cur = <<>>, th[t].exp.on, done' = done,
         UNCHANGED <<bankVars, syncVars>>,
         th' = [th EXCEPT ![t] = [th[t] EXCEPT !.exp.pos = @ + 1,
                  !.cur = <<Token(<<th[t].exp.by[1], th[t].exp.by[2], th[t].exp.by[3],
                                    th[t].exp.pos + 1>>,
                              th[t].buf[(th[t].exp.start + th[t].exp.pos) % ReplaySize])>>]]
  PROVE  OnlyMoves(t) /\ UnitsOK(t) /\ mutex' = mutex /\ Refilled(t)
<1> DEFINE T == th[t]
           e == T.exp
           s == (e.start + e.pos) % ReplaySize
           x == Token(<<e.by[1], e.by[2], e.by[3], e.pos + 1>>, T.buf[s])
           U == [T EXCEPT !.exp.pos = @ + 1, !.cur = <<x>>]
<1>1. T \in Thread /\ KindsOK(t, T)
  BY Zenon DEF CopInv
<1>2. ExpandersOK(T)
  BY <1>1, Zenon DEF KindsOK
<1>3. /\ e \in Expansions /\ T.buf \in [Slots -> Words] /\ e.by \in Ids
      /\ T.gate \in Gates
  BY <1>1, <1>2, Zenon DEF Thread, ExpandersOK
<1>4. e.start \in Nat /\ e.pos \in Nat
  BY <1>3, Zenon DEF Expansions
<1>5. /\ e.by[1] \in Hosts /\ e.by[2] \in Nat /\ e.by[3] \in Nat
  BY <1>3, IdParts, ZenonT(60)
<1>6. s \in Slots /\ e.pos + 1 \in Nat /\ e.pos + 1 # 0
  <2> HIDE DEF e
  <2> QED BY <1>4, SizesAssumption, SMTT(60) DEF Slots
<1>7. T.buf[s] \in Words
  <2> HIDE DEF s
  <2> QED BY <1>3, <1>6, Zenon
<1> HIDE DEF s
<1>8. x \in Tokens /\ x.id = <<e.by[1], e.by[2], e.by[3], e.pos + 1>>
  BY <1>5, <1>6, <1>7, Zenon DEF Token, Tokens, Ids
<1>9. FromExpander(x.id)
  <2> DEFINE i == x.id
  <2>1. i = <<e.by[1], e.by[2], e.by[3], e.pos + 1>>
    BY <1>8, ZenonT(60)
  <2> HIDE DEF i, x
  <2>2. i[4] = e.pos + 1
    BY <2>1, SMTT(60)
  <2>3. i[4] # 0
    BY <1>6, <2>2, ZenonT(60)
  <2> QED BY <2>3, Zenon DEF FromExpander, i
<1> HIDE DEF x
<1>10. <<x>> \in Seq(Tokens) /\ Len(<<x>>) <= 1 /\ \A n \in 1..Len(<<x>>) : <<x>>[n] = x
  BY <1>8, SMTT(60)
<1>11. [e EXCEPT !.pos = @ + 1] \in Expansions /\ [e EXCEPT !.pos = @ + 1].by = e.by
  <2> HIDE DEF e
  <2> QED BY <1>3, <1>6, Zenon DEF Expansions
<1>12. /\ U \in Thread /\ U.cur = <<x>> /\ U.fifo = T.fifo /\ U.gate = T.gate /\ U.mop = T.mop
       /\ U.exp = [e EXCEPT !.pos = @ + 1]
  BY <1>1, <1>10, <1>11, Zenon DEF Thread
<1>13. th' = [th EXCEPT ![t] = U]
  BY Zenon DEF x, s
<1> HIDE DEF U
<1>14. ExpandersOK(U)
  BY <1>2, <1>3, <1>11, <1>12, ZenonT(60) DEF ExpandersOK
<1>15. \A n \in 1..Len(U.cur) : PushedTo(t, U.cur[n].id) \/ FromExpander(U.cur[n].id)
  BY <1>9, <1>10, <1>12, Zenon
<1>16. Len(U.cur) <= 1
  BY <1>10, <1>12, Zenon
<1>17. OnlyMoves(t) /\ UnitsOK(t) /\ mutex' = mutex /\ th'[t] = U
  BY <1>12, <1>13, <1>14, <1>15, <1>16, RefillOnly, ZenonT(60)
<1> QED BY <1>8, <1>9, <1>12, <1>17, ZenonT(60) DEF Refilled

\* tensix_cop_mop_expand: the next instruction of the body.
LEMMA MopRefill ==
  ASSUME CopInv, NEW t \in Threads, th[t].cur = <<>>, th[t].mop.rest # <<>>, done' = done,
         UNCHANGED <<bankVars, syncVars>>,
         th' = [th EXCEPT ![t].cur = <<Head(th[t].mop.rest)>>, ![t].mop.rest = Tail(@)]
  PROVE  OnlyMoves(t) /\ UnitsOK(t) /\ mutex' = mutex /\ Refilled(t)
<1> DEFINE T == th[t]
           r == T.mop.rest
           x == Head(r)
           M == [T.mop EXCEPT !.rest = Tail(r)]
           U == [T EXCEPT !.cur = <<x>>, !.mop = M]
<1>1. th \in [Threads -> Thread] /\ T \in Thread /\ KindsOK(t, T)
  BY Zenon DEF CopInv
<1>2. ExpandersOK(T)
  BY <1>1, Zenon DEF KindsOK
<1>3. T.mop \in Mops
  BY <1>1, Zenon DEF Thread
<1>4. r \in Seq(Tokens)
  BY <1>3, Zenon DEF Mops
<1>5. th' = [th EXCEPT ![t] = U]
  BY <1>1, <1>3, Zenon DEF Thread, Mops
<1>6. \A n \in 1..Len(r) : r[n].id[3] # 0
  BY <1>2, Zenon DEF ExpandersOK
<1>7. r # <<>>
  OBVIOUS
<1> HIDE DEF r
<1>8. /\ x \in Tokens /\ x = r[1] /\ 1 \in 1..Len(r) /\ Tail(r) \in Seq(Tokens)
      /\ \A n \in 1..Len(Tail(r)) : Tail(r)[n] = r[n + 1] /\ n + 1 \in 1..Len(r)
  BY <1>4, <1>7, SMTT(60)
<1>9. x.id[3] # 0 /\ \A n \in 1..Len(Tail(r)) : Tail(r)[n].id[3] # 0
  BY <1>6, <1>8, Zenon
<1>10. M \in Mops /\ M.rest = Tail(r)
  BY <1>3, <1>8, ZenonT(60) DEF Mops
<1> HIDE DEF x, M
<1>11. <<x>> \in Seq(Tokens) /\ Len(<<x>>) <= 1 /\ \A n \in 1..Len(<<x>>) : <<x>>[n] = x
  BY <1>8, SMTT(60)
<1>12. /\ U \in Thread /\ U.cur = <<x>> /\ U.fifo = T.fifo /\ U.gate = T.gate /\ U.mop = M
       /\ U.exp = T.exp
  BY <1>1, <1>10, <1>11, Zenon DEF Thread
<1> HIDE DEF U
<1>14. ExpandersOK(U)
  BY <1>2, <1>9, <1>10, <1>12, ZenonT(60) DEF ExpandersOK
<1>15. FromExpander(x.id) /\ \A n \in 1..Len(U.cur) : FromExpander(U.cur[n].id)
  BY <1>9, <1>11, <1>12, Zenon DEF FromExpander
<1>16. Len(U.cur) <= 1
  BY <1>11, <1>12, Zenon
<1>17. OnlyMoves(t) /\ UnitsOK(t) /\ mutex' = mutex /\ th'[t] = U
  BY <1>5, <1>12, <1>14, <1>15, <1>16, RefillOnly, ZenonT(60)
<1> QED BY <1>8, <1>12, <1>15, <1>17, Zenon DEF Refilled

\* An expander that is done with.
LEMMA ExpanderEnds ==
  ASSUME CopInv, NEW t \in Threads, done' = done, UNCHANGED <<bankVars, syncVars>>,
         \/ th' = th
         \/ th' = [th EXCEPT ![t].mop.active = FALSE]
         \/ th' = [th EXCEPT ![t] = [th[t] EXCEPT !.exp = NoExp]]
  PROVE  OnlyMoves(t) /\ UnitsOK(t) /\ mutex' = mutex /\ Idled(t)
<1> DEFINE T == th[t]
<1>1. th \in [Threads -> Thread] /\ T \in Thread /\ KindsOK(t, T)
  BY Zenon DEF CopInv
<1>2. /\ ExpandersOK(T) /\ Len(T.cur) <= 1
      /\ \A n \in 1..Len(T.cur) : PushedTo(t, T.cur[n].id) \/ FromExpander(T.cur[n].id)
  BY <1>1, Zenon DEF KindsOK
<1>3. ASSUME NEW U \in Thread, th' = [th EXCEPT ![t] = U], U.cur = T.cur, U.fifo = T.fifo,
             U.gate = T.gate, ExpandersOK(U)
      PROVE  OnlyMoves(t) /\ UnitsOK(t) /\ mutex' = mutex /\ Idled(t)
  <2>1. OnlyMoves(t) /\ UnitsOK(t) /\ mutex' = mutex /\ th'[t] = U
    <3>1. Len(U.cur) <= 1
      BY <1>2, <1>3, Zenon
    <3>2. \A n \in 1..Len(U.cur) : PushedTo(t, U.cur[n].id) \/ FromExpander(U.cur[n].id)
      BY <1>2, <1>3, Zenon
    <3> QED BY <1>3, <3>1, <3>2, RefillOnly, Zenon
  <2> QED BY <1>3, <2>1, Zenon DEF Idled
<1>4. CASE th' = th
  <2>1. th' = [th EXCEPT ![t] = T]
    BY <1>1, <1>4, Zenon
  <2> QED BY <1>1, <1>2, <1>3, <2>1, Zenon
<1>5. CASE th' = [th EXCEPT ![t].mop.active = FALSE]
  <2> DEFINE M == [T.mop EXCEPT !.active = FALSE]
             U == [T EXCEPT !.mop = M]
  <2>1. M \in Mops /\ M.rest = T.mop.rest
    BY <1>1, Zenon DEF Thread, Mops
  <2>2. th' = [th EXCEPT ![t] = U]
    BY <1>1, <1>5, Zenon DEF Thread, Mops
  <2> HIDE DEF M
  <2>3. /\ U \in Thread /\ U.cur = T.cur /\ U.fifo = T.fifo /\ U.gate = T.gate
        /\ U.mop = M /\ U.exp = T.exp
    BY <1>1, <2>1, Zenon DEF Thread
  <2> HIDE DEF U
  <2>4. ExpandersOK(U)
    BY <1>2, <2>1, <2>3, Zenon DEF ExpandersOK
  <2> QED BY <1>3, <2>2, <2>3, <2>4, Zenon
<1>6. CASE th' = [th EXCEPT ![t] = [T EXCEPT !.exp = NoExp]]
  <2> DEFINE U == [T EXCEPT !.exp = NoExp]
  <2>1. 0 \in Nat
    BY SMTT(60)
  <2>2. NoExp \in Expansions /\ NoExp.on = FALSE
    BY <2>1, Zenon DEF NoExp, Expansions
  <2>3. /\ U \in Thread /\ U.cur = T.cur /\ U.fifo = T.fifo /\ U.gate = T.gate
        /\ U.mop = T.mop /\ U.exp = NoExp
    BY <1>1, <2>2, Zenon DEF Thread
  <2>4. th' = [th EXCEPT ![t] = U]
    BY <1>6, Zenon
  <2> HIDE DEF U
  <2>5. ExpandersOK(U)
    BY <1>2, <2>2, <2>3, Zenon DEF ExpandersOK
  <2> QED BY <1>3, <2>3, <2>4, <2>5, ZenonT(60)
<1> QED BY <1>4, <1>5, <1>6, Zenon

\* What a step does to the thread it is about: its gate is left by an instruction that
\* passed, and its passage stays, or an expander's instruction comes in, or a direct one.
SameWay(t) == Way(th'[t], done'[t]) = Way(th[t], done[t])

GateMoved(t) ==
    \/ th'[t].gate = th[t].gate
    \/ \E i \in Words :
          /\ Passes(th[t].gate, i)
          /\ \/ th'[t].gate = GateBehind(th[t].gate, i)
             \/ i.op \in WaitOps /\ th'[t].gate = Latch(i)

TookUp(t) ==
    /\ ~Idle(th[t]) /\ Passes(th[t].gate, Fetched(th[t]).ins)
    /\ done'[t] = Append(done[t], Fetched(th[t]).id)
    /\ SameWay(t)

DirectRan(t) ==
    /\ HasOp(t, "direct") /\ phase[t] = "exec"
    /\ done'[t] = Append(done[t], Direct(t).id)
    /\ th'[t].fifo = th[t].fifo
    /\ th'[t].cur = th[t].cur \/ (Op(t).ins.op = MOP /\ th'[t].cur = <<>>)
    /\ ~(th[t].rec.left > 0) => Passes(th[t].gate, Op(t).ins)

Effect(t) ==
    /\ OnlyMoves(t) /\ UnitsOK(t) /\ GateMoved(t)
    /\ \/ done' = done /\ mutex' = mutex /\ (SameWay(t) \/ Refilled(t))
       \/ TookUp(t)
       \/ DirectRan(t)

\* A call of tensix_cop_step, whatever it returns.
LEMMA StepEffect ==
  ASSUME CopInv, NEW t \in Threads, StepTrue(t) \/ StepFalse(t)
  PROVE  Effect(t)
<1>1. CASE StepTrue(t)
  BY <1>1, StepTrueEffect, ZenonT(60) DEF Effect, TookUp, GateMoved, SameWay
<1>2. CASE StepFalse(t)
  <2>1. /\ OnlyMoves(t) /\ UnitsOK(t) /\ mutex' = mutex /\ done' = done
        /\ Way(th'[t], done[t]) = Way(th[t], done[t])
    BY <1>2, StepFalseEffect, Zenon
  <2>2. GateMoved(t)
    BY <1>2, StepFalseEffect, Zenon DEF GateMoved
  <2>3. SameWay(t)
    BY <2>1, Zenon DEF SameWay
  <2> QED BY <2>1, <2>2, <2>3, Zenon DEF Effect
<1> QED BY <1>1, <1>2, Zenon

\* A step of an expander.
LEMMA RefillEffect ==
  ASSUME NEW t \in Threads, OnlyMoves(t), UnitsOK(t), mutex' = mutex, Refilled(t) \/ Idled(t)
  PROVE  Effect(t)
<1>1. done' = done /\ GateMoved(t)
  BY Zenon DEF Refilled, Idled, GateMoved
<1>2. Idled(t) => SameWay(t)
  BY Zenon DEF Idled, SameWay, Way
<1> QED BY <1>1, <1>2, Zenon DEF Effect

\* mop_continue_execution and drain_replay_expansion.
LEMMA ExpandEffect ==
  ASSUME CopInv, NEW h \in Hosts, Expand(h)
  PROVE  h \in Threads /\ Effect(h)
<1>1. HasOp(h, "direct")
  <2>1. phase[h] \in {"mopEntry", "mopDrain", "mop", "replay"}
    BY Zenon DEF Expand
  <2>2. phase[h] \notin {"ready", "post", "push"}
    BY <2>1, SMTT(60)
  <2> QED BY <2>2, Zenon DEF CopInv
<1>2. h \in Threads
  BY <1>1, DirectOp, Zenon
<1>3. CASE StepTrue(h) \/ StepFalse(h)
  BY <1>2, <1>3, StepEffect, Zenon
<1> DEFINE T == th[h]
           e == T.exp
           X == [T EXCEPT !.exp = NoExp]
           Y == [T EXCEPT !.exp.pos = @ + 1,
                          !.cur = <<Token(<<e.by[1], e.by[2], e.by[3], e.pos + 1>>,
                                      T.buf[(e.start + e.pos) % ReplaySize])>>]
<1>4. CASE /\ T.cur = <<>> /\ UNCHANGED <<done, bankVars, syncVars>> /\ e.on
           /\ th' = [th EXCEPT ![h] = IF e.pos >= e.count THEN X ELSE Y]
  <2>1. done' = done /\ UNCHANGED <<bankVars, syncVars>>
    BY <1>4, Zenon
  <2>2. th' = [th EXCEPT ![h] = X] \/ th' = [th EXCEPT ![h] = Y]
    <3> HIDE DEF X, Y
    <3> QED BY <1>4, Zenon
  <2>3. CASE th' = [th EXCEPT ![h] = X]
    BY <1>2, <2>1, <2>3, ExpanderEnds, RefillEffect, Zenon
  <2>4. CASE th' = [th EXCEPT ![h] = Y]
    BY <1>2, <1>4, <2>1, <2>4, ReplayRefill, RefillEffect, ZenonT(60)
  <2> QED BY <1>2, <2>2, <2>3, <2>4, Zenon
<1>5. CASE /\ T.cur = <<>> /\ UNCHANGED <<done, bankVars, syncVars>> /\ T.mop.rest # <<>>
           /\ th' = [th EXCEPT ![h].cur = <<Head(T.mop.rest)>>, ![h].mop.rest = Tail(@)]
  <2>1. done' = done /\ UNCHANGED <<bankVars, syncVars>>
    BY <1>5, Zenon
  <2> QED BY <1>2, <1>5, <2>1, MopRefill, RefillEffect, Zenon
<1>6. CASE /\ UNCHANGED <<done, bankVars, syncVars>>
           /\ th' = th \/ th' = [th EXCEPT ![h].mop.active = FALSE]
  <2>1. done' = done /\ UNCHANGED <<bankVars, syncVars>>
    BY <1>6, Zenon
  <2> QED BY <1>2, <1>6, <2>1, ExpanderEnds, RefillEffect, ZenonT(60)
<1> QED BY <1>3, <1>4, <1>5, <1>6, ZenonT(60) DEF Expand

\* A thread's state with the direct instruction in the replay buffer.
Recorded(h) ==
    [th[h] EXCEPT !.buf[th[h].rec.index % ReplaySize] = Op(h).ins,
                  !.rec.index = @ + 1,
                  !.rec.left = @ - 1]

\* A recorded instruction leaves everything but the replay buffer and the recorder alone.
LEMMA RecordedThread ==
  ASSUME CopInv, NEW h \in Threads, th[h].rec.left > 0, Op(h).ins \in Words
  PROVE  /\ Recorded(h) \in Thread /\ ExpandersOK(Recorded(h))
         /\ Recorded(h).cur = th[h].cur /\ Recorded(h).fifo = th[h].fifo
         /\ Recorded(h).gate = th[h].gate
<1> DEFINE T == th[h]
           s == T.rec.index % ReplaySize
           b == [T.buf EXCEPT ![s] = Op(h).ins]
           r == [T.rec EXCEPT !.index = @ + 1, !.left = @ - 1]
           U == [T EXCEPT !.buf = b, !.rec = r]
<1>1. T \in Thread /\ KindsOK(h, T)
  BY Zenon DEF CopInv
<1>2. T.rec \in Recordings /\ T.buf \in [Slots -> Words]
  BY <1>1, Zenon DEF Thread
<1>3. T.rec.index \in Nat /\ T.rec.left \in Nat
  BY <1>2, Zenon DEF Recordings
<1>4. T.rec.index + 1 \in Nat /\ T.rec.left - 1 \in Nat
  BY <1>3, SMTT(60)
<1>5. b \in [Slots -> Words]
  BY <1>2, Zenon
<1>6. r \in Recordings
  BY <1>2, <1>4, Zenon DEF Recordings
<1>7. Recorded(h) = U
  BY <1>1, <1>2, Zenon DEF Recorded, Thread, Recordings
<1> HIDE DEF b, r
<1>8. /\ U \in Thread /\ U.cur = T.cur /\ U.fifo = T.fifo /\ U.gate = T.gate /\ U.mop = T.mop
      /\ U.exp = T.exp
  BY <1>1, <1>5, <1>6, Zenon DEF Thread
<1> HIDE DEF U
<1>9. ExpandersOK(U)
  BY <1>1, <1>8, Zenon DEF KindsOK, ExpandersOK
<1> QED BY <1>7, <1>8, <1>9, Zenon

\* A thread whose waiting instruction stays or is dropped.
LEMMA DirectMoves ==
  ASSUME CopInv, NEW h \in Threads, NEW U \in Thread, ExpandersOK(U),
         U.cur = th[h].cur \/ U.cur = <<>>, U.fifo = th[h].fifo,
         th' = [th EXCEPT ![h] = U],
         NEW d \in Seq(Ids), done' = [done EXCEPT ![h] = d]
  PROVE  OnlyMoves(h) /\ th'[h] = U /\ done'[h] = d
<1>1. /\ th \in [Threads -> Thread] /\ done \in [Threads -> Seq(Ids)] /\ KindsOK(h, th[h])
  BY Zenon DEF CopInv
<1>2. Len(<<>>) <= 1 /\ ~(\E n \in 1..Len(<<>>) : TRUE)
  BY SMTT(60)
<1>3. KindsOK(h, U)
  BY <1>1, <1>2, Zenon DEF KindsOK
<1>4. th'[h] = U /\ done'[h] = d
  BY <1>1, Zenon
<1> QED BY <1>1, <1>3, <1>4, ZenonT(60) DEF OnlyMoves

\* Recording.
LEMMA RecordEffect ==
  ASSUME CopInv, NEW h \in Hosts, HasOp(h, "direct"), phase[h] = "exec", th[h].rec.left > 0,
         Record(h)
  PROVE  Effect(h)
<1> DEFINE i == Op(h).ins
           R == Recorded(h)
           runs == th[h].rec.ewl /\ (i.op = "PACR" \/ Ready(i))
           A == ThreadAfter(R, Direct(h))
           d == Append(done[h], Direct(h).id)
<1>1. /\ h \in Threads /\ Direct(h) \in Tokens /\ Direct(h).ins = i /\ Direct(h).id \in Ids
      /\ i \in Words
  BY DirectOp, OpWord, Zenon
<1>2. /\ th' = [th EXCEPT ![h] = IF runs THEN A ELSE R]
      /\ IF runs THEN Execute(h, i) ELSE UNCHANGED <<bankVars, syncVars>>
      /\ done' = IF th[h].rec.ewl => runs THEN [done EXCEPT ![h] = d] ELSE done
  BY Zenon DEF Record, Recorded
<1>3. /\ R \in Thread /\ ExpandersOK(R) /\ R.cur = th[h].cur /\ R.fifo = th[h].fifo
      /\ R.gate = th[h].gate
  BY <1>1, RecordedThread, Zenon
<1> HIDE DEF R
<1>4. /\ A \in Thread /\ ExpandersOK(A) /\ A.fifo = th[h].fifo /\ A.gate = th[h].gate
      /\ A.cur = IF i.op = MOP THEN <<>> ELSE th[h].cur
  <2>1. /\ A \in Thread /\ ExpandersOK(A) /\ A.fifo = R.fifo /\ A.gate = R.gate
        /\ A.cur = IF Direct(h).ins.op = MOP THEN <<>> ELSE R.cur
    BY <1>1, <1>3, AfterThread, ZenonT(60)
  <2> HIDE DEF A
  <2> QED BY <1>1, <1>3, <2>1, ZenonT(60)
<1>5. done[h] \in Seq(Ids) /\ done \in [Threads -> Seq(Ids)]
  BY <1>1, Zenon DEF CopInv
<1>6. d \in Seq(Ids)
  BY <1>1, <1>5, SMTT(60)
<1> HIDE DEF A, d, i
<1>7. CASE runs
  <2>1. th' = [th EXCEPT ![h] = A] /\ done' = [done EXCEPT ![h] = d] /\ Execute(h, i)
    BY <1>2, <1>7, Zenon
  <2>2. OnlyMoves(h) /\ th'[h] = A /\ done'[h] = d
    BY <1>1, <1>4, <1>6, <2>1, DirectMoves, ZenonT(60)
  <2>3. UnitsOK(h)
    BY <1>1, <2>1, ExecuteUnits, Zenon
  <2> QED BY <1>4, <2>2, <2>3, Zenon DEF Effect, GateMoved, DirectRan, d, i
<1>8. CASE ~runs
  <2>1. th' = [th EXCEPT ![h] = R] /\ UNCHANGED <<bankVars, syncVars>>
    BY <1>2, <1>8, Zenon
  <2>2. UnitsOK(h) /\ mutex' = mutex
    BY <2>1, UnitsStay, Zenon
  <2>3. CASE done' = [done EXCEPT ![h] = d]
    <3>1. OnlyMoves(h) /\ th'[h] = R /\ done'[h] = d
      BY <1>1, <1>3, <1>6, <2>1, <2>3, DirectMoves, ZenonT(60)
    <3> QED BY <1>3, <2>2, <3>1, Zenon DEF Effect, GateMoved, DirectRan, d, i
  <2>4. CASE done' = done
    <3>1. done' = [done EXCEPT ![h] = done[h]]
      BY <1>5, <2>4, ZenonT(60)
    <3>2. OnlyMoves(h) /\ th'[h] = R /\ done'[h] = done[h]
      BY <1>1, <1>3, <1>5, <2>1, <3>1, DirectMoves, ZenonT(60)
    <3>3. SameWay(h) /\ GateMoved(h)
      BY <1>3, <3>2, Zenon DEF SameWay, Way, GateMoved
    <3> QED BY <2>2, <2>4, <3>2, <3>3, Zenon DEF Effect
  <2> QED BY <1>2, <2>3, <2>4, Zenon
<1> QED BY <1>7, <1>8, Zenon

\* The rest of tensix_cop_step_direct.
LEMMA ExecEffect ==
  ASSUME CopInv, NEW h \in Hosts, Exec(h)
  PROVE  h \in Threads /\ Effect(h)
<1> DEFINE T == th[h]
           i == Op(h).ins
           g == GateBehind(T.gate, i)
           G == [T EXCEPT !.gate = g]
           E == LatchIfWait(G, Direct(h))
           d == Append(done[h], Direct(h).id)
           recording == T.rec.left > 0 /\ i.op # "MOP_CFG"
<1>1. phase[h] = "exec"
  BY Zenon DEF Exec
<1>2. HasOp(h, "direct")
  <2>1. phase[h] \notin {"ready", "post", "push"}
    BY <1>1, SMTT(60)
  <2> QED BY <2>1, Zenon DEF CopInv
<1>3. /\ h \in Threads /\ Direct(h) \in Tokens /\ Direct(h).ins = i /\ Direct(h).id \in Ids
      /\ i \in Words
  BY <1>2, DirectOp, OpWord, ZenonT(60)
<1>4. CASE recording /\ Record(h)
  BY <1>1, <1>2, <1>3, <1>4, RecordEffect, ZenonT(60)
<1>5. /\ T \in Thread /\ KindsOK(h, T) /\ done[h] \in Seq(Ids) /\ th \in [Threads -> Thread]
      /\ done \in [Threads -> Seq(Ids)]
  BY <1>3, Zenon DEF CopInv
<1>6. T.gate \in Gates /\ ExpandersOK(T)
  BY <1>5, Zenon DEF Thread, KindsOK
<1>7. g \in Gates
  BY <1>3, <1>6, GateType, ZenonT(60)
<1>8. /\ G \in Thread /\ G.gate = g /\ G.cur = T.cur /\ G.fifo = T.fifo /\ G.mop = T.mop
      /\ G.exp = T.exp
  <2> HIDE DEF g, T
  <2> QED BY <1>5, <1>7, GateSet, ZenonT(60)
<1>9. ExpandersOK(G)
  <2> HIDE DEF G
  <2> QED BY <1>6, <1>8, Zenon DEF ExpandersOK
<1>10. /\ E \in Thread /\ ExpandersOK(E) /\ E.fifo = T.fifo
       /\ E.cur = IF i.op = MOP THEN <<>> ELSE T.cur
       /\ E.gate = IF i.op \in WaitOps THEN Latch(i) ELSE g
  <2>1. /\ E \in Thread /\ ExpandersOK(E) /\ E.fifo = G.fifo
        /\ E.cur = IF Direct(h).ins.op = MOP THEN <<>> ELSE G.cur
        /\ E.gate = IF Direct(h).ins.op \in WaitOps THEN Latch(Direct(h).ins) ELSE G.gate
    <3> HIDE DEF G
    <3> QED BY <1>3, <1>8, <1>9, LatchThread, ZenonT(60)
  <2> HIDE DEF E, G
  <2> QED BY <1>3, <1>8, <2>1, ZenonT(60)
<1>11. d \in Seq(Ids)
  BY <1>3, <1>5, SMTT(60)
<1>12. ASSUME ~Passes(T.gate, i) \/ ~Ready(i), UNCHANGED <<done, bankVars, syncVars>>,
              th' = IF Passes(T.gate, i) THEN [th EXCEPT ![h] = G] ELSE th
       PROVE  Effect(h)
  <2>1. done' = done /\ UNCHANGED <<bankVars, syncVars>>
    BY <1>12, ZenonT(60)
  <2>2. UnitsOK(h) /\ mutex' = mutex
    BY <2>1, UnitsStay, Zenon
  <2>3. done' = [done EXCEPT ![h] = done[h]]
    BY <1>5, <2>1, Zenon
  <2>4. CASE Passes(T.gate, i)
    <3>1. th' = [th EXCEPT ![h] = G]
      BY <1>12, <2>4, Zenon
    <3> HIDE DEF G
    <3>2. OnlyMoves(h) /\ th'[h] = G /\ done'[h] = done[h]
      BY <1>3, <1>5, <1>8, <1>9, <2>3, <3>1, DirectMoves, ZenonT(60)
    <3>3. SameWay(h)
      BY <1>8, <3>2, Zenon DEF SameWay, Way
    <3>4. GateMoved(h)
      BY <1>3, <1>8, <2>4, <3>2, ZenonT(60) DEF GateMoved
    <3> QED BY <2>1, <2>2, <3>2, <3>3, <3>4, ZenonT(60) DEF Effect
  <2>5. CASE ~Passes(T.gate, i)
    <3>1. th' = th
      BY <1>12, <2>5, Zenon
    <3>2. th' = [th EXCEPT ![h] = T]
      BY <1>5, <3>1, Zenon
    <3>3. OnlyMoves(h)
      BY <1>3, <1>5, <1>6, <2>3, <3>2, DirectMoves, ZenonT(60)
    <3>4. SameWay(h) /\ GateMoved(h)
      BY <2>1, <3>1, Zenon DEF SameWay, Way, GateMoved
    <3> QED BY <2>1, <2>2, <3>3, <3>4, ZenonT(60) DEF Effect
  <2> QED BY <2>4, <2>5, Zenon
<1>13. ASSUME Passes(T.gate, i), th' = [th EXCEPT ![h] = E], Execute(h, i),
              done' = [done EXCEPT ![h] = d]
       PROVE  Effect(h)
  <2> HIDE DEF E, d
  <2>1. OnlyMoves(h) /\ th'[h] = E /\ done'[h] = d
    BY <1>3, <1>10, <1>11, <1>13, DirectMoves, ZenonT(60)
  <2>2. UnitsOK(h)
    BY <1>3, <1>13, ExecuteUnits, Zenon
  <2>3. GateMoved(h)
    BY <1>3, <1>10, <1>13, <2>1, ZenonT(60) DEF GateMoved
  <2>4. DirectRan(h)
    BY <1>1, <1>2, <1>10, <1>13, <2>1, ZenonT(60) DEF DirectRan, d
  <2> QED BY <2>1, <2>2, <2>3, <2>4, ZenonT(60) DEF Effect
<1> QED BY <1>3, <1>4, <1>12, <1>13, ZenonT(60) DEF Exec, DirectPasses, Direct, Token
-----------------------------------------------------------------------------
(* Every step. *)

\* The instruction a core pushes, and its way into the FIFO.
PushTok(h) == Token(<<h, pc[h], 0, 0>>, Op(h).ins)

PushIn(h) ==
    LET t == Op(h).to
    IN  /\ HasOp(h, "push") /\ t \in Threads /\ ~FifoFull(th[t])
        /\ th' \in [Threads -> Thread] /\ KindsOK(t, th'[t])
        /\ \A u \in Threads : u # t => th'[u] = th[u]
        /\ th'[t].cur = th[t].cur /\ th'[t].gate = th[t].gate
        /\ th'[t].fifo = Append(th[t].fifo, PushTok(h))
        /\ pushed' = [pushed EXCEPT ![t] = Append(@, PushTok(h).id)]
        /\ pc' = [pc EXCEPT ![h] = @ + 1]
        /\ done' = done

\* What a pushed instruction is.
LEMMA PushOp ==
  ASSUME CopInv, NEW h \in Hosts, HasOp(h, "push")
  PROVE  /\ Op(h).to \in Threads /\ PushTok(h) \in Tokens /\ PushTok(h).id \in Ids
         /\ PushTok(h).id = <<h, pc[h], 0, 0>>
         /\ PushTok(h).id[1] = h /\ PushTok(h).id[2] = pc[h]
         /\ PushedTo(Op(h).to, PushTok(h).id)
<1>1. /\ Op(h).via = "push" /\ Op(h).ins \in Words /\ pc[h] \in Nat /\ pc[h] \in 1..Len(prog[h])
      /\ Op(h) \in Operations
  BY OpWord, Zenon
<1>2. Op(h).to \in Threads
  BY <1>1, OperationsAssumption, Zenon
<1>3. 0 \in Nat
  BY SMTT(60)
<1>4. PushTok(h) \in Tokens /\ PushTok(h).id = <<h, pc[h], 0, 0>>
  BY <1>1, <1>3, Zenon DEF PushTok, Token, Tokens, Ids
<1> DEFINE x == PushTok(h).id
<1>5. x = <<h, pc[h], 0, 0>>
  BY <1>4, Zenon
<1> HIDE DEF x
<1>6. x[1] = h /\ x[2] = pc[h] /\ x[3] = 0 /\ x[4] = 0
  BY <1>5, SMTT(60)
<1>7. PushedTo(Op(h).to, x)
  BY <1>1, <1>6, Zenon DEF PushedTo, IsPushed, Via, Op
<1>8. x \in Ids
  BY <1>4, Zenon DEF Tokens, x
<1> QED BY <1>2, <1>4, <1>6, <1>7, <1>8, ZenonT(60) DEF x

\* A push into a FIFO that is not full.
LEMMA PushEffect ==
  ASSUME CopInv, NEW h \in Hosts, HasOp(h, "push"), ~FifoFull(th[Op(h).to]),
         th' = [th EXCEPT ![Op(h).to].fifo = Append(@, PushTok(h))],
         pushed' = [pushed EXCEPT ![Op(h).to] = Append(@, PushTok(h).id)],
         pc' = [pc EXCEPT ![h] = @ + 1], done' = done
  PROVE  PushIn(h)
<1> DEFINE t == Op(h).to
           T == th[t]
           f == Append(T.fifo, PushTok(h))
           U == [T EXCEPT !.fifo = f]
<1>1. t \in Threads /\ PushTok(h) \in Tokens /\ PushedTo(t, PushTok(h).id)
  BY PushOp, Zenon
<1>2. th \in [Threads -> Thread] /\ T \in Thread /\ KindsOK(t, T)
  BY <1>1, Zenon DEF CopInv
<1>3. T.fifo \in Seq(Tokens) /\ \A n \in 1..Len(T.fifo) : PushedTo(t, T.fifo[n].id)
  BY <1>2, ZenonT(60) DEF Thread, KindsOK
<1>4. ~FifoFull(T) /\ th' = [th EXCEPT ![t].fifo = Append(@, PushTok(h))]
      /\ pushed' = [pushed EXCEPT ![t] = Append(@, PushTok(h).id)]
  OBVIOUS
<1> HIDE DEF t
<1>5. /\ f \in Seq(Tokens) /\ Len(f) <= FifoSize /\ Len(f) = Len(T.fifo) + 1
      /\ \A n \in 1..Len(f) : (n \in 1..Len(T.fifo) /\ f[n] = T.fifo[n]) \/ f[n] = PushTok(h)
  <2>1. Len(T.fifo) < FifoSize /\ FifoSize \in Nat
    BY <1>3, <1>4, SizesAssumption, SMTT(60) DEF FifoFull
  <2> QED BY <1>1, <1>3, <2>1, SMTT(60)
<1>6. th' = [th EXCEPT ![t] = U]
  BY <1>2, <1>4, ZenonT(60) DEF Thread
<1> HIDE DEF f
<1>7. \A n \in 1..Len(f) : PushedTo(t, f[n].id)
  BY <1>1, <1>3, <1>5, ZenonT(60)
<1>8. /\ U \in Thread /\ U.fifo = f /\ U.cur = T.cur /\ U.gate = T.gate /\ U.mop = T.mop
      /\ U.exp = T.exp
  BY <1>2, <1>5, ZenonT(60) DEF Thread
<1> HIDE DEF U
<1>9. KindsOK(t, U)
  BY <1>2, <1>5, <1>7, <1>8, ZenonT(60) DEF KindsOK, ExpandersOK
<1>10. th'[t] = U /\ th' \in [Threads -> Thread] /\ \A u \in Threads : u # t => th'[u] = th[u]
  BY <1>1, <1>2, <1>6, <1>8, ZenonT(60)
<1> QED BY <1>1, <1>4, <1>8, <1>9, <1>10, ZenonT(60) DEF PushIn, t, f

\* A step that leaves the threads alone.
ThreadsStay ==
    /\ th' = th /\ done' = done /\ mutex' = mutex /\ pushed' = pushed
    /\ BanksTypeOK' /\ sem' \in [Sems -> 0..SemCap]

\* A store to a semaphore.
LEMMA MmioEffect ==
  ASSUME CopInv, NEW h \in Hosts, MmioSem(h)
  PROVE  ThreadsStay
<1>1. BanksTypeOK /\ sem \in [Sems -> 0..SemCap]
  BY Zenon DEF CopInv, CopTypeOK
<1>2. /\ th' = th /\ done' = done /\ pushed' = pushed /\ UNCHANGED bankVars
      /\ HasOp(h, "mmio")
  BY Zenon DEF MmioSem
<1>3. BanksTypeOK'
  BY <1>1, <1>2, TypeStep, ZenonT(60)
<1>4. Op(h) \in Operations /\ Op(h).via = "mmio"
  BY <1>2, OpWord, Zenon
<1> DEFINE i == Op(h).ins
<1>5. CASE Sempost({i.sem})
  <2> HIDE DEF i
  <2>1. sem' \in [Sems -> 0..SemCap]
    BY <1>1, <1>5, SemCapAssumption, SMTT(60) DEF Sempost
  <2>2. mutex' = mutex
    BY <1>5, ZenonT(60) DEF Sempost
  <2> QED BY <1>2, <1>3, <2>1, <2>2, ZenonT(60) DEF ThreadsStay
<1>6. CASE Semget({i.sem})
  <2> HIDE DEF i
  <2>1. sem' \in [Sems -> 0..SemCap]
    BY <1>1, <1>6, SemCapAssumption, SMTT(60) DEF Semget
  <2>2. mutex' = mutex
    BY <1>6, Zenon DEF Semget
  <2> QED BY <1>2, <1>3, <2>1, <2>2, Zenon DEF ThreadsStay
<1>7. CASE i.op = "write" /\ Seminit({i.sem}, sem_max[i.sem], i.value)
  <2>1. i.value \in 0..SemCap
    BY <1>4, <1>7, OperationsAssumption, ZenonT(60)
  <2> HIDE DEF i
  <2>2. sem' \in [Sems -> 0..SemCap] /\ mutex' = mutex
    BY <1>1, <1>7, <2>1, ZenonT(60) DEF Seminit
  <2> QED BY <1>2, <1>3, <2>2, ZenonT(60) DEF ThreadsStay
<1> QED BY <1>5, <1>6, <1>7, ZenonT(60) DEF MmioSem

\* What a step is: one thread moves, an instruction enters a FIFO, or the threads stay.
LEMMA CopCases ==
  ASSUME CopInv, CopNext
  PROVE  \/ pushed' = pushed /\ \E t \in Threads : Effect(t)
         \/ \E h \in Hosts : PushIn(h) /\ UNCHANGED <<bankVars, syncVars>>
         \/ ThreadsStay
<1>1. PICK h \in Hosts : HostStep(h) \/ BlockEnd(h)
  BY Zenon DEF CopNext
<1>2. CASE StartDirect(h)
  <2>1. th' = th /\ done' = done /\ pushed' = pushed /\ UNCHANGED <<bankVars, syncVars>>
    BY <1>2, Zenon DEF StartDirect
  <2>2. BanksTypeOK' /\ sem' \in [Sems -> 0..SemCap] /\ mutex' = mutex
    BY <2>1, UnitsStay, ZenonT(60) DEF UnitsOK
  <2> QED BY <2>1, <2>2, ZenonT(60) DEF ThreadsStay
<1>3. CASE Drain(h)
  <2>1. phase[h] = "drain"
    BY <1>3, Zenon DEF Drain
  <2>2. pushed' = pushed /\ (StepTrue(h) \/ StepFalse(h))
    BY <1>3, Zenon DEF Drain
  <2>3. phase[h] \notin {"ready", "post", "push"}
    BY <2>1, SMTT(60)
  <2>4. h \in Threads
    BY <2>3, DirectOp, ZenonT(60) DEF CopInv
  <2> QED BY <2>2, <2>4, StepEffect, ZenonT(60)
<1>4. CASE Expand(h)
  BY <1>4, ExpandEffect, ZenonT(60) DEF Expand
<1>5. CASE Exec(h)
  BY <1>5, ExecEffect, ZenonT(60) DEF Exec
<1>6. CASE Push(h)
  <2>1. HasOp(h, "push")
    BY <1>6, Zenon DEF Push
  <2>2. Op(h).to \in Threads
    BY <2>1, PushOp, ZenonT(60)
  <2>3. CASE pushed' = pushed /\ (StepTrue(Op(h).to) \/ StepFalse(Op(h).to))
    BY <2>2, <2>3, StepEffect, ZenonT(60)
  <2>4. CASE /\ ~FifoFull(th[Op(h).to])
             /\ th' = [th EXCEPT ![Op(h).to].fifo = Append(@, PushTok(h))]
             /\ pushed' = [pushed EXCEPT ![Op(h).to] = Append(@, PushTok(h).id)]
             /\ pc' = [pc EXCEPT ![h] = @ + 1]
             /\ UNCHANGED <<retry, done, bankVars, syncVars, aborted>>
    <3>1. done' = done /\ UNCHANGED <<bankVars, syncVars>>
      BY <2>4, Zenon
    <3>2. PushIn(h)
      BY <2>1, <2>4, <3>1, PushEffect, ZenonT(60)
    <3> QED BY <3>1, <3>2, ZenonT(60)
  <2> QED BY <1>6, <2>3, <2>4, ZenonT(60) DEF Push, PushTok
<1>7. CASE MmioSem(h)
  BY <1>7, MmioEffect, ZenonT(60)
<1>8. CASE BlockEnd(h)
  BY <1>8, StepEffect, ZenonT(60) DEF BlockEnd
<1> QED BY <1>1, <1>2, <1>3, <1>4, <1>5, <1>6, <1>7, <1>8, ZenonT(60) DEF HostStep
-----------------------------------------------------------------------------
(* The cores. *)

\* A core stays at its operation, or completes one.
StaysAt(h, ph) == phase' = [phase EXCEPT ![h] = ph] /\ pc' = pc
MovesOn(h, ph) == phase' = [phase EXCEPT ![h] = ph] /\ pc' = [pc EXCEPT ![h] = @ + 1]

Away == {"ready", "post", "push"}

\* Inside a direct call a core stays at its direct operation; it leaves it complete or to
\* try again.
LEMMA CoreSteps ==
  ASSUME CopInv, CopNext
  PROVE  \E h \in Hosts :
           \/ \E ph \in CopPhases : StaysAt(h, ph) /\ (ph \in Away \/ HasOp(h, "direct"))
           \/ \E ph \in Away, via \in {"direct", "push", "mmio"} : HasOp(h, via) /\ MovesOn(h, ph)
<1> USE DEF Enter, Stay
<1>1. PICK h \in Hosts : HostStep(h) \/ BlockEnd(h)
  BY Zenon DEF CopNext
<1>0. \A ph \in {"mopEntry", "drain", "mopDrain", "exec", "mop", "replay"} :
         ph \in CopPhases /\ ph \notin Away
  BY SMTT(60) DEF CopPhases, Away
<1>a. \A ph \in {"ready", "post", "push"} : ph \in CopPhases /\ ph \in Away
  BY SMTT(60) DEF CopPhases, Away
<1>b. phase \in [Hosts -> CopPhases]
  BY Zenon DEF CopInv
<1>c. phase[h] \notin Away => HasOp(h, "direct")
  BY Zenon DEF CopInv, Away
<1>2. CASE StartDirect(h)
  BY <1>0, <1>2, ZenonT(60) DEF StartDirect, StaysAt
<1>3. CASE Drain(h)
  <2>1. HasOp(h, "direct")
    BY <1>0, <1>3, <1>c, ZenonT(60) DEF Drain
  <2> QED BY <1>0, <1>3, <2>1, ZenonT(60) DEF Drain, StaysAt
<1>4. CASE Expand(h)
  <2>1. HasOp(h, "direct")
    BY <1>0, <1>4, <1>c, ZenonT(60) DEF Expand
  <2>2. CASE Stay(h, phase[h])
    BY <1>b, <2>1, <2>2, ZenonT(60) DEF StaysAt
  <2>3. CASE Blocked(h)
    BY <1>a, <2>3, ZenonT(60) DEF StaysAt, Blocked
  <2>4. CASE Expanded(h)
    <3>1. CASE Complete(h)
      BY <1>a, <2>1, <3>1, ZenonT(60) DEF MovesOn, Complete
    <3>2. CASE Stay(h, "drain") \/ Stay(h, "exec")
      BY <1>0, <2>1, <3>2, ZenonT(60) DEF StaysAt
    <3> HIDE DEF Stay
    <3>3. phase[h] # "mopEntry" \/ phase[h] # "mopDrain"
      BY SMTT(60)
    <3> QED BY <2>4, <3>1, <3>2, <3>3, ZenonT(60) DEF Expanded
  <2> HIDE DEF Stay, Enter
  <2> QED BY <1>4, <2>2, <2>3, <2>4, ZenonT(60) DEF Expand
<1>5. CASE Exec(h)
  <2>1. HasOp(h, "direct")
    BY <1>0, <1>5, <1>c, ZenonT(60) DEF Exec
  <2>2. CASE Complete(h)
    BY <1>a, <2>1, <2>2, Zenon DEF MovesOn, Complete
  <2>3. CASE Blocked(h)
    BY <1>a, <2>3, Zenon DEF StaysAt, Blocked
  <2>4. CASE Stay(h, "mop") \/ Stay(h, "replay")
    BY <1>0, <2>1, <2>4, ZenonT(60) DEF StaysAt
  <2> HIDE DEF Stay, Enter
  <2> QED BY <1>5, <2>2, <2>3, <2>4, ZenonT(60) DEF Exec, Record
<1>6. CASE Push(h)
  <2>1. HasOp(h, "push")
    BY <1>6, Zenon DEF Push
  <2>2. CASE Stay(h, "push")
    BY <1>a, <2>2, ZenonT(60) DEF StaysAt
  <2>3. CASE pc' = [pc EXCEPT ![h] = @ + 1] /\ Enter(h, "ready")
    BY <1>a, <2>1, <2>3, ZenonT(60) DEF MovesOn
  <2> HIDE DEF Stay, Enter
  <2> QED BY <1>6, <2>2, <2>3, ZenonT(60) DEF Push
<1>7. CASE MmioSem(h)
  <2>1. HasOp(h, "mmio") /\ phase[h] = "ready" /\ phase' = phase /\ pc' = [pc EXCEPT ![h] = @ + 1]
    BY <1>7, ZenonT(60) DEF MmioSem
  <2>2. phase' = [phase EXCEPT ![h] = "ready"]
    BY <1>b, <2>1, ZenonT(60)
  <2> QED BY <1>a, <2>1, <2>2, ZenonT(60) DEF MovesOn
<1>8. CASE BlockEnd(h)
  BY <1>8, <1>a, ZenonT(60) DEF BlockEnd, StaysAt
<1> QED BY <1>1, <1>2, <1>3, <1>4, <1>5, <1>6, <1>7, <1>8, ZenonT(60) DEF HostStep

\* The cores' part of the invariant.
LEMMA CoreInv ==
  ASSUME CopInv, CopNext
  PROVE  /\ prog' = prog
         /\ pc' \in [Hosts -> Nat] /\ phase' \in [Hosts -> CopPhases]
         /\ \A h \in Hosts : pc'[h] \in 1..(Len(prog[h]) + 1) /\ pc[h] <= pc'[h]
         /\ \A h \in Hosts : phase'[h] \notin Away => HasOp(h, "direct")'
<1>1. /\ pc \in [Hosts -> Nat] /\ phase \in [Hosts -> CopPhases]
      /\ \A h \in Hosts : pc[h] \in 1..(Len(prog[h]) + 1)
      /\ \A h \in Hosts : phase[h] \notin Away => HasOp(h, "direct")
  BY Zenon DEF CopInv, CopTypeOK, Away
<1>2. prog' = prog
  BY Zenon DEF CopNext
<1>3. \A h \in Hosts : pc'[h] = pc[h] => (HasOp(h, "direct")' <=> HasOp(h, "direct"))
  BY <1>2, ZenonT(60) DEF HasOp, Op
<1>4. \A h \in Hosts : pc[h] \in Nat /\ pc[h] <= pc[h]
  BY <1>1, SMTT(60)
<1>5. PICK h \in Hosts :
           \/ \E ph \in CopPhases : StaysAt(h, ph) /\ (ph \in Away \/ HasOp(h, "direct"))
           \/ \E ph \in Away, via \in {"direct", "push", "mmio"} : HasOp(h, via) /\ MovesOn(h, ph)
  BY CoreSteps, Zenon
<1>6. ASSUME NEW ph \in CopPhases, StaysAt(h, ph), ph \in Away \/ HasOp(h, "direct")
      PROVE  /\ pc' \in [Hosts -> Nat] /\ phase' \in [Hosts -> CopPhases]
             /\ \A k \in Hosts : pc'[k] \in 1..(Len(prog[k]) + 1) /\ pc[k] <= pc'[k]
             /\ \A k \in Hosts : phase'[k] \notin Away => HasOp(k, "direct")'
  <2>1. pc' = pc /\ phase' = [phase EXCEPT ![h] = ph]
    BY <1>6, ZenonT(60) DEF StaysAt
  <2>2. \A k \in Hosts : HasOp(k, "direct")' <=> HasOp(k, "direct")
    BY <1>3, <2>1, ZenonT(60)
  <2>3. phase' \in [Hosts -> CopPhases]
    BY <1>1, <2>1, ZenonT(60)
  <2>4. \A k \in Hosts : phase'[k] \notin Away => HasOp(k, "direct")'
    BY <1>1, <1>6, <2>1, <2>2, ZenonT(60)
  <2> QED BY <1>1, <1>4, <2>1, <2>3, <2>4, ZenonT(60)
<1>7. ASSUME NEW ph \in Away, NEW via, HasOp(h, via), MovesOn(h, ph)
      PROVE  /\ pc' \in [Hosts -> Nat] /\ phase' \in [Hosts -> CopPhases]
             /\ \A k \in Hosts : pc'[k] \in 1..(Len(prog[k]) + 1) /\ pc[k] <= pc'[k]
             /\ \A k \in Hosts : phase'[k] \notin Away => HasOp(k, "direct")'
  <2>1. pc' = [pc EXCEPT ![h] = pc[h] + 1] /\ phase' = [phase EXCEPT ![h] = ph]
    BY <1>7, Zenon DEF MovesOn
  <2>2. pc[h] \in 1..Len(prog[h]) /\ Len(prog[h]) \in Nat
    BY <1>7, OpWord, ZenonT(60)
  <2>3. /\ pc[h] + 1 \in Nat /\ pc[h] + 1 \in 1..(Len(prog[h]) + 1) /\ pc[h] <= pc[h] + 1
    BY <2>2, SMTT(60)
  <2>4. ph \in CopPhases
    BY SMTT(60) DEF Away, CopPhases
  <2>5. pc' \in [Hosts -> Nat] /\ phase' \in [Hosts -> CopPhases]
    BY <1>1, <2>1, <2>3, <2>4, ZenonT(60)
  <2>6. \A k \in Hosts : pc'[k] \in 1..(Len(prog[k]) + 1) /\ pc[k] <= pc'[k]
    BY <1>1, <1>4, <2>1, <2>3, ZenonT(60)
  <2>7. \A k \in Hosts : phase'[k] \notin Away => HasOp(k, "direct")'
    BY <1>1, <1>3, <2>1, ZenonT(60)
  <2> QED BY <2>5, <2>6, <2>7, ZenonT(60)
<1> QED BY <1>2, <1>5, <1>6, <1>7, ZenonT(60)
-----------------------------------------------------------------------------
(* The invariant. *)

\* Programs do not change, so an instruction keeps the kind it has.
LEMMA KindsPrime ==
  ASSUME NEW t, prog' = prog
  PROVE  KindsOK(t, th'[t]) => KindsOK(t, th[t])'
BY Zenon DEF KindsOK, PushedTo, IsPushed, Via, FromExpander, ExpandersOK

\* The same for what was pushed.
LEMMA PushedPrime ==
  ASSUME NEW t, NEW n, prog' = prog
  PROVE  PushedTo(t, pushed'[t][n]) => PushedTo(t, pushed[t][n])'
BY Zenon DEF PushedTo, IsPushed, Via

\* What was pushed, after another push and without one.
LEMMA PushedInv ==
  ASSUME CopInv, CopNext
  PROVE  /\ pushed' \in [Threads -> Seq(Ids)]
         /\ \A t \in Threads : \A n \in 1..Len(pushed'[t]) :
               PushedTo(t, pushed'[t][n]) /\ pushed'[t][n][2] < pc'[pushed'[t][n][1]]
<1>1. /\ pushed \in [Threads -> Seq(Ids)] /\ pc \in [Hosts -> Nat]
      /\ \A t \in Threads : \A n \in 1..Len(pushed[t]) :
            PushedTo(t, pushed[t][n]) /\ pushed[t][n][2] < pc[pushed[t][n][1]]
  BY Zenon DEF CopInv
<1>2. pc' \in [Hosts -> Nat] /\ \A h \in Hosts : pc[h] <= pc'[h]
  BY CoreInv, Zenon
<1>3. ASSUME NEW t \in Threads, NEW n \in 1..Len(pushed[t])
      PROVE  PushedTo(t, pushed[t][n]) /\ pushed[t][n][2] < pc'[pushed[t][n][1]]
  <2> DEFINE x == pushed[t][n]
  <2>1. pushed[t] \in Seq(Ids)
    BY <1>1, ZenonT(60)
  <2>2. x \in Ids
    BY <2>1, SMTT(60)
  <2>3. PushedTo(t, x) /\ x[2] < pc[x[1]]
    BY <1>1, Zenon
  <2> HIDE DEF x
  <2>4. x[1] \in Hosts /\ x[2] \in Nat
    BY <2>2, IdParts, ZenonT(60)
  <2>5. pc[x[1]] \in Nat /\ pc'[x[1]] \in Nat /\ pc[x[1]] <= pc'[x[1]]
    BY <1>1, <1>2, <2>4, ZenonT(60)
  <2>6. x[2] < pc'[x[1]]
    BY <2>3, <2>4, <2>5, SMTT(60)
  <2> QED BY <2>3, <2>6, ZenonT(60) DEF x
<1>4. CASE pushed' = pushed
  BY <1>1, <1>3, <1>4, ZenonT(60)
<1>5. ASSUME NEW h \in Hosts, PushIn(h)
      PROVE  /\ pushed' \in [Threads -> Seq(Ids)]
             /\ \A t \in Threads : \A n \in 1..Len(pushed'[t]) :
                   PushedTo(t, pushed'[t][n]) /\ pushed'[t][n][2] < pc'[pushed'[t][n][1]]
  <2> DEFINE u == Op(h).to
             x == PushTok(h).id
             q == Append(pushed[u], x)
  <2>1. /\ HasOp(h, "push") /\ u \in Threads /\ pushed' = [pushed EXCEPT ![u] = q]
        /\ pc' = [pc EXCEPT ![h] = @ + 1]
    BY <1>5, Zenon DEF PushIn
  <2>2. x \in Ids /\ x[1] = h /\ x[2] = pc[h] /\ PushedTo(u, x)
    BY <2>1, PushOp, ZenonT(60)
  <2> HIDE DEF u, x
  <2>3. pc[h] \in Nat /\ pc'[h] = pc[h] + 1
    BY <1>1, <2>1, Zenon
  <2>4. x[2] < pc'[x[1]]
    BY <2>2, <2>3, SMTT(60)
  <2>5. pushed[u] \in Seq(Ids)
    BY <1>1, <2>1, ZenonT(60)
  <2>6. /\ q \in Seq(Ids)
        /\ \A n \in 1..Len(q) : (n \in 1..Len(pushed[u]) /\ q[n] = pushed[u][n]) \/ q[n] = x
    BY <2>2, <2>5, SMTT(60)
  <2> HIDE DEF q
  <2>7. pushed' \in [Threads -> Seq(Ids)] /\ pushed'[u] = q
        /\ \A t \in Threads : t # u => pushed'[t] = pushed[t]
    BY <1>1, <2>1, <2>6, ZenonT(60)
  <2>8. ASSUME NEW t \in Threads, NEW n \in 1..Len(pushed'[t])
        PROVE  PushedTo(t, pushed'[t][n]) /\ pushed'[t][n][2] < pc'[pushed'[t][n][1]]
    <3>1. CASE t # u
      <4>1. pushed'[t] = pushed[t]
        BY <2>7, <3>1, ZenonT(60)
      <4> QED BY <1>3, <4>1, ZenonT(60)
    <3>2. CASE t = u
      <4>1. n \in 1..Len(q) /\ pushed'[t][n] = q[n]
        BY <2>7, <3>2, ZenonT(60)
      <4> QED BY <1>3, <2>1, <2>2, <2>4, <2>6, <3>2, <4>1, ZenonT(60)
    <3> QED BY <3>1, <3>2, ZenonT(60)
  <2> QED BY <2>7, <2>8, ZenonT(60)
<1> QED BY <1>4, <1>5, CopCases, ZenonT(60) DEF ThreadsStay

\* Every step keeps the invariant.
LEMMA CopInvStep ==
  ASSUME CopInv, [CopNext]_copVars
  PROVE  CopInv'
<1>1. CASE CopNext
  <2>1. /\ prog \in Programs /\ th \in [Threads -> Thread] /\ done \in [Threads -> Seq(Ids)]
        /\ \A t \in Threads : KindsOK(t, th[t])
        /\ mutex \in [Mutexes -> Threads \cup {Free}]
    BY Zenon DEF CopInv
  <2>2. /\ prog' = prog
        /\ pc' \in [Hosts -> Nat] /\ phase' \in [Hosts -> CopPhases]
        /\ \A h \in Hosts : pc'[h] \in 1..(Len(prog[h]) + 1)
        /\ \A h \in Hosts : phase'[h] \notin Away => HasOp(h, "direct")'
    BY <1>1, CoreInv, ZenonT(60)
  <2>3. /\ pushed' \in [Threads -> Seq(Ids)]
        /\ \A t \in Threads : \A n \in 1..Len(pushed'[t]) :
              PushedTo(t, pushed'[t][n]) /\ pushed'[t][n][2] < pc'[pushed'[t][n][1]]
    BY <1>1, PushedInv, ZenonT(60)
  <2>4. /\ th' \in [Threads -> Thread] /\ done' \in [Threads -> Seq(Ids)]
        /\ \A t \in Threads : KindsOK(t, th'[t])
        /\ BanksTypeOK' /\ sem' \in [Sems -> 0..SemCap]
        /\ mutex' \in [Mutexes -> Threads \cup {Free}]
    <3>1. ASSUME NEW t \in Threads, Effect(t) PROVE <2>4
      BY <2>1, <3>1, ZenonT(60) DEF Effect, OnlyMoves, UnitsOK
    <3>2. ASSUME NEW h \in Hosts, PushIn(h), UNCHANGED <<bankVars, syncVars>> PROVE <2>4
      <4>1. UnitsOK(h)
        BY <3>2, UnitsStay, ZenonT(60)
      <4> QED BY <2>1, <3>2, <4>1, ZenonT(60) DEF PushIn, UnitsOK
    <3>3. CASE ThreadsStay
      BY <2>1, <3>3, ZenonT(60) DEF ThreadsStay
    <3> QED BY <1>1, <3>1, <3>2, <3>3, CopCases, ZenonT(60)
  <2>5. \A t \in Threads : KindsOK(t, th[t])'
    BY <2>2, <2>4, KindsPrime, ZenonT(60)
  <2>6. \A t \in Threads : Len(th'[t].fifo) <= FifoSize /\ Len(th'[t].cur) <= 1
    BY <2>4, Zenon DEF KindsOK
  <2>7. \A h \in Hosts : pc'[h] \in 1..(Len(prog'[h]) + 1) /\ phase'[h] \in CopPhases
    BY <2>2, Zenon
  <2>8. CopTypeOK'
    BY <2>4, <2>6, <2>7, ZenonT(60) DEF CopTypeOK
  <2>9. \A t \in Threads : \A n \in 1..Len(pushed'[t]) :
              PushedTo(t, pushed[t][n])' /\ pushed'[t][n][2] < pc'[pushed'[t][n][1]]
    BY <2>2, <2>3, PushedPrime, ZenonT(60)
  <2>10. \A h \in Hosts : phase'[h] \notin {"ready", "post", "push"} => HasOp(h, "direct")'
    BY <2>2, ZenonT(60) DEF Away
  <2> QED BY <2>1, <2>2, <2>3, <2>4, <2>5, <2>8, <2>9, <2>10, ZenonT(60) DEF CopInv
<1>2. CASE UNCHANGED copVars
  <2>1. /\ prog' = prog /\ pc' = pc /\ phase' = phase /\ th' = th /\ done' = done
        /\ pushed' = pushed /\ sem' = sem /\ mutex' = mutex /\ UNCHANGED bankVars
    BY <1>2, Zenon DEF copVars, hostVars, syncVars
  <2>2. BanksTypeOK'
    BY <2>1, TypeStep, ZenonT(60) DEF CopInv, CopTypeOK
  <2>3. CopTypeOK'
    BY <2>1, <2>2, ZenonT(60) DEF CopInv, CopTypeOK
  <2>4. \A t \in Threads : KindsOK(t, th[t])'
    <3>1. \A t \in Threads : KindsOK(t, th'[t])
      BY <2>1, Zenon DEF CopInv
    <3> QED BY <2>1, <3>1, KindsPrime, ZenonT(60)
  <2>5. \A t \in Threads : \A n \in 1..Len(pushed'[t]) :
              PushedTo(t, pushed[t][n])' /\ pushed'[t][n][2] < pc'[pushed'[t][n][1]]
    <3>1. \A t \in Threads : \A n \in 1..Len(pushed'[t]) :
              PushedTo(t, pushed'[t][n]) /\ pushed'[t][n][2] < pc'[pushed'[t][n][1]]
      BY <2>1, ZenonT(60) DEF CopInv
    <3> QED BY <2>1, <3>1, PushedPrime, ZenonT(60)
  <2>6. \A h \in Hosts : phase'[h] \notin {"ready", "post", "push"} => HasOp(h, "direct")'
    BY <2>1, ZenonT(60) DEF CopInv, HasOp, Op
  <2> QED BY <2>1, <2>3, <2>4, <2>5, <2>6, ZenonT(60) DEF CopInv
<1> QED BY <1>1, <1>2, ZenonT(60)

\* The state tensix_cop_init leaves.
LEMMA CopInvInit == CopInit => CopInv
<1> SUFFICES ASSUME CopInit PROVE CopInv
  OBVIOUS
<1>1. /\ prog \in Programs /\ pc = [h \in Hosts |-> 1] /\ phase = [h \in Hosts |-> "ready"]
      /\ th = [t \in Threads |-> FreshThread] /\ done = [t \in Threads |-> <<>>]
      /\ pushed = [t \in Threads |-> <<>>] /\ sem = [q \in Sems |-> 0]
      /\ mutex = [m \in Mutexes |-> Free] /\ BanksInit
  BY Zenon DEF CopInit, SyncInit
<1>2. /\ 0 \in Nat /\ 1 \in Nat /\ 0 \in 0..SemCap /\ <<>> \in Seq(Tokens) /\ <<>> \in Seq(Ids)
      /\ Len(<<>>) = 0 /\ 1..0 = {} /\ 0 <= 1 /\ 0 <= FifoSize
  BY SemCapAssumption, SizesAssumption, SMTT(60)
<1>3. "ready" \in CopPhases /\ "ready" \in {"ready", "post", "push"}
  BY SMTT(60) DEF CopPhases
<1>4. BanksTypeOK
  BY <1>1, FreshType, ZenonT(60) DEF BanksInit, BanksTypeOK
<1>5. FreshThread \in Thread
  <2>1. NoExp \in Expansions
    BY <1>2, Zenon DEF NoExp, Expansions
  <2>2. NoGate \in Gates /\ NOP \in Words
    BY Zenon DEF Gates, Words
  <2>3. [n \in 0..(ReplaySize - 1) |-> NOP] \in [Slots -> Words]
    BY <2>2, Zenon DEF Slots
  <2>4. [left |-> 0, index |-> 0, ewl |-> FALSE] \in Recordings
    BY <1>2, Zenon DEF Recordings
  <2>5. [active |-> FALSE, rest |-> <<>>] \in Mops
    BY <1>2, Zenon DEF Mops
  <2> QED BY <1>2, <2>1, <2>2, <2>3, <2>4, <2>5, ZenonT(60) DEF FreshThread, Thread
<1>6. \A t \in Threads : KindsOK(t, FreshThread)
  <2>1. /\ FreshThread.fifo = <<>> /\ FreshThread.cur = <<>> /\ FreshThread.mop.rest = <<>>
        /\ FreshThread.exp.on = FALSE
    BY Zenon DEF FreshThread, NoExp
  <2> QED BY <1>2, <2>1, ZenonT(60) DEF KindsOK, ExpandersOK
<1>7. /\ th \in [Threads -> Thread] /\ \A t \in Threads : KindsOK(t, th[t]) /\ th[t] = FreshThread
  BY <1>1, <1>5, <1>6, ZenonT(60)
<1>8. \A h \in Hosts : pc[h] \in 1..(Len(prog[h]) + 1)
  <2>1. prog \in [Hosts -> Seq(Operations)]
    BY <1>1, ProgramsAssumption, ZenonT(60)
  <2>2. \A h \in Hosts : Len(prog[h]) \in Nat
    BY <2>1, SMTT(60)
  <2>3. \A h \in Hosts : 1 \in 1..(Len(prog[h]) + 1)
    BY <2>2, SMTT(60)
  <2> QED BY <1>1, <2>3, ZenonT(60)
<1>9. CopTypeOK
  <2>1. \A t \in Threads : Len(th[t].fifo) <= FifoSize /\ Len(th[t].cur) <= 1
    BY <1>7, Zenon DEF KindsOK
  <2>2. sem \in [Sems -> 0..SemCap] /\ \A h \in Hosts : phase[h] \in CopPhases
    BY <1>1, <1>2, <1>3, ZenonT(60)
  <2> QED BY <1>4, <1>8, <2>1, <2>2, ZenonT(60) DEF CopTypeOK
<1>10. \A t \in Threads : \A n \in 1..Len(pushed[t]) :
          PushedTo(t, pushed[t][n]) /\ pushed[t][n][2] < pc[pushed[t][n][1]]
  BY <1>1, <1>2, Zenon
<1>11. /\ pc \in [Hosts -> Nat] /\ phase \in [Hosts -> CopPhases]
       /\ mutex \in [Mutexes -> Threads \cup {Free}]
       /\ done \in [Threads -> Seq(Ids)] /\ pushed \in [Threads -> Seq(Ids)]
       /\ \A h \in Hosts : phase[h] \notin {"ready", "post", "push"} => HasOp(h, "direct")
  BY <1>1, <1>2, <1>3, ZenonT(60)
<1> QED BY <1>1, <1>7, <1>9, <1>10, <1>11, ZenonT(60) DEF CopInv

\* Where a core and the instructions of a thread can be (do_ttinsn, tensix_cop_step and
\* tensix_cop_step_direct), for any programs.
THEOREM CopInvariant == CopSpec => []CopInv
BY CopInvInit, CopInvStep, PTL DEF CopSpec

\* For any programs, sizes and interleavings: no FIFO exceeds TENSIX_FIFO_SIZE, at most one
\* instruction waits, no semaphore exceeds its four bits, the source banks keep their types
\* and no core leaves its program.
THEOREM CopType == CopSpec => []CopTypeOK
<1>1. CopInv => CopTypeOK
  BY Zenon DEF CopInv
<1> QED BY <1>1, CopInvariant, PTL
-----------------------------------------------------------------------------
(* Action properties. *)

\* A closed gate is not replaced: by no instruction, on neither way into the thread.
THEOREM CopGateStable == CopSpec => GateStable
<1>1. ASSUME CopInv, CopNext, NEW t \in Threads, th'[t].gate # th[t].gate
      PROVE  GateOpen(th[t].gate)
  <2>1. th[t].gate \in Gates
    BY <1>1, Zenon DEF CopInv, Thread
  <2>2. ASSUME NEW u \in Threads, Effect(u)
        PROVE  GateOpen(th[t].gate)
    <3>1. t = u
      BY <1>1, <2>2, ZenonT(60) DEF Effect, OnlyMoves
    <3>2. PICK i \in Words :
             /\ Passes(th[t].gate, i)
             /\ \/ th'[t].gate = GateBehind(th[t].gate, i)
                \/ i.op \in WaitOps /\ th'[t].gate = Latch(i)
      BY <1>1, <2>2, <3>1, ZenonT(60) DEF Effect, GateMoved
    <3> QED BY <1>1, <2>1, <3>2, GateMove, ZenonT(60)
  <2>3. ASSUME NEW h \in Hosts, PushIn(h)
        PROVE  FALSE
    BY <1>1, <2>3, ZenonT(60) DEF PushIn
  <2> QED BY <1>1, <2>2, <2>3, CopCases, ZenonT(60) DEF ThreadsStay
<1>2. CopInv /\ [CopNext]_copVars
        => [\A t \in Threads : th'[t].gate # th[t].gate => GateOpen(th[t].gate)]_copVars
  BY <1>1, Zenon
<1> QED BY <1>2, CopInvariant, PTL DEF CopSpec, GateStable

\* An append changes a sequence, and is its last element.
LEMMA Appended ==
  ASSUME NEW s \in Seq(Ids), NEW x \in Ids
  PROVE  Append(s, x) # s /\ Append(s, x)[Len(Append(s, x))] = x
BY SMTT(60)

\* A mutex leaves its holder only by an instruction that the holder's thread executes.
THEOREM CopMutexByHolder == CopSpec => MutexByHolder
<1>1. ASSUME CopInv, CopNext, NEW m \in Mutexes, NEW t \in Threads, mutex[m] = t, mutex'[m] # t
      PROVE  done'[t] # done[t]
  <2>1. mutex' # mutex
    BY <1>1, Zenon
  <2>2. ASSUME NEW u \in Threads, Effect(u)
        PROVE  done'[t] # done[t]
    <3>1. t = u
      BY <1>1, <2>2, ZenonT(60) DEF Effect, UnitsOK
    <3>2. th[t] \in Thread /\ done[t] \in Seq(Ids)
      BY <1>1, Zenon DEF CopInv
    <3>3. CASE TookUp(t)
      <4>1. Fetched(th[t]).id \in Ids
        BY <3>2, <3>3, PoppedThread, ZenonT(60) DEF TookUp, Tokens
      <4>2. Append(done[t], Fetched(th[t]).id) # done[t]
        BY <3>2, <4>1, Appended, ZenonT(60)
      <4> QED BY <3>3, <4>2, ZenonT(60) DEF TookUp
    <3>4. CASE DirectRan(t)
      <4>1. t \in Hosts
        BY ThreadsAssumption, Zenon
      <4>2. Direct(t).id \in Ids
        BY <1>1, <3>4, <4>1, DirectOp, ZenonT(60) DEF DirectRan
      <4>3. Append(done[t], Direct(t).id) # done[t]
        BY <3>2, <4>2, Appended, ZenonT(60)
      <4> QED BY <3>4, <4>3, ZenonT(60) DEF DirectRan
    <3> QED BY <2>1, <2>2, <3>1, <3>3, <3>4, ZenonT(60) DEF Effect
  <2>3. ASSUME NEW h \in Hosts, PushIn(h), UNCHANGED <<bankVars, syncVars>>
        PROVE  FALSE
    BY <1>1, <2>1, <2>3, UnitsStay, ZenonT(60)
  <2> QED BY <1>1, <2>1, <2>2, <2>3, CopCases, ZenonT(60) DEF ThreadsStay
<1>2. CopInv /\ [CopNext]_copVars
        => [\A m \in Mutexes : \A t \in Threads :
              mutex[m] = t /\ mutex'[m] # t => done'[t] # done[t]]_copVars
  BY <1>1, Zenon
<1> QED BY <1>2, CopInvariant, PTL DEF CopSpec, MutexByHolder

\* A direct instruction is not the one its thread would take up next.
LEMMA DirectIsNew ==
  ASSUME CopInv, NEW t \in Threads, HasOp(t, "direct"), ~Idle(th[t])
  PROVE  Fetched(th[t]).id # Direct(t).id
<1>1. th[t] \in Thread /\ KindsOK(t, th[t]) /\ t \in Hosts
  BY ThreadsAssumption, Zenon DEF CopInv
<1>2. PushedTo(t, Fetched(th[t]).id) \/ FromExpander(Fetched(th[t]).id)
  BY <1>1, TakenKinds, ZenonT(60)
<1>3. ~IsPushed(Direct(t).id) /\ ~FromExpander(Direct(t).id)
  BY <1>1, DirectOp, ZenonT(60)
<1> QED BY <1>2, <1>3, ZenonT(60) DEF PushedTo

\* No instruction that a closed gate blocks is executed, whichever way it came in and
\* whatever produced it.
THEOREM CopGateRespected == CopSpec => GateRespected
<1>1. ASSUME CopInv, CopNext, NEW t \in Threads, done'[t] # done[t],
             ~(phase[t] = "exec" /\ th[t].rec.left > 0)
      PROVE  Passes(th[t].gate, Issued(t, done'[t][Len(done'[t])]))
  <2>1. th[t] \in Thread /\ done[t] \in Seq(Ids) /\ t \in Hosts
    BY <1>1, ThreadsAssumption, ZenonT(60) DEF CopInv
  <2>2. ASSUME NEW u \in Threads, Effect(u)
        PROVE  Passes(th[t].gate, Issued(t, done'[t][Len(done'[t])]))
    <3>1. t = u
      BY <1>1, <2>2, ZenonT(60) DEF Effect, OnlyMoves
    <3>2. CASE TookUp(t)
      <4>1. Fetched(th[t]).id \in Ids
        BY <2>1, <3>2, PoppedThread, ZenonT(60) DEF TookUp, Tokens
      <4>2. done'[t][Len(done'[t])] = Fetched(th[t]).id
        <5> DEFINE x == Fetched(th[t]).id
        <5>1. done'[t] = Append(done[t], x)
          BY <3>2, ZenonT(60) DEF TookUp
        <5> HIDE DEF x
        <5>2. x \in Ids
          BY <4>1, ZenonT(60) DEF x
        <5>3. done'[t][Len(done'[t])] = x
          BY <2>1, <5>1, <5>2, Appended, ZenonT(60)
        <5> QED BY <5>3, ZenonT(60) DEF x
      <4> QED BY <3>2, <4>2, ZenonT(60) DEF TookUp, Issued
    <3>3. CASE DirectRan(t)
      <4>1. /\ Direct(t).id \in Ids /\ Direct(t).id = <<t, pc[t], 0, 0>>
        BY <1>1, <2>1, <3>3, DirectOp, ZenonT(60) DEF DirectRan
      <4>2. done'[t][Len(done'[t])] = Direct(t).id
        <5> DEFINE x == Direct(t).id
        <5>1. done'[t] = Append(done[t], x)
          BY <3>3, ZenonT(60) DEF DirectRan
        <5> HIDE DEF x
        <5>2. x \in Ids
          BY <4>1, ZenonT(60) DEF x
        <5>3. done'[t][Len(done'[t])] = x
          BY <2>1, <5>1, <5>2, Appended, Zenon
        <5> QED BY <5>3, ZenonT(60) DEF x
      <4>3. Direct(t).id[1] = t /\ Direct(t).id[2] = pc[t]
        BY <4>1, SMTT(60)
      <4>4. Issued(t, Direct(t).id) = prog[Direct(t).id[1]][Direct(t).id[2]].ins
        BY <1>1, <3>3, DirectIsNew, ZenonT(60) DEF Issued, DirectRan
      <4>5. Issued(t, Direct(t).id) = Op(t).ins
        BY <4>3, <4>4, ZenonT(60) DEF Op
      <4>6. Passes(th[t].gate, Op(t).ins)
        BY <1>1, <3>3, ZenonT(60) DEF DirectRan
      <4> QED BY <4>2, <4>5, <4>6, ZenonT(60)
    <3>4. done' # done
      BY <1>1, ZenonT(60)
    <3> QED BY <2>2, <3>1, <3>2, <3>3, <3>4, ZenonT(60) DEF Effect
  <2>3. ASSUME NEW h \in Hosts, PushIn(h)
        PROVE  FALSE
    BY <1>1, <2>3, ZenonT(60) DEF PushIn
  <2> QED BY <1>1, <2>2, <2>3, CopCases, ZenonT(60) DEF ThreadsStay
<1>2. CopInv /\ [CopNext]_copVars
        => [\A t \in Threads :
              done'[t] # done[t] /\ ~(phase[t] = "exec" /\ th[t].rec.left > 0)
                => Passes(th[t].gate, Issued(t, done'[t][Len(done'[t])]))]_copVars
  BY <1>1, Zenon
<1> QED BY <1>2, CopInvariant, PTL DEF CopSpec, GateRespected
=============================================================================
