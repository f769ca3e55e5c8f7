------------------------------ MODULE SrcBanks ------------------------------
(***************************************************************************)
(* The source registers SrcA and SrcB of the Tensix core: two banks each,  *)
(* one data-valid flag per bank (true: the matrix unit owns the bank,      *)
(* false: the unpackers own it), and one bank pointer for either side.     *)
(*                                                                         *)
(* One action per instruction of tt_insn.c that reads or writes the flags, *)
(* the pointers or the contents.  An instruction of the code that returns  *)
(* false is retried later: here its action is not enabled.  The contents   *)
(* of a bank are one value, the tile it holds.                             *)
(***************************************************************************)
EXTENDS Naturals, Sequences

CONSTANTS
    Instrs,   \* the instructions the kernels use
    Stalled,  \* those they issue right behind a STALLWAIT for the bank
    Tiles     \* the tiles an unpacker may read from L1

VARIABLES
    src,          \* src[s]: dvalid and data of either bank, unp and math pointer
    srcb_zeroed,  \* per bank: SrcB was cleared and not rewritten
    dest_dvalid   \* the packers may read Dest

bankVars == <<src, srcb_zeroed, dest_dvalid>>

Srcs == {"A", "B"}
Banks == {0, 1}
Zero == "zero"    \* the content of a cleared bank (SrcA may be cleared to -inf as well)
Content == Tiles \cup {Zero}

\* The instructions that wait by themselves for every bank they take or give away,
\* those that do not, and those that touch both banks of a source at once.
AutoWaiting == {"UNPACR", "UNPACR_TODST", "UNPACR_NOP", "ELW", "MVMUL", "SETRWC",
                "CLEARDVALID_RESET", "SEMPOST"}
Unguarded == {"SETDVALID", "GAPOOL", "CLEARDVALID", "MOVD2A", "MOVD2B", "MOVB2A",
              "TRNSPSRCB", "ZEROSRC"}
BothBanks == {"UNPACR_NOP_BOTH", "ZEROSRC_BOTH"}

ASSUME InstrsAssumption == Instrs \subseteq AutoWaiting \cup Unguarded \cup BothBanks
ASSUME StalledAssumption == Stalled \subseteq Unguarded
ASSUME TilesAssumption == Zero \notin Tiles

SrcType == [dvalid : [Banks -> BOOLEAN], data : [Banks -> Content],
            unp : Banks, math : Banks]

\* What holds of every reachable state, whatever the instructions.
BanksTypeOK ==
    /\ src \in [Srcs -> SrcType]
    /\ srcb_zeroed \in [Banks -> BOOLEAN]
    /\ dest_dvalid \in BOOLEAN

FreshSrc == [dvalid |-> [b \in Banks |-> FALSE], data |-> [b \in Banks |-> Zero],
             unp |-> 0, math |-> 0]

BanksInit ==
    /\ src = [s \in Srcs |-> FreshSrc]
    /\ srcb_zeroed = [b \in Banks |-> FALSE]
    /\ dest_dvalid = FALSE
-----------------------------------------------------------------------------
(* One source register r. *)

UnpackerOwns(r) == ~r.dvalid[r.unp]
MatrixOwns(r) == r.dvalid[r.math]

\* Write content c into the banks of set bs.
Fill(r, bs, c) == [r EXCEPT !.data = [b \in Banks |-> IF b \in bs THEN c ELSE @[b]]]

\* Faulty form, for comparison: the pointer does not wrap.
GiveNoWrap(r) == [r EXCEPT !.dvalid[r.unp] = TRUE, !.unp = @ + 1]

\* The unpacker gives its bank to the matrix unit and turns to the other one.
Give(r) == [r EXCEPT !.dvalid[r.unp] = TRUE, !.unp = 1 - @]

\* Faulty form, for comparison: the pointer stays.
ReleaseKeepsBank(r) == [r EXCEPT !.dvalid[r.math] = FALSE]

\* The matrix unit gives its bank back and turns to the other one.
Release(r) == [r EXCEPT !.dvalid[r.math] = FALSE, !.math = 1 - @]

\* STALLWAIT holds the thread's next instruction back until its condition is met:
\* C5, C6 that the unpacker's bank is free, C7, C8 that the matrix unit's is valid.
SrcClear(i, F) == i \in Stalled => \A s \in F : UnpackerOwns(src[s])
SrcValid(i, F) == i \in Stalled => \A s \in F : MatrixOwns(src[s])

GiveIf(cond, r) == IF cond THEN Give(r) ELSE r

ReleaseAll(f, F) == [s \in Srcs |-> IF s \in F THEN Release(f[s]) ELSE f[s]]
-----------------------------------------------------------------------------
(* Unpacker instructions (thread 0). *)

\* Faulty form, for comparison: no look at the flag.
UnpacrReadyAlways(s) == TRUE

UnpacrReady(s) == UnpackerOwns(src[s])

\* UNPACR in its regular mode: a tile from L1 goes to the unpacker's bank.
Unpacr(s, t, setDatValid) ==
    /\ "UNPACR" \in Instrs
    /\ UnpacrReady(s)
    /\ src' = [src EXCEPT ![s] = GiveIf(setDatValid, Fill(@, {@.unp}, t))]
    /\ srcb_zeroed' = IF s = "B" THEN [srcb_zeroed EXCEPT ![src[s].unp] = FALSE]
                                 ELSE srcb_zeroed
    /\ UNCHANGED dest_dvalid

\* UNPACR of unpacker 0 with Unpack_if_sel, whose data goes to Dest, and UNPACR with no
\* datum to write: the bank is handed over as it is.
UnpacrToDst(s, setDatValid) ==
    /\ "UNPACR_TODST" \in Instrs
    /\ UnpacrReady(s)
    /\ src' = [src EXCEPT ![s] = GiveIf(setDatValid, @)]
    /\ UNCHANGED <<srcb_zeroed, dest_dvalid>>

\* The bank UNPACR_NOP looks at before it clears: the unpacker's, or the matrix
\* unit's when WaitLikeUnpacr is 0.
ZerosrcReady(s, waitLikeUnpacr) ==
    ~src[s].dvalid[IF waitLikeUnpacr THEN src[s].unp ELSE src[s].math]

\* UNPACR_NOP in its ZEROSRC modes.
UnpacrNop(s, waitLikeUnpacr, bothBanks, setDvalid) ==
    /\ IF waitLikeUnpacr /\ bothBanks THEN "UNPACR_NOP_BOTH" \in Instrs
                                      ELSE "UNPACR_NOP" \in Instrs
    /\ ZerosrcReady(s, waitLikeUnpacr)
    /\ LET bs == IF bothBanks THEN Banks ELSE {src[s].unp}
       IN  /\ src' = [src EXCEPT ![s] = GiveIf(setDvalid, Fill(@, bs, Zero))]
           /\ srcb_zeroed' = IF s = "B"
                             THEN [b \in Banks |-> b \in bs \/ srcb_zeroed[b]]
                             ELSE srcb_zeroed
    /\ UNCHANGED dest_dvalid

\* SETDVALID, and UNPACR_NOP in mode 7 (F a singleton): no wait.
Setdvalid(F) ==
    /\ "SETDVALID" \in Instrs
    /\ SrcClear("SETDVALID", F)
    /\ src' = [s \in Srcs |-> GiveIf(s \in F, src[s])]
    /\ UNCHANGED <<srcb_zeroed, dest_dvalid>>
-----------------------------------------------------------------------------
(* Matrix unit instructions (thread 1); F is the set of banks they flip. *)

\* Faulty form, for comparison: waits for SrcA only.
OnlyAOwned == MatrixOwns(src["A"])

BothOwned == \A s \in Srcs : MatrixOwns(src[s])

\* ELWADD, ELWSUB and ELWMUL.
Elw(F) ==
    /\ "ELW" \in Instrs
    /\ BothOwned
    /\ src' = ReleaseAll(src, F)
    /\ UNCHANGED <<srcb_zeroed, dest_dvalid>>

\* Faulty form, for comparison: no look at the other bank.
SkipZeroedAlways == srcb_zeroed[src["B"].math]

\* MVMUL passes over a SrcB bank that was only cleared when the other bank holds
\* real data.
SkipZeroed ==
    LET m == src["B"].math
    IN  srcb_zeroed[m] /\ src["B"].dvalid[1 - m] /\ ~srcb_zeroed[1 - m]

Mvmul(F) ==
    /\ "MVMUL" \in Instrs
    /\ BothOwned
    /\ src' = ReleaseAll(IF SkipZeroed THEN ReleaseAll(src, {"B"}) ELSE src, F)
    /\ srcb_zeroed' = IF SkipZeroed THEN [srcb_zeroed EXCEPT ![src["B"].math] = FALSE]
                                    ELSE srcb_zeroed
    /\ UNCHANGED dest_dvalid

\* SETRWC: waits for the banks it is to clear, then flips them.
SetrwcReady(F) == \A s \in F : MatrixOwns(src[s])

Setrwc(F) ==
    /\ "SETRWC" \in Instrs
    /\ SetrwcReady(F)
    /\ src' = ReleaseAll(src, {s \in F : MatrixOwns(src[s])})
    /\ UNCHANGED <<srcb_zeroed, dest_dvalid>>

\* GMPOOL and GAPOOL: wait for SrcA only.
GapoolReady == MatrixOwns(src["A"]) /\ SrcValid("GAPOOL", Srcs)

Gapool(F) ==
    /\ "GAPOOL" \in Instrs
    /\ GapoolReady
    /\ src' = ReleaseAll(src, F)
    /\ UNCHANGED <<srcb_zeroed, dest_dvalid>>

\* CLEARDVALID without and with its reset bit.
Cleardvalid(F) ==
    /\ "CLEARDVALID" \in Instrs
    /\ SrcValid("CLEARDVALID", F)
    /\ src' = ReleaseAll(src, F)
    /\ UNCHANGED <<srcb_zeroed, dest_dvalid>>

CleardvalidReset ==
    /\ "CLEARDVALID_RESET" \in Instrs
    /\ src' = [s \in Srcs |-> [FreshSrc EXCEPT !.data = src[s].data]]
    /\ dest_dvalid' = FALSE
    /\ UNCHANGED srcb_zeroed

\* Faulty form, for comparison: dest_dvalid is forgotten.
SempostNoDest ==
    /\ "SEMPOST" \in Instrs
    /\ UNCHANGED bankVars

\* SEMPOST by the math thread: Dest is complete.
SempostByMath ==
    /\ "SEMPOST" \in Instrs
    /\ dest_dvalid' = TRUE
    /\ UNCHANGED <<src, srcb_zeroed>>

\* MOVD2A, MOVD2B and MOVB2A write the matrix unit's bank and mark it valid.
MoveTo(s, c) ==
    /\ src' = [src EXCEPT ![s] = [Fill(@, {@.math}, c) EXCEPT !.dvalid[src[s].math] = TRUE]]
    /\ UNCHANGED <<srcb_zeroed, dest_dvalid>>

Movd2a(t) == "MOVD2A" \in Instrs /\ SrcValid("MOVD2A", {"A"}) /\ MoveTo("A", t)
Movd2b(t) == "MOVD2B" \in Instrs /\ SrcValid("MOVD2B", {"B"}) /\ MoveTo("B", t)
Movb2a ==
    /\ "MOVB2A" \in Instrs
    /\ SrcValid("MOVB2A", Srcs)
    /\ MoveTo("A", src["B"].data[src["B"].math])

\* TRNSPSRCB permutes the data of the matrix unit's SrcB bank in place: another tile, or
\* zeros as before.
Trnspsrcb(t) ==
    /\ "TRNSPSRCB" \in Instrs
    /\ SrcValid("TRNSPSRCB", {"B"})
    /\ (t = Zero) = (src["B"].data[src["B"].math] = Zero)
    /\ src' = [src EXCEPT !["B"] = Fill(@, {@.math}, t)]
    /\ UNCHANGED <<srcb_zeroed, dest_dvalid>>

\* ZEROSRC, the matrix unit's own: clears without a look at the flags.
Zerosrc(F, matrixBank, bothBanks) ==
    /\ IF bothBanks THEN "ZEROSRC_BOTH" \in Instrs ELSE "ZEROSRC" \in Instrs
    /\ IF matrixBank THEN SrcValid("ZEROSRC", F) ELSE SrcClear("ZEROSRC", F)
    /\ src' = [s \in Srcs |->
                 IF s \in F
                 THEN Fill(src[s], IF bothBanks THEN Banks
                                   ELSE {IF matrixBank THEN src[s].math ELSE src[s].unp}, Zero)
                 ELSE src[s]]
    /\ UNCHANGED <<srcb_zeroed, dest_dvalid>>
-----------------------------------------------------------------------------
UnpackerNext ==
    \/ \E s \in Srcs, t \in Content, v \in BOOLEAN : Unpacr(s, t, v)
    \/ \E s \in Srcs, v \in BOOLEAN : UnpacrToDst(s, v)
    \/ \E s \in Srcs, w, both, v \in BOOLEAN : UnpacrNop(s, w, both, v)
    \/ \E F \in SUBSET Srcs : Setdvalid(F)

MatrixNext ==
    \/ \E F \in SUBSET Srcs : Elw(F)
    \/ \E F \in SUBSET Srcs : Mvmul(F)
    \/ \E F \in SUBSET Srcs : Setrwc(F)
    \/ \E F \in SUBSET Srcs : Gapool(F)
    \/ \E F \in SUBSET Srcs : Cleardvalid(F)
    \/ CleardvalidReset
    \/ SempostByMath
    \/ \E t \in Content : Movd2a(t)
    \/ \E t \in Content : Movd2b(t)
    \/ Movb2a
    \/ \E t \in Content : Trnspsrcb(t)
    \/ \E F \in SUBSET Srcs, m, both \in BOOLEAN : Zerosrc(F, m, both)

BanksNext == UnpackerNext \/ MatrixNext

BanksSpec == BanksInit /\ [][BanksNext]_bankVars
-----------------------------------------------------------------------------
(* Properties. *)

\* The pointers agree with the flags: when they differ, exactly the matrix unit's
\* bank is valid; when they meet, the banks are both valid or both free.  The
\* comment in ttsetrwc fears the opposite ("desync the bank pointer").
InSync(r) == IF r.unp = r.math THEN r.dvalid[0] = r.dvalid[1]
                               ELSE r.dvalid[r.math] /\ ~r.dvalid[r.unp]

BankSync == \A s \in Srcs : InSync(src[s])

\* The unpacker and the matrix unit never wait for each other on the same source:
\* ttunpacr's early return and ttelwadd's early return are not both taken.
NoStandoff == \A s \in Srcs : UnpackerOwns(src[s]) \/ MatrixOwns(src[s])

\* The banks in the order in which the matrix unit will take them.
PendingBanks(r) ==
    IF ~r.dvalid[r.math] THEN <<>>
    ELSE IF r.dvalid[1 - r.math] THEN <<r.data[r.math], r.data[1 - r.math]>>
    ELSE <<r.data[r.math]>>

Abstract == INSTANCE BankQueue WITH queue <- [s \in Srcs |-> PendingBanks(src[s])]

\* Tiles reach the matrix unit in the order they were unpacked, unchanged, none
\* lost and none twice: the flags and pointers implement a two-place queue.
ImplementsQueue == Abstract!QueueSpec

\* No unpacker instruction changes the contents of a bank the matrix unit owns
\* (tensix.h: "true=MatrixUnit owns").
OwnedStable == [][UnpackerNext => \A s \in Srcs, b \in Banks :
                     src[s].dvalid[b] => src'[s].data[b] = src[s].data[b]]_bankVars

\* A SrcB bank marked srcb_zeroed holds no tile, so that the bank ttmvmul passes
\* over is never one whose tile would be lost.
ZeroedIsCleared == \A b \in Banks : srcb_zeroed[b] => src["B"].data[b] = Zero

=============================================================================
