----------------------------- MODULE MCSrcBanks -----------------------------
(***************************************************************************)
(* SrcBanks for TLC.  Two tiles are enough to tell a lost, repeated,       *)
(* overwritten or overtaken tile in a queue of two places.                 *)
(***************************************************************************)
EXTENDS SrcBanks

CONSTANTS t1, t2

MCTiles == {t1, t2}
AllStalled == Unguarded
CarefulInstrs == AutoWaiting \cup Unguarded

DestReuseInstrs == {"UNPACR", "UNPACR_NOP", "MOVD2B", "MVMUL"}
=============================================================================
