----------------------------- MODULE MCMailbox -----------------------------
(***************************************************************************)
(* Mailbox for TLC: two cores, hence four rings, two of them from a core   *)
(* to itself.  Three messages make the ring from B to T0 wrap while it     *)
(* holds one.                                                              *)
(***************************************************************************)
EXTENDS Mailbox

MCCores == {"B", "T0"}
MCMaxMsgs == [l \in Links |-> IF l = <<"B", "T0">> THEN 3 ELSE IF l[1] = l[2] THEN 1 ELSE 2]
=============================================================================
