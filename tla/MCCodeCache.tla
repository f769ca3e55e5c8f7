---------------------------- MODULE MCCodeCache ----------------------------
(* CodeCache for TLC: two addresses and two binaries. *)
EXTENDS CodeCache

CONSTANTS t0, nc1, nc2, a1, a2, v1, v2

OneTracked == {t0}
NoTracked == {}
OneNcrisc == {nc1}
TwoNcriscs == {nc1, nc2}
MCAddrs == {a1, a2}
MCVersions == {v1, v2}
=============================================================================
