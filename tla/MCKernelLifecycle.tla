------------------------- MODULE MCKernelLifecycle -------------------------
(* KernelLifecycle for TLC. *)
EXTENDS KernelLifecycle

CONSTANTS t0, t1, b

MCTriscs == {t0, t1}
TriscLaunches == {{t0}, {t0, t1}, {b}}
=============================================================================
