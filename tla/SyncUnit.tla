------------------------------ MODULE SyncUnit ------------------------------
(***************************************************************************)
(* The sync unit shared by the three Tensix threads and the RISC-V cores:  *)
(* counting semaphores, their maxima, and mutexes.  One operator per       *)
(* instruction of tt_insn.c and per kind of semaphore write of             *)
(* tensix_mmio_write; none of them ever waits.                             *)
(***************************************************************************)
EXTENDS Naturals

CONSTANTS
    Sems,     \* semaphores in use, a subset of 0..7
    Mutexes,  \* mutexes in use
    SemCap    \* largest semaphore value (15 in the code)

VARIABLES sem, sem_max, mutex

syncVars == <<sem, sem_max, mutex>>

Free == 255   \* MUTEX_NONE

ASSUME SemCapAssumption == SemCap \in Nat \ {0}

SyncInit ==
    /\ sem = [q \in Sems |-> 0]
    /\ sem_max = [q \in Sems |-> IF q \in {2, 4, 7} THEN 1 ELSE 0]
    /\ mutex = [m \in Mutexes |-> Free]

\* SEMINIT: S is the set of selected semaphores.
Seminit(S, max, init) ==
    /\ sem' = [q \in Sems |-> IF q \in S THEN init ELSE sem[q]]
    /\ sem_max' = [q \in Sems |-> IF q \in S THEN max ELSE sem_max[q]]
    /\ UNCHANGED mutex

\* SEMPOST and the write of 0 to a semaphore address: saturates.
Sempost(S) ==
    /\ sem' = [q \in Sems |-> IF q \in S /\ sem[q] < SemCap THEN sem[q] + 1 ELSE sem[q]]
    /\ UNCHANGED <<sem_max, mutex>>

\* SEMGET and the write of 1 to a semaphore address.
Semget(S) ==
    /\ sem' = [q \in Sems |-> IF q \in S /\ sem[q] > 0 THEN sem[q] - 1 ELSE sem[q]]
    /\ UNCHANGED <<sem_max, mutex>>

\* ATGETM takes a free mutex and does nothing about one that is taken.
Atgetm(t, m) ==
    /\ mutex' = IF mutex[m] = Free THEN [mutex EXCEPT ![m] = t] ELSE mutex
    /\ UNCHANGED <<sem, sem_max>>

\* Faulty form, for comparison: any thread releases.
AtrelmAny(t, m) ==
    /\ mutex' = [mutex EXCEPT ![m] = Free]
    /\ UNCHANGED <<sem, sem_max>>

Atrelm(t, m) ==
    /\ mutex' = IF mutex[m] = t THEN [mutex EXCEPT ![m] = Free] ELSE mutex
    /\ UNCHANGED <<sem, sem_max>>

\* Faulty form, for comparison: off by one at the maximum.
SemsOpenAtMax(conds, S) ==
    /\ 0 \in conds => \A q \in S : sem[q] # 0
    /\ 1 \in conds => \A q \in S : sem[q] <= sem_max[q]

\* What a SEMWAIT on the semaphores of S waits for: condition 0 that none is
\* zero, condition 1 that none has reached its maximum.
SemsOpen(conds, S) ==
    /\ 0 \in conds => \A q \in S : sem[q] # 0
    /\ 1 \in conds => \A q \in S : sem[q] < sem_max[q]
=============================================================================
