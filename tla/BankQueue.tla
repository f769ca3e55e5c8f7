----------------------------- MODULE BankQueue -----------------------------
(***************************************************************************)
(* What the double-buffered SrcA and SrcB registers promise their users:   *)
(* per source a first-in first-out queue of at most two filled banks.  The *)
(* unpackers append to it, the matrix unit removes from its front or works *)
(* on the banks in front, and nothing else in it is ever changed,          *)
(* duplicated or lost.                                                     *)
(***************************************************************************)
EXTENDS Naturals, Sequences

CONSTANTS Content  \* what a bank may hold

VARIABLE queue     \* queue[s]: the banks handed over and not yet released

Srcs == {"A", "B"}
Depth == 2         \* two banks per source register

QueueInit == queue = [s \in Srcs |-> <<>>]

\* The unpackers hand a bank of each source in F, with content c[s], to the matrix
\* unit.
HandOver(F, c) ==
    /\ \A s \in F : Len(queue[s]) < Depth
    /\ queue' = [s \in Srcs |-> IF s \in F THEN Append(queue[s], c[s]) ELSE queue[s]]

\* A matrix instruction gives the oldest bank of each source in F back.
GiveBack(F) ==
    /\ \A s \in F : queue[s] # <<>>
    /\ queue' = [s \in Srcs |-> IF s \in F THEN Tail(queue[s]) ELSE queue[s]]

\* MVMUL may first pass over one SrcB bank when another one is waiting.
SkipAndGiveBack(F) ==
    /\ Len(queue["B"]) = Depth
    /\ "A" \in F => queue["A"] # <<>>
    /\ queue' = [s \in Srcs |->
                   CASE s = "A" -> IF "A" \in F THEN Tail(queue["A"]) ELSE queue["A"]
                     [] s = "B" -> IF "B" \in F THEN <<>> ELSE Tail(queue["B"])]

\* A matrix instruction writes the oldest bank of each source in F.
Rewrite(F, c) ==
    /\ \A s \in F : queue[s] # <<>>
    /\ queue' = [s \in Srcs |-> IF s \in F THEN [queue[s] EXCEPT ![1] = c] ELSE queue[s]]

\* CLEARDVALID with its reset bit throws everything away.
Discard == queue' = [s \in Srcs |-> <<>>]

QueueNext ==
    \/ \E F \in SUBSET Srcs, c \in [Srcs -> Content] : HandOver(F, c)
    \/ \E F \in SUBSET Srcs : GiveBack(F) \/ SkipAndGiveBack(F)
    \/ \E F \in SUBSET Srcs, c \in Content : Rewrite(F, c)
    \/ Discard

QueueSpec == QueueInit /\ [][QueueNext]_queue
=============================================================================
