------------------------------ MODULE Mailbox ------------------------------
(***************************************************************************)
(* The mailboxes between the RISC-V cores (mailbox.c), read through        *)
(* do_lw_mailbox (emulate.c) by cores that run as coroutines in            *)
(* rv32_run_co (rv32sim.c) or, with Coroutine = FALSE, in rv_run.          *)
(*                                                                         *)
(* A mailbox load that block_translate does not recognise is an ordinary   *)
(* load and does not look at the stall flag (PlainPop).                    *)
(*                                                                         *)
(* There is one ring buffer per pair of cores.  The n-th message that a    *)
(* ring accepts carries the value n, so that a lost, repeated or overtaken *)
(* message shows in the values that arrive.                                *)
(***************************************************************************)
EXTENDS Naturals

CONSTANTS
    Cores,      \* the cores with a mailbox index
    Depth,      \* MAILBOX_FIFO_DEPTH
    Coroutine,  \* TRUE: rv32_run_co, FALSE: rv_run
    MaxMsgs     \* MaxMsgs[l]: bound on the messages ring l accepts

VARIABLES
    slot, head, count,  \* the rings: mailbox_fifo, mailbox_head, mailbox_count
    stall,              \* mailbox_stall
    active,             \* the core inside rv_step, or Nobody
    waiting,            \* the ring a core's load has to be retried on, or Nobody
    known,              \* rings a core has seen filled by a query
    nsent, nrecv,       \* history: messages accepted, messages delivered to the program
    got,                \* history: the value delivered last
    phantom             \* history: some load of an empty mailbox completed

mailboxVars == <<slot, head, count, stall, active, waiting, known, nsent, nrecv, got,
                 phantom>>
rings == <<slot, head, count>>
histories == <<nsent, nrecv, got, phantom>>

Nobody == "nobody"
Links == Cores \X Cores   \* <<sender, receiver>>

ASSUME DepthAssumption == Depth \in Nat \ {0}
ASSUME CoresAssumption == Nobody \notin Cores
ASSUME ModesAssumption == Coroutine \in BOOLEAN
ASSUME MaxMsgsAssumption == MaxMsgs \in [Links -> Nat]

MailboxInit ==
    /\ slot = [l \in Links |-> [i \in 0..(Depth - 1) |-> 0]]
    /\ head = [l \in Links |-> 0]
    /\ count = [l \in Links |-> 0]
    /\ stall = [c \in Cores |-> FALSE]
    /\ active = Nobody
    /\ waiting = [c \in Cores |-> Nobody]
    /\ known = [c \in Cores |-> {}]
    /\ nsent = [l \in Links |-> 0]
    /\ nrecv = [l \in Links |-> 0]
    /\ got = [l \in Links |-> 0]
    /\ phantom = FALSE
-----------------------------------------------------------------------------
(* The rings. *)

\* Faulty form, for comparison: off by one.
TailNext(l) == (head[l] + count[l] + 1) % Depth

\* fifo_push: where the value goes.
Tail(l) == (head[l] + count[l]) % Depth

PushValue(l, v) ==
    /\ slot' = [slot EXCEPT ![l][Tail(l)] = v]
    /\ count' = [count EXCEPT ![l] = @ + 1]
    /\ UNCHANGED head

\* Faulty form, for comparison: off by one, and sender and receiver swapped.
FullLate(l) == count[l] > Depth
FilledSwapped(c, s) == count[<<c, s>>] > 0

\* mailbox_write looks whether the ring is full, mailbox_read whether it holds something.
Full(l) == count[l] >= Depth
Filled(c, s) == count[<<s, c>>] > 0

\* Faulty form, for comparison: the head moves before the read.
FrontAfter(l) == slot[l][(head[l] + 1) % Depth]

\* fifo_pop: the value taken.
Front(l) == slot[l][head[l]]

PopValue(l) ==
    /\ head' = [head EXCEPT ![l] = (@ + 1) % Depth]
    /\ count' = [count EXCEPT ![l] = @ - 1]
    /\ UNCHANGED slot

\* The value reaches the program.
Deliver(l, v) ==
    /\ nrecv' = [nrecv EXCEPT ![l] = @ + 1]
    /\ got' = [got EXCEPT ![l] = v]
    /\ UNCHANGED <<nsent, phantom>>
-----------------------------------------------------------------------------
(* A core. *)

\* The caller resumes core c, which enters rv_step.
Resume(c) ==
    /\ active = Nobody
    /\ active' = c
    /\ UNCHANGED <<rings, stall, waiting, known, histories>>

\* rv_step has used up its cycles; rv32_run_co calls mailbox_process and yields.
Yield(c) ==
    /\ active = c
    /\ waiting[c] = Nobody
    /\ active' = Nobody
    /\ stall' = IF Coroutine THEN [stall EXCEPT ![c] = FALSE] ELSE stall
    /\ UNCHANGED <<rings, waiting, known, histories>>

\* mailbox_write: a full ring drops the value.
Write(c, d) ==
    LET l == <<c, d>>
    IN  /\ active = c
        /\ waiting[c] = Nobody
        /\ nsent[l] < MaxMsgs[l]
        /\ \/ /\ ~Full(l)
              /\ PushValue(l, nsent[l] + 1)
              /\ nsent' = [nsent EXCEPT ![l] = @ + 1]
              /\ UNCHANGED <<nrecv, got, phantom>>
           \/ /\ Full(l)
              /\ UNCHANGED <<rings, histories>>
        /\ UNCHANGED <<stall, active, waiting, known>>

\* Faulty form, for comparison: mailbox_process leaves the flag.
LeaveStalledSet(c, s) ==
    /\ waiting' = [waiting EXCEPT ![c] = s]
    /\ active' = Nobody
    /\ stall' = [stall EXCEPT ![c] = TRUE]
    /\ UNCHANGED histories

\* do_lw_mailbox returns false with the flag set: the load is to be retried, rv_step is
\* left, and rv32_run_co takes the flag back and yields.
LeaveStalled(c, s) ==
    /\ waiting' = [waiting EXCEPT ![c] = s]
    /\ active' = Nobody
    /\ stall' = [stall EXCEPT ![c] = ~Coroutine]
    /\ UNCHANGED histories

\* mailbox_read (pop) under do_lw_mailbox.  The flag is looked at whether or not this
\* very read has set it.
LoadPop(c, s) ==
    LET l == <<s, c>>
    IN  /\ active = c
        /\ waiting[c] \in {Nobody, s}
        /\ \/ /\ count[l] > 0
              /\ PopValue(l)
              /\ IF stall[c] THEN LeaveStalled(c, s)
                 ELSE /\ Deliver(l, Front(l))
                      /\ waiting' = [waiting EXCEPT ![c] = Nobody]
                      /\ UNCHANGED <<active, stall>>
           \/ /\ count[l] <= 0
              /\ UNCHANGED rings
              /\ LeaveStalled(c, s)
        /\ known' = [known EXCEPT ![c] = @ \ {s}]

\* mailbox_read (query, addr & 4): the program learns whether the ring holds something;
\* with a flag left behind by an ordinary load it has to ask again.
Query(c, s) ==
    /\ active = c
    /\ waiting[c] = Nobody
    /\ \/ /\ ~stall[c]
          /\ known' = [known EXCEPT ![c] = IF Filled(c, s) THEN @ \cup {s} ELSE @ \ {s}]
          /\ UNCHANGED <<stall, active>>
       \/ /\ stall[c]
          /\ active' = Nobody
          /\ stall' = [stall EXCEPT ![c] = ~Coroutine]
          /\ UNCHANGED known
    /\ UNCHANGED <<rings, waiting, histories>>

\* mailbox_read under an ordinary load, which does not look at the flag.
PlainPop(c, s) ==
    LET l == <<s, c>>
    IN  /\ active = c
        /\ waiting[c] = Nobody
        /\ \/ /\ count[l] > 0
              /\ PopValue(l)
              /\ Deliver(l, Front(l))
              /\ UNCHANGED stall
           \/ /\ count[l] <= 0
              /\ stall' = [stall EXCEPT ![c] = TRUE]
              /\ phantom' = TRUE
              /\ UNCHANGED <<rings, nsent, nrecv, got>>
        /\ known' = [known EXCEPT ![c] = @ \ {s}]
        /\ UNCHANGED <<active, waiting>>

CoreNext(c) ==
    \/ Resume(c)
    \/ Yield(c)
    \/ \E d \in Cores : Write(c, d)
    \/ \E s \in Cores : LoadPop(c, s)
    \/ \E s \in Cores : Query(c, s)
    \/ \E s \in Cores : PlainPop(c, s)

MailboxNext == \E c \in Cores : CoreNext(c)

MailboxSpec == MailboxInit /\ [][MailboxNext]_mailboxVars

\* Every core is resumed again and again, and rv_step retries a stalled load first.
MailboxFairness ==
    \A c \in Cores :
        /\ SF_mailboxVars(Resume(c))
        /\ WF_mailboxVars(Yield(c))
        /\ \A s \in Cores : WF_mailboxVars(waiting[c] = s /\ LoadPop(c, s))

MailboxFairSpec == MailboxSpec /\ MailboxFairness
-----------------------------------------------------------------------------
(* Properties. *)

MailboxTypeOK ==
    /\ slot \in [Links -> [0..(Depth - 1) -> Nat]]
    /\ head \in [Links -> 0..(Depth - 1)]
    /\ count \in [Links -> 0..Depth]
    /\ stall \in [Cores -> BOOLEAN]
    /\ active \in Cores \cup {Nobody}
    /\ waiting \in [Cores -> Cores \cup {Nobody}]
    /\ known \in [Cores -> SUBSET Cores]
    /\ nsent \in [Links -> Nat]
    /\ nrecv \in [Links -> Nat]
    /\ got \in [Links -> Nat]
    /\ phantom \in BOOLEAN

(* The next two hold until an ordinary load has met an empty mailbox: it leaves a   *)
(* flag behind that the next do_lw_mailbox takes for its own.                         *)

\* What a ring has accepted and not yet delivered is exactly what it holds, oldest at
\* the head: fifo_push and fifo_pop agree across the wrap of the indices.
RingHoldsPending ==
    ~phantom => \A l \in Links :
        /\ nsent[l] = nrecv[l] + count[l]
        /\ \A n \in 0..(count[l] - 1) : slot[l][(head[l] + n) % Depth] = nrecv[l] + n + 1

\* The values a program gets from a mailbox are those accepted, in order, without a
\* gap and without a repetition: a retried do_lw_mailbox never costs a message.
DeliveredInOrder == ~phantom => \A l \in Links : got[l] = nrecv[l]

\* A load after a query that found the mailbox filled does not stall.
QueryHolds == \A c \in Cores : \A s \in known[c] : count[<<s, c>>] > 0

\* A load that stalled on a mailbox into which something is sent completes.
StalledLoadCompletes ==
    \A c, s \in Cores : (waiting[c] = s /\ count[<<s, c>>] > 0) ~> (waiting[c] = Nobody)
=============================================================================
