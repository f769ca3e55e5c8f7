----------------------------- MODULE CoreProofs -----------------------------
(***************************************************************************)
(* What the RISC-V cores rely on.  The mailboxes, for any number of cores, *)
(* any depth and any number of messages: the type invariant in both modes, *)
(* and for cores that run as coroutines that nothing is lost, repeated or  *)
(* reordered.  The translated blocks: on one tile a core never executes a  *)
(* block of an overwritten binary, for any number of tracked cores,        *)
(* addresses and binaries.  The life cycle of kernels, for any cores and   *)
(* any number of launches: the mask is exact, the wipe takes nothing from  *)
(* a core in the midst of its kernel, and when no launch uses BRISC        *)
(* together with TRISCs nothing is left while the mask is empty.           *)
(***************************************************************************)
EXTENDS Mailbox, CodeCache, KernelLifecycle, TLAPS

\* rv32_run_co drives the cores.
Cooperative == Coroutine = TRUE
-----------------------------------------------------------------------------
(* The ring's index arithmetic. *)

\* An index taken modulo MAILBOX_FIFO_DEPTH lies in the ring.
LEMMA ModRange ==
  ASSUME NEW x \in Nat
  PROVE  x % Depth \in 0..(Depth - 1)
BY DepthAssumption

\* Places up to Depth - 1 behind the head are distinct.
LEMMA ModDistinct ==
  ASSUME NEW h \in 0..(Depth - 1), NEW m \in 0..(Depth - 1), NEW n \in 0..(Depth - 1), m # n
  PROVE  (h + m) % Depth # (h + n) % Depth
<1>1. \A k \in 0..(Depth - 1) :
         (h + k) % Depth = IF h + k < Depth THEN h + k ELSE h + k - Depth
  BY DepthAssumption
<1> QED BY <1>1, DepthAssumption

\* The place n behind the new head is the place n + 1 behind the old one.
LEMMA ModShift ==
  ASSUME NEW h \in 0..(Depth - 1), NEW n \in 0..(Depth - 2)
  PROVE  (((h + 1) % Depth) + n) % Depth = (h + (n + 1)) % Depth
<1>1. (h + 1) % Depth = IF h + 1 < Depth THEN h + 1 ELSE 0
  BY DepthAssumption
<1>2. (h + (n + 1)) % Depth = IF h + n + 1 < Depth THEN h + n + 1 ELSE h + n + 1 - Depth
  BY DepthAssumption
<1>3. CASE h + 1 < Depth
  BY <1>1, <1>2, <1>3, DepthAssumption
<1>4. CASE h + 1 = Depth
  BY <1>1, <1>2, <1>4, DepthAssumption
<1> QED BY <1>3, <1>4, DepthAssumption
-----------------------------------------------------------------------------
(* The type invariant. *)

\* Reads, writes and yields keep every index and count in range.
LEMMA MailboxTypeStep == MailboxTypeOK /\ [MailboxNext]_mailboxVars => MailboxTypeOK'
<1> SUFFICES ASSUME MailboxTypeOK, [MailboxNext]_mailboxVars
             PROVE  MailboxTypeOK'
  OBVIOUS
<1> USE DepthAssumption, CoresAssumption, ModesAssumption DEF MailboxTypeOK
<1>0. ASSUME NEW l \in Links, PopValue(l), count[l] > 0
      PROVE  /\ slot' = slot
             /\ head' \in [Links -> 0..(Depth - 1)]
             /\ count' \in [Links -> 0..Depth]
  <2>1. (head[l] + 1) % Depth \in 0..(Depth - 1)
    <3>1. head[l] + 1 \in Nat
      BY SMTT(60)
    <3> QED BY <3>1, ModRange, Zenon
  <2>2. count[l] - 1 \in 0..Depth
    BY <1>0, SMTT(60)
  <2> QED BY <1>0, <2>1, <2>2, Zenon DEF PopValue
<1>a. ASSUME NEW l \in Links, Deliver(l, Front(l))
      PROVE  /\ nrecv' \in [Links -> Nat] /\ got' \in [Links -> Nat]
             /\ UNCHANGED <<nsent, phantom>>
  BY <1>a, SMTT(60) DEF Deliver, Front
<1>b. ASSUME NEW c \in Cores, NEW s \in Cores, LeaveStalled(c, s)
      PROVE  /\ waiting' \in [Cores -> Cores \cup {Nobody}]
             /\ active' \in Cores \cup {Nobody}
             /\ stall' \in [Cores -> BOOLEAN]
             /\ UNCHANGED histories
  BY <1>b DEF LeaveStalled
<1>1. ASSUME NEW c \in Cores, Resume(c)
      PROVE  MailboxTypeOK'
  BY <1>1, SMTT(60) DEF Resume, rings, histories
<1>2. ASSUME NEW c \in Cores, Yield(c)
      PROVE  MailboxTypeOK'
  BY <1>2, SMTT(60) DEF Yield, rings, histories
<1>3. ASSUME NEW c \in Cores, NEW d \in Cores, Write(c, d)
      PROVE  MailboxTypeOK'
  <2> DEFINE l == <<c, d>>
  <2>0. l \in Links
    BY DEF Links
  <2>1. UNCHANGED <<stall, active, waiting, known>>
    BY <1>3 DEF Write
  <2>2. CASE /\ ~Full(l) /\ PushValue(l, nsent[l] + 1)
             /\ nsent' = [nsent EXCEPT ![l] = @ + 1]
             /\ UNCHANGED <<nrecv, got, phantom>>
    <3>1. Tail(l) \in 0..(Depth - 1)
      <4>1. head[l] + count[l] \in Nat
        BY <2>0, SMTT(60)
      <4> QED BY <4>1, ModRange, Zenon DEF Tail
    <3>2. count[l] + 1 \in 0..Depth /\ nsent[l] + 1 \in Nat
      BY <2>0, <2>2, SMTT(60) DEF Full
    <3> HIDE DEF l
    <3>3. slot' \in [Links -> [0..(Depth - 1) -> Nat]]
      BY <2>0, <2>2, <3>1, <3>2, Zenon DEF PushValue
    <3>4. head' = head /\ count' \in [Links -> 0..Depth] /\ nsent' \in [Links -> Nat]
      BY <2>0, <2>2, <3>2, Zenon DEF PushValue
    <3> QED BY <2>1, <2>2, <3>3, <3>4, Zenon
  <2>3. CASE UNCHANGED <<rings, histories>>
    BY <2>1, <2>3, Zenon DEF rings, histories
  <2> QED BY <1>3, <2>2, <2>3, Zenon DEF Write
<1>4. ASSUME NEW c \in Cores, NEW s \in Cores, LoadPop(c, s)
      PROVE  MailboxTypeOK'
  <2> DEFINE l == <<s, c>>
  <2>0. l \in Links
    BY DEF Links
  <2>1. known' \in [Cores -> SUBSET Cores]
    BY <1>4, SMTT(60) DEF LoadPop
  <2>2. CASE count[l] > 0 /\ PopValue(l) /\ LeaveStalled(c, s)
    BY <2>0, <2>1, <2>2, <1>0, <1>b, Zenon DEF histories
  <2>3. CASE /\ count[l] > 0 /\ PopValue(l) /\ Deliver(l, Front(l))
             /\ waiting' = [waiting EXCEPT ![c] = Nobody]
             /\ UNCHANGED <<active, stall>>
    BY <2>0, <2>1, <2>3, <1>0, <1>a, Zenon
  <2>4. CASE UNCHANGED rings /\ LeaveStalled(c, s)
    BY <2>1, <2>4, <1>b, SMTT(60) DEF histories, rings
  <2> QED BY <1>4, <2>2, <2>3, <2>4, Zenon DEF LoadPop
<1>5. ASSUME NEW c \in Cores, NEW s \in Cores, Query(c, s)
      PROVE  MailboxTypeOK'
  <2>1. known' \in [Cores -> SUBSET Cores]
    <3>1. CASE known' = [known EXCEPT ![c] = IF Filled(c, s) THEN @ \cup {s} ELSE @ \ {s}]
      <4>1. (IF Filled(c, s) THEN known[c] \cup {s} ELSE known[c] \ {s}) \in SUBSET Cores
        OBVIOUS
      <4> QED BY <3>1, <4>1
    <3> QED BY <1>5, <3>1 DEF Query
  <2> QED BY <1>5, <2>1, Zenon DEF Query, rings, histories
<1>6. ASSUME NEW c \in Cores, NEW s \in Cores, PlainPop(c, s)
      PROVE  MailboxTypeOK'
  <2> DEFINE l == <<s, c>>
  <2>0. l \in Links
    BY DEF Links
  <2>1. known' \in [Cores -> SUBSET Cores] /\ UNCHANGED <<active, waiting>>
    BY <1>6, SMTT(60) DEF PlainPop
  <2>2. CASE count[l] > 0 /\ PopValue(l) /\ Deliver(l, Front(l)) /\ UNCHANGED stall
    BY <2>0, <2>1, <2>2, <1>0, <1>a, Zenon
  <2>3. CASE /\ stall' = [stall EXCEPT ![c] = TRUE]
             /\ phantom' = TRUE
             /\ UNCHANGED <<rings, nsent, nrecv, got>>
    BY <2>1, <2>3, SMTT(60) DEF rings
  <2> QED BY <1>6, <2>2, <2>3, Zenon DEF PlainPop
<1>7. CASE UNCHANGED mailboxVars
  BY <1>7, SMTT(60) DEF mailboxVars
<1> QED BY <1>1, <1>2, <1>3, <1>4, <1>5, <1>6, <1>7, Zenon DEF MailboxNext, CoreNext

\* No ring index and no count ever leaves its range, in either mode.
THEOREM MailboxType == MailboxSpec => []MailboxTypeOK
<1>1. MailboxInit => MailboxTypeOK
  <2> SUFFICES ASSUME MailboxInit PROVE MailboxTypeOK
    OBVIOUS
  <2>1. slot \in [Links -> [0..(Depth - 1) -> Nat]]
    BY DEF MailboxInit
  <2>2. head \in [Links -> 0..(Depth - 1)] /\ count \in [Links -> 0..Depth]
    BY DepthAssumption DEF MailboxInit
  <2>3. known \in [Cores -> SUBSET Cores]
    BY DEF MailboxInit
  <2> QED BY <2>1, <2>2, <2>3, Zenon DEF MailboxInit, MailboxTypeOK
<1> QED BY <1>1, MailboxTypeStep, PTL DEF MailboxSpec
-----------------------------------------------------------------------------
(* Queries. *)

\* A ring that other cores write to, and from which only its receiver takes, keeps it.
LEMMA QueryStep ==
  ASSUME MailboxTypeOK, QueryHolds, [MailboxNext]_mailboxVars
  PROVE  QueryHolds'
<1> SUFFICES ASSUME NEW b \in Cores, NEW a \in known'[b]
             PROVE  count'[<<a, b>>] > 0
  BY Zenon DEF QueryHolds
<1>0. /\ known \in [Cores -> SUBSET Cores] /\ count \in [Links -> 0..Depth]
      /\ \A c \in Cores : \A s \in known[c] : count[<<s, c>>] > 0
  BY Zenon DEF MailboxTypeOK, QueryHolds
<1>1. ASSUME count' = count, known' = known
      PROVE  count'[<<a, b>>] > 0
  BY <1>0, <1>1, Zenon
<1>2. ASSUME NEW c \in Cores, NEW d \in Cores, Write(c, d)
      PROVE  count'[<<a, b>>] > 0
  <2> DEFINE l == <<c, d>>
  <2>0. a \in known[b] /\ count[<<a, b>>] > 0 /\ <<a, b>> \in Links /\ l \in Links
    BY <1>0, <1>2, Zenon DEF Write, Links
  <2>1. CASE count' = [count EXCEPT ![l] = @ + 1]
    <3>1. CASE <<a, b>> = l
      <4>1. count[l] \in 0..Depth /\ count[l] > 0 /\ count'[<<a, b>>] = count[l] + 1
        BY <1>0, <2>0, <2>1, <3>1, Zenon
      <4> QED BY <4>1, DepthAssumption, SMTT(60)
    <3>2. CASE <<a, b>> # l
      BY <1>0, <2>0, <2>1, <3>2, Zenon
    <3> QED BY <3>1, <3>2, Zenon
  <2>2. CASE count' = count
    BY <2>0, <2>2, Zenon
  <2> QED BY <1>2, <2>1, <2>2, Zenon DEF Write, PushValue, rings
<1>3. ASSUME NEW c \in Cores, NEW s \in Cores, LoadPop(c, s) \/ PlainPop(c, s)
      PROVE  count'[<<a, b>>] > 0
  <2> DEFINE l == <<s, c>>
  <2>1. known' = [known EXCEPT ![c] = @ \ {s}]
    BY <1>3, Zenon DEF LoadPop, PlainPop
  <2>2. a \in known[b] /\ <<a, b>> # l
    <3>1. CASE b = c
      BY <1>0, <2>1, <3>1, Zenon
    <3>2. CASE b # c
      BY <1>0, <2>1, <3>2, Zenon
    <3> QED BY <3>1, <3>2, Zenon
  <2>3. <<a, b>> \in Links /\ count[<<a, b>>] > 0
    BY <1>0, <2>2, Zenon DEF Links
  <2>4. count' = count \/ count' = [count EXCEPT ![l] = @ - 1]
    BY <1>3, Zenon DEF LoadPop, PlainPop, PopValue, rings
  <2> QED BY <1>0, <2>2, <2>3, <2>4, Zenon
<1>4. ASSUME NEW c \in Cores, NEW s \in Cores, Query(c, s)
      PROVE  count'[<<a, b>>] > 0
  <2>1. count' = count
    BY <1>4, Zenon DEF Query, rings
  <2>2. CASE known' = known
    BY <1>1, <2>1, <2>2, Zenon
  <2>3. CASE known' = [known EXCEPT ![c] = IF Filled(c, s) THEN @ \cup {s} ELSE @ \ {s}]
    <3>1. CASE a \in known[b]
      BY <1>0, <2>1, <3>1, Zenon
    <3>2. CASE a \notin known[b]
      <4>1. b = c /\ a = s /\ Filled(c, s)
        BY <1>0, <2>3, <3>2, Zenon
      <4> QED BY <2>1, <4>1, Zenon DEF Filled
    <3> QED BY <3>1, <3>2, Zenon
  <2> QED BY <1>4, <2>2, <2>3, Zenon DEF Query
<1>5. ASSUME NEW c \in Cores, Resume(c) \/ Yield(c)
      PROVE  count' = count /\ known' = known
  BY <1>5, Zenon DEF Resume, Yield, rings
<1>6. CASE UNCHANGED mailboxVars
  BY <1>1, <1>6, Zenon DEF mailboxVars
<1> QED BY <1>1, <1>2, <1>3, <1>4, <1>5, <1>6, Zenon DEF MailboxNext, CoreNext

\* A query's answer stays true until the core that asked takes a message: the load that
\* follows it in mailbox_read never finds the ring empty, in rv_run and in rv32_run_co,
\* whatever the other cores do in between.
THEOREM MailboxQuery == MailboxSpec => []QueryHolds
<1>1. MailboxInit => QueryHolds
  BY Zenon DEF MailboxInit, QueryHolds
<1>2. MailboxTypeOK /\ QueryHolds /\ [MailboxNext]_mailboxVars => QueryHolds'
  BY QueryStep
<1> QED BY <1>1, <1>2, MailboxType, PTL DEF MailboxSpec
-----------------------------------------------------------------------------
(* Delivery. *)

\* Until an ordinary load meets an empty mailbox, no core runs with its stall flag set:
\* do_lw_mailbox takes a set flag for its own and drops what it has popped.
NoFlagSet == ~phantom => \A c \in Cores : ~stall[c]

\* Once an ordinary load has met an empty mailbox, it has.
LEMMA PhantomStays ==
  ASSUME [MailboxNext]_mailboxVars, ~phantom'
  PROVE  ~phantom
BY ZenonT(60) DEF MailboxNext, mailboxVars, CoreNext, Resume, Yield, Write, LoadPop, LeaveStalled, Query,
       PlainPop, Deliver, histories

\* Under rv32_run_co a core has no stall flag set while another one, or it itself, runs.
LEMMA StallStep ==
  ASSUME Cooperative, MailboxTypeOK, NoFlagSet, [MailboxNext]_mailboxVars
  PROVE  NoFlagSet'
<1> USE DEF NoFlagSet, Cooperative
<1>0. stall \in [Cores -> BOOLEAN]
  BY DEF MailboxTypeOK
<1> SUFFICES ASSUME ~phantom'
             PROVE  \A c \in Cores : ~stall'[c]
  OBVIOUS
<1>1. ASSUME NEW c \in Cores, CoreNext(c)
      PROVE  stall' = stall \/ stall' = [stall EXCEPT ![c] = FALSE]
  BY <1>1, Zenon DEF CoreNext, Resume, Yield, Write, LoadPop, LeaveStalled, Query, PlainPop
<1>2. ~phantom
  BY PhantomStays
<1> QED BY <1>0, <1>1, <1>2 DEF MailboxNext, mailboxVars

\* What one ring holds.
RingOK(l) ==
  /\ nsent[l] = nrecv[l] + count[l]
  /\ \A n \in 0..(count[l] - 1) : slot[l][(head[l] + n) % Depth] = nrecv[l] + n + 1

\* fifo_push keeps the ring in order.
LEMMA PushKeeps ==
  ASSUME MailboxTypeOK, NEW l \in Links, RingOK(l), ~Full(l), PushValue(l, nsent[l] + 1),
         nsent' = [nsent EXCEPT ![l] = @ + 1], nrecv' = nrecv
  PROVE  RingOK(l)'
<1>1. /\ head[l] \in 0..(Depth - 1) /\ count[l] \in 0..(Depth - 1)
      /\ nsent[l] \in Nat /\ nrecv[l] \in Nat
      /\ slot \in [Links -> [0..(Depth - 1) -> Nat]]
  <2>1. count[l] \in 0..Depth /\ ~(count[l] >= Depth)
    BY DEF MailboxTypeOK, Full
  <2>2. count[l] \in 0..(Depth - 1)
    BY <2>1, DepthAssumption
  <2> QED BY <2>2 DEF MailboxTypeOK
<1>2. /\ head'[l] = head[l] /\ count'[l] = count[l] + 1 /\ nsent'[l] = nsent[l] + 1
      /\ nrecv'[l] = nrecv[l]
      /\ slot'[l] = [slot[l] EXCEPT ![Tail(l)] = nsent[l] + 1]
  BY DEF MailboxTypeOK, PushValue
<1>3. nsent'[l] = nrecv'[l] + count'[l]
  <2>1. nsent[l] = nrecv[l] + count[l]
    BY DEF RingOK
  <2> QED BY <1>1, <1>2, <2>1, DepthAssumption, SMTT(60)
<1>4. ASSUME NEW n \in 0..(count'[l] - 1)
      PROVE  slot'[l][(head'[l] + n) % Depth] = nrecv'[l] + n + 1
  <2>0. n \in 0..(Depth - 1) /\ n \in 0..count[l]
    BY <1>1, <1>2, DepthAssumption, SMTT(60)
  <2>1. (head[l] + n) % Depth \in 0..(Depth - 1)
    <3>1. head[l] + n \in Nat
      BY <1>1, <2>0, SMTT(60)
    <3> QED BY <3>1, ModRange, SMTT(60)
  <2>2. CASE n = count[l]
    BY <1>1, <1>2, <2>1, <2>2, ZenonT(60) DEF Tail, RingOK
  <2>3. CASE n # count[l]
    <3>1. (head[l] + n) % Depth # Tail(l)
      BY <1>1, <2>0, <2>3, ModDistinct, Zenon DEF Tail
    <3>2. slot'[l][(head[l] + n) % Depth] = slot[l][(head[l] + n) % Depth]
      BY <1>1, <1>2, <2>1, <3>1
    <3>3. n \in 0..(count[l] - 1)
      BY <1>1, <2>0, <2>3, SMTT(60)
    <3> QED BY <1>2, <3>2, <3>3 DEF RingOK
  <2> QED BY <2>2, <2>3
<1> QED BY <1>3, <1>4 DEF RingOK

\* fifo_pop takes the oldest message and keeps the ring in order.
LEMMA PopKeeps ==
  ASSUME MailboxTypeOK, NEW l \in Links, RingOK(l), count[l] > 0, PopValue(l),
         Deliver(l, Front(l))
  PROVE  RingOK(l)' /\ got'[l] = nrecv'[l]
<1>1. /\ head[l] \in 0..(Depth - 1) /\ count[l] \in 1..Depth
      /\ nsent[l] \in Nat /\ nrecv[l] \in Nat
  BY SMTT(60) DEF MailboxTypeOK
<1>2. /\ head'[l] = (head[l] + 1) % Depth /\ count'[l] = count[l] - 1
      /\ nsent'[l] = nsent[l] /\ nrecv'[l] = nrecv[l] + 1 /\ slot' = slot
      /\ got'[l] = slot[l][head[l]]
  BY SMTT(60) DEF MailboxTypeOK, PopValue, Deliver, Front
<1>3. nsent'[l] = nrecv'[l] + count'[l]
  BY <1>1, <1>2, SMTT(60) DEF RingOK
<1>4. got'[l] = nrecv'[l]
  <2>1. 0 \in 0..(count[l] - 1) /\ (head[l] + 0) % Depth = head[l]
    BY <1>1, DepthAssumption, SMTT(60)
  <2> QED BY <1>1, <1>2, <2>1, SMTT(60) DEF RingOK
<1>5. ASSUME NEW n \in 0..(count'[l] - 1)
      PROVE  slot'[l][(head'[l] + n) % Depth] = nrecv'[l] + n + 1
  <2>1. n + 1 \in 0..(count[l] - 1) /\ n \in 0..(Depth - 2)
    BY <1>1, <1>2, DepthAssumption, SMTT(60)
  <2>2. (head'[l] + n) % Depth = (head[l] + (n + 1)) % Depth
    BY <1>1, <1>2, <2>1, ModShift
  <2> QED BY <1>1, <1>2, <2>1, <2>2, SMTT(60) DEF RingOK
<1> QED BY <1>3, <1>4, <1>5 DEF RingOK

\* A ring that a step leaves alone.
LEMMA OtherKeeps ==
  ASSUME NEW l, RingOK(l), slot'[l] = slot[l], head'[l] = head[l], count'[l] = count[l],
         nsent'[l] = nsent[l], nrecv'[l] = nrecv[l]
  PROVE  RingOK(l)'
BY ZenonT(60) DEF RingOK

Delivery == NoFlagSet /\ RingHoldsPending /\ DeliveredInOrder

\* Every step of a core keeps the rings, the stall flags and the deliveries right.
LEMMA DeliveryStep ==
  ASSUME Cooperative, MailboxTypeOK, Delivery, [MailboxNext]_mailboxVars
  PROVE  Delivery'
<1>s. NoFlagSet'
  BY StallStep, SMTT(60) DEF Delivery
<1> SUFFICES ASSUME ~phantom', NEW k \in Links
             PROVE  RingOK(k)' /\ got'[k] = nrecv'[k]
  BY <1>s, SMTT(60) DEF Delivery, RingHoldsPending, DeliveredInOrder, RingOK
<1>0. /\ \A c \in Cores : ~stall[c]
      /\ \A l \in Links : RingOK(l) /\ got[l] = nrecv[l]
  BY PhantomStays DEF Delivery, NoFlagSet, RingHoldsPending, DeliveredInOrder, RingOK
<1>1. ASSUME UNCHANGED <<rings, histories>>
      PROVE  RingOK(k)' /\ got'[k] = nrecv'[k]
  BY <1>0, <1>1, OtherKeeps, SMTT(60) DEF rings, histories
<1>2. ASSUME NEW c \in Cores, NEW d \in Cores, Write(c, d)
      PROVE  RingOK(k)' /\ got'[k] = nrecv'[k]
  <2> DEFINE l == <<c, d>>
  <2>0. l \in Links
    BY SMTT(60) DEF Links
  <2>1. nrecv' = nrecv /\ got' = got
    BY <1>2, SMTT(60) DEF Write, histories
  <2>2. CASE ~Full(l) /\ PushValue(l, nsent[l] + 1) /\ nsent' = [nsent EXCEPT ![l] = @ + 1]
    <3>1. CASE k = l
      BY <1>0, <2>0, <2>1, <2>2, <3>1, PushKeeps, Zenon
    <3>2. CASE k # l
      <4>1. /\ slot'[k] = slot[k] /\ head'[k] = head[k] /\ count'[k] = count[k]
            /\ nsent'[k] = nsent[k]
        BY <2>0, <2>2, <3>2, SMTT(60) DEF PushValue, MailboxTypeOK
      <4> QED BY <1>0, <2>1, <4>1, OtherKeeps, SMTT(60)
    <3> QED BY <3>1, <3>2
  <2>3. CASE UNCHANGED <<rings, nsent>>
    BY <1>0, <2>1, <2>3, OtherKeeps, SMTT(60) DEF rings
  <2> QED BY <1>2, <2>2, <2>3 DEF Write, histories
<1>3. ASSUME NEW c \in Cores, NEW s \in Cores, LoadPop(c, s) \/ PlainPop(c, s)
      PROVE  RingOK(k)' /\ got'[k] = nrecv'[k]
  <2> DEFINE l == <<s, c>>
  <2>0. l \in Links
    BY SMTT(60) DEF Links
  <2>1. CASE count[l] > 0 /\ PopValue(l) /\ Deliver(l, Front(l))
    <3>1. CASE k = l
      BY <1>0, <2>0, <2>1, <3>1, PopKeeps, SMTT(60)
    <3>2. CASE k # l
      <4>1. /\ slot'[k] = slot[k] /\ head'[k] = head[k] /\ count'[k] = count[k]
            /\ nsent'[k] = nsent[k] /\ nrecv'[k] = nrecv[k] /\ got'[k] = got[k]
        BY <2>0, <2>1, <3>2 DEF PopValue, Deliver, MailboxTypeOK
      <4> QED BY <1>0, <4>1, OtherKeeps, SMTT(60)
    <3> QED BY <3>1, <3>2, SMTT(60)
  <2>2. CASE UNCHANGED rings /\ LeaveStalled(c, s)
    BY <1>1, <2>2 DEF LeaveStalled
  <2>3. ~stall[c]
    BY <1>0, SMTT(60)
  <2>4. CASE LoadPop(c, s)
    BY <2>1, <2>2, <2>3, <2>4, ZenonT(20) DEF LoadPop
  <2>5. CASE PlainPop(c, s)
    BY <2>1, <2>5, ZenonT(20) DEF PlainPop
  <2> QED BY <1>3, <2>4, <2>5, SMTT(60)
<1>4. ASSUME NEW c \in Cores,
             Resume(c) \/ Yield(c) \/ \E s \in Cores : Query(c, s)
      PROVE  UNCHANGED <<rings, histories>>
  BY <1>4, SMTT(60) DEF Resume, Yield, Query
<1>5. CASE UNCHANGED mailboxVars
  BY <1>1, <1>5, ZenonT(20) DEF mailboxVars, rings, histories
<1> QED BY <1>1, <1>2, <1>3, <1>4, <1>5 DEF MailboxNext, CoreNext

\* The conjunction is inductive; none of its parts is: a load drops the message it has
\* popped when the core's stall flag is set, and what it delivers is what the ring holds.
LEMMA DeliveryHolds ==
  ASSUME Cooperative
  PROVE  MailboxSpec => []Delivery
<1>1. MailboxInit => Delivery
  BY DEF MailboxInit, Delivery, NoFlagSet, RingHoldsPending, DeliveredInOrder
<1>2. MailboxTypeOK /\ Delivery /\ [MailboxNext]_mailboxVars => Delivery'
  BY DeliveryStep
<1> QED BY <1>1, <1>2, MailboxType, PTL DEF MailboxSpec

\* Cores under rv32_run_co receive what was accepted, in order, with no gap and no
\* repetition, for every depth and number of cores, as long as no ordinary load has met
\* an empty mailbox.
THEOREM MailboxDelivery ==
  ASSUME Cooperative
  PROVE  MailboxSpec => []DeliveredInOrder
<1>1. Delivery => DeliveredInOrder
  BY DEF Delivery
<1> QED BY <1>1, DeliveryHolds, PTL

\* And everything accepted and not yet delivered lies in the ring, oldest first.
THEOREM MailboxRings ==
  ASSUME Cooperative
  PROVE  MailboxSpec => []RingHoldsPending
<1>1. Delivery => RingHoldsPending
  BY DEF Delivery
<1> QED BY <1>1, DeliveryHolds, PTL
-----------------------------------------------------------------------------
(* The translated blocks. *)

CodeTypeOK ==
    /\ mem \in [CodeCores -> [Addrs -> Versions]]
    /\ target \in [CodeCores -> Addrs \cup {None}]
    /\ last \in [CodeCores -> Addrs \cup {None}]
    /\ polled \in [CodeCores -> BOOLEAN]
    /\ at \in [CodeCores -> Places]
    /\ inside \in [CodeCores -> BOOLEAN]
    /\ pre \in [CodeCores -> Places]
    /\ block_map \in [CodeCores -> [Places -> Versions \cup {"firmware", None}]]
    /\ ncrisc_prev_kernel_pc \in Places

\* A core in a kernel is in the one it was given, and a core that is about to call one
\* has gone through the head of the loop in the firmware.
Called(c) ==
    /\ target[c] # None => target[c] = last[c]
    /\ at[c] # FW => target[c] # None /\ at[c].addr = target[c]
    /\ at[c] = FW /\ target[c] # None /\ polled[c] => pre[c] = FW
    /\ inside[c] => block_map[c][at[c]] # None

\* Until a tracked core is seen in a kernel it keeps no kernel's blocks, and in a kernel
\* only fresh ones.  Back in the firmware, unseen, they may be stale.
TrackedOK(c) ==
    \A p \in KernelPlaces : block_map[c][p] # None =>
        /\ pre[c] # FW
        /\ at[c] # FW => block_map[c][p] = mem[c][p.addr]

\* The blocks an NCRISC keeps are fresh and belong to the kernel it was last seen to enter.
NcriscOK(c) ==
    /\ \A p \in KernelPlaces : block_map[c][p] # None =>
          /\ block_map[c][p] = mem[c][p.addr]
          /\ p.addr = ncrisc_prev_kernel_pc.addr
          /\ target[c] = None => p.addr = last[c]
    /\ at[c] # FW /\ (inside[c] \/ pre[c] # FW) => at[c].addr = ncrisc_prev_kernel_pc.addr

CoreOK(c) ==
    /\ Called(c)
    /\ c \in Tracked => TrackedOK(c)
    /\ c \in NCRISCs => NcriscOK(c)

CodeInv == CodeTypeOK /\ \A c \in CodeCores : CoreOK(c)

\* What is used of places.
LEMMA PlaceFacts ==
    /\ FW \in Places /\ FW \notin KernelPlaces
    /\ \A p \in Places : p # FW => p \in KernelPlaces
    /\ \A p \in KernelPlaces : p \in Places /\ p.addr \in Addrs /\ p # FW
    /\ \A a \in Addrs : Entry(a) \in KernelPlaces /\ Entry(a).addr = a
    /\ \A a \in Addrs : Body(a) \in KernelPlaces /\ Body(a).addr = a
BY AddrsAssumption DEF FW, Places, KernelPlaces, Entry, Body, None

\* rv_create leaves no blocks, and every core in the firmware.
LEMMA CodeInvInit == CodeInit => CodeInv
<1> SUFFICES ASSUME CodeInit PROVE CodeInv
  OBVIOUS
<1>1. CodeTypeOK
  BY PlaceFacts DEF CodeInit, CodeTypeOK, NoBlocks
<1>2. ASSUME NEW c \in CodeCores PROVE CoreOK(c)
  BY PlaceFacts DEF CodeInit, CoreOK, Called, TrackedOK, NcriscOK, NoBlocks
<1> QED
  BY <1>1, <1>2 DEF CodeInv
-----------------------------------------------------------------------------
\* A step of one core leaves the others as they are; the static variable of the
\* NCRISCs is shared, but there is only one of them.
LEMMA Others ==
    ASSUME \A b, d \in NCRISCs : b = d,
           NEW c \in CodeCores, NEW d \in CodeCores \ {c}, CoreOK(d),
           mem'[d] = mem[d], target'[d] = target[d], last'[d] = last[d],
           polled'[d] = polled[d], at'[d] = at[d], inside'[d] = inside[d],
           pre'[d] = pre[d], block_map'[d] = block_map[d],
           c \notin NCRISCs => UNCHANGED ncrisc_prev_kernel_pc
    PROVE  CoreOK(d)'
<1>1. Called(d)'
  BY DEF CoreOK, Called
<1>2. d \in Tracked => TrackedOK(d)'
  BY SMTT(60) DEF CoreOK, TrackedOK
<1>3. d \in NCRISCs => NcriscOK(d)'
  <2> SUFFICES ASSUME d \in NCRISCs PROVE NcriscOK(d)'
    BY Zenon
  <2>1. UNCHANGED ncrisc_prev_kernel_pc
    BY ZenonT(20)
  <2> QED
    BY <2>1 DEF CoreOK, NcriscOK
<1> QED
  BY <1>1, <1>2, <1>3 DEF CoreOK

\* The host's write leaves no stale block of an NCRISC, and stale blocks of a tracked
\* core only where its next pass through the head of the loop drops them.
LEMMA LoadOK ==
    ASSUME CodeInv, NEW c \in CodeCores, NEW a \in Addrs, NEW v \in Versions, Load(c, a, v)
    PROVE  CodeTypeOK' /\ CoreOK(c)'
<1>1. CodeTypeOK'
  BY SMTT(60) DEF CodeInv, CodeTypeOK, Load
<1> USE PlaceFacts DEF CodeInv, CodeTypeOK
<1>2. /\ at'[c] = FW /\ at[c] = FW /\ target'[c] = a /\ last'[c] = a /\ ~polled'[c]
      /\ inside' = inside /\ pre' = pre /\ block_map' = block_map
      /\ ncrisc_prev_kernel_pc' = ncrisc_prev_kernel_pc
      /\ mem'[c] = [mem[c] EXCEPT ![a] = v] /\ target[c] = None
  BY SMTT(60) DEF Load
<1>3. Called(c)'
  <2>1. a # None
    BY AddrsAssumption, Zenon
  <2>2. Called(c)
    BY Zenon DEF CoreOK
  <2>3. inside'[c] => block_map'[c][at'[c]] # None
    BY <1>2, <2>2, Zenon DEF Called
  <2> QED
    BY <1>2, <2>1, <2>3, ZenonT(20) DEF Called
<1>4. c \in Tracked => TrackedOK(c)'
  BY <1>2, ZenonT(20) DEF CoreOK, TrackedOK
<1>5. c \in NCRISCs => NcriscOK(c)'
  <2> SUFFICES ASSUME c \in NCRISCs PROVE NcriscOK(c)'
    BY SMTT(60)
  <2>1. v # mem[c][a] => a # last[c]
    BY SMTT(60) DEF Load
  <2>2. ASSUME NEW p \in KernelPlaces, block_map[c][p] # None
        PROVE  mem'[c][p.addr] = mem[c][p.addr]
    <3>1. target[c] = None => p.addr = last[c]
      BY <2>2, ZenonT(20) DEF CoreOK, NcriscOK
    <3>2. p.addr = a => v = mem[c][a]
      BY <1>2, <2>1, <3>1, Zenon
    <3>3. mem[c] \in [Addrs -> Versions] /\ p.addr \in Addrs
      BY Zenon
    <3> HIDE PlaceFacts DEF CodeInv, CodeTypeOK
    <3> QED
      BY <1>2, <3>2, <3>3, ZenonT(20)
  <2> QED
    BY <1>2, <2>2, AddrsAssumption, ZenonT(20) DEF CoreOK, NcriscOK
<1> QED
  BY <1>1, <1>3, <1>4, <1>5, SMTT(60) DEF CoreOK
-----------------------------------------------------------------------------
\* What the head of the loop leaves in the map: blocks that were kept, and a fresh one
\* at the place it goes to.
LEMMA HeadMap ==
    ASSUME CodeTypeOK, NEW c \in CodeCores, Found(c) \/ Translated(c)
    PROVE  /\ block_map' \in [CodeCores -> [Places -> Versions \cup {"firmware", None}]]
           /\ \A d \in CodeCores \ {c} : block_map'[d] = block_map[d]
           /\ block_map'[c][at[c]] # None
           /\ \A p \in KernelPlaces : block_map'[c][p] # None =>
                \/ block_map'[c][p] = block_map[c][p] /\ ~Drops(c)
                \/ p = at[c] /\ block_map'[c][p] = mem[c][p.addr]
<1> USE PlaceFacts, VersionsAssumption
<1>1. NoBlocks \in [Places -> Versions \cup {"firmware", None}]
      /\ Kept(c) \in [Places -> Versions \cup {"firmware", None}]
  BY SMTT(60) DEF CodeTypeOK, NoBlocks, Kept
<1>2. Content(c, at[c]) \in Versions \cup {"firmware"} /\ Content(c, at[c]) # None
  <2>1. at[c] \in Places /\ mem[c] \in [Addrs -> Versions]
    BY SMTT(60) DEF CodeTypeOK
  <2> QED
    BY <2>1, SMTT(60) DEF Content, None
<1>3. \A p \in KernelPlaces : Kept(c)[p] # None => Kept(c)[p] = block_map[c][p] /\ ~Drops(c)
  BY ZenonT(20) DEF Kept, NoBlocks
<1>4. CASE Found(c)
  BY <1>4, <1>1, <1>3, ZenonT(20) DEF Found, CodeTypeOK
<1>5. CASE Translated(c)
  <2>1. PICK rest \in {Kept(c), NoBlocks} :
            block_map' = [block_map EXCEPT ![c] = [rest EXCEPT ![at[c]] = Content(c, at[c])]]
    BY <1>5, Zenon DEF Translated
  <2>2. rest \in [Places -> Versions \cup {"firmware", None}] /\ at[c] \in Places
    BY <1>1, SMTT(60) DEF CodeTypeOK
  <2>3. \A p \in KernelPlaces : rest[p] # None => rest[p] = block_map[c][p] /\ ~Drops(c)
    <3>1. \A p \in KernelPlaces : NoBlocks[p] = None
      BY SMTT(60) DEF NoBlocks
    <3> QED
      BY <1>3, <3>1, Zenon
  <2>4. at[c] \in KernelPlaces => Content(c, at[c]) = mem[c][at[c].addr]
    BY SMTT(60) DEF Content
  <2>5. block_map'[c] = [rest EXCEPT ![at[c]] = Content(c, at[c])]
    BY <2>1, SMTT(60) DEF CodeTypeOK
  <2>6. block_map' \in [CodeCores -> [Places -> Versions \cup {"firmware", None}]]
    BY <2>1, <2>2, <1>2, SMTT(60) DEF CodeTypeOK
  <2>7. \A d \in CodeCores \ {c} : block_map'[d] = block_map[d]
    BY <2>1, SMTT(60) DEF CodeTypeOK
  <2> QED
    <3>1. block_map'[c][at[c]] # None
      <4> HIDE PlaceFacts, VersionsAssumption
      <4> QED BY <2>2, <2>5, <1>2, Zenon
    <3>2. ASSUME NEW p \in KernelPlaces, block_map'[c][p] # None
          PROVE  \/ block_map'[c][p] = block_map[c][p] /\ ~Drops(c)
                 \/ p = at[c] /\ block_map'[c][p] = mem[c][p.addr]
      <4>1. p \in Places
        BY Zenon
      <4> HIDE PlaceFacts, VersionsAssumption
      <4>2. CASE p = at[c]
        BY <2>2, <2>4, <2>5, <4>2, Zenon
      <4>3. CASE p # at[c]
        <5>1. block_map'[c][p] = rest[p]
          BY <2>2, <2>5, <4>1, <4>3, Zenon
        <5> QED BY <2>3, <3>2, <5>1, Zenon
      <4> QED BY <4>2, <4>3
    <3> QED BY <2>6, <2>7, <3>1, <3>2, Zenon
<1> QED
  BY <1>4, <1>5, ZenonT(20)

\* The head of the loop sees every change between firmware and kernel that matters.
LEMMA HeadOK ==
    ASSUME CodeInv, NEW c \in CodeCores, Head(c)
    PROVE  CodeTypeOK' /\ CoreOK(c)'
<1>1. /\ block_map' \in [CodeCores -> [Places -> Versions \cup {"firmware", None}]]
      /\ block_map'[c][at[c]] # None
      /\ \A p \in KernelPlaces : block_map'[c][p] # None =>
            \/ block_map'[c][p] = block_map[c][p] /\ ~Drops(c)
            \/ p = at[c] /\ block_map'[c][p] = mem[c][p.addr]
  BY HeadMap, ZenonT(20) DEF CodeInv, Head
<1>2. CodeTypeOK'
  BY <1>1, PlaceFacts, Zenon DEF CodeInv, CodeTypeOK, Head
<1> USE PlaceFacts DEF CodeInv, CodeTypeOK
<1>3. /\ mem' = mem /\ target' = target /\ last' = last /\ at' = at
      /\ inside'[c] /\ ~inside[c] /\ pre'[c] = at[c] /\ polled'[c] = (polled[c] \/ at[c] = FW)
      /\ ncrisc_prev_kernel_pc' = IF EntersNew(c) THEN at[c] ELSE ncrisc_prev_kernel_pc
  BY SMTT(60) DEF Head
<1>4. Called(c)'
  <2>1. Called(c)
    BY Zenon DEF CoreOK
  <2>2. at'[c] = at[c] /\ target'[c] = target[c] /\ last'[c] = last[c] /\ pre'[c] = at[c]
    BY <1>3, Zenon
  <2>3. block_map'[c][at'[c]] # None
    BY <1>1, <2>2, Zenon
  <2> QED
    BY <2>1, <2>2, <2>3, ZenonT(60) DEF Called
<1>5. c \in Tracked => TrackedOK(c)'
  <2> SUFFICES ASSUME c \in Tracked, NEW p \in KernelPlaces, block_map'[c][p] # None
               PROVE  at[c] # FW /\ block_map'[c][p] = mem[c][p.addr]
    BY <1>3, Zenon DEF TrackedOK
  <2>1. CASE block_map'[c][p] = block_map[c][p] /\ ~Drops(c)
    BY <2>1, Zenon DEF CoreOK, TrackedOK, Drops
  <2>2. CASE p = at[c] /\ block_map'[c][p] = mem[c][p.addr]
    BY <2>2, Zenon
  <2> QED
    BY <1>1, <2>1, <2>2, Zenon
<1>6. c \in NCRISCs => NcriscOK(c)'
  <2> SUFFICES ASSUME c \in NCRISCs PROVE NcriscOK(c)'
    BY SMTT(60)
  <2>1. CASE at[c] = FW
    <3>1. ncrisc_prev_kernel_pc' = ncrisc_prev_kernel_pc
      BY <1>3, <2>1, ZenonT(20) DEF EntersNew
    <3> QED
      <4>1. at'[c] = FW /\ mem'[c] = mem[c] /\ target'[c] = target[c] /\ last'[c] = last[c]
        BY <1>3, <2>1, Zenon
      <4>2. \A p \in KernelPlaces : p # at[c]
        BY <2>1, Zenon
      <4>3. \A p \in KernelPlaces : block_map'[c][p] # None => block_map'[c][p] = block_map[c][p]
        BY <1>1, <4>2, Zenon
      <4>4. NcriscOK(c)
        BY Zenon DEF CoreOK
      <4> QED
        BY <3>1, <4>1, <4>3, <4>4, ZenonT(60) DEF NcriscOK
  <2>2. CASE at[c] # FW
    <3>1. ncrisc_prev_kernel_pc'.addr = at[c].addr
      <4>1. CASE EntersNew(c)
        BY <1>3, <4>1, ZenonT(20)
      <4>2. CASE ~EntersNew(c)
        <5>1. ncrisc_prev_kernel_pc' = ncrisc_prev_kernel_pc
          BY <1>3, <4>2, ZenonT(20)
        <5>2. NcriscOK(c)
          BY DEF CoreOK
        <5> QED
          BY <2>2, <4>2, <5>1, <5>2, SMTT(60) DEF NcriscOK, EntersNew
      <4> QED BY <4>1, <4>2
    <3>2. target[c] # None
      BY <2>2 DEF CoreOK, Called
    <3>3. ~Drops(c) => ncrisc_prev_kernel_pc' = ncrisc_prev_kernel_pc
      BY <1>3, Zenon DEF Drops
    <3>4. /\ at' = at /\ mem' = mem /\ target' = target
          /\ at[c].addr = ncrisc_prev_kernel_pc'.addr
      BY <1>3, <3>1, Zenon
    <3>5. ASSUME NEW p \in KernelPlaces, block_map'[c][p] # None
          PROVE  block_map'[c][p] = mem[c][p.addr] /\ p.addr = ncrisc_prev_kernel_pc'.addr
      <4>1. CASE block_map'[c][p] = block_map[c][p] /\ ~Drops(c)
        <5>1. NcriscOK(c)
          BY Zenon DEF CoreOK
        <5>2. block_map[c][p] = mem[c][p.addr] /\ p.addr = ncrisc_prev_kernel_pc.addr
          BY <3>5, <4>1, <5>1, Zenon DEF NcriscOK
        <5> QED BY <3>3, <4>1, <5>2, Zenon
      <4>2. CASE p = at[c] /\ block_map'[c][p] = mem[c][p.addr]
        BY <3>4, <4>2, Zenon
      <4> QED BY <1>1, <3>5, <4>1, <4>2, Zenon
    <3> QED
      BY <3>2, <3>4, <3>5, Zenon DEF NcriscOK
  <2> QED
    BY <2>1, <2>2
<1> QED
  BY <1>2, <1>4, <1>5, <1>6, SMTT(60) DEF CoreOK
-----------------------------------------------------------------------------
\* The end of a block: a jump past the head of the loop goes to fresh code.
LEMMA GoOK ==
    ASSUME CodeInv, NEW c \in CodeCores,
           RunFirmware(c) \/ CallKernel(c) \/ RunKernel(c) \/ LeaveKernel(c)
    PROVE  CodeTypeOK' /\ CoreOK(c)'
<1> USE PlaceFacts DEF CodeInv, CodeTypeOK
<1>1. CASE RunFirmware(c)
  <2>1. /\ at[c] = FW /\ at'[c] = FW /\ inside'[c] \in BOOLEAN /\ (inside'[c] => block_map[c][FW] # None)
        /\ inside[c] /\ CodeTypeOK'
    BY <1>1, ZenonT(60) DEF RunFirmware, GoTo, Direct, Return
  <2>2. UNCHANGED <<mem, target, last, polled, pre, block_map, ncrisc_prev_kernel_pc>>
    BY <1>1 DEF RunFirmware, GoTo
  <2> QED
    <3>1. Called(c)'
      BY <2>1, <2>2, ZenonT(20) DEF CoreOK, Called
    <3>2. c \in Tracked => TrackedOK(c)'
      BY <2>1, <2>2, ZenonT(20) DEF CoreOK, TrackedOK
    <3>3. c \in NCRISCs => NcriscOK(c)'
      <4>1. c \in NCRISCs => NcriscOK(c)
        BY Zenon DEF CoreOK
      <4> HIDE PlaceFacts DEF CodeInv, CodeTypeOK
      <4> QED BY <2>1, <2>2, <4>1, Zenon DEF NcriscOK
    <3> QED
      BY <2>1, <3>1, <3>2, <3>3, Zenon DEF CoreOK
<1>2. CASE CallKernel(c)
  <2> DEFINE p == Entry(target[c])
  <2>1. /\ at[c] = FW /\ target[c] # None /\ polled[c] /\ target[c] \in Addrs
        /\ UNCHANGED <<mem, target, last, polled, pre, block_map, ncrisc_prev_kernel_pc>>
    BY <1>2, SMTT(60) DEF CallKernel, GoTo
  <2>2. p \in KernelPlaces /\ p.addr = target[c]
    BY <2>1, SMTT(60)
  <2>a. at' = [at EXCEPT ![c] = p] /\ (Direct(c, p) \/ Return(c, p))
    BY <1>2, SMTT(60) DEF CallKernel, GoTo
  <2>5. pre[c] = FW
    BY <2>1 DEF CoreOK, Called
  <2> HIDE DEF p
  <2>4. inside'[c] => block_map[c][p] # None
    BY <2>a, Zenon DEF Direct, Return
  <2>3. at'[c] = p /\ CodeTypeOK'
    BY <2>a, <2>1, <2>2, ZenonT(60) DEF Direct, Return
  <2>6. Called(c)'
    BY <2>1, <2>2, <2>3, <2>4, ZenonT(20) DEF CoreOK, Called
  <2>7. c \in Tracked => TrackedOK(c)'
    BY <2>1, <2>2, <2>3, <2>5, ZenonT(20) DEF CoreOK, TrackedOK
  <2>8. c \in NCRISCs => NcriscOK(c)'
    <3>1. c \in NCRISCs => NcriscOK(c)
      BY Zenon DEF CoreOK
    <3>2. p # FW
      BY <2>2, Zenon
    <3> HIDE PlaceFacts DEF CodeInv, CodeTypeOK
    <3> QED BY <2>1, <2>2, <2>3, <2>4, <2>5, <3>1, <3>2, ZenonT(20) DEF NcriscOK
  <2> QED
    BY <2>3, <2>6, <2>7, <2>8 DEF CoreOK
<1>3. CASE RunKernel(c)
  <2> DEFINE p == Body(at[c].addr)
  <2>1. /\ at[c] # FW /\ inside[c]
        /\ UNCHANGED <<mem, target, last, polled, pre, block_map, ncrisc_prev_kernel_pc>>
    BY <1>3 DEF RunKernel, GoTo
  <2>2. p \in KernelPlaces /\ p.addr = at[c].addr
    BY <2>1, Zenon
  <2>3. at'[c] = p /\ CodeTypeOK'
    BY <1>3, <2>1, <2>2, ZenonT(60) DEF RunKernel, GoTo, Direct, Return
  <2>4. inside'[c] => block_map[c][p] # None
    BY <1>3 DEF RunKernel, GoTo, Direct, Return
  <2> HIDE DEF p
  <2> QED
    <3>1. Called(c)'
      BY <2>1, <2>2, <2>3, <2>4, ZenonT(20) DEF CoreOK, Called
    <3>2. c \in Tracked => TrackedOK(c)'
      BY <2>1, <2>2, <2>3, <2>4, ZenonT(20) DEF CoreOK, TrackedOK
    <3>3. c \in NCRISCs => NcriscOK(c)'
      BY <2>1, <2>2, <2>3, <2>4, ZenonT(20) DEF CoreOK, NcriscOK
    <3> QED
      BY <2>3, <3>1, <3>2, <3>3, Zenon DEF CoreOK
<1>4. CASE LeaveKernel(c)
  <2>1. /\ at[c] # FW /\ inside[c] /\ at'[c] = FW /\ target'[c] = None /\ CodeTypeOK'
        /\ (inside'[c] => block_map[c][FW] # None)
        /\ UNCHANGED <<mem, last, polled, pre, block_map, ncrisc_prev_kernel_pc>>
    BY <1>4, ZenonT(60) DEF LeaveKernel, GoTo, Direct, Return
  <2>2. at[c].addr = last[c]
    BY <2>1, ZenonT(20) DEF CoreOK, Called
  <2> QED
    <3>1. Called(c)'
      BY <2>1, <2>2, Zenon DEF CoreOK, Called
    <3>2. c \in Tracked => TrackedOK(c)'
      BY <2>1, <2>2, Zenon DEF CoreOK, TrackedOK
    <3>3. c \in NCRISCs => NcriscOK(c)'
      <4>1. c \in NCRISCs => NcriscOK(c) /\ at[c].addr = ncrisc_prev_kernel_pc.addr
        BY <2>1, Zenon DEF CoreOK, NcriscOK
      <4>2. c \in NCRISCs =>
              \A p \in KernelPlaces : block_map[c][p] # None => p.addr = last[c]
        BY <2>2, <4>1, Zenon DEF NcriscOK
      <4> HIDE PlaceFacts DEF CodeInv, CodeTypeOK
      <4> QED BY <2>1, <2>2, <4>1, <4>2, Zenon DEF NcriscOK
    <3> QED
      BY <2>1, <3>1, <3>2, <3>3, Zenon DEF CoreOK
<1> QED
  BY <1>1, <1>2, <1>3, <1>4, ZenonT(60)

\* Every step of the host and of rv_step keeps the invariant on a tile with one NCRISC.
LEMMA CodeInvNext ==
    ASSUME \A b, d \in NCRISCs : b = d, CodeInv, [CodeNext]_codeVars
    PROVE  CodeInv'
<1>1. CASE UNCHANGED codeVars
  <2>1. CodeTypeOK'
    BY <1>1, Zenon DEF codeVars, CodeInv, CodeTypeOK
  <2>2. ASSUME NEW c \in CodeCores
        PROVE  CoreOK(c)'
    <3>1. CoreOK(c)
      BY Zenon DEF CodeInv
    <3>2. Called(c)'
      BY <1>1, <3>1, Zenon DEF codeVars, CoreOK, Called
    <3>3. c \in Tracked => TrackedOK(c)'
      BY <1>1, <3>1, Zenon DEF codeVars, CoreOK, TrackedOK
    <3>4. c \in NCRISCs => NcriscOK(c)'
      BY <1>1, <3>1, Zenon DEF codeVars, CoreOK, NcriscOK
    <3> QED
      BY <3>2, <3>3, <3>4, Zenon DEF CoreOK
  <2> QED
    BY <2>1, <2>2, Zenon DEF CodeInv
<1>2. ASSUME NEW c \in CodeCores,
             \/ \E a \in Addrs, v \in Versions : Load(c, a, v)
             \/ Head(c) \/ RunFirmware(c) \/ CallKernel(c) \/ RunKernel(c) \/ LeaveKernel(c)
      PROVE  CodeInv'
  <2>1. CodeTypeOK' /\ CoreOK(c)'
    BY <1>2, LoadOK, HeadOK, GoOK, SMTT(60)
  <2>2. ASSUME NEW d \in CodeCores \ {c} PROVE CoreOK(d)'
    <3>1. CodeTypeOK /\ CoreOK(d)
      BY Zenon DEF CodeInv
    <3>2. block_map'[d] = block_map[d]
      BY <1>2, <3>1, HeadMap, ZenonT(60) DEF Load, Head, RunFirmware, CallKernel, RunKernel, LeaveKernel, GoTo
    <3>3. /\ mem'[d] = mem[d] /\ target'[d] = target[d] /\ last'[d] = last[d]
          /\ polled'[d] = polled[d] /\ at'[d] = at[d] /\ inside'[d] = inside[d] /\ pre'[d] = pre[d]
      BY <1>2, <3>1, ZenonT(60) DEF Load, Head, RunFirmware, CallKernel, RunKernel, LeaveKernel, GoTo, Direct,
            Return, CodeTypeOK
    <3>4. c \notin NCRISCs => UNCHANGED ncrisc_prev_kernel_pc
      BY <1>2, Zenon DEF Load, Head, EntersNew, RunFirmware, CallKernel, RunKernel, LeaveKernel, GoTo
    <3> QED
      BY <3>1, <3>2, <3>3, <3>4, Others, Zenon
  <2> QED
    BY <2>1, <2>2 DEF CodeInv
<1> QED
  BY <1>1, <1>2 DEF CodeNext

\* The invariant says that what is executed is what lies in memory.
LEMMA CodeInvFresh == CodeInv => CodeIsFresh
BY PlaceFacts, ZenonT(20) DEF CodeInv, CodeTypeOK, CodeIsFresh, CoreOK, Called, TrackedOK, NcriscOK, CodeCores

\* On a tile with one NCRISC no core executes a block that was translated from a binary
\* that has been overwritten, although direct jumps pass the head of rv_step's loop.
THEOREM CodeStaysFresh ==
    ASSUME \A b, d \in NCRISCs : b = d
    PROVE  CodeSpec => []CodeIsFresh
<1>1. CodeInit => CodeInv
  BY CodeInvInit
<1>2. CodeInv /\ [CodeNext]_codeVars => CodeInv'
  BY CodeInvNext
<1>3. CodeInv => CodeIsFresh
  BY CodeInvFresh
<1> QED
  BY <1>1, <1>2, <1>3, PTL DEF CodeSpec
-----------------------------------------------------------------------------
(* The life cycle of kernels. *)

\* No launch mixes BRISC with TRISCs.
Unmixed == \A S \in Launches : S \cap TRISCs = {} \/ S \subseteq TRISCs

\* Where a core can be: the head of the loop has seen it before it runs, and has seen it
\* in the kernel before it runs there, even when it got there by a direct jump; only
\* cores that have not returned are in a kernel.
CoresInv ==
    /\ back \subseteq todo
    /\ \A c \in TileCores :
         /\ running[c] => prev[c] # "none"
         /\ area[c] = "kernel" => prev[c] # "none" /\ c \in todo \ back
         /\ area[c] = "kernel" /\ running[c] => prev[c] = "kernel"
         /\ "kernel" \in kept[c] => prev[c] = "kernel"

\* What tensix_clear has still to wipe, and that it is going to be called.
DirtyInv ==
    /\ withTrisc => todo \subseteq TRISCs
    /\ mask \cap TRISCs # {} => had_trisc
    /\ had_trisc => mask # {}
    /\ dirty # {} => had_trisc

\* A core that has used the shared state in this launch and has not returned is in its
\* kernel, and its bit is set.
UsedInv ==
    \A d \in dirty :
        /\ d[1] \in TileCores /\ d[2] \in Nat /\ d[2] <= launch
        /\ d[2] = launch /\ d[1] \in todo \ back =>
             area[d[1]] = "kernel" /\ prev[d[1]] = "kernel"
-----------------------------------------------------------------------------
\* A launch, the head of rv_step's loop and a block keep the types.
LEMMA KernelTypeStep == KernelTypeOK /\ [KernelNext]_kernelVars => KernelTypeOK'
<1> SUFFICES ASSUME KernelTypeOK, [KernelNext]_kernelVars
             PROVE  KernelTypeOK'
  OBVIOUS
<1> USE DEF KernelTypeOK, Areas
<1>1. ASSUME NEW S \in Launches, Launch(S)
      PROVE  KernelTypeOK'
  <2>1. launch + 1 \in 0..MaxLaunches
    BY <1>1, MaxLaunchesAssumption DEF Launch
  <2>2. S \in SUBSET TileCores /\ {} \in SUBSET TileCores
    BY LaunchesAssumption, SMTT(60)
  <2>3. (S \cap TRISCs # {}) \in BOOLEAN
    OBVIOUS
  <2> QED BY <1>1, <2>1, <2>2, <2>3, Zenon DEF Launch, seenVars
<1>2. ASSUME NEW c \in TileCores, TrackHead(c)
      PROVE  KernelTypeOK'
  <2>1. area[c] \in {"fw", "kernel"}
    BY Zenon
  <2>2. /\ running' \in [TileCores -> BOOLEAN]
        /\ prev' \in [TileCores -> {"fw", "kernel"} \cup {"none"}]
    BY <1>2, <2>1 DEF TrackHead
  <2>3. kept' \in [TileCores -> SUBSET {"fw", "kernel"}]
    <3>1. KeptAfter(c) \in SUBSET {"fw", "kernel"}
      BY <2>1 DEF KeptAfter
    <3> QED BY <1>2, <3>1 DEF TrackHead
  <2>4. mask' \in SUBSET TileCores /\ looked' \in SUBSET TileCores
    BY <1>2 DEF TrackHead, MaskAfter
  <2>5. had_trisc' \in BOOLEAN
    BY <1>2, Zenon DEF TrackHead
  <2>6. dirty' \in SUBSET (TileCores \X (0..MaxLaunches))
    BY <1>2 DEF TrackHead
  <2> QED BY <1>2, <2>2, <2>3, <2>4, <2>5, <2>6, Zenon DEF TrackHead, launchVars
<1>3. ASSUME NEW c \in TileCores, Block(c)
      PROVE  KernelTypeOK'
  <2>1. ASSUME NEW p \in {"fw", "kernel"}, JumpTo(c, p)
        PROVE  /\ area' \in [TileCores -> {"fw", "kernel"}]
               /\ running' \in [TileCores -> BOOLEAN]
               /\ UNCHANGED <<prev, kept, mask, had_trisc, looked, launch, withTrisc>>
    <3>1. /\ area' = [area EXCEPT ![c] = p]
          /\ running' = running \/ running' = [running EXCEPT ![c] = FALSE]
      BY <2>1, Zenon DEF JumpTo
    <3>2. UNCHANGED <<prev, kept, mask, had_trisc, looked, launch, withTrisc>>
      BY <2>1, Zenon DEF JumpTo, seenVars, launchVars
    <3>3. area' \in [TileCores -> {"fw", "kernel"}]
      BY <3>1, SMTT(60)
    <3>4. running' \in [TileCores -> BOOLEAN]
      <4>1. running \in [TileCores -> BOOLEAN]
        OBVIOUS
      <4>2. [running EXCEPT ![c] = FALSE] \in [TileCores -> BOOLEAN]
        BY <4>1, Zenon
      <4> QED BY <3>1, <4>1, <4>2, Zenon
    <3> QED BY <3>2, <3>3, <3>4
  <2>2. CASE Spin(c)
    BY <2>1, <2>2, Zenon DEF Spin
  <2>3. CASE EnterKernel(c)
    BY <2>1, <2>3, Zenon DEF EnterKernel
  <2>4. CASE Report(c)
    <3>1. todo' \in SUBSET TileCores /\ back' \in SUBSET TileCores
      BY <2>4, Zenon DEF Report
    <3> QED BY <2>1, <2>4, <3>1, Zenon DEF Report
  <2>5. ASSUME NEW r \in BOOLEAN, KernelRuns(c, r)
        PROVE  KernelTypeOK'
    <3>1. <<c, launch>> \in TileCores \X (0..MaxLaunches)
      BY SMTT(60)
    <3>2. /\ dirty' \in SUBSET (TileCores \X (0..MaxLaunches))
          /\ back' \in SUBSET TileCores
      BY <2>5, <3>1 DEF KernelRuns
    <3>3. (IF r THEN "fw" ELSE "kernel") \in {"fw", "kernel"}
      OBVIOUS
    <3> QED BY <2>1, <2>5, <3>2, <3>3, Zenon DEF KernelRuns
  <2> QED BY <1>3, <2>2, <2>3, <2>4, <2>5, Zenon DEF Block
<1>4. CASE UNCHANGED kernelVars
  BY <1>4, Zenon DEF kernelVars, seenVars, launchVars
<1> QED BY <1>1, <1>2, <1>3, <1>4, Zenon DEF KernelNext

\* The variables stay within their types; the bound on launches is kept.
THEOREM KernelType == KernelSpec => []KernelTypeOK
<1>1. KernelInit => KernelTypeOK
  <2> SUFFICES ASSUME KernelInit PROVE KernelTypeOK
    OBVIOUS
  <2>1. launch \in 0..MaxLaunches
    BY MaxLaunchesAssumption DEF KernelInit
  <2>2. /\ area \in [TileCores -> Areas] /\ prev \in [TileCores -> Areas \cup {"none"}]
        /\ kept \in [TileCores -> SUBSET Areas] /\ running \in [TileCores -> BOOLEAN]
    BY DEF KernelInit, Areas
  <2> QED BY <2>1, <2>2, Zenon DEF KernelInit, KernelTypeOK
<1> QED BY <1>1, KernelTypeStep, PTL DEF KernelSpec
-----------------------------------------------------------------------------
\* What a block does, as far as the invariants see: it moves its own core, within what
\* is kept or back to the head of the loop, and leaves what rv_step has seen alone.
LEMMA BlockMoves ==
  ASSUME KernelTypeOK, CoresInv, NEW c \in TileCores, Block(c)
  PROVE  /\ running[c]
         /\ UNCHANGED <<prev, kept, mask, had_trisc, launch, withTrisc>>
         /\ \A e \in TileCores : e # c => area'[e] = area[e] /\ running'[e] = running[e]
         /\ running'[c] => area'[c] \in kept[c]
         /\ todo' \subseteq todo /\ back' \subseteq todo'
         /\ \A e \in TileCores : e # c => (e \in todo \ back <=> e \in (todo \ back)')
         /\ area'[c] = "kernel" => c \in (todo \ back)'
<1> USE DEF KernelTypeOK, CoresInv, JumpTo, seenVars, launchVars
<1>1. CASE Spin(c)
  BY <1>1, SMTT(60) DEF Spin
<1>2. CASE EnterKernel(c)
  BY <1>2, SMTT(60) DEF EnterKernel
<1>3. CASE Report(c)
  BY <1>3, SMTT(60) DEF Report
<1>4. ASSUME NEW r \in BOOLEAN, KernelRuns(c, r)
      PROVE  /\ running[c]
             /\ UNCHANGED <<prev, kept, mask, had_trisc, launch, withTrisc>>
             /\ \A e \in TileCores : e # c => area'[e] = area[e] /\ running'[e] = running[e]
             /\ running'[c] => area'[c] \in kept[c]
             /\ todo' \subseteq todo /\ back' \subseteq todo'
             /\ \A e \in TileCores : e # c => (e \in todo \ back <=> e \in (todo \ back)')
             /\ area'[c] = "kernel" => c \in (todo \ back)'
  BY <1>4, ZenonT(20) DEF KernelRuns
<1> QED BY <1>1, <1>2, <1>3, <1>4, Zenon DEF Block

\* No step puts a core into a kernel that rv_step has not seen in firmware, and none
\* has it run there before rv_step has seen it there.
LEMMA CoresStep ==
  ASSUME KernelTypeOK, CoresInv, [KernelNext]_kernelVars
  PROVE  CoresInv'
<1>1. ASSUME NEW S \in Launches, Launch(S)
      PROVE  CoresInv'
  <2>1. back = {} /\ \A c \in TileCores : area[c] # "kernel"
    BY <1>1, ZenonT(20) DEF Launch, CoresInv
  <2> QED BY <1>1, <2>1, ZenonT(20) DEF Launch, CoresInv, seenVars
<1>2. ASSUME NEW c \in TileCores, TrackHead(c)
      PROVE  CoresInv'
  <2>1. /\ running' = [running EXCEPT ![c] = TRUE] /\ prev' = [prev EXCEPT ![c] = area[c]]
        /\ kept' = [kept EXCEPT ![c] = KeptAfter(c)]
        /\ UNCHANGED <<area, todo, back>>
    BY <1>2, ZenonT(20) DEF TrackHead
  <2>2. area[c] \in {"fw", "kernel"} /\ ("kernel" \in KeptAfter(c) => area[c] = "kernel")
    BY DEF KernelTypeOK, Areas, CoresInv, KeptAfter, Leaves
  <2>3. /\ running \in [TileCores -> BOOLEAN] /\ prev \in [TileCores -> Areas \cup {"none"}]
        /\ kept \in [TileCores -> SUBSET Areas]
    BY DEF KernelTypeOK
  <2>4. ASSUME NEW e \in TileCores, e # c
        PROVE  running'[e] = running[e] /\ prev'[e] = prev[e] /\ kept'[e] = kept[e]
    BY <2>1, <2>3, <2>4
  <2>5. running'[c] /\ prev'[c] = area[c] /\ kept'[c] = KeptAfter(c)
    BY <2>1, <2>3
  <2>6. area[c] # "none"
    BY <2>2
  <2> QED BY <2>1, <2>2, <2>4, <2>5, <2>6, ZenonT(20) DEF CoresInv
<1>3. ASSUME NEW c \in TileCores, Block(c)
      PROVE  CoresInv'
  <2>1. ASSUME NEW e \in TileCores
        PROVE  /\ running'[e] => prev'[e] # "none"
               /\ area'[e] = "kernel" => prev'[e] # "none" /\ e \in (todo \ back)'
               /\ area'[e] = "kernel" /\ running'[e] => prev'[e] = "kernel"
               /\ "kernel" \in kept'[e] => prev'[e] = "kernel"
    <3>1. CASE e = c
      BY <1>3, <3>1, BlockMoves, ZenonT(20) DEF CoresInv
    <3>2. CASE e # c
      BY <1>3, <3>2, BlockMoves, ZenonT(20) DEF CoresInv
    <3> QED BY <3>1, <3>2, ZenonT(20)
  <2>2. back' \subseteq todo'
    BY <1>3, BlockMoves
  <2> QED BY <2>1, <2>2, Zenon DEF CoresInv
<1>4. CASE UNCHANGED kernelVars
  BY <1>4, Zenon DEF kernelVars, seenVars, CoresInv
<1> QED BY <1>1, <1>2, <1>3, <1>4, Zenon DEF KernelNext

\* The bit operations at the head of rv_step keep cores_in_kernel exact.
LEMMA MaskStep ==
  ASSUME KernelTypeOK, CoresInv, MaskExact, [KernelNext]_kernelVars
  PROVE  MaskExact'
<1>1. ASSUME NEW S \in Launches, Launch(S)
      PROVE  MaskExact'
  BY <1>1, Zenon DEF Launch, MaskExact, seenVars
<1>2. ASSUME NEW c \in TileCores, TrackHead(c)
      PROVE  MaskExact'
  <2>1. /\ area[c] \in {"fw", "kernel"} /\ prev[c] \in {"none", "fw", "kernel"}
        /\ prev' = [prev EXCEPT ![c] = area[c]]
        /\ prev \in [TileCores -> {"none", "fw", "kernel"}]
    BY <1>2 DEF KernelTypeOK, Areas, TrackHead
  <2>2. area[c] = "kernel" => prev[c] # "none"
    BY DEF CoresInv
  <2>3. mask' = IF area[c] = "kernel" THEN mask \cup {c} ELSE mask \ {c}
    BY <1>2, <2>1, <2>2, ZenonT(20) DEF TrackHead, MaskAfter, Enters, Leaves, MaskExact
  <2> QED BY <2>1, <2>3 DEF MaskExact
<1>3. ASSUME NEW c \in TileCores, Block(c)
      PROVE  MaskExact'
  BY <1>3, BlockMoves, Zenon DEF MaskExact
<1>4. CASE UNCHANGED kernelVars
  BY <1>4, Zenon DEF kernelVars, seenVars, MaskExact
<1> QED BY <1>1, <1>2, <1>3, <1>4, Zenon DEF KernelNext

\* Both hold in every reachable state.
LEMMA CoresAndMask == KernelSpec => [](CoresInv /\ MaskExact)
<1>1. KernelInit => CoresInv /\ MaskExact
  BY DEF KernelInit, CoresInv, MaskExact
<1>2. KernelTypeOK /\ CoresInv /\ MaskExact /\ [KernelNext]_kernelVars
        => (CoresInv /\ MaskExact)'
  BY CoresStep, MaskStep
<1> QED BY <1>1, <1>2, KernelType, PTL DEF KernelSpec

\* For every set of launches, the mask is the set of cores whose last iteration began in
\* kernel code.
THEOREM KernelMask == KernelSpec => []MaskExact
BY CoresAndMask, PTL
-----------------------------------------------------------------------------
\* What a block adds to the shared state: only a kernel does, as its own core, in a
\* launch with a TRISC.
LEMMA BlockUses ==
  ASSUME KernelTypeOK, NEW c \in TileCores, Block(c)
  PROVE  \/ dirty' = dirty
         \/ /\ dirty' = dirty \cup {<<c, launch>>}
            /\ withTrisc /\ area[c] = "kernel" /\ running[c]
            /\ c \in back' \/ area'[c] = area[c]
<1>1. CASE Spin(c) \/ EnterKernel(c) \/ Report(c)
  BY <1>1, Zenon DEF Spin, EnterKernel, Report
<1>2. ASSUME NEW r \in BOOLEAN, KernelRuns(c, r)
      PROVE  \/ dirty' = dirty
             \/ /\ dirty' = dirty \cup {<<c, launch>>}
                /\ withTrisc /\ area[c] = "kernel" /\ running[c]
                /\ c \in back' \/ area'[c] = area[c]
  <2>1. area[c] = "kernel" /\ running[c]
    BY <1>2, Zenon DEF KernelRuns, JumpTo
  <2>2. CASE r
    BY <1>2, <2>1, <2>2, Zenon DEF KernelRuns
  <2>3. CASE ~r
    <3>1. area' = [area EXCEPT ![c] = "kernel"]
      BY <1>2, <2>3 DEF KernelRuns, JumpTo
    <3>2. area'[c] = area[c]
      BY <2>1, <3>1 DEF KernelTypeOK
    <3> QED BY <1>2, <2>1, <3>2, Zenon DEF KernelRuns
  <2> QED BY <2>2, <2>3
<1> QED BY <1>1, <1>2, Zenon DEF Block

\* The exit that empties cores_in_kernel wipes what all kernels have left.
LEMMA DirtyStep ==
  ASSUME Unmixed, KernelTypeOK, CoresInv, MaskExact, DirtyInv, [KernelNext]_kernelVars
  PROVE  DirtyInv'
<1>1. ASSUME NEW S \in Launches, Launch(S)
      PROVE  DirtyInv'
  <2>1. S \cap TRISCs # {} => S \subseteq TRISCs
    BY SMTT(60) DEF Unmixed
  <2> QED BY <1>1, <2>1, Zenon DEF Launch, DirtyInv, seenVars
<1>2. ASSUME NEW c \in TileCores, TrackHead(c)
      PROVE  DirtyInv'
  <2>1. UNCHANGED <<todo, withTrisc>>
    BY <1>2, ZenonT(20) DEF TrackHead, launchVars
  <2>2. CASE Enters(c)
    BY <1>2, <2>1, <2>2, Zenon DEF TrackHead, MaskAfter, Enters, Leaves, Clears, DirtyInv
  <2>3. CASE Leaves(c)
    BY <1>2, <2>1, <2>3, Zenon DEF TrackHead, MaskAfter, Enters, Leaves, Clears, DirtyInv
  <2>4. CASE ~Enters(c) /\ ~Leaves(c)
    BY <1>2, <2>1, <2>4, Zenon DEF TrackHead, MaskAfter, Clears, DirtyInv
  <2> QED BY <2>2, <2>3, <2>4
<1>3. ASSUME NEW c \in TileCores, Block(c)
      PROVE  DirtyInv'
  <2>1. UNCHANGED <<mask, had_trisc, withTrisc>> /\ todo' \subseteq todo
    BY <1>3, BlockMoves, Zenon
  <2>2. CASE dirty' = dirty
    BY <2>1, <2>2, Zenon DEF DirtyInv
  <2>3. CASE withTrisc /\ area[c] = "kernel" /\ running[c]
    <3>1. c \in mask
      BY <2>3, Zenon DEF CoresInv, MaskExact
    <3>2. c \in TRISCs
      BY <2>3, Zenon DEF CoresInv, DirtyInv
    <3>3. had_trisc
      BY <3>1, <3>2, Zenon DEF DirtyInv
    <3> QED BY <2>1, <3>3, Zenon DEF DirtyInv
  <2> QED BY <1>3, <2>2, <2>3, BlockUses, Zenon
<1>4. CASE UNCHANGED kernelVars
  BY <1>4, Zenon DEF kernelVars, seenVars, launchVars, DirtyInv
<1> QED BY <1>1, <1>2, <1>3, <1>4, Zenon DEF KernelNext

\* When TRISCs are launched without BRISC and BRISC without TRISCs, nothing is left in
\* the shared state while no core's bit is set, however late the exits are seen.
THEOREM KernelWiped ==
  ASSUME Unmixed
  PROVE  KernelSpec => []WipedWhenEmpty
<1>1. KernelInit => DirtyInv
  BY DEF KernelInit, DirtyInv
<1>2. KernelTypeOK /\ CoresInv /\ MaskExact /\ DirtyInv /\ [KernelNext]_kernelVars => DirtyInv'
  BY DirtyStep
<1>3. DirtyInv => WipedWhenEmpty
  BY DEF DirtyInv, WipedWhenEmpty
<1> QED BY <1>1, <1>2, <1>3, KernelType, CoresAndMask, PTL DEF KernelSpec
-----------------------------------------------------------------------------
\* A core that has used the shared state in this launch leaves its kernel only by
\* returning.
LEMMA UsedStays ==
  ASSUME KernelTypeOK, CoresInv, NEW c \in TileCores, Block(c), c \in (todo \ back)',
         c \in todo \ back => area[c] = "kernel"
  PROVE  c \in todo \ back /\ area'[c] = "kernel"
<1>1. c \in todo \ back /\ area[c] = "kernel"
  BY SMTT(60) DEF Block, Spin, EnterKernel, Report, KernelRuns
<1>2. PICK r \in BOOLEAN : KernelRuns(c, r)
  BY <1>1 DEF Block, Spin, EnterKernel, Report
<1>3. ~r
  BY <1>2, Zenon DEF KernelRuns
<1>4. JumpTo(c, "kernel")
  BY <1>2, <1>3 DEF KernelRuns
<1>5. area'[c] = "kernel"
  BY <1>4, Zenon DEF JumpTo, KernelTypeOK
<1> QED BY <1>1, <1>5, ZenonT(20)

\* A core's use of the shared state keeps its bit set until it has returned.
LEMMA UsedStep ==
  ASSUME KernelTypeOK, CoresInv, UsedInv, [KernelNext]_kernelVars
  PROVE  UsedInv'
<1>0. launch \in Nat
  BY MaxLaunchesAssumption DEF KernelTypeOK
<1>1. ASSUME NEW S \in Launches, Launch(S)
      PROVE  UsedInv'
  <2>1. launch' = launch + 1 /\ dirty' = dirty
    BY <1>1 DEF Launch
  <2>2. ASSUME NEW d \in dirty
        PROVE  d[1] \in TileCores /\ d[2] \in Nat /\ d[2] <= launch' /\ d[2] # launch'
    BY <1>0, <2>1 DEF UsedInv
  <2> QED BY <2>1, <2>2, Zenon DEF UsedInv
<1>2. ASSUME NEW c \in TileCores, TrackHead(c)
      PROVE  UsedInv'
  <2>1. /\ prev' = [prev EXCEPT ![c] = area[c]] /\ UNCHANGED <<area, todo, back, launch>>
        /\ dirty' \subseteq dirty
    BY <1>2, ZenonT(20) DEF TrackHead, launchVars
  <2>2. ASSUME NEW e \in TileCores, area[e] = "kernel", prev[e] = "kernel"
        PROVE  prev'[e] = "kernel"
    BY <2>1, <2>2 DEF KernelTypeOK
  <2> QED BY <2>1, <2>2, Zenon DEF UsedInv
<1>3. ASSUME NEW c \in TileCores, Block(c)
      PROVE  UsedInv'
  <2>1. ASSUME NEW d \in dirty
        PROVE  /\ d[1] \in TileCores /\ d[2] \in Nat /\ d[2] <= launch'
               /\ d[2] = launch' /\ d[1] \in (todo \ back)' =>
                    area'[d[1]] = "kernel" /\ prev'[d[1]] = "kernel"
    <3>1. UNCHANGED <<launch, prev>>
      BY <1>3, BlockMoves, Zenon
    <3>2. CASE d[1] = c
      BY <1>3, <3>1, <3>2, UsedStays, Zenon DEF UsedInv
    <3>3. CASE d[1] # c
      BY <1>3, <3>1, <3>3, BlockMoves, Zenon DEF UsedInv
    <3> QED BY <3>2, <3>3
  <2>2. CASE dirty' = dirty
    BY <2>1, <2>2, Zenon DEF UsedInv
  <2>3. CASE /\ dirty' = dirty \cup {<<c, launch>>} /\ area[c] = "kernel" /\ running[c]
             /\ c \in back' \/ area'[c] = area[c]
    <3>1. UNCHANGED <<launch, prev>> /\ prev[c] = "kernel"
      BY <1>3, <2>3, BlockMoves, Zenon DEF CoresInv
    <3>2. <<c, launch>>[1] = c /\ <<c, launch>>[2] = launch /\ launch <= launch
      BY <1>0
    <3> DEFINE u == <<c, launch>>
    <3>3. /\ u[1] \in TileCores /\ u[2] \in Nat /\ u[2] <= launch'
          /\ u[2] = launch' /\ u[1] \in (todo \ back)' =>
               area'[u[1]] = "kernel" /\ prev'[u[1]] = "kernel"
      BY <1>0, <2>3, <3>1, <3>2, Zenon
    <3>4. dirty' = dirty \cup {u}
      BY <2>3
    <3> HIDE DEF u
    <3> QED BY <2>1, <3>3, <3>4, Zenon DEF UsedInv
  <2> QED BY <1>3, <2>2, <2>3, BlockUses, Zenon
<1>4. CASE UNCHANGED kernelVars
  BY <1>4, Zenon DEF kernelVars, seenVars, launchVars, UsedInv
<1> QED BY <1>1, <1>2, <1>3, <1>4, Zenon DEF KernelNext

\* tensix_clear never takes from a core in the midst of its kernel what that core has put
\* into the shared state in this launch, for any cores and launches.
THEOREM KernelWipeSpares == KernelSpec => WipeSparesRunning
<1> DEFINE Spares == \A d \in dirty \ dirty' : d[2] = launch => area[d[1]] = "fw"
<1>1. KernelInit => UsedInv
  BY DEF KernelInit, UsedInv
<1>2. KernelTypeOK /\ CoresInv /\ UsedInv /\ [KernelNext]_kernelVars => UsedInv'
  BY UsedStep
<1>3. KernelTypeOK /\ CoresInv /\ MaskExact /\ UsedInv /\ [KernelNext]_kernelVars => Spares
  <2> SUFFICES ASSUME KernelTypeOK, CoresInv, MaskExact, UsedInv, [KernelNext]_kernelVars,
                      NEW d \in dirty, d \notin dirty', d[2] = launch
               PROVE  area[d[1]] = "fw"
    BY Zenon
  <2>1. PICK c \in TileCores : TrackHead(c)
    <3>1. ASSUME NEW c \in TileCores, Block(c)
          PROVE  dirty \subseteq dirty'
      BY <3>1, BlockUses, Zenon
    <3> QED BY <3>1, Zenon DEF KernelNext, Launch, kernelVars
  <2>2. Leaves(c) /\ mask \ {c} = {}
    BY <2>1, Zenon DEF TrackHead, Clears
  <2>3. ASSUME area[d[1]] = "kernel"
        PROVE  FALSE
    <3>1. d[1] \in TileCores /\ d[1] \in todo \ back
      BY <2>3, Zenon DEF UsedInv, CoresInv
    <3>2. d[1] \in mask
      BY <3>1, Zenon DEF UsedInv, MaskExact
    <3>3. d[1] = c
      BY <2>2, <3>2, Zenon
    <3> QED BY <2>2, <2>3, <3>3 DEF Leaves
  <2> QED BY <2>3 DEF KernelTypeOK, Areas, UsedInv
<1>4. KernelTypeOK /\ CoresInv /\ MaskExact /\ UsedInv /\ [KernelNext]_kernelVars
        => [Spares]_kernelVars
  BY <1>3
<1> QED BY <1>1, <1>2, <1>4, KernelType, CoresAndMask, PTL DEF KernelSpec, WipeSparesRunning
=============================================================================
