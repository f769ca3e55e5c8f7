-------------------------- MODULE TensixOnceProofs --------------------------
(***************************************************************************)
(* Every direct instruction is executed exactly once, its expansion in     *)
(* order and in full, for any programs: what each step does to a core's    *)
(* row of the invariant (OnceInv), and the theorem.                        *)
(***************************************************************************)
EXTENDS TensixOrderProofs

USE ZenonT(60)

\* The row of core u after a step, when the core is then in phase ph at operation c.
RowAfter(u, ph, c) == Once(u, th'[u], ph, done'[u], prog[u], c)

\* Core h comes to phase ph at operation c, the other cores stay.
HostMoves(h, ph, c) == phase' = [phase EXCEPT ![h] = ph] /\ pc' = [pc EXCEPT ![h] = c]

\* When every row is in order after the step, so is the state.
LEMMA RowsFit ==
  ASSUME CopInv, OnceInv, prog' = prog, NEW h \in Hosts, NEW ph, NEW c, HostMoves(h, ph, c),
         h \in Threads => RowAfter(h, ph, c),
         \A u \in Threads : \/ u = h
                            \/ th'[u] = th[u] /\ done'[u] = done[u]
                            \/ RowAfter(u, phase[u], pc[u])
  PROVE  OnceInv'
<1> SUFFICES ASSUME NEW u \in Threads PROVE OnceAt(u)'
  BY DEF OnceInv
<1>1. u \in Hosts /\ pc \in [Hosts -> Nat] /\ phase \in [Hosts -> CopPhases]
  BY RowType
<1>2. OnceAt(u)' = Once(u, th'[u], phase'[u], done'[u], prog'[u], pc'[u])
  BY DEF OnceAt
<1>3. CASE u = h
  <2>1. phase'[h] = ph /\ pc'[h] = c
    BY <1>1 DEF HostMoves
  <2> QED BY <1>2, <1>3, <2>1 DEF RowAfter
<1>4. CASE u # h
  <2>1. phase'[u] = phase[u] /\ pc'[u] = pc[u]
    BY <1>1, <1>4 DEF HostMoves
  <2>2. Once(u, th[u], phase[u], done[u], prog[u], pc[u])
    BY DEF OnceInv, OnceAt
  <2>3. RowAfter(u, phase[u], pc[u])
    BY <1>4, <2>2 DEF RowAfter
  <2> QED BY <1>2, <2>1, <2>3 DEF RowAfter
<1> QED BY <1>3, <1>4

\* What is taken up and does not come from an expander was pushed, and has no expansion.
LEMMA FetchedSimple ==
  ASSUME NEW t, NEW T \in Thread, KindsOK(t, T), SimpleOK(T), ~Idle(T)
  PROVE  /\ \A n \in 1..Len(Popped(T).fifo) : Simple(Popped(T).fifo[n].ins)
         /\ Own(T) => T.cur # <<>> /\ Fetched(T) = T.cur[1]
         /\ ~Own(T) => /\ Simple(Fetched(T).ins) /\ ~FromExpander(Fetched(T).id)
                       /\ PushedTo(t, Fetched(T).id)
<1>1. T.cur \in Seq(Tokens) /\ T.fifo \in Seq(Tokens)
  BY DEF Thread
<1>2. /\ \A n \in 1..Len(T.fifo) : PushedTo(t, T.fifo[n].id) /\ Simple(T.fifo[n].ins)
      /\ \A n \in 1..Len(T.cur) : PushedTo(t, T.cur[n].id) \/ FromExpander(T.cur[n].id)
      /\ T.cur # <<>> /\ ~Own(T) => Simple(T.cur[1].ins)
  BY DEF KindsOK, SimpleOK
<1>3. Popped(T).fifo = IF T.cur # <<>> THEN T.fifo ELSE Tail(T.fifo)
  BY PoppedThread
<1>4. \A id : PushedTo(t, id) => ~FromExpander(id)
  BY DEF PushedTo, IsPushed, FromExpander
<1>5. CASE T.cur # <<>>
  <2>1. 1 \in 1..Len(T.cur) /\ Fetched(T) = T.cur[1]
    BY <1>1, <1>5, SMTT(60) DEF Fetched
  <2> QED BY <1>2, <1>3, <1>5, <2>1 DEF Own
<1>6. CASE T.cur = <<>>
  <2>1. Fetched(T) = Head(T.fifo) /\ T.fifo # <<>> /\ ~Own(T)
    BY <1>6 DEF Fetched, Idle, Own
  <2>2. /\ Head(T.fifo) = T.fifo[1] /\ 1 \in 1..Len(T.fifo)
        /\ \A n \in 1..Len(Tail(T.fifo)) : Tail(T.fifo)[n] = T.fifo[n + 1] /\ n + 1 \in 1..Len(T.fifo)
    BY <1>1, <2>1, SMTT(60)
  <2>3. \A n \in 1..Len(Tail(T.fifo)) : Simple(Tail(T.fifo)[n].ins)
    BY <1>2, <2>2
  <2> QED BY <1>2, <1>3, <1>4, <1>6, <2>1, <2>2, <2>3
<1> QED BY <1>5, <1>6

\* Executing a pushed instruction does nothing to the expanders.
LEMMA PushedRan ==
  ASSUME NEW t, NEW T \in Thread, KindsOK(t, T), SimpleOK(T), ~Idle(T), ~Own(T)
  PROVE  SameExpansion(T, RanOne(T)) /\ SimpleOK(RanOne(T))
<1> DEFINE U == RanOne(T)
           tok == Fetched(T)
<1>1. /\ \A n \in 1..Len(Popped(T).fifo) : Simple(Popped(T).fifo[n].ins)
      /\ Simple(tok.ins)
  BY FetchedSimple
<1>2. U.cur = <<>> /\ U.fifo = Popped(T).fifo
  BY RanThread
<1>3. U.buf = T.buf /\ U.mop = T.mop /\ U.exp = T.exp
  BY <1>1, RanFields DEF Simple, Plays
<1> HIDE DEF U
<1>4. ~Own(U)
  BY <1>2 DEF Own
<1>5. SimpleOK(U)
  BY <1>1, <1>2, <1>3 DEF SimpleOK
<1> QED BY <1>3, <1>4, <1>5 DEF SameExpansion, U

\* Nor does keeping an instruction.
LEMMA KeptQuiet ==
  ASSUME NEW t, NEW T \in Thread, KindsOK(t, T), SimpleOK(T), ~Idle(T), NEW g \in Gates
  PROVE  SameExpansion(T, KeptOne(T, g)) /\ SimpleOK(KeptOne(T, g))
<1> DEFINE U == KeptOne(T, g)
           tok == Fetched(T)
           P == Popped(T)
<1>1. /\ \A n \in 1..Len(P.fifo) : Simple(P.fifo[n].ins)
      /\ Own(T) => T.cur # <<>> /\ tok = T.cur[1]
      /\ ~Own(T) => Simple(tok.ins) /\ ~FromExpander(tok.id)
  BY FetchedSimple
<1>2. U.cur = <<tok>> /\ U.fifo = P.fifo
  BY KeptThread
<1>3. P \in Thread /\ P.buf = T.buf /\ P.mop = T.mop /\ P.exp = T.exp
  BY PoppedThread
<1> HIDE DEF P
<1>4. U.buf = T.buf /\ U.mop = T.mop /\ U.exp = T.exp
  <2>1. U = [P EXCEPT !.cur = <<tok>>, !.gate = g]
    BY DEF KeptOne, P
  <2> HIDE DEF U, tok
  <2> QED BY <1>3, <2>1 DEF Thread
<1> HIDE DEF U, tok
<1>5. U.cur # <<>> /\ U.cur[1] = tok
  BY <1>2, SMTT(60)
<1>6. Own(U) <=> Own(T)
  BY <1>1, <1>5 DEF Own
<1>7. SimpleOK(U)
  BY <1>1, <1>2, <1>4, <1>5, <1>6 DEF SimpleOK
<1> QED BY <1>1, <1>4, <1>5, <1>6, <1>7 DEF SameExpansion, U

\* tensix_cop_step, whoever calls it: the row of its thread's core stays in order.
LEMMA StepOnce ==
  ASSUME CopInv, NEW t \in Threads, OnceAt(t), StepTrue(t) \/ StepFalse(t),
         NEW ph, ph = "replay" <=> phase[t] = "replay", PhaseFits(ph, th[t].mop.active)
  PROVE  RowAfter(t, ph, pc[t])
<1> DEFINE T == th[t]
           tok == Fetched(T)
           d == done[t]
           p == prog[t]
           c == pc[t]
<1>1. /\ t \in Hosts /\ T \in Thread /\ KindsOK(t, T) /\ d \in Seq(Ids) /\ c \in Nat
      /\ c \in 1..Len(p) => p[c].ins \in Words
      /\ th \in [Threads -> Thread] /\ done \in [Threads -> Seq(Ids)]
  BY RowType DEF CopInv
<1>2. Once(t, T, phase[t], d, p, c) /\ SimpleOK(T)
  BY DEF OnceAt, Once
<1>3. CASE StepTrue(t)
  <2>1. ~Idle(T) /\ th' = [th EXCEPT ![t] = RanOne(T)] /\ done' = [done EXCEPT ![t] = Append(d, tok.id)]
    BY <1>3 DEF StepTrue, RanOne
  <2>2. th'[t] = RanOne(T) /\ done'[t] = Append(d, tok.id)
    BY <1>1, <2>1
  <2>3. CASE Own(T)
    <3>1. Once(t, RanOne(T), ph, Append(d, tok.id), p, c)
      <4> HIDE DEF T, d, p, c
      <4> QED BY <1>1, <1>2, <2>3, RowOwn DEF T
    <3> QED BY <2>2, <3>1 DEF RowAfter
  <2>4. CASE ~Own(T)
    <3>1. SameExpansion(T, RanOne(T)) /\ SimpleOK(RanOne(T))
      BY <1>1, <1>2, <2>1, <2>4, PushedRan
    <3>2. PushedTo(t, tok.id)
      BY <1>1, <1>2, <2>1, <2>4, FetchedSimple
    <3>3. tok.id \in Ids
      BY <1>1, <2>1, PoppedThread DEF Tokens
    <3>4. prog[tok.id[1]][tok.id[2]].via = "push"
      BY <3>2 DEF PushedTo, IsPushed, Via
    <3>5. ~(tok.id[1] = t /\ tok.id[2] \in 1..Len(p) /\ p[tok.id[2]].via = "direct")
      BY <3>4
    <3> HIDE DEF T, tok, d, p, c
    <3>6. Once(t, RanOne(T), ph, Append(d, tok.id), p, c)
      <4>1. Once(t, RanOne(T), ph, d, p, c)
        BY <1>1, <1>2, <3>1, RowQuiet DEF T
      <4> QED BY <1>1, <3>3, <3>5, <4>1, RowOther
    <3> QED BY <2>2, <3>6 DEF RowAfter, p, c
  <2> QED BY <2>3, <2>4
<1>4. ASSUME NEW U, SameExpansion(T, U), SimpleOK(U), th'[t] = U, done' = done
      PROVE  RowAfter(t, ph, c)
  <2>1. Once(t, U, ph, d, p, c)
    <3> HIDE DEF T, d, p, c
    <3> QED BY <1>1, <1>2, <1>4, RowQuiet DEF T
  <2> QED BY <1>4, <2>1 DEF RowAfter
<1>5. CASE StepFalse(t)
  <2>0. done' = done
    BY <1>5 DEF StepFalse
  <2>1. CASE th' = th
    <3>1. SameExpansion(T, T)
      BY DEF SameExpansion
    <3> QED BY <1>2, <1>4, <2>0, <2>1, <3>1
  <2>2. CASE ~Idle(T) /\ \E g \in Gates : th' = [th EXCEPT ![t] = KeptOne(T, g)]
    <3>1. PICK g \in Gates : th' = [th EXCEPT ![t] = KeptOne(T, g)]
      BY <2>2
    <3>2. th'[t] = KeptOne(T, g)
      BY <1>1, <3>1
    <3>3. SameExpansion(T, KeptOne(T, g)) /\ SimpleOK(KeptOne(T, g))
      BY <1>1, <1>2, <2>2, KeptQuiet
    <3> QED BY <1>4, <2>0, <3>2, <3>3
  <2> QED BY <1>1, <1>5, <2>1, <2>2, StepFalseKeeps
<1> QED BY <1>3, <1>5

\* The replay unit gives the next instruction.
LEMMA RowSlot ==
  ASSUME NEW h \in Hosts, NEW T \in Thread, NEW ph, NEW d, NEW p, NEW c,
         c \in 1..Len(p) => p[c].ins \in Words, Once(h, T, ph, d, p, c),
         T.cur = <<>>, T.exp.on, ~(T.exp.pos >= T.exp.count)
  PROVE  Once(h, [T EXCEPT !.exp.pos = @ + 1,
                           !.cur = <<Token(<<T.exp.by[1], T.exp.by[2], T.exp.by[3], T.exp.pos + 1>>,
                                       T.buf[(T.exp.start + T.exp.pos) % ReplaySize])>>],
              ph, d, p, c)
<1> DEFINE e == T.exp
           s == (e.start + e.pos) % ReplaySize
           x == Token(<<e.by[1], e.by[2], e.by[3], e.pos + 1>>, T.buf[s])
           U == [T EXCEPT !.exp.pos = @ + 1, !.cur = <<x>>]
<1>1. ExpansionOK(h, T, ph, p, c) /\ SimpleOK(T)
  BY DEF Once
<1>2. Inside(T, ph)
  BY <1>1 DEF ExpansionOK
<1>3. Unfolding(h, c, p[c].ins, T) /\ p[c].ins \in Words /\ (~T.mop.active => T.mop.rest = <<>>)
  BY <1>1, <1>2 DEF ExpansionOK
<1>4. e \in Expansions
  BY DEF Thread
<1>5. e.start \in Nat /\ e.pos \in Nat
  BY <1>4 DEF Expansions
<1>6. s \in Slots
  <2> HIDE DEF e
  <2> QED BY <1>5, SizesAssumption, SMTT(60) DEF Slots
<1> HIDE DEF s
<1>7. x.id = <<e.by[1], e.by[2], e.by[3], e.pos + 1>> /\ Simple(x.ins)
  BY <1>1, <1>6 DEF SimpleOK, Token
<1> HIDE DEF x
<1>8. /\ U.mop = T.mop /\ U.exp = [e EXCEPT !.pos = @ + 1] /\ U.cur = <<x>> /\ U.fifo = T.fifo
      /\ U.buf = T.buf
  BY DEF Thread
<1> HIDE DEF U
<1>9. Unfolding(h, c, p[c].ins, U) /\ Ahead(U, p[c].ins) = Ahead(T, p[c].ins)
  BY <1>3, <1>7, <1>8, ReplaySlot, SMTT(120)
<1>10. U.cur[1] = x
  BY <1>8, SMTT(60)
<1>11. SimpleOK(U)
  BY <1>1, <1>7, <1>8, <1>10 DEF SimpleOK
<1>12. Once(h, U, ph, d, p, c)
  BY <1>2, <1>3, <1>8, <1>9, <1>11, RowInside
<1> QED BY <1>12 DEF U, x, s

\* The replay unit has nothing left.
LEMMA RowOver ==
  ASSUME NEW h \in Hosts, NEW T \in Thread, NEW ph, NEW d, NEW p, NEW c,
         c \in 1..Len(p) => p[c].ins \in Words, Once(h, T, ph, d, p, c),
         T.cur = <<>>, T.exp.on, T.exp.pos >= T.exp.count
  PROVE  Once(h, [T EXCEPT !.exp = NoExp], ph, d, p, c)
<1> DEFINE U == [T EXCEPT !.exp = NoExp]
<1>1. ExpansionOK(h, T, ph, p, c) /\ SimpleOK(T)
  BY DEF Once
<1>2. Inside(T, ph)
  BY <1>1 DEF ExpansionOK
<1>3. Unfolding(h, c, p[c].ins, T) /\ p[c].ins \in Words /\ (~T.mop.active => T.mop.rest = <<>>)
  BY <1>1, <1>2 DEF ExpansionOK
<1>4. U.mop = T.mop /\ U.exp = NoExp /\ U.cur = T.cur /\ U.fifo = T.fifo /\ U.buf = T.buf
  BY DEF Thread
<1> HIDE DEF U
<1>5. /\ Unfolding(h, c, p[c].ins, U)
      /\ Upto(p[c].ins, Ahead(U, p[c].ins)) = Upto(p[c].ins, Ahead(T, p[c].ins))
  BY <1>3, <1>4, ReplayOver, SMTT(60)
<1>6. SimpleOK(U)
  BY <1>1, <1>4 DEF SimpleOK, Own
<1>7. Once(h, U, ph, d, p, c)
  BY <1>2, <1>3, <1>4, <1>5, <1>6, RowInside
<1> QED BY <1>7 DEF U

\* The MOP expander gives the next instruction.
LEMMA RowBody ==
  ASSUME NEW h \in Hosts, NEW T \in Thread, NEW ph, NEW d, NEW p, NEW c,
         c \in 1..Len(p) => p[c].ins \in Words, Once(h, T, ph, d, p, c),
         T.cur = <<>>, ~T.exp.on, T.mop.rest # <<>>
  PROVE  Once(h, [T EXCEPT !.cur = <<Head(T.mop.rest)>>,
                           !.mop = [T.mop EXCEPT !.rest = Tail(T.mop.rest)]], ph, d, p, c)
<1> DEFINE M == [T.mop EXCEPT !.rest = Tail(T.mop.rest)]
           x == Head(T.mop.rest)
           U == [T EXCEPT !.cur = <<x>>, !.mop = M]
<1>1. ExpansionOK(h, T, ph, p, c) /\ SimpleOK(T)
  BY DEF Once
<1>2. T.mop.active
  BY <1>1 DEF ExpansionOK
<1>3. Inside(T, ph)
  BY <1>2 DEF Inside
<1>4. Unfolding(h, c, p[c].ins, T) /\ p[c].ins \in Words
  BY <1>1, <1>3 DEF ExpansionOK
<1>5. M.active
  <2>1. T.mop \in Mops
    BY DEF Thread
  <2> QED BY <1>2, <2>1 DEF Mops
<1> HIDE DEF M, x
<1>6. U.mop = M /\ U.exp = T.exp /\ U.cur = <<x>> /\ U.fifo = T.fifo /\ U.buf = T.buf
  BY DEF Thread
<1> HIDE DEF U
<1>7. Unfolding(h, c, p[c].ins, U) /\ Ahead(U, p[c].ins) = Ahead(T, p[c].ins) /\ Own(U)
  BY <1>4, <1>6, BodyPlace DEF M, x
<1>8. SimpleOK(U)
  BY <1>1, <1>6, <1>7 DEF SimpleOK
<1>9. Once(h, U, ph, d, p, c)
  BY <1>2, <1>3, <1>5, <1>6, <1>7, <1>8, RowInside
<1> QED BY <1>9 DEF U, x, M

\* How a core's calls end.
LEMMA CallEnds ==
  ASSUME CopInv, NEW h \in Hosts
  PROVE  /\ \A ph : Stay(h, ph) => HostMoves(h, ph, pc[h])
         /\ Blocked(h) => HostMoves(h, "ready", pc[h])
         /\ Complete(h) => HostMoves(h, "post", pc[h] + 1)
<1>1. pc \in [Hosts -> Nat]
  BY DEF CopInv
<1>2. pc = [pc EXCEPT ![h] = pc[h]]
  BY <1>1
<1>3. \A ph : Stay(h, ph) => HostMoves(h, ph, pc[h])
  BY <1>2 DEF Stay, Enter, HostMoves
<1>4. Blocked(h) => HostMoves(h, "ready", pc[h])
  BY <1>2 DEF Blocked, Enter, HostMoves
<1>5. Complete(h) => HostMoves(h, "post", pc[h] + 1)
  BY DEF Complete, Enter, HostMoves
<1> QED BY <1>3, <1>4, <1>5

\* A core has its own thread stepped.
LEMMA OwnStep ==
  ASSUME CopInv, OnceInv, prog' = prog, NEW h \in Threads, StepTrue(h) \/ StepFalse(h),
         NEW ph, ph = "replay" <=> phase[h] = "replay", PhaseFits(ph, th[h].mop.active),
         HostMoves(h, ph, pc[h])
  PROVE  OnceInv'
<1>1. RowAfter(h, ph, pc[h])
  BY StepOnce DEF OnceInv
<1>2. OnlyMoves(h)
  BY StepEffect DEF Effect
<1>3. h \in Hosts
  BY RowType
<1>4. \A u \in Threads : u = h \/ (th'[u] = th[u] /\ done'[u] = done[u])
  BY <1>2 DEF OnlyMoves
<1> QED BY <1>1, <1>3, <1>4, RowsFit

\* do_ttinsn calls step_direct.
LEMMA StartOnce ==
  ASSUME CopInv, OnceInv, prog' = prog, NEW h \in Hosts, StartDirect(h)
  PROVE  OnceInv'
<1> DEFINE ph == IF th[h].mop.active THEN "mopEntry" ELSE "drain"
<1>1. /\ phase[h] = "ready" /\ HasOp(h, "direct") /\ Stay(h, ph) /\ th' = th /\ done' = done
  BY DEF StartDirect
<1>2. h \in Threads
  BY <1>1, DirectOp
<1>3. HostMoves(h, ph, pc[h])
  BY <1>1, CallEnds
<1>4. PhaseFits(ph, th[h].mop.active) /\ ph # "replay"
  BY DEF PhaseFits
<1>5. Once(h, th[h], phase[h], done[h], prog[h], pc[h])
  BY <1>2 DEF OnceInv, OnceAt
<1>6. SimpleOK(th[h])
  BY <1>5 DEF Once
<1>7. SameExpansion(th[h], th[h])
  BY DEF SameExpansion
<1> HIDE DEF ph
<1>8. Once(h, th[h], ph, done[h], prog[h], pc[h])
  BY <1>1, <1>4, <1>5, <1>6, <1>7, RowQuiet
<1>9. RowAfter(h, ph, pc[h])
  BY <1>1, <1>8 DEF RowAfter
<1> QED BY <1>1, <1>3, <1>9, RowsFit

\* while (tensix_cop_step()).
LEMMA DrainOnce ==
  ASSUME CopInv, OnceInv, prog' = prog, NEW h \in Hosts, Drain(h)
  PROVE  OnceInv'
<1>1. phase[h] = "drain"
  BY DEF Drain
<1>2. HasOp(h, "direct")
  <2>1. phase[h] \notin {"ready", "post", "push"}
    BY <1>1, SMTT(60)
  <2> QED BY <2>1 DEF CopInv
<1>3. h \in Threads
  BY <1>2, DirectOp
<1>4. ~th[h].mop.active
  BY <1>1, <1>3 DEF OnceInv, OnceAt, Once, PhaseFits
<1>5. (StepTrue(h) \/ StepFalse(h)) /\ (Stay(h, "drain") \/ Stay(h, "exec"))
  BY <1>4 DEF Drain
<1>6. PhaseFits("drain", th[h].mop.active) /\ PhaseFits("exec", th[h].mop.active)
  BY <1>4 DEF PhaseFits
<1>7. HostMoves(h, "drain", pc[h]) \/ HostMoves(h, "exec", pc[h])
  BY <1>5, CallEnds
<1> QED BY <1>1, <1>3, <1>5, <1>6, <1>7, OwnStep

\* The tensix_step at the end of a block.
LEMMA BlockEndOnce ==
  ASSUME CopInv, OnceInv, prog' = prog, NEW h \in Hosts, BlockEnd(h)
  PROVE  OnceInv'
<1>1. h \in Threads /\ phase[h] # "replay" /\ (StepTrue(h) \/ StepFalse(h)) /\ Stay(h, "ready")
  BY DEF BlockEnd
<1>2. PhaseFits("ready", th[h].mop.active)
  BY DEF PhaseFits
<1>3. HostMoves(h, "ready", pc[h])
  BY <1>1, CallEnds
<1> QED BY <1>1, <1>2, <1>3, OwnStep

\* mop_continue_execution and drain_replay_expansion.
LEMMA ExpandOnce ==
  ASSUME CopInv, OnceInv, Smooth, prog' = prog, NEW h \in Hosts, Expand(h)
  PROVE  OnceInv'
<1> DEFINE T == th[h]
           e == T.exp
           i == Op(h).ins
           X == [T EXCEPT !.exp = NoExp]
           Y == [T EXCEPT !.exp.pos = @ + 1,
                          !.cur = <<Token(<<e.by[1], e.by[2], e.by[3], e.pos + 1>>,
                                      T.buf[(e.start + e.pos) % ReplaySize])>>]
           M == [T.mop EXCEPT !.rest = Tail(T.mop.rest)]
           Z == [T EXCEPT !.cur = <<Head(T.mop.rest)>>, !.mop = M]
           N == [T.mop EXCEPT !.active = FALSE]
           W == [T EXCEPT !.mop = N]
<1>1. h \in Threads /\ OnlyMoves(h)
  BY ExpandEffect DEF Effect
<1>2. /\ T \in Thread /\ pc[h] \in Nat /\ th \in [Threads -> Thread]
      /\ pc[h] \in 1..Len(prog[h]) => i \in Words
  BY <1>1, RowType DEF CopInv, Op
<1>3. Once(h, T, phase[h], done[h], prog[h], pc[h])
  BY <1>1 DEF OnceInv, OnceAt
<1>4. SimpleOK(T) /\ PhaseFits(phase[h], T.mop.active) /\ ExpansionOK(h, T, phase[h], prog[h], pc[h])
  BY <1>3 DEF Once
<1>5. /\ phase[h] \in {"mopEntry", "mop", "replay"}
      /\ phase[h] \in {"mopEntry", "mop"} <=> T.mop.active
      /\ phase[h] = "replay" <=> ~T.mop.active
  BY <1>4 DEF Expand, PhaseFits
<1>6. Inside(T, phase[h])
  BY <1>5 DEF Inside
<1>7. (T.mop.active <=> i.op = MOP) /\ i \in Words /\ (~T.mop.active => T.mop.rest = <<>>)
  BY <1>2, <1>4, <1>6 DEF ExpansionOK, Op
<1>8. \A u \in Threads : u = h \/ (th'[u] = th[u] /\ done'[u] = done[u])
  BY <1>1 DEF OnlyMoves
<1>9. T.mop \in Mops
  BY <1>2 DEF Thread
<1>10. CASE T.cur # <<>> /\ StepTrue(h) /\ Stay(h, phase[h])
  <2>1. HostMoves(h, phase[h], pc[h])
    BY <1>10, CallEnds
  <2> QED BY <1>1, <1>4, <1>10, <2>1, OwnStep
<1>11. CASE T.cur # <<>> /\ StepFalse(h) /\ Blocked(h)
  <2>1. HostMoves(h, "ready", pc[h])
    BY <1>11, CallEnds
  <2>2. phase[h] # "replay"
    <3> SUFFICES ASSUME phase[h] = "replay" PROVE FALSE
      OBVIOUS
    <3>1. Passes(T.gate, T.cur[1].ins) /\ Ready(T.cur[1].ins)
      BY <1>1, <1>11 DEF Smooth
    <3>2. ~Idle(T) /\ Fetched(T) = T.cur[1]
      BY <1>11 DEF Idle, Fetched
    <3> QED BY <1>11, <3>1, <3>2 DEF StepFalse
  <2>3. PhaseFits("ready", T.mop.active)
    BY DEF PhaseFits
  <2> QED BY <1>1, <1>11, <2>1, <2>2, <2>3, OwnStep
<1>12. ASSUME NEW U, th'[h] = U, done' = done, Stay(h, phase[h]),
              Once(h, U, phase[h], done[h], prog[h], pc[h])
       PROVE  OnceInv'
  <2>1. HostMoves(h, phase[h], pc[h])
    BY <1>12, CallEnds
  <2>2. RowAfter(h, phase[h], pc[h])
    BY <1>12 DEF RowAfter
  <2> QED BY <1>8, <2>1, <2>2, RowsFit
<1>13. CASE /\ T.cur = <<>> /\ done' = done /\ e.on /\ Stay(h, phase[h])
            /\ th' = [th EXCEPT ![h] = IF e.pos >= e.count THEN X ELSE Y]
  <2>1. CASE e.pos >= e.count
    <3>1. Once(h, X, phase[h], done[h], prog[h], pc[h])
      BY <1>2, <1>3, <1>13, <2>1, RowOver DEF Op
    <3> HIDE DEF X, Y, e, T
    <3>2. th'[h] = X
      BY <1>1, <1>2, <1>13, <2>1
    <3> QED BY <1>12, <1>13, <3>1, <3>2
  <2>2. CASE ~(e.pos >= e.count)
    <3>1. Once(h, Y, phase[h], done[h], prog[h], pc[h])
      BY <1>2, <1>3, <1>13, <2>2, RowSlot DEF Op
    <3> HIDE DEF X, Y, e, T
    <3>2. th'[h] = Y
      BY <1>1, <1>2, <1>13, <2>2
    <3> QED BY <1>12, <1>13, <3>1, <3>2
  <2> QED BY <2>1, <2>2
<1>14. CASE /\ T.cur = <<>> /\ done' = done /\ ~e.on /\ Stay(h, phase[h]) /\ T.mop.rest # <<>>
            /\ th' = [th EXCEPT ![h].cur = <<Head(T.mop.rest)>>, ![h].mop.rest = Tail(@)]
  <2>1. th' = [th EXCEPT ![h] = Z]
    BY <1>2, <1>9, <1>14 DEF Thread, Mops
  <2>2. Once(h, Z, phase[h], done[h], prog[h], pc[h])
    BY <1>2, <1>3, <1>14, RowBody DEF Op
  <2> HIDE DEF Z
  <2>3. th'[h] = Z
    BY <1>1, <1>2, <2>1
  <2> QED BY <1>12, <1>14, <2>2, <2>3
<1>15. CASE /\ T.cur = <<>> /\ done' = done /\ ~e.on /\ (phase[h] = "replay" \/ T.mop.rest = <<>>)
            /\ th' = IF phase[h] = "replay" THEN th ELSE [th EXCEPT ![h].mop.active = FALSE]
            /\ Expanded(h)
  <2>1. T.mop.rest = <<>>
    BY <1>5, <1>7, <1>15
  <2>2. Complete(h)
    <3>1. phase[h] # "mopDrain" /\ (phase[h] = "mopEntry" => i.op = MOP)
      BY <1>5, <1>7
    <3> QED BY <1>15, <3>1 DEF Expanded
  <2>3. HostMoves(h, "post", pc[h] + 1)
    BY <2>2, CallEnds
  <2>4. \E U : /\ th'[h] = U /\ ~U.mop.active /\ U.mop.rest = <<>> /\ U.exp = T.exp
               /\ U.cur = T.cur /\ SimpleOK(U)
    <3>1. CASE phase[h] = "replay"
      <4>1. th'[h] = T /\ ~T.mop.active
        BY <1>5, <1>15, <3>1
      <4> QED BY <1>4, <2>1, <4>1
    <3>2. CASE phase[h] # "replay"
      <4>1. th' = [th EXCEPT ![h] = W]
        BY <1>2, <1>9, <1>15, <3>2 DEF Thread, Mops
      <4>2. ~N.active /\ N.rest = <<>>
        BY <1>9, <2>1 DEF Mops
      <4> HIDE DEF N
      <4>3. W.mop = N /\ W.exp = T.exp /\ W.cur = T.cur /\ W.fifo = T.fifo /\ W.buf = T.buf
        BY <1>2 DEF Thread
      <4> HIDE DEF W
      <4>4. th'[h] = W
        BY <1>1, <1>2, <4>1
      <4>5. SimpleOK(W)
        BY <1>4, <4>3 DEF SimpleOK, Own
      <4> QED BY <4>2, <4>3, <4>4, <4>5
    <3> QED BY <3>1, <3>2
  <2>5. PICK U : /\ th'[h] = U /\ ~U.mop.active /\ U.mop.rest = <<>> /\ U.exp = T.exp
                 /\ U.cur = T.cur /\ SimpleOK(U)
    BY <2>4
  <2>6. prog[h][pc[h]].ins \in Words
    BY <1>7 DEF Op
  <2>7. Once(h, U, "post", done[h], prog[h], pc[h] + 1)
    <3> HIDE DEF T
    <3> QED BY <1>2, <1>3, <1>6, <1>15, <2>1, <2>5, <2>6, RowEnd
  <2>8. RowAfter(h, "post", pc[h] + 1)
    BY <1>15, <2>5, <2>7 DEF RowAfter
  <2> QED BY <1>8, <2>3, <2>8, RowsFit
<1> HIDE DEF X, Y
<1>16. \/ T.cur # <<>> /\ StepTrue(h) /\ Stay(h, phase[h])
       \/ T.cur # <<>> /\ StepFalse(h) /\ Blocked(h)
       \/ /\ T.cur = <<>> /\ done' = done /\ e.on /\ Stay(h, phase[h])
          /\ th' = [th EXCEPT ![h] = IF e.pos >= e.count THEN X ELSE Y]
       \/ /\ T.cur = <<>> /\ done' = done /\ ~e.on /\ Stay(h, phase[h]) /\ T.mop.rest # <<>>
          /\ th' = [th EXCEPT ![h].cur = <<Head(T.mop.rest)>>, ![h].mop.rest = Tail(@)]
       \/ /\ T.cur = <<>> /\ done' = done /\ ~e.on /\ (phase[h] = "replay" \/ T.mop.rest = <<>>)
          /\ th' = IF phase[h] = "replay" THEN th ELSE [th EXCEPT ![h].mop.active = FALSE]
          /\ Expanded(h)
  BY DEF Expand, X, Y
<1> QED BY <1>10, <1>11, <1>13, <1>14, <1>15, <1>16




\* A direct instruction is recorded.
LEMMA RecordOnce ==
  ASSUME CopInv, OnceInv, Smooth, prog' = prog, NEW h \in Threads, phase[h] = "exec",
         HasOp(h, "direct"), th[h].rec.left > 0, Op(h).ins.op # "MOP_CFG", Record(h),
         OnlyMoves(h)
  PROVE  OnceInv'
<1> DEFINE T == th[h]
           i == Op(h).ins
           R == Recorded(h)
           runs == T.rec.ewl /\ (i.op = "PACR" \/ Ready(i))
           s == T.rec.index % ReplaySize
           b == [T.buf EXCEPT ![s] = i]
           r == [T.rec EXCEPT !.index = @ + 1, !.left = @ - 1]
<1>1. /\ h \in Hosts /\ T \in Thread /\ pc[h] \in Nat /\ th \in [Threads -> Thread]
      /\ done \in [Threads -> Seq(Ids)] /\ done[h] \in Seq(Ids)
  BY RowType DEF CopInv
<1>2. /\ i \in Words /\ pc[h] \in 1..Len(prog[h]) /\ prog[h][pc[h]].via = "direct"
      /\ prog[h][pc[h]].ins = i /\ Direct(h).id = <<h, pc[h], 0, 0>> /\ Direct(h).ins = i
  BY <1>1, OpWord, DirectOp DEF Op
<1>3. i.op # MOP /\ i.op # "REPLAY" /\ (T.rec.ewl => i.op = "PACR" \/ Ready(i))
  BY DEF Smooth
<1>4. ThreadAfter(R, Direct(h)) = R
  BY <1>2, <1>3 DEF ThreadAfter
<1>5. /\ th' = [th EXCEPT ![h] = R]
      /\ done' = [done EXCEPT ![h] = Append(done[h], <<h, pc[h], 0, 0>>)]
      /\ Complete(h)
  <2>1. /\ th' = [th EXCEPT ![h] = IF runs THEN ThreadAfter(R, Direct(h)) ELSE R]
        /\ done' = IF T.rec.ewl => runs THEN [done EXCEPT ![h] = Append(@, Direct(h).id)] ELSE done
        /\ Complete(h)
    BY DEF Record, Recorded
  <2>2. T.rec.ewl => runs
    BY <1>3
  <2> HIDE DEF R, runs
  <2> QED BY <1>2, <1>4, <2>1, <2>2
<1>6. T.rec \in Recordings /\ T.buf \in [Slots -> Words]
  BY <1>1 DEF Thread
<1>7. R = [T EXCEPT !.buf = b, !.rec = r]
  BY <1>1, <1>6 DEF Recorded, Thread, Recordings
<1>8. \A x \in Slots : b[x] = i \/ b[x] = T.buf[x]
  BY <1>6
<1> HIDE DEF b, r, R
<1>9. R.mop = T.mop /\ R.exp = T.exp /\ R.cur = T.cur /\ R.fifo = T.fifo /\ R.buf = b
  BY <1>1, <1>7 DEF Thread
<1>10. Once(h, T, phase[h], done[h], prog[h], pc[h])
  BY DEF OnceInv, OnceAt
<1>11. SimpleOK(T) /\ ~T.mop.active
  BY <1>10 DEF Once, PhaseFits
<1>12. ~Inside(T, phase[h])
  BY <1>11 DEF Inside
<1>13. SameExpansion(T, R)
  BY <1>9 DEF SameExpansion, Own
<1>14. SimpleOK(R)
  <2>1. \A x \in Slots : Simple(R.buf[x])
    BY <1>3, <1>8, <1>9, <1>11 DEF SimpleOK, Simple
  <2> QED BY <1>9, <1>11, <2>1 DEF SimpleOK, Own
<1>15. ~Plays(i)
  BY <1>3 DEF Plays
<1> HIDE DEF T, i
<1>16. Once(h, R, "post", Append(done[h], <<h, pc[h], 0, 0>>), prog[h], pc[h] + 1)
  BY <1>1, <1>2, <1>3, <1>10, <1>12, <1>13, <1>14, <1>15, RowRan
<1>17. th'[h] = R /\ done'[h] = Append(done[h], <<h, pc[h], 0, 0>>)
  BY <1>1, <1>5
<1>18. RowAfter(h, "post", pc[h] + 1)
  BY <1>16, <1>17 DEF RowAfter
<1>19. HostMoves(h, "post", pc[h] + 1)
  BY <1>1, <1>5, CallEnds
<1>20. \A u \in Threads : u = h \/ (th'[u] = th[u] /\ done'[u] = done[u])
  BY DEF OnlyMoves
<1> QED BY <1>1, <1>18, <1>19, <1>20, RowsFit

\* A direct instruction passes the gate and is executed.
LEMMA RunOnce ==
  ASSUME CopInv, OnceInv, prog' = prog, NEW h \in Threads, phase[h] = "exec",
         HasOp(h, "direct"), OnlyMoves(h), NEW G \in Thread, ExpandersOK(G),
         G.mop = th[h].mop, G.exp = th[h].exp, G.cur = th[h].cur, G.fifo = th[h].fifo,
         G.buf = th[h].buf,
         th' = [th EXCEPT ![h] = LatchIfWait(G, Direct(h))],
         done' = [done EXCEPT ![h] = Append(@, Direct(h).id)],
         IF Op(h).ins.op = MOP THEN Stay(h, "mop")
         ELSE IF LatchIfWait(G, Direct(h)).exp.on /\ Op(h).ins.op \notin WaitOps \cup {"MOP_CFG"}
              THEN Stay(h, "replay")
         ELSE Complete(h)
  PROVE  OnceInv'
<1> DEFINE T == th[h]
           i == Op(h).ins
           tok == Direct(h)
           E == LatchIfWait(G, tok)
           c == pc[h]
           p == prog[h]
           d == done[h]
<1>1. /\ h \in Hosts /\ T \in Thread /\ c \in Nat /\ th \in [Threads -> Thread]
      /\ done \in [Threads -> Seq(Ids)] /\ d \in Seq(Ids)
  BY RowType DEF CopInv
<1>2. /\ i \in Words /\ c \in 1..Len(p) /\ p[c].via = "direct" /\ p[c].ins = i
      /\ tok \in Tokens /\ tok.id = <<h, c, 0, 0>> /\ tok.ins = i
  BY <1>1, OpWord, DirectOp DEF Op
<1>3. Once(h, T, phase[h], d, p, c)
  BY DEF OnceInv, OnceAt
<1>4. SimpleOK(T) /\ ~T.mop.active /\ ExpansionOK(h, T, phase[h], p, c)
  BY <1>3 DEF Once, PhaseFits
<1>5. ~Inside(T, phase[h])
  BY <1>4 DEF Inside
<1>6. T.mop.rest = <<>> /\ ~T.exp.on /\ ~Own(T)
  BY <1>4, <1>5 DEF ExpansionOK
<1>7. /\ E \in Thread /\ E.fifo = T.fifo /\ E.cur = IF i.op = MOP THEN <<>> ELSE T.cur
  <2>1. /\ E \in Thread /\ E.fifo = G.fifo
        /\ E.cur = IF tok.ins.op = MOP THEN <<>> ELSE G.cur
    BY <1>2, LatchThread
  <2> HIDE DEF E, tok, i
  <2> QED BY <1>2, <2>1
<1>8. /\ E.buf = T.buf
      /\ E.mop = IF i.op = MOP THEN Expanding(tok) ELSE T.mop
      /\ E.exp = IF Plays(i) THEN Playing(tok) ELSE T.exp
  <2>1. /\ E.buf = G.buf
        /\ E.mop = IF tok.ins.op = MOP THEN Expanding(tok) ELSE G.mop
        /\ E.exp = IF Plays(tok.ins) THEN Playing(tok) ELSE G.exp
    BY <1>2, LatchFields
  <2> HIDE DEF E, tok, i
  <2> QED BY <1>2, <2>1
<1>9. /\ th'[h] = E /\ done'[h] = Append(d, <<h, c, 0, 0>>)
  <2> HIDE DEF E
  <2>1. th' = [th EXCEPT ![h] = E] /\ done' = [done EXCEPT ![h] = Append(d, tok.id)]
    BY DEF E
  <2> QED BY <1>1, <1>2, <2>1
<1>10. ~Own(E)
  <2> HIDE DEF E, i
  <2> QED BY <1>6, <1>7 DEF Own
<1>11. SimpleOK(E)
  <2> HIDE DEF E, i
  <2> QED BY <1>4, <1>6, <1>7, <1>8 DEF SimpleOK
<1>12. \A u \in Threads : u = h \/ (th'[u] = th[u] /\ done'[u] = done[u])
  BY DEF OnlyMoves
<1>13. ASSUME NEW ph, NEW k, HostMoves(h, ph, k),
              Once(h, E, ph, Append(d, <<h, c, 0, 0>>), p, k)
       PROVE  OnceInv'
  <2>1. RowAfter(h, ph, k)
    BY <1>9, <1>13 DEF RowAfter
  <2> QED BY <1>1, <1>12, <1>13, <2>1, RowsFit
<1>14. MOP # "REPLAY" /\ "REPLAY" \notin WaitOps \cup {"MOP_CFG"}
  BY SMTT(60) DEF MOP, WaitOps
<1>15. IF i.op = MOP THEN Stay(h, "mop")
       ELSE IF E.exp.on /\ i.op \notin WaitOps \cup {"MOP_CFG"} THEN Stay(h, "replay")
       ELSE Complete(h)
  OBVIOUS
<1> HIDE DEF T, i, tok, E, p, d, c
<1>16. CASE i.op = MOP
  <2>1. ~Plays(i)
    BY <1>14, <1>16 DEF Plays
  <2>2. E.mop = Expanding(tok) /\ E.cur = <<>> /\ ~E.exp.on
    BY <1>6, <1>7, <1>8, <1>16, <2>1
  <2>3. Unfolding(h, c, i, E) /\ Upto(i, Ahead(E, i)) = {<<0, 0>>} /\ E.mop.active
    BY <1>2, <1>16, <2>2, MopUnfolds, SMTT(60)
  <2>4. PhaseFits("mop", E.mop.active) /\ Inside(E, "mop")
    BY <2>3 DEF PhaseFits, Inside
  <2>5. Once(h, E, "mop", Append(d, <<h, c, 0, 0>>), p, c)
    BY <1>1, <1>2, <1>3, <1>5, <1>7, <1>11, <1>16, <2>3, <2>4, RowStarts
  <2>6. HostMoves(h, "mop", c)
    BY <1>1, <1>15, <1>16, CallEnds DEF c
  <2> QED BY <1>13, <2>5, <2>6
<1>17. CASE Plays(i)
  <2>1. i.op # MOP /\ i.op \notin WaitOps \cup {"MOP_CFG"}
    BY <1>14, <1>17 DEF Plays
  <2>2. E.exp = Playing(tok) /\ E.mop = T.mop
    BY <1>8, <1>17, <2>1
  <2>3. E.mop.rest = <<>> /\ ~E.mop.active
    BY <1>4, <1>6, <2>2
  <2>4. Unfolding(h, c, i, E) /\ Upto(i, Ahead(E, i)) = {<<0, 0>>} /\ E.exp.on
    BY <1>2, <1>10, <1>17, <2>2, <2>3, ReplayUnfolds
  <2>5. PhaseFits("replay", E.mop.active) /\ Inside(E, "replay")
    BY <2>3 DEF PhaseFits, Inside
  <2>6. Once(h, E, "replay", Append(d, <<h, c, 0, 0>>), p, c)
    BY <1>1, <1>2, <1>3, <1>5, <1>7, <1>11, <2>1, <2>3, <2>4, <2>5, RowStarts
  <2>7. HostMoves(h, "replay", c)
    BY <1>1, <1>15, <2>1, <2>4, CallEnds DEF c
  <2> QED BY <1>13, <2>6, <2>7
<1>18. CASE i.op # MOP /\ ~Plays(i)
  <2>1. E.exp = T.exp /\ E.mop = T.mop
    BY <1>8, <1>18
  <2>2. SameExpansion(T, E)
    BY <1>6, <1>10, <2>1 DEF SameExpansion
  <2>3. Once(h, E, "post", Append(d, <<h, c, 0, 0>>), p, c + 1)
    BY <1>1, <1>2, <1>3, <1>5, <1>11, <1>18, <2>2, RowRan
  <2>4. ~E.exp.on
    BY <1>6, <2>1
  <2>5. HostMoves(h, "post", c + 1)
    BY <1>1, <1>15, <1>18, <2>4, CallEnds DEF c
  <2> QED BY <1>13, <2>3, <2>5
<1> QED BY <1>16, <1>17, <1>18

\* The rest of tensix_cop_step_direct.
LEMMA ExecOnce ==
  ASSUME CopInv, OnceInv, Smooth, prog' = prog, NEW h \in Hosts, Exec(h)
  PROVE  OnceInv'
<1> DEFINE T == th[h]
           i == Op(h).ins
           g == GateBehind(T.gate, i)
           G == [T EXCEPT !.gate = g]
           E == LatchIfWait(G, Direct(h))
           recording == T.rec.left > 0 /\ i.op # "MOP_CFG"
<1>1. h \in Threads /\ OnlyMoves(h) /\ phase[h] = "exec"
  BY ExecEffect DEF Effect, Exec
<1>2. HasOp(h, "direct")
  <2>1. phase[h] \notin {"ready", "post", "push"}
    BY <1>1, SMTT(60)
  <2> QED BY <2>1 DEF CopInv
<1>3. i \in Words
  BY <1>2, OpWord
<1>4. T \in Thread /\ th \in [Threads -> Thread] /\ KindsOK(h, T)
  BY <1>1 DEF CopInv
<1>5. T.gate \in Gates /\ ExpandersOK(T)
  BY <1>4 DEF Thread, KindsOK
<1>6. g \in Gates
  BY <1>3, <1>5, GateType
<1>7. /\ G \in Thread /\ G.cur = T.cur /\ G.fifo = T.fifo /\ G.mop = T.mop
      /\ G.exp = T.exp /\ G.buf = T.buf
  <2> HIDE DEF g, T
  <2> QED BY <1>4, <1>6 DEF Thread
<1>8. ExpandersOK(G)
  <2> HIDE DEF G
  <2> QED BY <1>5, <1>7 DEF ExpandersOK
<1>9. CASE recording /\ Record(h)
  BY <1>1, <1>2, <1>9, RecordOnce
<1>10. ASSUME UNCHANGED <<done, bankVars, syncVars>>, Blocked(h),
              th' = IF Passes(T.gate, i) THEN [th EXCEPT ![h] = G] ELSE th
       PROVE  OnceInv'
  <2>0. done' = done
    BY <1>10
  <2>1. Once(h, T, phase[h], done[h], prog[h], pc[h])
    BY <1>1 DEF OnceInv, OnceAt
  <2>2. SimpleOK(T)
    BY <2>1 DEF Once
  <2>3. \E U : th'[h] = U /\ SameExpansion(T, U) /\ SimpleOK(U)
    <3>1. CASE Passes(T.gate, i)
      <4> HIDE DEF G
      <4>1. th'[h] = G
        BY <1>1, <1>4, <1>10, <3>1
      <4>2. SameExpansion(T, G)
        BY <1>7 DEF SameExpansion, Own
      <4>3. SimpleOK(G)
        BY <1>7, <2>2 DEF SimpleOK, Own
      <4> QED BY <4>1, <4>2, <4>3
    <3>2. CASE ~Passes(T.gate, i)
      <4>1. th'[h] = T
        BY <1>10, <3>2
      <4>2. SameExpansion(T, T)
        BY DEF SameExpansion
      <4> QED BY <2>2, <4>1, <4>2
    <3> QED BY <3>1, <3>2
  <2>4. PICK U : th'[h] = U /\ SameExpansion(T, U) /\ SimpleOK(U)
    BY <2>3
  <2>5. PhaseFits("ready", T.mop.active)
    BY DEF PhaseFits
  <2>6. Once(h, U, "ready", done[h], prog[h], pc[h])
    BY <1>1, <2>1, <2>4, <2>5, RowQuiet
  <2>7. RowAfter(h, "ready", pc[h])
    BY <2>0, <2>4, <2>6 DEF RowAfter
  <2>8. HostMoves(h, "ready", pc[h])
    BY <1>10, CallEnds
  <2>9. \A u \in Threads : u = h \/ (th'[u] = th[u] /\ done'[u] = done[u])
    BY <1>1 DEF OnlyMoves
  <2> QED BY <2>7, <2>8, <2>9, RowsFit
<1>11. ASSUME th' = [th EXCEPT ![h] = E], done' = [done EXCEPT ![h] = Append(@, Direct(h).id)],
              IF i.op = MOP THEN Stay(h, "mop")
              ELSE IF E.exp.on /\ i.op \notin WaitOps \cup {"MOP_CFG"} THEN Stay(h, "replay")
              ELSE Complete(h)
       PROVE  OnceInv'
  <2> HIDE DEF G
  <2> QED BY <1>1, <1>2, <1>7, <1>8, <1>11, RunOnce
<1> QED BY <1>9, <1>10, <1>11 DEF Exec, DirectPasses, Direct, Token

\* A store to INSTRN_BUF that finds room.
LEMMA AppendOnce ==
  ASSUME CopInv, OnceInv, PlainPushes, prog' = prog, NEW h \in Hosts, phase[h] \in {"ready", "push"},
         HasOp(h, "push"), th' = [th EXCEPT ![Op(h).to].fifo = Append(@, PushTok(h))],
         done' = done, HostMoves(h, "ready", pc[h] + 1)
  PROVE  OnceInv'
<1> DEFINE t == Op(h).to
           T == th[t]
           f == Append(T.fifo, PushTok(h))
           U == [T EXCEPT !.fifo = f]
<1>1. t \in Threads /\ PushTok(h) \in Tokens
  BY PushOp
<1>2. th \in [Threads -> Thread] /\ T \in Thread /\ prog \in Programs
  BY <1>1 DEF CopInv
<1>3. T.fifo \in Seq(Tokens)
  BY <1>2 DEF Thread
<1>4. th' = [th EXCEPT ![t].fifo = Append(@, PushTok(h))]
  OBVIOUS
<1> HIDE DEF t
<1>5. th' = [th EXCEPT ![t] = U]
  BY <1>2, <1>4 DEF Thread
<1>6. f \in Seq(Tokens) /\ \A n \in 1..Len(f) : (n \in 1..Len(T.fifo) /\ f[n] = T.fifo[n])
                                                  \/ f[n] = PushTok(h)
  BY <1>1, <1>3, SMTT(60)
<1> HIDE DEF f
<1>7. U.fifo = f /\ U.cur = T.cur /\ U.mop = T.mop /\ U.exp = T.exp /\ U.buf = T.buf
  BY <1>2, <1>6 DEF Thread
<1> HIDE DEF U
<1>8. pc[h] \in 1..Len(prog[h]) /\ prog[h][pc[h]].via = "push"
  BY OpWord DEF Op
<1>9. prog[h][pc[h]].ins.op \notin {MOP, "REPLAY"}
  BY <1>2, <1>8 DEF PlainPushes
<1>10. Simple(PushTok(h).ins)
  BY <1>9 DEF PushTok, Token, Simple, Op
<1>11. Once(t, T, phase[t], done[t], prog[t], pc[t])
  BY <1>1 DEF OnceInv, OnceAt
<1>12. SimpleOK(T) /\ PhaseFits(phase[t], T.mop.active)
  BY <1>11 DEF Once
<1>13. SimpleOK(U) /\ SameExpansion(T, U)
  BY <1>6, <1>7, <1>10, <1>12 DEF SimpleOK, SameExpansion, Own
<1>14. th'[t] = U /\ \A u \in Threads : u # t => th'[u] = th[u]
  BY <1>1, <1>2, <1>5
<1>15. t \in Hosts
  BY <1>1, RowType
<1>16. RowAfter(t, phase[t], pc[t])
  <2>1. Once(t, U, phase[t], done[t], prog[t], pc[t])
    BY <1>11, <1>12, <1>13, <1>15, RowQuiet
  <2> QED BY <1>14, <2>1 DEF RowAfter
<1>17. ASSUME h \in Threads PROVE RowAfter(h, "ready", pc[h] + 1)
  <2>1. Once(h, th[h], phase[h], done[h], prog[h], pc[h])
    BY <1>17 DEF OnceInv, OnceAt
  <2>2. SimpleOK(th[h]) /\ SameExpansion(th[h], th[h])
    BY <2>1 DEF Once, SameExpansion
  <2>3. SimpleOK(th'[h]) /\ SameExpansion(th[h], th'[h])
    BY <1>13, <1>14, <1>17, <2>2
  <2>4. done[h] \in Seq(Ids) /\ pc[h] \in Nat
    BY <1>17, RowType
  <2>5. "ready" # "replay" /\ "push" # "direct" /\ PhaseFits("ready", FALSE)
    BY SMTT(60) DEF PhaseFits
  <2>6. Once(h, th'[h], "ready", done[h], prog[h], pc[h] + 1)
    BY <1>8, <2>1, <2>3, <2>4, <2>5, RowPast
  <2> QED BY <2>6 DEF RowAfter
<1>18. \A u \in Threads : \/ u = h
                          \/ th'[u] = th[u] /\ done'[u] = done[u]
                          \/ RowAfter(u, phase[u], pc[u])
  BY <1>14, <1>16
<1> QED BY <1>17, <1>18, RowsFit

\* A store to INSTRN_BUF that finds the FIFO full steps the thread.
LEMMA FullOnce ==
  ASSUME CopInv, OnceInv, prog' = prog, NEW h \in Hosts, phase[h] \in {"ready", "push"},
         HasOp(h, "push"), NEW t \in Threads, StepTrue(t) \/ StepFalse(t), Stay(h, "push")
  PROVE  OnceInv'
<1>1. OnlyMoves(t)
  BY StepEffect DEF Effect
<1>2. HostMoves(h, "push", pc[h])
  BY CallEnds
<1>3. pc[h] \in 1..Len(prog[h]) /\ prog[h][pc[h]].via # "direct" /\ phase[h] # "replay"
  <2>1. pc[h] \in 1..Len(prog[h]) /\ prog[h][pc[h]].via = "push"
    BY OpWord DEF Op
  <2> QED BY <2>1, SMTT(60)
<1>4. "push" # "replay" /\ PhaseFits("push", FALSE)
  BY SMTT(60) DEF PhaseFits
<1>5. ASSUME h \in Threads PROVE ~th[h].mop.active
  <2>1. Once(h, th[h], phase[h], done[h], prog[h], pc[h])
    BY <1>5 DEF OnceInv, OnceAt
  <2>2. ExpansionOK(h, th[h], phase[h], prog[h], pc[h])
    BY <2>1 DEF Once
  <2> QED BY <1>3, <2>2 DEF ExpansionOK, Inside
<1>6. ASSUME h \in Threads PROVE PhaseFits("push", th[h].mop.active)
  BY <1>5, <1>6 DEF PhaseFits
<1>7. OnceAt(t) /\ PhaseFits(phase[t], th[t].mop.active)
  BY DEF OnceInv, OnceAt, Once
<1>8. RowAfter(t, phase[t], pc[t])
  BY <1>7, StepOnce
<1>9. ASSUME h \in Threads PROVE RowAfter(h, "push", pc[h])
  <2>1. CASE t = h
    <3>1. OnceAt(h) /\ (StepTrue(h) \/ StepFalse(h))
      BY <1>7, <2>1
    <3> QED BY <1>3, <1>4, <1>6, <1>9, <3>1, StepOnce
  <2>2. CASE t # h
    <3>1. th'[h] = th[h] /\ done'[h] = done[h]
      BY <1>1, <1>9, <2>2 DEF OnlyMoves
    <3>2. Once(h, th[h], phase[h], done[h], prog[h], pc[h])
      BY <1>9 DEF OnceInv, OnceAt
    <3>3. SimpleOK(th[h]) /\ SameExpansion(th[h], th[h])
      BY <3>2 DEF Once, SameExpansion
    <3>4. Once(h, th[h], "push", done[h], prog[h], pc[h])
      BY <1>3, <1>4, <1>6, <1>9, <3>2, <3>3, RowQuiet
    <3> QED BY <3>1, <3>4 DEF RowAfter
  <2> QED BY <2>1, <2>2
<1>10. \A u \in Threads : \/ u = h
                          \/ th'[u] = th[u] /\ done'[u] = done[u]
                          \/ RowAfter(u, phase[u], pc[u])
  BY <1>1, <1>8 DEF OnlyMoves
<1> QED BY <1>2, <1>9, <1>10, RowsFit

\* The whole store.
LEMMA PushOnce ==
  ASSUME CopInv, OnceInv, PlainPushes, prog' = prog, NEW h \in Hosts, Push(h)
  PROVE  OnceInv'
<1> DEFINE t == Op(h).to
<1>1. phase[h] \in {"ready", "push"} /\ HasOp(h, "push")
  BY DEF Push
<1>2. t \in Threads
  BY <1>1, PushOp
<1>3. CASE /\ th' = [th EXCEPT ![t].fifo = Append(@, PushTok(h))] /\ done' = done
           /\ pc' = [pc EXCEPT ![h] = @ + 1] /\ Enter(h, "ready")
  <2>1. HostMoves(h, "ready", pc[h] + 1)
    BY <1>3 DEF HostMoves, Enter
  <2> QED BY <1>1, <1>3, <2>1, AppendOnce
<1>4. CASE (StepTrue(t) \/ StepFalse(t)) /\ Stay(h, "push")
  BY <1>1, <1>2, <1>4, FullOnce
<1> QED BY <1>3, <1>4 DEF Push, PushTok

\* A store to a semaphore.
LEMMA MmioOnce ==
  ASSUME CopInv, OnceInv, prog' = prog, NEW h \in Hosts, MmioSem(h)
  PROVE  OnceInv'
<1>1. /\ phase[h] = "ready" /\ HasOp(h, "mmio") /\ pc' = [pc EXCEPT ![h] = @ + 1]
      /\ phase' = phase /\ th' = th /\ done' = done
  BY DEF MmioSem
<1>2. phase \in [Hosts -> CopPhases]
  BY DEF CopInv
<1>3. phase' = [phase EXCEPT ![h] = "ready"]
  BY <1>1, <1>2
<1>4. HostMoves(h, "ready", pc[h] + 1)
  BY <1>1, <1>3 DEF HostMoves
<1>5. pc[h] \in 1..Len(prog[h]) /\ prog[h][pc[h]].via # "direct"
  <2>1. pc[h] \in 1..Len(prog[h]) /\ prog[h][pc[h]].via = "mmio"
    BY <1>1, OpWord DEF Op
  <2> QED BY <2>1, SMTT(60)
<1>6. "ready" # "replay" /\ PhaseFits("ready", FALSE)
  BY SMTT(60) DEF PhaseFits
<1>7. ASSUME h \in Threads PROVE RowAfter(h, "ready", pc[h] + 1)
  <2>1. Once(h, th[h], phase[h], done[h], prog[h], pc[h])
    BY <1>7 DEF OnceInv, OnceAt
  <2>2. SimpleOK(th[h]) /\ SameExpansion(th[h], th[h])
    BY <2>1 DEF Once, SameExpansion
  <2>3. done[h] \in Seq(Ids) /\ pc[h] \in Nat
    BY <1>7, RowType
  <2>4. Once(h, th[h], "ready", done[h], prog[h], pc[h] + 1)
    BY <1>5, <1>6, <2>1, <2>2, <2>3, RowPast
  <2> QED BY <1>1, <2>4 DEF RowAfter
<1>8. \A u \in Threads : th'[u] = th[u] /\ done'[u] = done[u]
  BY <1>1
<1> QED BY <1>4, <1>7, <1>8, RowsFit

\* Every step keeps the invariant.
LEMMA OnceStep ==
  ASSUME CopInv, OnceInv, Smooth, PlainPushes, [CopNext]_copVars
  PROVE  OnceInv'
<1>1. CASE CopNext
  <2>1. prog' = prog
    BY <1>1 DEF CopNext
  <2>2. PICK h \in Hosts : HostStep(h) \/ BlockEnd(h)
    BY <1>1 DEF CopNext
  <2>3. CASE StartDirect(h)
    BY <2>1, <2>3, StartOnce
  <2>4. CASE Drain(h)
    BY <2>1, <2>4, DrainOnce
  <2>5. CASE Expand(h)
    BY <2>1, <2>5, ExpandOnce
  <2>6. CASE Exec(h)
    BY <2>1, <2>6, ExecOnce
  <2>7. CASE Push(h)
    BY <2>1, <2>7, PushOnce
  <2>8. CASE MmioSem(h)
    BY <2>1, <2>8, MmioOnce
  <2>9. CASE BlockEnd(h)
    BY <2>1, <2>9, BlockEndOnce
  <2> QED BY <2>2, <2>3, <2>4, <2>5, <2>6, <2>7, <2>8, <2>9 DEF HostStep
<1>2. CASE UNCHANGED copVars
  <2>1. th' = th /\ phase' = phase /\ done' = done /\ prog' = prog /\ pc' = pc
    BY <1>2 DEF copVars, hostVars
  <2> SUFFICES ASSUME NEW u \in Threads PROVE OnceAt(u)'
    BY DEF OnceInv
  <2>2. OnceAt(u)' = Once(u, th'[u], phase'[u], done'[u], prog'[u], pc'[u])
    BY DEF OnceAt
  <2>3. Once(u, th[u], phase[u], done[u], prog[u], pc[u])
    BY DEF OnceInv, OnceAt
  <2> QED BY <2>1, <2>2, <2>3
<1> QED BY <1>1, <1>2

\* At the start nothing was executed and nothing is to be.
LEMMA OnceInit == CopInit => OnceInv
<1> SUFFICES ASSUME CopInit, NEW h \in Threads PROVE OnceAt(h)
  BY DEF OnceInv
<1> DEFINE T == th[h]
           p == prog[h]
<1>1. /\ h \in Hosts /\ pc[h] = 1 /\ phase[h] = "ready" /\ done[h] = <<>> /\ T = FreshThread
      /\ prog \in Programs
  BY ThreadsAssumption DEF CopInit
<1>2. /\ T.fifo = <<>> /\ T.cur = <<>> /\ ~T.mop.active /\ T.mop.rest = <<>> /\ ~T.exp.on
      /\ \A s \in Slots : T.buf[s] = NOP
  <2> DEFINE F == FreshThread
  <2>1. F.fifo = <<>> /\ F.cur = <<>> /\ ~F.mop.active /\ F.mop.rest = <<>>
    BY DEF FreshThread
  <2>2. ~F.exp.on
    BY DEF FreshThread, NoExp
  <2>3. F.buf = [n \in 0..(ReplaySize - 1) |-> NOP]
    BY DEF FreshThread
  <2> HIDE DEF F
  <2>4. \A s \in Slots : F.buf[s] = NOP
    BY <2>3 DEF Slots
  <2>5. T = F
    BY <1>1 DEF F
  <2> HIDE DEF T
  <2> QED BY <2>1, <2>2, <2>4, <2>5
<1>3. Len(<<>>) = 0 /\ 1..0 = {} /\ "ready" # "replay" /\ PhaseFits("ready", FALSE)
  BY SMTT(60) DEF PhaseFits
<1>4. Simple(NOP)
  BY SMTT(60) DEF Simple, NOP, MOP
<1> HIDE DEF T
<1>5. SimpleOK(T)
  BY <1>2, <1>3, <1>4 DEF SimpleOK
<1>6. ~Inside(T, "ready") /\ ~Own(T)
  BY <1>2, <1>3 DEF Inside, Own
<1>7. PhaseFits("ready", T.mop.active)
  BY <1>2, <1>3 DEF PhaseFits
<1>8. ExpansionOK(h, T, "ready", p, 1)
  BY <1>2, <1>6 DEF ExpansionOK
<1>9. \A k : Times(<<>>, h, k) = {}
  BY <1>3 DEF Times
<1>10. \A k : RanAre(<<>>, h, k, {})
  BY <1>9 DEF RanAre, Ran, Ordered
<1>11. \A k \in 1..Len(p) : Expected(T, "ready", p, 1, k) = {}
  <2>1. p \in Seq(Operations)
    BY <1>1, ProgramsAssumption
  <2> HIDE DEF p
  <2>2. \A k \in 1..Len(p) : ~(k < 1)
    BY <2>1, SMTT(60)
  <2> QED BY <1>6, <2>2 DEF Expected
<1>12. Once(h, T, "ready", <<>>, p, 1)
  BY <1>5, <1>7, <1>8, <1>10, <1>11 DEF Once
<1> QED BY <1>1, <1>12 DEF OnceAt, T


\* What the invariant says of what was executed.
LEMMA OnceMeans ==
  ASSUME CopInv, OnceInv
  PROVE  DirectOnce
<1> SUFFICES ASSUME NEW h \in Threads, NEW k \in 1..Len(prog[h]), prog[h][k].via = "direct"
             PROVE  LET all == Places(prog[h][k].ins)
                        ran == Ran(done[h], h, k)
                    IN  /\ Ordered(done[h], h, k)
                        /\ k < pc[h] => ran = all
                        /\ k = pc[h] => \A p \in all, q \in ran : Before(p, q) => p \in ran
                        /\ k > pc[h] => ran = {}
  BY DEF DirectOnce
<1> DEFINE T == th[h]
           ph == phase[h]
           p == prog[h]
           c == pc[h]
           i == p[k].ins
           ran == Ran(done[h], h, k)
<1>1. T \in Thread /\ c \in Nat /\ Len(p) \in Nat /\ (c \in 1..Len(p) => p[c].ins \in Words)
  BY RowType
<1>2. Once(h, T, ph, done[h], p, c)
  BY DEF OnceInv, OnceAt
<1>3. Ordered(done[h], h, k) /\ ran = Expected(T, ph, p, c, k)
  BY <1>2 DEF Once, RanAre
<1>4. k \in Nat
  BY <1>1, SMTT(60)
<1> HIDE DEF T, ph, p, c, i, ran
<1>5. k < c => ran = Places(i)
  BY <1>3 DEF Expected, i
<1>6. k > c => ran = {}
  <2>1. k > c => ~(k < c) /\ k # c
    BY <1>1, <1>4, SMTT(60)
  <2> QED BY <1>3, <2>1 DEF Expected
<1>7. ASSUME k = c, NEW x \in Places(i), NEW y \in ran, Before(x, y)
      PROVE  x \in ran
  <2>1. ~(k < c)
    BY <1>1, <1>4, <1>7, SMTT(60)
  <2>2. CASE Inside(T, ph)
    <3>1. ran = Upto(i, Ahead(T, i))
      BY <1>3, <1>7, <2>1, <2>2 DEF Expected, i
    <3>2. y \in Places(i) /\ Before(y, Ahead(T, i))
      BY <1>7, <3>1 DEF Upto
    <3>3. ExpansionOK(h, T, ph, p, c)
      BY <1>2 DEF Once
    <3>4. c \in 1..Len(p) /\ Unfolding(h, c, p[c].ins, T)
      BY <2>2, <3>3 DEF ExpansionOK
    <3>5. i \in Words /\ Unfolding(h, c, i, T)
      BY <1>1, <1>7, <3>4 DEF i
    <3>6. Point(T, i) \in Nat /\ T.exp.pos \in Nat
      BY <1>1, <3>5, PointPlace
    <3> DEFINE a == Ahead(T, i)
    <3>7. a[1] \in Nat /\ a[2] \in Nat
      BY <3>6, SMTT(60) DEF Ahead
    <3> HIDE DEF a
    <3>8. Before(x, a)
      BY <1>7, <3>2, <3>5, <3>7, BeforeBefore DEF a
    <3> QED BY <1>7, <3>1, <3>8 DEF Upto, a
  <2>3. CASE ~Inside(T, ph)
    <3>1. ran = {}
      BY <1>3, <2>1, <2>3 DEF Expected
    <3> QED BY <1>7, <3>1
  <2> QED BY <2>2, <2>3
<1> QED BY <1>3, <1>5, <1>6, <1>7 DEF p, c, i, ran

\* Whatever the cores run, a direct instruction that do_ttinsn has left behind was executed
\* exactly once with its expansion in order and in full, the one being retried is a prefix
\* of its expansion, and no later one has begun: as long as MOP and REPLAY are not pushed, no
\* REPLAY blocks half way, and recording meets neither MOP, REPLAY nor an instruction that
\* would wait.
THEOREM CopDirectOnce ==
  ASSUME PlainPushes
  PROVE  CopSpec /\ []Smooth => []DirectOnce
<1>1. CopInv /\ OnceInv /\ Smooth /\ [CopNext]_copVars => OnceInv'
  BY OnceStep
<1>2. CopInv /\ OnceInv => DirectOnce
  BY OnceMeans
<1> QED BY <1>1, <1>2, OnceInit, CopInvariant, PTL DEF CopSpec
=============================================================================
