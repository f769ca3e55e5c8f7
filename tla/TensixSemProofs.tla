-------------------------- MODULE TensixSemProofs --------------------------
(***************************************************************************)
(* Semaphores stay within their maxima, for any programs in which one      *)
(* thread raises a semaphore and waits for room before it posts: the       *)
(* instructions on their way keep their names (NamesInv), and between wait *)
(* and post there is room or the gate waits for it (SemInv).               *)
(***************************************************************************)
EXTENDS TensixOrderProofs

USE ZenonT(60)
-----------------------------------------------------------------------------
(* Semaphores within their maxima. *)

\* A token carries the instruction its id stands for; only an operation's own one is a MOP.
Stands(id, i) ==
    /\ id[4] # 0 => Quiet(i)
    /\ id[4] = 0 => i = At(prog[id[1]][id[2]].ins, id[3])
    /\ id[3] # 0 => i.op # MOP
Named(x) == Stands(x.id, x.ins)

NamesOK(T) ==
    /\ \A n \in 1..Len(T.fifo) : Named(T.fifo[n])
    /\ \A n \in 1..Len(T.cur) : Named(T.cur[n])
    /\ \A n \in 1..Len(T.mop.rest) : Named(T.mop.rest[n])
    /\ \A s \in Slots : Quiet(T.buf[s])

NamesInv == \A t \in Threads : NamesOK(th[t])

\* From the SEMWAIT to the SEMPOST the owner's gate waits for q, or q is below its maximum.
SemInv(owner) ==
    /\ sem_max \in [Sems -> Nat]
    /\ SemWithinMax
    /\ \A q \in Sems :
          Armed(done[owner[q]], Len(done[owner[q]]), q)
            => Awaits(th[owner[q]].gate, q) \/ sem[q] < sem_max[q]

\* Programs do not change, so a token keeps its name.
LEMMA NamesPrime ==
  ASSUME NEW t, prog' = prog
  PROVE  NamesOK(th'[t]) => NamesOK(th[t])'
BY DEF NamesOK, Named, Stands

\* What is taken up has its name, and so has what is left.
LEMMA TakenNames ==
  ASSUME NEW T \in Thread, NamesOK(T), ~Idle(T)
  PROVE  Named(Fetched(T)) /\ \A n \in 1..Len(Popped(T).fifo) : Named(Popped(T).fifo[n])
<1>1. T.cur \in Seq(Tokens) /\ T.fifo \in Seq(Tokens)
  BY DEF Thread
<1>2. Popped(T).fifo = IF T.cur # <<>> THEN T.fifo ELSE Tail(T.fifo)
  BY PoppedThread
<1>3. /\ \A n \in 1..Len(T.fifo) : Named(T.fifo[n])
      /\ \A n \in 1..Len(T.cur) : Named(T.cur[n])
  BY DEF NamesOK
<1>4. CASE T.cur # <<>>
  <2>1. 1 \in 1..Len(T.cur)
    BY <1>1, <1>4, SMTT(60)
  <2> QED BY <1>2, <1>3, <1>4, <2>1 DEF Fetched
<1>5. CASE T.cur = <<>>
  <2>1. /\ 1 \in 1..Len(T.fifo) /\ Head(T.fifo) = T.fifo[1]
        /\ \A n \in 1..Len(Tail(T.fifo)) :
              Tail(T.fifo)[n] = T.fifo[n + 1] /\ n + 1 \in 1..Len(T.fifo)
    BY <1>1, <1>5, SMTT(60) DEF Idle
  <2>2. \A n \in 1..Len(Tail(T.fifo)) : Named(Tail(T.fifo)[n])
    BY <1>3, <2>1
  <2> QED BY <1>2, <1>3, <1>5, <2>1, <2>2 DEF Fetched
<1> QED BY <1>4, <1>5

\* The body of a MOP has the names of its places.
LEMMA BodyNames ==
  ASSUME NEW tok \in Tokens, Named(tok), tok.ins.op = MOP
  PROVE  \A n \in 1..Len(Expanding(tok).rest) : Named(Expanding(tok).rest[n])
<1> DEFINE b == tok.ins.body
           k == tok.id
           R == [j \in 1..Len(b) |-> Token(<<k[1], k[2], j, 0>>, b[j])]
<1>1. ~Quiet(tok.ins)
  BY DEF Quiet
<1>2. k[3] = 0 /\ k[4] = 0 /\ tok.ins = At(prog[k[1]][k[2]].ins, k[3])
  BY <1>1 DEF Named, Stands
<1>3. tok.ins = prog[k[1]][k[2]].ins
  BY <1>2 DEF At
<1>4. b \in Seq(Words) /\ \A j \in 1..Len(b) : b[j].op # MOP
  BY WordOK DEF Tokens, InsOK
<1>5. Len(b) \in Nat
  BY <1>4, SMTT(60)
<1>6. Expanding(tok).rest = R
  BY DEF Expanding
<1> HIDE DEF b, k
<1>7. ASSUME NEW j \in 1..Len(b) PROVE Named(R[j])
  <2>1. R[j] = Token(<<k[1], k[2], j, 0>>, b[j])
    OBVIOUS
  <2>2. R[j].id = <<k[1], k[2], j, 0>> /\ R[j].ins = b[j]
    BY <2>1 DEF Token
  <2> HIDE DEF R
  <2>3. R[j].id[1] = k[1] /\ R[j].id[2] = k[2] /\ R[j].id[3] = j /\ R[j].id[4] = 0
    BY <2>2, SMTT(60)
  <2>4. j # 0
    BY <1>5, SMTT(60)
  <2>5. b[j] = At(prog[k[1]][k[2]].ins, j)
    BY <1>3, <2>4 DEF At, b
  <2>6. b[j].op # MOP
    BY <1>4
  <2> DEFINE y == R[j].id
  <2>7. y[1] = k[1] /\ y[2] = k[2] /\ y[3] = j /\ y[4] = 0
    BY <2>3
  <2> HIDE DEF y
  <2>8. Stands(y, b[j])
    BY <2>5, <2>6, <2>7, SMTT(60) DEF Stands
  <2> QED BY <2>2, <2>8 DEF Named, y
<1>8. Len(R) = Len(b)
  <2>1. DOMAIN R = 1..Len(b)
    OBVIOUS
  <2> HIDE DEF R
  <2>2. R \in [1..Len(b) -> {R[j] : j \in 1..Len(b)}]
    BY <2>1 DEF R
  <2> QED BY <1>5, <2>1, <2>2, SMTT(60)
<1> HIDE DEF R
<1> QED BY <1>6, <1>7, <1>8

\* An executed instruction leaves names in order.
LEMMA LatchNames ==
  ASSUME NEW T \in Thread, NEW tok \in Tokens, ExpandersOK(T), NamesOK(T), Named(tok)
  PROVE  NamesOK(LatchIfWait(T, tok))
<1> DEFINE U == LatchIfWait(T, tok)
<1>1. U.fifo = T.fifo /\ U.cur = IF tok.ins.op = MOP THEN <<>> ELSE T.cur
  BY LatchThread
<1>2. U.buf = T.buf /\ U.mop = IF tok.ins.op = MOP THEN Expanding(tok) ELSE T.mop
  BY LatchFields
<1> HIDE DEF U
<1>3. ~\E n \in 1..Len(<<>>) : TRUE
  BY SMTT(60)
<1>4. \A n \in 1..Len(U.cur) : Named(U.cur[n])
  BY <1>1, <1>3 DEF NamesOK
<1>5. \A n \in 1..Len(U.mop.rest) : Named(U.mop.rest[n])
  BY <1>2, BodyNames DEF NamesOK
<1> QED BY <1>1, <1>2, <1>4, <1>5 DEF NamesOK, U

\* The thread after tensix_cop_step.
LEMMA StepNames ==
  ASSUME NEW t, NEW T \in Thread, KindsOK(t, T), NamesOK(T), ~Idle(T)
  PROVE  NamesOK(RanOne(T)) /\ \A g \in Gates : NamesOK(KeptOne(T, g))
<1> DEFINE P == Popped(T)
           tok == Fetched(T)
<1>1. /\ tok \in Tokens /\ P \in Thread /\ P.mop = T.mop /\ P.exp = T.exp /\ P.buf = T.buf
      /\ P.cur = <<>> /\ P.gate = T.gate
  BY PoppedThread
<1>2. Named(tok) /\ \A n \in 1..Len(P.fifo) : Named(P.fifo[n])
  BY TakenNames
<1>3. tok.ins \in Words /\ T.gate \in Gates /\ ExpandersOK(T)
  BY <1>1 DEF Tokens, Thread, KindsOK
<1>4. GateBehind(P.gate, tok.ins) \in Gates
  BY <1>1, <1>3, GateType
<1>5. RanOne(T) = LatchIfWait([P EXCEPT !.gate = GateBehind(P.gate, tok.ins)], tok)
  BY <1>1 DEF RanOne
<1>6. \A g \in Gates : KeptOne(T, g) = [P EXCEPT !.cur = <<tok>>, !.gate = g]
  BY DEF KeptOne
<1> HIDE DEF P, tok
<1>7. ~\E n \in 1..Len(<<>>) : TRUE
  BY SMTT(60)
<1>8. \A n \in 1..Len(<<tok>>) : <<tok>>[n] = tok
  BY <1>1, SMTT(60)
<1>9. NamesOK(RanOne(T))
  <2> DEFINE G == [P EXCEPT !.gate = GateBehind(P.gate, tok.ins)]
  <2>1. /\ G \in Thread /\ G.cur = <<>> /\ G.fifo = P.fifo /\ G.mop = T.mop /\ G.exp = T.exp
        /\ G.buf = T.buf
    BY <1>1, <1>4 DEF Thread
  <2> HIDE DEF G
  <2>2. NamesOK(G)
    BY <1>2, <1>7, <2>1 DEF NamesOK
  <2>3. ExpandersOK(G)
    BY <1>3, <2>1 DEF ExpandersOK
  <2>4. NamesOK(LatchIfWait(G, tok))
    BY <1>1, <1>2, <2>1, <2>2, <2>3, LatchNames
  <2> QED BY <1>5, <2>4 DEF G
<1>10. ASSUME NEW g \in Gates PROVE NamesOK(KeptOne(T, g))
  <2> DEFINE U == [P EXCEPT !.cur = <<tok>>, !.gate = g]
  <2>1. U.cur = <<tok>> /\ U.fifo = P.fifo /\ U.mop = T.mop /\ U.buf = T.buf
    BY <1>1 DEF Thread
  <2>2. KeptOne(T, g) = U
    BY <1>6
  <2> HIDE DEF U
  <2>3. NamesOK(U)
    BY <1>2, <1>8, <2>1 DEF NamesOK
  <2> QED BY <2>2, <2>3
<1> QED BY <1>9, <1>10

\* What a step of thread t does to the names and the semaphores: nothing is executed, or
\* an instruction that passed the gate, or a quiet one that is recorded.
SyncMove(t) ==
    /\ NamesOK(th'[t])
    /\ \/ done' = done /\ sem' = sem /\ sem_max' = sem_max
       \/ \E x \in Ids, i \in Words :
             /\ done'[t] = Append(done[t], x) /\ Stands(x, i)
             /\ \/ /\ Execute(t, i) /\ Passes(th[t].gate, i)
                   /\ i.op \in WaitOps => th'[t].gate = Latch(i)
                \/ Quiet(i) /\ (Execute(t, i) \/ UNCHANGED syncVars)

\* tensix_cop_step.
LEMMA StepSync ==
  ASSUME CopInv, NEW t \in Threads, NamesOK(th[t]), StepTrue(t) \/ StepFalse(t)
  PROVE  SyncMove(t)
<1> DEFINE T == th[t]
           tok == Fetched(T)
<1>1. T \in Thread /\ KindsOK(t, T) /\ th \in [Threads -> Thread]
  BY DEF CopInv
<1>2. CASE StepTrue(t)
  <2>1. ~Idle(T) /\ th' = [th EXCEPT ![t] = RanOne(T)] /\ Execute(t, tok.ins)
    BY <1>2 DEF StepTrue, RanOne
  <2>2. /\ done'[t] = Append(done[t], tok.id)
        /\ Passes(T.gate, tok.ins) /\ tok.ins \in Words
        /\ th'[t].gate = IF tok.ins.op \in WaitOps THEN Latch(tok.ins)
                         ELSE GateBehind(T.gate, tok.ins)
    BY <1>2, StepTrueEffect
  <2>3. tok.id \in Ids
    BY <1>1, <2>1, PoppedThread DEF Tokens
  <2>4. Stands(tok.id, tok.ins)
    BY <1>1, <2>1, TakenNames DEF Named
  <2>5. NamesOK(th'[t])
    <3>1. NamesOK(RanOne(T))
      BY <1>1, <2>1, StepNames
    <3>2. th'[t] = RanOne(T)
      BY <1>1, <2>1
    <3> QED BY <3>1, <3>2
  <2> HIDE DEF tok
  <2>6. tok.ins.op \in WaitOps => th'[t].gate = Latch(tok.ins)
    BY <2>2
  <2> QED BY <2>1, <2>2, <2>3, <2>4, <2>5, <2>6 DEF SyncMove
<1>3. CASE StepFalse(t)
  <2>1. done' = done /\ sem' = sem /\ sem_max' = sem_max
    BY <1>3 DEF StepFalse, syncVars
  <2>2. NamesOK(th'[t])
    <3>1. CASE th' = th
      BY <3>1
    <3>2. CASE ~Idle(T) /\ \E g \in Gates : th' = [th EXCEPT ![t] = KeptOne(T, g)]
      <4>1. PICK g \in Gates : th' = [th EXCEPT ![t] = KeptOne(T, g)]
        BY <3>2
      <4>2. th'[t] = KeptOne(T, g)
        BY <1>1, <4>1
      <4>3. NamesOK(KeptOne(T, g))
        BY <1>1, <3>2, StepNames
      <4> QED BY <4>2, <4>3
    <3> QED BY <1>1, <1>3, <3>1, <3>2, StepFalseKeeps
  <2> QED BY <2>1, <2>2 DEF SyncMove
<1> QED BY <1>2, <1>3

\* mop_continue_execution and drain_replay_expansion.
LEMMA ExpandSync ==
  ASSUME CopInv, NEW h \in Threads, NamesOK(th[h]), Expand(h)
  PROVE  SyncMove(h)
<1> DEFINE T == th[h]
           e == T.exp
           X == [T EXCEPT !.exp = NoExp]
           s == (e.start + e.pos) % ReplaySize
           x == Token(<<e.by[1], e.by[2], e.by[3], e.pos + 1>>, T.buf[s])
           Y == [T EXCEPT !.exp.pos = @ + 1, !.cur = <<x>>]
           M == [T.mop EXCEPT !.rest = Tail(T.mop.rest)]
           y == Head(T.mop.rest)
           Z == [T EXCEPT !.cur = <<y>>, !.mop = M]
           N == [T.mop EXCEPT !.active = FALSE]
           W == [T EXCEPT !.mop = N]
<1>1. /\ T \in Thread /\ KindsOK(h, T) /\ th \in [Threads -> Thread]
  BY DEF CopInv
<1>2. T.mop \in Mops /\ e \in Expansions /\ T.buf \in [Slots -> Words]
  BY <1>1 DEF Thread
<1>3. CASE StepTrue(h) \/ StepFalse(h)
  BY <1>3, StepSync
<1>4. ASSUME NEW U, th' = [th EXCEPT ![h] = U], UNCHANGED <<done, bankVars, syncVars>>, NamesOK(U)
      PROVE  SyncMove(h)
  <2>1. th'[h] = U
    BY <1>1, <1>4
  <2>2. done' = done /\ sem' = sem /\ sem_max' = sem_max
    BY <1>4 DEF syncVars
  <2> QED BY <1>4, <2>1, <2>2 DEF SyncMove
<1>5. NamesOK(X)
  <2>1. X.fifo = T.fifo /\ X.cur = T.cur /\ X.mop = T.mop /\ X.buf = T.buf
    BY <1>1 DEF Thread
  <2> HIDE DEF X
  <2> QED BY <2>1 DEF NamesOK
<1>6. ASSUME e.on PROVE NamesOK(Y)
  <2>1. e.start \in Nat /\ e.pos \in Nat
    BY <1>2 DEF Expansions
  <2>2. s \in Slots /\ e.pos + 1 \in Nat /\ e.pos + 1 # 0
    <3> HIDE DEF e
    <3> QED BY <2>1, SizesAssumption, SMTT(60) DEF Slots
  <2> HIDE DEF s
  <2>3. Quiet(T.buf[s])
    BY <2>2 DEF NamesOK
  <2>4. x.id = <<e.by[1], e.by[2], e.by[3], e.pos + 1>> /\ x.ins = T.buf[s]
    BY DEF Token
  <2>5. T.buf[s].op # MOP
    BY <2>3 DEF Quiet
  <2> HIDE DEF x
  <2>6. x.id[4] = e.pos + 1
    BY <2>4, SMTT(60)
  <2>7. Named(x)
    BY <2>2, <2>3, <2>4, <2>5, <2>6 DEF Named, Stands
  <2>8. Y.fifo = T.fifo /\ Y.cur = <<x>> /\ Y.mop = T.mop /\ Y.buf = T.buf
    BY <1>1 DEF Thread
  <2>9. \A n \in 1..Len(<<x>>) : <<x>>[n] = x
    BY SMTT(60)
  <2> HIDE DEF Y
  <2> QED BY <2>7, <2>8, <2>9 DEF NamesOK
<1>7. ASSUME T.mop.rest # <<>> PROVE NamesOK(Z)
  <2> DEFINE r == T.mop.rest
  <2>1. r \in Seq(Tokens) /\ r # <<>> /\ M.rest = Tail(r)
    BY <1>2, <1>7 DEF Mops
  <2>2. \A n \in 1..Len(r) : Named(r[n])
    BY DEF NamesOK
  <2>3. y = Head(r)
    OBVIOUS
  <2> HIDE DEF r, y, M
  <2>4. /\ y = r[1] /\ 1 \in 1..Len(r)
        /\ \A n \in 1..Len(Tail(r)) : Tail(r)[n] = r[n + 1] /\ n + 1 \in 1..Len(r)
    BY <2>1, <2>3, SMTT(60)
  <2>5. Named(y) /\ \A n \in 1..Len(Tail(r)) : Named(Tail(r)[n])
    BY <2>2, <2>4
  <2>6. Z.fifo = T.fifo /\ Z.cur = <<y>> /\ Z.mop = M /\ Z.buf = T.buf
    BY <1>1 DEF Thread
  <2>7. \A n \in 1..Len(<<y>>) : <<y>>[n] = y
    BY SMTT(60)
  <2> HIDE DEF Z
  <2> QED BY <2>1, <2>5, <2>6, <2>7 DEF NamesOK
<1>8. NamesOK(W)
  <2>1. N.rest = T.mop.rest
    BY <1>2 DEF Mops
  <2> HIDE DEF N
  <2>2. W.fifo = T.fifo /\ W.cur = T.cur /\ W.mop = N /\ W.buf = T.buf
    BY <1>1 DEF Thread
  <2> HIDE DEF W
  <2> QED BY <2>1, <2>2 DEF NamesOK
<1>9. CASE /\ UNCHANGED <<done, bankVars, syncVars>> /\ e.on
           /\ th' = [th EXCEPT ![h] = IF e.pos >= e.count THEN X ELSE Y]
  <2> HIDE DEF X, Y, e
  <2>1. th' = [th EXCEPT ![h] = X] \/ th' = [th EXCEPT ![h] = Y]
    BY <1>9
  <2> QED BY <1>4, <1>5, <1>6, <1>9, <2>1
<1>10. CASE /\ UNCHANGED <<done, bankVars, syncVars>> /\ T.mop.rest # <<>>
            /\ th' = [th EXCEPT ![h].cur = <<Head(T.mop.rest)>>, ![h].mop.rest = Tail(@)]
  <2>1. th' = [th EXCEPT ![h] = Z]
    BY <1>1, <1>2, <1>10 DEF Thread, Mops
  <2> HIDE DEF Z
  <2> QED BY <1>4, <1>7, <1>10, <2>1
<1>11. CASE /\ UNCHANGED <<done, bankVars, syncVars>>
            /\ th' = IF phase[h] = "replay" THEN th ELSE [th EXCEPT ![h].mop.active = FALSE]
  <2>1. CASE th' = th
    <3>1. th' = [th EXCEPT ![h] = T]
      BY <1>1, <2>1
    <3> HIDE DEF T
    <3> QED BY <1>4, <1>11, <3>1 DEF T
  <2>2. CASE th' = [th EXCEPT ![h].mop.active = FALSE]
    <3>1. th' = [th EXCEPT ![h] = W]
      BY <1>1, <1>2, <2>2 DEF Thread, Mops
    <3> HIDE DEF W
    <3> QED BY <1>4, <1>8, <1>11, <3>1
  <2> QED BY <1>11, <2>1, <2>2
<1> HIDE DEF X, Y
<1>12. \/ StepTrue(h) \/ StepFalse(h)
       \/ /\ UNCHANGED <<done, bankVars, syncVars>> /\ e.on
          /\ th' = [th EXCEPT ![h] = IF e.pos >= e.count THEN X ELSE Y]
       \/ /\ UNCHANGED <<done, bankVars, syncVars>> /\ T.mop.rest # <<>>
          /\ th' = [th EXCEPT ![h].cur = <<Head(T.mop.rest)>>, ![h].mop.rest = Tail(@)]
       \/ /\ UNCHANGED <<done, bankVars, syncVars>>
          /\ th' = IF phase[h] = "replay" THEN th ELSE [th EXCEPT ![h].mop.active = FALSE]
  BY DEF Expand, X, Y, x, s
<1> QED BY <1>3, <1>9, <1>10, <1>11, <1>12

\* A direct instruction has the name of its operation.
LEMMA DirectNames ==
  ASSUME NEW h, NEW x, x = Token(<<h, pc[h], 0, 0>>, Op(h).ins)
  PROVE  Named(x)
<1>1. x.id = <<h, pc[h], 0, 0>> /\ x.ins = Op(h).ins
  BY DEF Token
<1> DEFINE y == x.id
<1> HIDE DEF y
<1>2. y[1] = h /\ y[2] = pc[h] /\ y[3] = 0 /\ y[4] = 0
  BY <1>1, SMTT(60) DEF y
<1>3. x.ins = prog[y[1]][y[2]].ins
  BY <1>1, <1>2 DEF Op
<1>4. x.ins = At(prog[y[1]][y[2]].ins, y[3])
  BY <1>2, <1>3 DEF At
<1>5. Stands(y, x.ins)
  BY <1>2, <1>4 DEF Stands
<1> QED BY <1>5 DEF Named, y

\* A quiet direct instruction is recorded.
LEMMA RecordSync ==
  ASSUME CopInv, NEW h \in Threads, NamesOK(th[h]), HasOp(h, "direct"), th[h].rec.left > 0,
         Quiet(Op(h).ins), Record(h)
  PROVE  SyncMove(h)
<1> DEFINE T == th[h]
           i == Op(h).ins
           R == Recorded(h)
           tok == Direct(h)
           runs == T.rec.ewl /\ (i.op = "PACR" \/ Ready(i))
           A == ThreadAfter(R, tok)
           s == T.rec.index % ReplaySize
           b == [T.buf EXCEPT ![s] = i]
           r == [T.rec EXCEPT !.index = @ + 1, !.left = @ - 1]
<1>1. /\ h \in Hosts /\ T \in Thread /\ th \in [Threads -> Thread]
      /\ done \in [Threads -> Seq(Ids)]
  BY RowType DEF CopInv
<1>2. tok \in Tokens /\ tok.ins = i /\ tok.id \in Ids /\ i \in Words
  BY <1>1, DirectOp, OpWord
<1>3. Named(tok)
  BY DirectNames DEF Direct
<1>4. /\ th' = [th EXCEPT ![h] = IF runs THEN A ELSE R]
      /\ IF runs THEN Execute(h, i) ELSE UNCHANGED <<bankVars, syncVars>>
      /\ done' = IF T.rec.ewl => runs THEN [done EXCEPT ![h] = Append(@, tok.id)] ELSE done
  BY DEF Record, Recorded
<1>5. R \in Thread /\ ExpandersOK(R)
  BY <1>2, RecordedThread
<1>6. T.rec \in Recordings /\ T.buf \in [Slots -> Words]
  BY <1>1 DEF Thread
<1>7. R = [T EXCEPT !.buf = b, !.rec = r]
  BY <1>1, <1>6 DEF Recorded, Thread, Recordings
<1>8. \A z \in Slots : b[z] = i \/ b[z] = T.buf[z]
  BY <1>6
<1> HIDE DEF b, r, R
<1>9. R.mop = T.mop /\ R.cur = T.cur /\ R.fifo = T.fifo /\ R.buf = b
  BY <1>1, <1>7 DEF Thread
<1>10. NamesOK(R)
  <2>1. \A z \in Slots : Quiet(R.buf[z])
    BY <1>8, <1>9 DEF NamesOK
  <2> QED BY <1>9, <2>1 DEF NamesOK
<1>11. NamesOK(A)
  <2>1. tok.ins.op \notin WaitOps
    BY <1>2 DEF Quiet
  <2>2. A = LatchIfWait(R, tok)
    BY <2>1 DEF LatchIfWait
  <2>3. NamesOK(LatchIfWait(R, tok))
    BY <1>2, <1>3, <1>5, <1>10, LatchNames
  <2> QED BY <2>2, <2>3
<1> HIDE DEF A, tok, runs
<1>12. NamesOK(th'[h])
  BY <1>1, <1>4, <1>10, <1>11
<1>13. CASE T.rec.ewl => runs
  <2>1. done'[h] = Append(done[h], tok.id)
    BY <1>1, <1>4, <1>13
  <2>2. Stands(tok.id, i)
    BY <1>2, <1>3 DEF Named
  <2>3. Execute(h, i) \/ UNCHANGED syncVars
    BY <1>4
  <2> QED BY <1>2, <1>12, <2>1, <2>2, <2>3 DEF SyncMove
<1>14. CASE ~(T.rec.ewl => runs)
  <2>1. done' = done /\ UNCHANGED syncVars
    BY <1>4, <1>14
  <2> QED BY <1>12, <2>1 DEF SyncMove, syncVars
<1> QED BY <1>13, <1>14

\* The rest of tensix_cop_step_direct.
LEMMA ExecSync ==
  ASSUME CopInv, NEW owner, Disciplined(owner), NEW h \in Threads, NamesOK(th[h]), Exec(h)
  PROVE  SyncMove(h)
<1> DEFINE T == th[h]
           i == Op(h).ins
           tok == Direct(h)
           g == GateBehind(T.gate, i)
           G == [T EXCEPT !.gate = g]
           E == LatchIfWait(G, tok)
           recording == T.rec.left > 0 /\ i.op # "MOP_CFG"
<1>1. phase[h] = "exec" /\ h \in Hosts
  BY RowType DEF Exec
<1>2. HasOp(h, "direct")
  <2>1. phase[h] \notin {"ready", "post", "push"}
    BY <1>1, SMTT(60)
  <2> QED BY <1>1, <2>1 DEF CopInv
<1>3. tok \in Tokens /\ tok.ins = i /\ tok.id \in Ids /\ i \in Words
  BY <1>1, <1>2, DirectOp, OpWord
<1>4. /\ T \in Thread /\ th \in [Threads -> Thread] /\ KindsOK(h, T)
      /\ done \in [Threads -> Seq(Ids)]
  BY DEF CopInv
<1>5. T.gate \in Gates /\ ExpandersOK(T)
  BY <1>4 DEF Thread, KindsOK
<1>6. g \in Gates
  BY <1>3, <1>5, GateType
<1>7. /\ G \in Thread /\ G.cur = T.cur /\ G.fifo = T.fifo /\ G.mop = T.mop
      /\ G.exp = T.exp /\ G.buf = T.buf
  <2> HIDE DEF g, T
  <2> QED BY <1>4, <1>6 DEF Thread
<1>8. Named(tok)
  BY DirectNames DEF Direct
<1> HIDE DEF tok, G
<1>9. ExpandersOK(G) /\ NamesOK(G)
  BY <1>5, <1>7 DEF ExpandersOK, NamesOK
<1>10. CASE recording /\ Record(h)
  <2>1. Quiet(i)
    BY <1>1, <1>10 DEF Disciplined
  <2> QED BY <1>2, <1>10, <2>1, RecordSync
<1>11. ASSUME UNCHANGED <<done, bankVars, syncVars>>,
              th' = IF Passes(T.gate, i) THEN [th EXCEPT ![h] = G] ELSE th
       PROVE  SyncMove(h)
  <2>1. th'[h] = G \/ th'[h] = T
    BY <1>4, <1>11
  <2>2. NamesOK(th'[h])
    BY <1>9, <2>1
  <2>3. done' = done /\ sem' = sem /\ sem_max' = sem_max
    BY <1>11 DEF syncVars
  <2> QED BY <2>2, <2>3 DEF SyncMove
<1>12. ASSUME Passes(T.gate, i), th' = [th EXCEPT ![h] = E], Execute(h, i),
              done' = [done EXCEPT ![h] = Append(@, tok.id)]
       PROVE  SyncMove(h)
  <2>1. NamesOK(E)
    BY <1>3, <1>7, <1>8, <1>9, LatchNames
  <2>2. E.gate = IF tok.ins.op \in WaitOps THEN Latch(tok.ins) ELSE G.gate
    BY <1>3, <1>7, <1>9, LatchThread
  <2> HIDE DEF E
  <2>3. th'[h] = E /\ done'[h] = Append(done[h], tok.id)
    BY <1>4, <1>12
  <2>4. i.op \in WaitOps => th'[h].gate = Latch(i)
    BY <1>3, <2>2, <2>3
  <2>5. Stands(tok.id, i)
    BY <1>3, <1>8 DEF Named
  <2> QED BY <1>3, <1>12, <2>1, <2>3, <2>4, <2>5 DEF SyncMove
<1>13. tok = Token(<<h, pc[h], 0, 0>>, i) /\ tok.ins = i
  BY <1>3 DEF tok, Direct
<1> QED BY <1>10, <1>11, <1>12 DEF Exec, DirectPasses, Direct, Token, tok, G

\* A pushed instruction has the name of its operation.
LEMMA PushNames ==
  ASSUME CopInv, NamesInv, NEW h \in Hosts, HasOp(h, "push"),
         th' = [th EXCEPT ![Op(h).to].fifo = Append(@, PushTok(h))]
  PROVE  \A u \in Threads : NamesOK(th'[u])
<1> DEFINE t == Op(h).to
           T == th[t]
           f == Append(T.fifo, PushTok(h))
           U == [T EXCEPT !.fifo = f]
<1>1. t \in Threads /\ PushTok(h) \in Tokens
  BY PushOp
<1>2. th \in [Threads -> Thread] /\ T \in Thread /\ NamesOK(T)
  BY <1>1 DEF CopInv, NamesInv
<1>3. T.fifo \in Seq(Tokens)
  BY <1>2 DEF Thread
<1>4. th' = [th EXCEPT ![t].fifo = Append(@, PushTok(h))]
  OBVIOUS
<1>5. Named(PushTok(h))
  BY DirectNames DEF PushTok
<1> HIDE DEF t
<1>6. th' = [th EXCEPT ![t] = U]
  BY <1>2, <1>4 DEF Thread
<1>7. f \in Seq(Tokens) /\ \A n \in 1..Len(f) : (n \in 1..Len(T.fifo) /\ f[n] = T.fifo[n])
                                                  \/ f[n] = PushTok(h)
  BY <1>1, <1>3, SMTT(60)
<1> HIDE DEF f
<1>8. U.fifo = f /\ U.cur = T.cur /\ U.mop = T.mop /\ U.buf = T.buf
  BY <1>2, <1>7 DEF Thread
<1> HIDE DEF U
<1>9. \A n \in 1..Len(f) : Named(f[n])
  BY <1>2, <1>5, <1>7 DEF NamesOK
<1>10. NamesOK(U)
  BY <1>2, <1>8, <1>9 DEF NamesOK
<1>11. th'[t] = U /\ \A u \in Threads : u # t => th'[u] = th[u]
  BY <1>1, <1>2, <1>6
<1> QED BY <1>10, <1>11 DEF NamesInv

\* No semaphore rises.
Calm == sem_max' = sem_max /\ \A q \in Sems : sem'[q] <= sem[q]

\* What a step does to names and semaphores.
LEMMA SyncCases ==
  ASSUME CopInv, NamesInv, NEW owner, Disciplined(owner), OnlyGets, CopNext
  PROVE  \/ \E t \in Threads : Effect(t) /\ SyncMove(t)
         \/ /\ \E h \in Hosts : PushIn(h)
            /\ Calm /\ \A u \in Threads : NamesOK(th'[u])
         \/ th' = th /\ done' = done /\ Calm
<1>1. PICK h \in Hosts : HostStep(h) \/ BlockEnd(h)
  BY DEF CopNext
<1>2. sem \in [Sems -> 0..SemCap] /\ SemCap \in Nat
  BY SemCapAssumption DEF CopInv, CopTypeOK
<1>3. ASSUME UNCHANGED syncVars PROVE Calm
  <2>1. sem' = sem /\ sem_max' = sem_max
    BY <1>3 DEF syncVars
  <2>2. \A q \in Sems : sem[q] <= sem[q]
    BY <1>2, SMTT(60)
  <2> QED BY <2>1, <2>2 DEF Calm
<1>4. ASSUME NEW t \in Threads, StepTrue(t) \/ StepFalse(t)
      PROVE  Effect(t) /\ SyncMove(t)
  BY <1>4, StepEffect, StepSync DEF NamesInv
<1>5. phase[h] \notin {"ready", "post", "push"} => h \in Threads
  BY DirectOp DEF CopInv
<1>6. CASE StartDirect(h)
  <2>1. th' = th /\ done' = done /\ UNCHANGED syncVars
    BY <1>6 DEF StartDirect
  <2> QED BY <1>3, <2>1
<1>7. CASE Drain(h)
  <2>1. phase[h] = "drain" /\ (StepTrue(h) \/ StepFalse(h))
    BY <1>7 DEF Drain
  <2>2. h \in Threads
    BY <1>5, <2>1, SMTT(60)
  <2> QED BY <1>4, <2>1, <2>2
<1>8. CASE Expand(h)
  <2>1. h \in Threads /\ Effect(h)
    BY <1>8, ExpandEffect
  <2>2. SyncMove(h)
    BY <1>8, <2>1, ExpandSync DEF NamesInv
  <2> QED BY <2>1, <2>2
<1>9. CASE Exec(h)
  <2>1. h \in Threads /\ Effect(h)
    BY <1>9, ExecEffect
  <2>2. SyncMove(h)
    BY <1>9, <2>1, ExecSync DEF NamesInv
  <2> QED BY <2>1, <2>2
<1>10. CASE Push(h)
  <2>1. HasOp(h, "push")
    BY <1>10 DEF Push
  <2>2. Op(h).to \in Threads
    BY <2>1, PushOp
  <2>3. CASE StepTrue(Op(h).to) \/ StepFalse(Op(h).to)
    BY <1>4, <2>2, <2>3
  <2>4. CASE /\ ~FifoFull(th[Op(h).to])
             /\ th' = [th EXCEPT ![Op(h).to].fifo = Append(@, PushTok(h))]
             /\ pushed' = [pushed EXCEPT ![Op(h).to] = Append(@, PushTok(h).id)]
             /\ pc' = [pc EXCEPT ![h] = @ + 1]
             /\ UNCHANGED <<retry, done, bankVars, syncVars, aborted>>
    <3>1. done' = done /\ UNCHANGED syncVars
      BY <2>4
    <3>2. PushIn(h)
      BY <2>1, <2>4, <3>1, PushEffect
    <3>3. \A u \in Threads : NamesOK(th'[u])
      BY <2>1, <2>4, PushNames
    <3> QED BY <1>3, <3>1, <3>2, <3>3
  <2> QED BY <1>10, <2>3, <2>4 DEF Push, PushTok
<1>11. CASE MmioSem(h)
  <2> DEFINE i == Op(h).ins
  <2>1. th' = th /\ done' = done /\ HasOp(h, "mmio")
    BY <1>11 DEF MmioSem
  <2>2. Op(h) \in Operations /\ Op(h).via = "mmio"
    BY <2>1, OpWord
  <2>3. i.op = "get"
    BY <2>2 DEF OnlyGets
  <2>4. \/ i.op = "post" \/ i.op = "write" \/ Semget({i.sem})
    BY <1>11 DEF MmioSem
  <2> HIDE DEF i
  <2>5. Semget({i.sem})
    BY <2>3, <2>4, SMTT(60)
  <2>6. sem_max' = sem_max /\ sem' = [q \in Sems |-> IF q \in {i.sem} /\ sem[q] > 0 THEN sem[q] - 1 ELSE sem[q]]
    BY <2>5 DEF Semget
  <2>7. \A q \in Sems : sem'[q] <= sem[q]
    BY <1>2, <2>6, SMTT(60)
  <2> QED BY <2>1, <2>6, <2>7 DEF Calm
<1>12. CASE BlockEnd(h)
  BY <1>4, <1>12 DEF BlockEnd
<1> QED BY <1>1, <1>6, <1>7, <1>8, <1>9, <1>10, <1>11, <1>12 DEF HostStep
-----------------------------------------------------------------------------
(* The semaphores. *)

\* NOP stands for a replayed instruction: it neither raises nor awaits.
LEMMA NopQuiet ==
  ASSUME NEW q
  PROVE  ~Raises(NOP, q) /\ ~Awaits(NOP, q)
<1>1. NOP.op = "NOP"
  BY DEF NOP
<1>2. NOP.op \notin {"SEMINIT", "SEMPOST"} /\ NOP.op # "SEMWAIT"
  BY <1>1, SMTT(60)
<1> QED BY <1>2 DEF Raises, Awaits

\* What an executed instruction is remembered as.
LEMMA Remembered ==
  ASSUME NEW x, NEW i, Stands(x, i), NEW q
  PROVE  /\ Did(x) = i \/ (Quiet(i) /\ Did(x) = NOP)
         /\ Quiet(i) => ~Raises(i, q) /\ ~Awaits(i, q)
         /\ Raises(i, q) => Did(x) = i
         /\ Awaits(Did(x), q) => Did(x) = i /\ ~Quiet(i) /\ i.op \in WaitOps
<1>1. Did(x) = i \/ (Quiet(i) /\ Did(x) = NOP)
  BY DEF Did, Stands
<1>2. Quiet(i) => ~Raises(i, q) /\ ~Awaits(i, q)
  <2>1. "SEMWAIT" \in WaitOps
    BY SMTT(60) DEF WaitOps
  <2> QED BY <2>1 DEF Quiet, Raises, Awaits
<1>3. Awaits(i, q) => i.op \in WaitOps
  BY SMTT(60) DEF Awaits, WaitOps
<1> QED BY <1>1, <1>2, <1>3, NopQuiet

\* The wait of a history with one more instruction.
LEMMA ArmedAppend ==
  ASSUME NEW d \in Seq(Ids), NEW x \in Ids, NEW q
  PROVE  /\ Armed(Append(d, x), Len(d), q) => Armed(d, Len(d), q)
         /\ Armed(Append(d, x), Len(Append(d, x)), q)
              => Awaits(Did(x), q) \/ (Armed(d, Len(d), q) /\ ~Raises(Did(x), q))
         /\ Len(Append(d, x)) \in 1..Len(Append(d, x))
         /\ Append(d, x)[Len(Append(d, x))] = x
         /\ Len(Append(d, x)) - 1 = Len(d)
<1> DEFINE e == Append(d, x)
           k == Len(d)
           l == Len(e)
<1>1. /\ k \in Nat /\ l = k + 1 /\ l \in 1..l /\ e[l] = x /\ l - 1 = k
      /\ \A m \in 1..k : e[m] = d[m]
      /\ \A m \in 1..l : m \in 1..k \/ m = l
      /\ \A m \in 1..k : l \in (m + 1)..l
      /\ \A m \in 1..k : \A j \in (m + 1)..k : j \in 1..k /\ j \in (m + 1)..l
  BY SMTT(60)
<1> HIDE DEF e, k, l
<1>2. ASSUME Armed(e, k, q) PROVE Armed(d, k, q)
  <2>1. PICK m \in 1..k : Awaits(Did(e[m]), q) /\ \A j \in (m + 1)..k : ~Raises(Did(e[j]), q)
    BY <1>2 DEF Armed
  <2>2. Awaits(Did(d[m]), q)
    BY <1>1, <2>1
  <2>3. \A j \in (m + 1)..k : ~Raises(Did(d[j]), q)
    BY <1>1, <2>1
  <2> QED BY <2>2, <2>3 DEF Armed
<1>3. ASSUME Armed(e, l, q)
      PROVE  Awaits(Did(x), q) \/ (Armed(d, k, q) /\ ~Raises(Did(x), q))
  <2>1. PICK m \in 1..l : Awaits(Did(e[m]), q) /\ \A j \in (m + 1)..l : ~Raises(Did(e[j]), q)
    BY <1>3 DEF Armed
  <2>2. CASE m = l
    BY <1>1, <2>1, <2>2
  <2>3. CASE m \in 1..k
    <3>1. ~Raises(Did(x), q)
      BY <1>1, <2>1, <2>3
    <3>2. \A j \in (m + 1)..k : ~Raises(Did(e[j]), q)
      BY <1>1, <2>1, <2>3
    <3>3. Armed(e, k, q)
      BY <2>1, <2>3, <3>2 DEF Armed
    <3> QED BY <1>2, <3>1, <3>3
  <2> QED BY <1>1, <2>2, <2>3
<1> QED BY <1>1, <1>2, <1>3 DEF e, k, l

\* What an instruction does to a semaphore.
LEMMA SemsMove ==
  ASSUME CopInv, sem_max \in [Sems -> Nat], NEW t, NEW i \in Words,
         Execute(t, i) \/ (UNCHANGED syncVars /\ Quiet(i))
  PROVE  /\ sem_max' \in [Sems -> Nat]
         /\ \A q \in Sems :
              /\ ~Raises(i, q) => sem'[q] <= sem[q] /\ sem_max'[q] = sem_max[q]
              /\ Raises(i, q) /\ i.op = "SEMINIT" => sem'[q] = i.init /\ sem_max'[q] = i.max
              /\ Raises(i, q) /\ i.op = "SEMPOST"
                   => sem'[q] <= sem[q] + 1 /\ sem_max'[q] = sem_max[q]
<1>1. sem \in [Sems -> 0..SemCap] /\ SemCap \in Nat
  BY SemCapAssumption DEF CopInv, CopTypeOK
<1>2. \A q \in Sems : sem[q] \in Nat /\ sem[q] <= sem[q] /\ sem[q] <= sem[q] + 1
  BY <1>1, SMTT(60)
<1>3. CASE sem' = sem /\ sem_max' = sem_max /\ i.op # "SEMINIT"
  BY <1>2, <1>3
<1>4. CASE i.op = "SEMINIT" /\ Seminit(i.sems, i.max, i.init)
  <2>1. i.max \in 0..SemCap
    BY <1>4, WordOK DEF InsOK
  <2>2. i.max \in Nat
    BY <1>1, <2>1, SMTT(60)
  <2>3. /\ sem' = [q \in Sems |-> IF q \in i.sems THEN i.init ELSE sem[q]]
        /\ sem_max' = [q \in Sems |-> IF q \in i.sems THEN i.max ELSE sem_max[q]]
    BY <1>4 DEF Seminit
  <2>4. sem_max' \in [Sems -> Nat]
    BY <2>2, <2>3
  <2>5. \A q \in Sems : Raises(i, q) <=> q \in i.sems
    BY <1>4 DEF Raises
  <2>6. i.op # "SEMPOST"
    BY <1>4, SMTT(60)
  <2> QED BY <1>2, <2>3, <2>4, <2>5, <2>6
<1>5. CASE i.op = "SEMPOST" /\ Sempost(i.sems)
  <2>1. /\ sem' = [q \in Sems |-> IF q \in i.sems /\ sem[q] < SemCap THEN sem[q] + 1 ELSE sem[q]]
        /\ sem_max' = sem_max
    BY <1>5 DEF Sempost
  <2>2. \A q \in Sems : Raises(i, q) <=> q \in i.sems
    BY <1>5 DEF Raises
  <2>3. i.op # "SEMINIT"
    BY <1>5, SMTT(60)
  <2>4. \A q \in Sems : /\ q \notin i.sems => sem'[q] = sem[q]
                        /\ sem'[q] = sem[q] \/ sem'[q] = sem[q] + 1
    BY <2>1
  <2>5. \A q \in Sems : sem'[q] <= sem[q] + 1
    BY <1>2, <2>4, SMTT(60)
  <2> QED BY <1>2, <2>1, <2>2, <2>3, <2>4, <2>5
<1>6. CASE i.op = "SEMGET" /\ Semget(i.sems)
  <2>1. /\ sem' = [q \in Sems |-> IF q \in i.sems /\ sem[q] > 0 THEN sem[q] - 1 ELSE sem[q]]
        /\ sem_max' = sem_max
    BY <1>6 DEF Semget
  <2>2. \A q \in Sems : sem'[q] = sem[q] \/ sem'[q] = sem[q] - 1
    BY <2>1
  <2>3. \A q \in Sems : sem'[q] <= sem[q]
    BY <1>2, <2>2, SMTT(60)
  <2>4. i.op \notin {"SEMINIT", "SEMPOST"}
    BY <1>6, SMTT(60)
  <2> QED BY <2>1, <2>3, <2>4 DEF Raises
<1>7. \/ sem' = sem /\ sem_max' = sem_max /\ i.op # "SEMINIT"
      \/ i.op = "SEMINIT" /\ Seminit(i.sems, i.max, i.init)
      \/ i.op = "SEMPOST" /\ Sempost(i.sems)
      \/ i.op = "SEMGET" /\ Semget(i.sems)
  <2>1. CASE Execute(t, i)
    <3>1. CASE /\ i.op \in {"UNPACR", "SETDVALID", "ELW", "SETRWC", "NOP", "PACR", "SETADC",
                            "SETDMAREG", "WRCFG", "REPLAY", "MOP_CFG", MOP} \cup WaitOps
               /\ UNCHANGED syncVars
      <4>1. i.op # "SEMINIT"
        BY <3>1, SMTT(60) DEF MOP, WaitOps
      <4> QED BY <3>1, <4>1 DEF syncVars
    <3>2. CASE i.op = "ATGETM" /\ Atgetm(t, i.mutex)
      <4>1. i.op # "SEMINIT"
        BY <3>2, SMTT(60)
      <4> QED BY <3>2, <4>1 DEF Atgetm
    <3>3. CASE i.op = "ATRELM" /\ Atrelm(t, i.mutex)
      <4>1. i.op # "SEMINIT"
        BY <3>3, SMTT(60)
      <4> QED BY <3>3, <4>1 DEF Atrelm
    <3> QED BY <2>1, <3>1, <3>2, <3>3 DEF Execute
  <2>2. CASE UNCHANGED syncVars /\ Quiet(i)
    BY <2>2 DEF syncVars, Quiet
  <2> QED BY <2>1, <2>2
<1> QED BY <1>3, <1>4, <1>5, <1>6, <1>7

\* A gate that awaits q and is open finds q below its maximum.
LEMMA AwaitOpen ==
  ASSUME NEW g, NEW q, Awaits(g, q), GateOpen(g)
  PROVE  sem[q] < sem_max[q]
<1>1. g.op = "SEMWAIT" /\ q \in g.sems /\ 1 \in g.cond
  BY DEF Awaits
<1>2. g.op # "STALLWAIT"
  BY <1>1, SMTT(60)
<1>3. SemsOpen(g.cond, g.sems)
  BY <1>1, <1>2 DEF GateOpen
<1> QED BY <1>1, <1>3 DEF SemsOpen

\* A SEMPOST that passes a gate that awaits q.
LEMMA PostPasses ==
  ASSUME NEW g, NEW q, Awaits(g, q), NEW i, i.op = "SEMPOST", Passes(g, i)
  PROVE  sem[q] < sem_max[q]
<1>1. g.op = "SEMWAIT" /\ 1 \in g.block
  BY DEF Awaits
<1>2. NoGate.op = "none"
  BY DEF NoGate
<1>3. g # NoGate
  <2>1. "SEMWAIT" # "none"
    BY SMTT(60)
  <2> QED BY <1>1, <1>2, <2>1
<1>4. BlockBits(i.op) = {1}
  BY SMTT(60) DEF BlockBits, WaitOps
<1>5. BlockBits(i.op) \cap g.block # {}
  BY <1>1, <1>4
<1>6. GateOpen(g)
  BY <1>3, <1>5 DEF Passes, Matches
<1> QED BY <1>6, AwaitOpen

\* wait_gate_latch keeps what a SEMWAIT awaits.
LEMMA LatchAwaits ==
  ASSUME NEW i, NEW q, Awaits(i, q)
  PROVE  Awaits(Latch(i), q)
<1>1. i.op = "SEMWAIT" /\ q \in i.sems /\ 1 \in i.cond /\ 1 \in i.block
  BY DEF Awaits
<1>2. i.op # "STALLWAIT" /\ i.cond # {} /\ i.block # {}
  BY <1>1, SMTT(60)
<1>3. Latch(i) = [op |-> i.op, block |-> i.block, sems |-> i.sems, cond |-> i.cond]
  BY <1>2 DEF Latch
<1>4. /\ Latch(i).op = i.op /\ Latch(i).block = i.block /\ Latch(i).sems = i.sems
      /\ Latch(i).cond = i.cond
  BY <1>3, SMTT(60)
<1> QED BY <1>1, <1>4 DEF Awaits

\* The discipline and the invariant one step later: programs do not change.
LEMMA SemPrime ==
  ASSUME NEW owner, prog' = prog
  PROVE  /\ Disciplined(owner)' =>
              \A t \in Threads : \A n \in 1..Len(done'[t]) : \A q \in Sems :
                 Raises(Did(done'[t][n]), q) =>
                    /\ t = owner[q]
                    /\ Did(done'[t][n]).op = "SEMINIT"
                         => Did(done'[t][n]).init <= Did(done'[t][n]).max
                    /\ Did(done'[t][n]).op = "SEMPOST" => Armed(done'[t], n - 1, q)
         /\ (/\ sem_max' \in [Sems -> Nat]
             /\ \A q \in Sems : sem_max'[q] > 0 => sem'[q] <= sem_max'[q]
             /\ \A q \in Sems :
                   Armed(done'[owner[q]], Len(done'[owner[q]]), q)
                     => Awaits(th'[owner[q]].gate, q) \/ sem'[q] < sem_max'[q])
            => SemInv(owner)'
<1>1. ASSUME Disciplined(owner)', NEW t \in Threads, NEW n \in 1..Len(done'[t]), NEW q \in Sems,
             Raises(Did(done'[t][n]), q)
      PROVE  /\ t = owner[q]
             /\ Did(done'[t][n]).op = "SEMINIT"
                  => Did(done'[t][n]).init <= Did(done'[t][n]).max
             /\ Did(done'[t][n]).op = "SEMPOST" => Armed(done'[t], n - 1, q)
  <2>1. Did(done[t][n])' = Did(done'[t][n])
    BY DEF Did, At
  <2>2. Raises(Did(done[t][n]), q)' => Raises(Did(done'[t][n]), q)
    BY <2>1 DEF Raises
  <2>3. Raises(Did(done'[t][n]), q) => Raises(Did(done[t][n]), q)'
    BY <2>1 DEF Raises
  <2>4. /\ t = owner[q]
        /\ (Did(done[t][n]).op = "SEMINIT" => Did(done[t][n]).init <= Did(done[t][n]).max)'
        /\ (Did(done[t][n]).op = "SEMPOST" => Armed(done[t], n - 1, q))'
    BY <1>1, <2>3 DEF Disciplined
  <2>5. Armed(done[t], n - 1, q)' => Armed(done'[t], n - 1, q)
    BY DEF Armed, Did, At
  <2> QED BY <2>1, <2>4, <2>5
<1>2. ASSUME /\ sem_max' \in [Sems -> Nat]
             /\ \A q \in Sems : sem_max'[q] > 0 => sem'[q] <= sem_max'[q]
             /\ \A q \in Sems :
                   Armed(done'[owner[q]], Len(done'[owner[q]]), q)
                     => Awaits(th'[owner[q]].gate, q) \/ sem'[q] < sem_max'[q]
      PROVE  SemInv(owner)'
  <2>1. ASSUME NEW q \in Sems, Armed(done[owner[q]], Len(done[owner[q]]), q)'
        PROVE  Awaits(th'[owner[q]].gate, q) \/ sem'[q] < sem_max'[q]
    <3>1. Armed(done'[owner[q]], Len(done'[owner[q]]), q)
      BY <2>1 DEF Armed, Did, At
    <3> QED BY <1>2, <3>1
  <2> QED BY <1>2, <2>1 DEF SemInv, SemWithinMax, Awaits
<1> QED BY <1>1, <1>2

\* A gate that awaits q still does after a step, or q is below its maximum.
LEMMA GateKeeps ==
  ASSUME CopInv, NEW t \in Threads, GateMoved(t), NEW q, Awaits(th[t].gate, q)
  PROVE  Awaits(th'[t].gate, q) \/ sem[q] < sem_max[q]
<1>1. th[t].gate \in Gates
  BY DEF CopInv, Thread
<1>2. CASE th'[t].gate = th[t].gate
  BY <1>2
<1>3. CASE th'[t].gate # th[t].gate
  <2>1. GateOpen(th[t].gate)
    BY <1>1, <1>3, GateMove DEF GateMoved
  <2> QED BY <2>1, AwaitOpen
<1> QED BY <1>2, <1>3

\* A thread moves.
LEMMA SemMoves ==
  ASSUME CopInv, prog' = prog, NEW owner \in [Sems -> Threads], SemInv(owner),
         Disciplined(owner)', NEW t \in Threads, Effect(t), SyncMove(t)
  PROVE  SemInv(owner)'
<1>1. /\ OnlyMoves(t) /\ GateMoved(t) /\ sem' \in [Sems -> 0..SemCap]
  BY DEF Effect, UnitsOK
<1>2. /\ sem_max \in [Sems -> Nat] /\ \A q \in Sems : sem_max[q] > 0 => sem[q] <= sem_max[q]
      /\ \A q \in Sems : Armed(done[owner[q]], Len(done[owner[q]]), q)
                           => Awaits(th[owner[q]].gate, q) \/ sem[q] < sem_max[q]
  BY DEF SemInv, SemWithinMax
<1>3. /\ sem \in [Sems -> 0..SemCap] /\ SemCap \in Nat /\ done[t] \in Seq(Ids)
  BY SemCapAssumption DEF CopInv, CopTypeOK
<1>4. \A u \in Threads : u # t => th'[u] = th[u] /\ done'[u] = done[u]
  BY <1>1 DEF OnlyMoves
<1>5. ASSUME NEW q \in Sems, Armed(done[owner[q]], Len(done[owner[q]]), q)
      PROVE  Awaits(th'[owner[q]].gate, q) \/ sem[q] < sem_max[q]
  <2>1. owner[q] \in Threads
    OBVIOUS
  <2>2. CASE owner[q] # t
    BY <1>2, <1>4, <1>5, <2>1, <2>2
  <2>3. CASE owner[q] = t
    BY <1>1, <1>2, <1>5, <2>3, GateKeeps
  <2> QED BY <2>2, <2>3
<1>6. CASE done' = done /\ sem' = sem /\ sem_max' = sem_max
  <2>1. \A q \in Sems : sem_max'[q] > 0 => sem'[q] <= sem_max'[q]
    BY <1>2, <1>6
  <2>2. \A q \in Sems : Armed(done'[owner[q]], Len(done'[owner[q]]), q)
                           => Awaits(th'[owner[q]].gate, q) \/ sem'[q] < sem_max'[q]
    BY <1>5, <1>6
  <2>3. sem_max' \in [Sems -> Nat]
    BY <1>2, <1>6
  <2> QED BY <2>1, <2>2, <2>3, SemPrime
<1>7. ASSUME NEW x \in Ids, NEW i \in Words, done'[t] = Append(done[t], x), Stands(x, i),
             \/ /\ Execute(t, i) /\ Passes(th[t].gate, i)
                /\ i.op \in WaitOps => th'[t].gate = Latch(i)
             \/ Quiet(i) /\ (Execute(t, i) \/ UNCHANGED syncVars)
      PROVE  SemInv(owner)'
  <2> DEFINE d == done[t]
             e == Append(d, x)
             n == Len(e)
  <2>1. /\ sem_max' \in [Sems -> Nat]
        /\ \A q \in Sems :
              /\ ~Raises(i, q) => sem'[q] <= sem[q] /\ sem_max'[q] = sem_max[q]
              /\ Raises(i, q) /\ i.op = "SEMINIT" => sem'[q] = i.init /\ sem_max'[q] = i.max
              /\ Raises(i, q) /\ i.op = "SEMPOST"
                   => sem'[q] <= sem[q] + 1 /\ sem_max'[q] = sem_max[q]
    BY <1>2, <1>7, SemsMove
  <2>2. n \in 1..n /\ e[n] = x /\ n - 1 = Len(d) /\ done'[t] = e
    BY <1>3, <1>7, ArmedAppend
  <2>3. \A q : /\ Armed(e, Len(d), q) => Armed(d, Len(d), q)
               /\ Armed(e, n, q)
                    => Awaits(Did(x), q) \/ (Armed(d, Len(d), q) /\ ~Raises(Did(x), q))
    BY <1>3, ArmedAppend
  <2> HIDE DEF d, e, n
  <2>4. ASSUME NEW q \in Sems, Raises(i, q)
        PROVE  sem'[q] <= sem_max'[q] /\ t = owner[q] /\ ~Armed(e, n, q)
    <3>1. Did(x) = i /\ ~Quiet(i)
      BY <1>7, <2>4, Remembered
    <3>2. Raises(Did(done'[t][n]), q) /\ n \in 1..Len(done'[t]) /\ Did(done'[t][n]) = i
      BY <2>2, <2>4, <3>1 DEF n
    <3>3. /\ t = owner[q] /\ (i.op = "SEMINIT" => i.init <= i.max)
          /\ (i.op = "SEMPOST" => Armed(done'[t], n - 1, q))
      <4>1. /\ t = owner[q]
            /\ Did(done'[t][n]).op = "SEMINIT"
                  => Did(done'[t][n]).init <= Did(done'[t][n]).max
            /\ Did(done'[t][n]).op = "SEMPOST" => Armed(done'[t], n - 1, q)
        BY <3>2, SemPrime
      <4> QED BY <3>2, <4>1
    <3>4. ~Armed(e, n, q)
      <4>1. ~Awaits(i, q)
        BY <2>4, SMTT(60) DEF Raises, Awaits
      <4> QED BY <2>3, <2>4, <3>1, <4>1
    <3>5. i.op \in {"SEMINIT", "SEMPOST"}
      BY <2>4 DEF Raises
    <3>6. CASE i.op = "SEMINIT"
      BY <2>1, <2>4, <3>3, <3>4, <3>6
    <3>7. CASE i.op = "SEMPOST"
      <4>1. Armed(d, Len(d), q)
        BY <2>2, <2>3, <3>3, <3>7
      <4>2. Awaits(th[t].gate, q) \/ sem[q] < sem_max[q]
        BY <1>2, <3>3, <4>1 DEF d
      <4>3. sem[q] < sem_max[q]
        BY <1>7, <3>1, <3>7, <4>2, PostPasses
      <4>4. sem'[q] <= sem[q] + 1 /\ sem_max'[q] = sem_max[q]
        BY <2>1, <2>4, <3>7
      <4>5. sem[q] \in 0..SemCap /\ sem'[q] \in 0..SemCap /\ sem_max[q] \in Nat
        BY <1>1, <1>2, <1>3
      <4>6. sem'[q] <= sem_max'[q]
        BY <1>3, <4>3, <4>4, <4>5, SMTT(60)
      <4> QED BY <3>3, <3>4, <4>6
    <3> QED BY <3>5, <3>6, <3>7
  <2>5. ASSUME NEW q \in Sems, sem_max'[q] > 0 PROVE sem'[q] <= sem_max'[q]
    <3>1. CASE Raises(i, q)
      BY <2>4, <3>1
    <3>2. CASE ~Raises(i, q)
      <4>1. sem'[q] <= sem[q] /\ sem_max'[q] = sem_max[q]
        BY <2>1, <3>2
      <4>2. sem[q] <= sem_max[q]
        BY <1>2, <2>5, <4>1
      <4>3. sem[q] \in 0..SemCap /\ sem'[q] \in 0..SemCap /\ sem_max[q] \in Nat
        BY <1>1, <1>2, <1>3
      <4> QED BY <1>3, <4>1, <4>2, <4>3, SMTT(60)
    <3> QED BY <3>1, <3>2
  <2>6. ASSUME NEW q \in Sems, Armed(done'[owner[q]], Len(done'[owner[q]]), q)
        PROVE  Awaits(th'[owner[q]].gate, q) \/ sem'[q] < sem_max'[q]
    <3>1. ~Raises(i, q)
      BY <2>2, <2>4, <2>6 DEF n
    <3>2. CASE owner[q] = t /\ Awaits(Did(x), q)
      <4>1. Did(x) = i /\ ~Quiet(i) /\ i.op \in WaitOps
        BY <1>7, <3>2, Remembered
      <4>2. th'[t].gate = Latch(i)
        BY <1>7, <4>1
      <4>3. Awaits(Latch(i), q)
        BY <3>2, <4>1, LatchAwaits
      <4> QED BY <3>2, <4>2, <4>3
    <3>3. CASE Armed(done[owner[q]], Len(done[owner[q]]), q)
      <4>1. Awaits(th'[owner[q]].gate, q) \/ sem[q] < sem_max[q]
        BY <1>5, <3>3
      <4>2. sem'[q] <= sem[q] /\ sem_max'[q] = sem_max[q]
        BY <2>1, <3>1
      <4>3. sem[q] \in 0..SemCap /\ sem'[q] \in 0..SemCap /\ sem_max[q] \in Nat
        BY <1>1, <1>2, <1>3
      <4>4. sem[q] < sem_max[q] => sem'[q] < sem_max'[q]
        BY <1>3, <4>2, <4>3, SMTT(60)
      <4> QED BY <4>1, <4>4
    <3>4. CASE owner[q] # t
      <4>1. owner[q] \in Threads
        OBVIOUS
      <4> QED BY <1>4, <2>6, <3>3, <3>4, <4>1
    <3>5. CASE owner[q] = t /\ ~Awaits(Did(x), q)
      <4>1. Armed(e, n, q)
        BY <2>2, <2>6, <3>5 DEF n
      <4>2. Armed(d, Len(d), q)
        BY <2>3, <3>5, <4>1
      <4> QED BY <3>3, <3>5, <4>2 DEF d
    <3> QED BY <3>2, <3>4, <3>5
  <2> QED BY <2>1, <2>5, <2>6, SemPrime
<1> QED BY <1>6, <1>7 DEF SyncMove

\* Every step keeps names and semaphores in order.
LEMMA SemStep ==
  ASSUME CopInv, NamesInv, NEW owner \in [Sems -> Threads], OnlyGets, SemInv(owner),
         Disciplined(owner), Disciplined(owner)', [CopNext]_copVars
  PROVE  NamesInv' /\ SemInv(owner)'
<1>1. prog' = prog
  BY DEF CopNext, copVars, hostVars
<1>2. /\ sem_max \in [Sems -> Nat] /\ \A q \in Sems : sem_max[q] > 0 => sem[q] <= sem_max[q]
      /\ \A q \in Sems : Armed(done[owner[q]], Len(done[owner[q]]), q)
                           => Awaits(th[owner[q]].gate, q) \/ sem[q] < sem_max[q]
      /\ sem \in [Sems -> 0..SemCap] /\ SemCap \in Nat
  BY SemCapAssumption DEF SemInv, SemWithinMax, CopInv, CopTypeOK
<1>3. ASSUME \A u \in Threads : NamesOK(th'[u]) PROVE NamesInv'
  BY <1>1, <1>3, NamesPrime DEF NamesInv
<1>4. ASSUME Calm, done' = done, \A u \in Threads : th'[u].gate = th[u].gate,
             sem' \in [Sems -> 0..SemCap]
      PROVE  SemInv(owner)'
  <2>1. sem_max' = sem_max /\ \A q \in Sems : sem'[q] <= sem[q]
    BY <1>4 DEF Calm
  <2>2. ASSUME NEW q \in Sems
        PROVE  /\ sem_max[q] > 0 => sem'[q] <= sem_max[q]
               /\ sem[q] < sem_max[q] => sem'[q] < sem_max[q]
    <3>1. /\ sem[q] \in 0..SemCap /\ sem'[q] \in 0..SemCap /\ sem_max[q] \in Nat
          /\ sem'[q] <= sem[q] /\ (sem_max[q] > 0 => sem[q] <= sem_max[q])
      BY <1>2, <1>4, <2>1
    <3> QED BY <1>2, <3>1, SMTT(60)
  <2>3. ASSUME NEW q \in Sems, Armed(done'[owner[q]], Len(done'[owner[q]]), q)
        PROVE  Awaits(th'[owner[q]].gate, q) \/ sem'[q] < sem_max'[q]
    <3>1. owner[q] \in Threads
      OBVIOUS
    <3>2. Awaits(th[owner[q]].gate, q) \/ sem[q] < sem_max[q]
      BY <1>2, <1>4, <2>3
    <3>3. th'[owner[q]].gate = th[owner[q]].gate
      BY <1>4, <3>1
    <3> QED BY <2>1, <2>2, <3>2, <3>3
  <2>4. /\ sem_max' \in [Sems -> Nat]
        /\ \A q \in Sems : sem_max'[q] > 0 => sem'[q] <= sem_max'[q]
    BY <1>2, <2>1, <2>2
  <2> QED BY <1>1, <2>3, <2>4, SemPrime
<1>5. CASE CopNext
  <2>1. sem' \in [Sems -> 0..SemCap]
    BY <1>5, CopInvStep DEF CopInv, CopTypeOK
  <2>2. ASSUME NEW t \in Threads, Effect(t), SyncMove(t)
        PROVE  NamesInv' /\ SemInv(owner)'
    <3>1. SemInv(owner)'
      BY <1>1, <2>2, SemMoves
    <3>2. \A u \in Threads : u # t => th'[u] = th[u]
      BY <2>2 DEF Effect, OnlyMoves
    <3>3. \A u \in Threads : NamesOK(th'[u])
      BY <2>2, <3>2 DEF SyncMove, NamesInv
    <3> QED BY <1>3, <3>1, <3>3
  <2>3. ASSUME NEW h \in Hosts, PushIn(h), Calm, \A u \in Threads : NamesOK(th'[u])
        PROVE  NamesInv' /\ SemInv(owner)'
    <3>1. done' = done /\ \A u \in Threads : th'[u].gate = th[u].gate
      BY <2>3 DEF PushIn
    <3> QED BY <1>3, <1>4, <2>1, <2>3, <3>1
  <2>4. CASE th' = th /\ done' = done /\ Calm
    BY <1>3, <1>4, <2>1, <2>4 DEF NamesInv
  <2> QED BY <1>5, <2>2, <2>3, <2>4, SyncCases
<1>6. CASE UNCHANGED copVars
  <2>1. th' = th /\ done' = done /\ sem' = sem /\ sem_max' = sem_max
    BY <1>6 DEF copVars, hostVars, syncVars
  <2>2. \A q \in Sems : sem[q] <= sem[q]
    BY <1>2, SMTT(60)
  <2>3. Calm
    BY <2>1, <2>2 DEF Calm
  <2> QED BY <1>2, <1>3, <1>4, <2>1, <2>3 DEF NamesInv
<1> QED BY <1>5, <1>6

\* The state tensix_cop_init leaves.
LEMMA SemInit ==
  ASSUME CopInit, NEW owner \in [Sems -> Threads]
  PROVE  NamesInv /\ SemInv(owner)
<1>1. /\ sem = [q \in Sems |-> 0]
      /\ sem_max = [q \in Sems |-> IF q \in {2, 4, 7} THEN 1 ELSE 0]
      /\ done = [t \in Threads |-> <<>>] /\ th = [t \in Threads |-> FreshThread]
  BY DEF CopInit, SyncInit
<1>2. ~\E n \in 1..Len(<<>>) : TRUE
  BY SMTT(60)
<1>3. /\ FreshThread.fifo = <<>> /\ FreshThread.cur = <<>> /\ FreshThread.mop.rest = <<>>
      /\ FreshThread.buf = [s \in Slots |-> NOP]
  BY DEF FreshThread, Slots
<1>4. Quiet(NOP)
  <2>1. NOP.op = "NOP"
    BY DEF NOP
  <2> QED BY <2>1, SMTT(60) DEF Quiet, MOP, WaitOps
<1>5. NamesOK(FreshThread)
  BY <1>2, <1>3, <1>4 DEF NamesOK
<1>6. NamesInv
  BY <1>1, <1>5 DEF NamesInv
<1>7. /\ sem_max \in [Sems -> Nat]
      /\ \A q \in Sems : sem_max[q] > 0 => sem[q] <= sem_max[q]
  BY <1>1, SMTT(60)
<1>8. \A q \in Sems : ~Armed(done[owner[q]], Len(done[owner[q]]), q)
  <2>1. \A q \in Sems : done[owner[q]] = <<>>
    BY <1>1
  <2> QED BY <1>2, <2>1 DEF Armed
<1> QED BY <1>6, <1>7, <1>8 DEF SemInv, SemWithinMax

\* ttsempost and ttseminit: under the kernels' discipline, in every state and whatever
\* the interleaving, no semaphore exceeds the maximum it was given.
THEOREM CopSemaphores ==
  ASSUME NEW owner \in [Sems -> Threads], OnlyGets
  PROVE  CopSpec /\ []Disciplined(owner) => []SemWithinMax
<1>1. CopInit => NamesInv /\ SemInv(owner)
  BY SemInit
<1>2. /\ CopInv /\ NamesInv /\ SemInv(owner) /\ Disciplined(owner) /\ Disciplined(owner)'
      /\ [CopNext]_copVars
      => NamesInv' /\ SemInv(owner)'
  BY SemStep
<1>3. SemInv(owner) => SemWithinMax
  BY DEF SemInv
<1>4. CopSpec => []CopInv
  BY CopInvariant
<1> QED BY <1>1, <1>2, <1>3, <1>4, PTL DEF CopSpec
=============================================================================
