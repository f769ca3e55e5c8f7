-------------------------- MODULE TensixOrderProofs --------------------------
(***************************************************************************)
(* The order in which a thread of the coprocessor executes what was pushed *)
(* into its FIFO, for any programs; and how the expansion of an            *)
(* instruction that its core issues directly goes on (TensixOnceProofs has *)
(* the theorem about those).                                               *)
(***************************************************************************)
EXTENDS TensixCopProofs

USE ZenonT(60)

(* The order of what is pushed. *)

\* Where a core issues MOPs directly, nothing is pushed to its thread.  (ttmop forgets the
\* instruction that waits: with both, a pushed instruction can be lost.)
MopsAlone ==
    \A p \in Programs, t \in Threads :
        (\E k \in 1..Len(p[t]) : p[t][k].via = "direct" /\ p[t][k].ins.op = MOP)
          => \A h \in Hosts : \A k \in 1..Len(p[h]) : ~(p[h][k].via = "push" /\ p[h][k].to = t)

AllPushed(p) == \A n \in 1..Len(p) : IsPushed(p[n])

\* An instruction that was not pushed comes into the passage at place k.
LEMMA OrderInserted ==
  ASSUME NEW w \in Seq(Ids), NEW v \in Seq(Ids), NEW p \in Seq(Ids), NEW k \in 1..(Len(w) + 1),
         Len(v) = Len(w) + 1, ~IsPushed(v[k]),
         \A m \in 1..Len(v) : m < k => v[m] = w[m],
         \A m \in 1..Len(v) : k < m => v[m] = w[m - 1],
         InOrder(w, p)
  PROVE  InOrder(v, p)
<1>1. Len(w) \in Nat /\ Len(p) \in Nat
  BY SMTT(60)
<1>2. /\ \A n \in 1..Len(p) : \E m \in 1..Len(w) : w[m] = p[n]
      /\ \A m \in 1..Len(w) : IsPushed(w[m]) => \E n \in 1..Len(p) : w[m] = p[n]
      /\ \A m, n \in 1..Len(w) :
            m < n /\ IsPushed(w[m]) /\ IsPushed(w[n])
              => \E i, j \in 1..Len(p) : i < j /\ w[m] = p[i] /\ w[n] = p[j]
  BY DEF InOrder
\* Where an element of v comes from, and where one of w goes.
<1>3. ASSUME NEW m \in 1..Len(v), IsPushed(v[m])
      PROVE  (m < k /\ m \in 1..Len(w) /\ v[m] = w[m])
             \/ (k < m /\ m - 1 \in 1..Len(w) /\ v[m] = w[m - 1])
  <2>1. m # k
    BY <1>3
  <2>2. (m < k /\ m \in 1..Len(w)) \/ (k < m /\ m - 1 \in 1..Len(w))
    BY <1>1, <2>1, SMTT(60)
  <2> QED BY <2>2
<1>4. \A n \in 1..Len(p) : \E m \in 1..Len(v) : v[m] = p[n]
  <2> SUFFICES ASSUME NEW n \in 1..Len(p) PROVE \E m \in 1..Len(v) : v[m] = p[n]
    OBVIOUS
  <2>1. PICK m \in 1..Len(w) : w[m] = p[n]
    BY <1>2
  <2>2. CASE m < k
    <3>1. m \in 1..Len(v)
      BY <1>1, SMTT(60)
    <3> QED BY <2>1, <2>2, <3>1
  <2>3. CASE ~(m < k)
    <3>1. m + 1 \in 1..Len(v) /\ k < m + 1 /\ (m + 1) - 1 = m
      BY <1>1, <2>3, SMTT(60)
    <3> QED BY <2>1, <3>1
  <2> QED BY <2>2, <2>3
<1>5. \A m \in 1..Len(v) : IsPushed(v[m]) => \E n \in 1..Len(p) : v[m] = p[n]
  <2> SUFFICES ASSUME NEW m \in 1..Len(v), IsPushed(v[m]) PROVE \E n \in 1..Len(p) : v[m] = p[n]
    OBVIOUS
  <2>1. PICK a \in 1..Len(w) : v[m] = w[a]
    BY <1>3
  <2>2. IsPushed(w[a])
    BY <2>1
  <2>3. PICK n \in 1..Len(p) : w[a] = p[n]
    BY <1>2, <2>2
  <2> QED BY <2>1, <2>3
<1>6. \A m, n \in 1..Len(v) :
            m < n /\ IsPushed(v[m]) /\ IsPushed(v[n])
              => \E i, j \in 1..Len(p) : i < j /\ v[m] = p[i] /\ v[n] = p[j]
  <2> SUFFICES ASSUME NEW m \in 1..Len(v), NEW n \in 1..Len(v), m < n, IsPushed(v[m]),
                      IsPushed(v[n])
               PROVE  \E i, j \in 1..Len(p) : i < j /\ v[m] = p[i] /\ v[n] = p[j]
    BY SMTT(60)
  <2>1. PICK a \in 1..Len(w) : v[m] = w[a] /\ ((m < k /\ a = m) \/ (k < m /\ a = m - 1))
    BY <1>3
  <2>2. PICK b \in 1..Len(w) : v[n] = w[b] /\ ((n < k /\ b = n) \/ (k < n /\ b = n - 1))
    BY <1>3
  <2>3. a < b
    BY <2>1, <2>2, SMTT(60)
  <2>4. IsPushed(w[a]) /\ IsPushed(w[b])
    BY <2>1, <2>2
  <2>5. PICK i \in 1..Len(p), j \in 1..Len(p) : i < j /\ w[a] = p[i] /\ w[b] = p[j]
    BY <1>2, <2>3, <2>4
  <2> QED BY <2>1, <2>2, <2>5
<1> QED BY <1>4, <1>5, <1>6 DEF InOrder

\* It takes the place of another that was not pushed.
LEMMA OrderReplaced ==
  ASSUME NEW w \in Seq(Ids), NEW v \in Seq(Ids), NEW p \in Seq(Ids), NEW k,
         Len(v) = Len(w), ~IsPushed(v[k]), ~IsPushed(w[k]), AllPushed(p),
         \A m \in 1..Len(w) : m # k => v[m] = w[m],
         InOrder(w, p)
  PROVE  InOrder(v, p)
<1>2. /\ \A n \in 1..Len(p) : \E m \in 1..Len(w) : w[m] = p[n]
      /\ \A m \in 1..Len(w) : IsPushed(w[m]) => \E n \in 1..Len(p) : w[m] = p[n]
      /\ \A m, n \in 1..Len(w) :
            m < n /\ IsPushed(w[m]) /\ IsPushed(w[n])
              => \E i, j \in 1..Len(p) : i < j /\ w[m] = p[i] /\ w[n] = p[j]
  BY DEF InOrder
<1>3. \A m \in 1..Len(v) : m \in 1..Len(w) /\ (IsPushed(v[m]) => v[m] = w[m])
  OBVIOUS
<1>4. \A n \in 1..Len(p) : \E m \in 1..Len(v) : v[m] = p[n]
  <2> SUFFICES ASSUME NEW n \in 1..Len(p) PROVE \E m \in 1..Len(v) : v[m] = p[n]
    OBVIOUS
  <2>1. PICK m \in 1..Len(w) : w[m] = p[n]
    BY <1>2
  <2>2. IsPushed(w[m])
    BY <2>1 DEF AllPushed
  <2>3. m # k
    BY <2>2
  <2>4. v[m] = w[m] /\ m \in 1..Len(v)
    BY <2>3
  <2> QED BY <2>1, <2>4
<1>5. \A m \in 1..Len(v) : IsPushed(v[m]) => \E n \in 1..Len(p) : v[m] = p[n]
  <2> SUFFICES ASSUME NEW m \in 1..Len(v), IsPushed(v[m]) PROVE \E n \in 1..Len(p) : v[m] = p[n]
    OBVIOUS
  <2>1. m \in 1..Len(w) /\ v[m] = w[m]
    BY <1>3
  <2>2. IsPushed(w[m])
    BY <2>1
  <2>3. PICK n \in 1..Len(p) : w[m] = p[n]
    BY <1>2, <2>1, <2>2
  <2> QED BY <2>1, <2>3
<1>6. \A m, n \in 1..Len(v) :
            m < n /\ IsPushed(v[m]) /\ IsPushed(v[n])
              => \E i, j \in 1..Len(p) : i < j /\ v[m] = p[i] /\ v[n] = p[j]
  <2> SUFFICES ASSUME NEW m \in 1..Len(v), NEW n \in 1..Len(v), m < n, IsPushed(v[m]),
                      IsPushed(v[n])
               PROVE  \E i, j \in 1..Len(p) : i < j /\ v[m] = p[i] /\ v[n] = p[j]
    OBVIOUS
  <2>1. v[m] = w[m] /\ v[n] = w[n] /\ m \in 1..Len(w) /\ n \in 1..Len(w)
    BY <1>3
  <2>2. IsPushed(w[m]) /\ IsPushed(w[n])
    BY <2>1
  <2>3. PICK i \in 1..Len(p), j \in 1..Len(p) : i < j /\ w[m] = p[i] /\ w[n] = p[j]
    BY <1>2, <2>1, <2>2
  <2> QED BY <2>1, <2>3
<1> QED BY <1>4, <1>5, <1>6 DEF InOrder

\* An instruction is pushed: it is the last on either side.
LEMMA OrderPushed ==
  ASSUME NEW w \in Seq(Ids), NEW p \in Seq(Ids), NEW x \in Ids, InOrder(w, p)
  PROVE  InOrder(Append(w, x), Append(p, x))
<1> DEFINE v == Append(w, x)
           q == Append(p, x)
<1>1. /\ Len(w) \in Nat /\ Len(p) \in Nat /\ Len(v) = Len(w) + 1 /\ Len(q) = Len(p) + 1
      /\ v[Len(v)] = x /\ q[Len(q)] = x
      /\ \A m \in 1..Len(w) : v[m] = w[m]
      /\ \A n \in 1..Len(p) : q[n] = p[n]
  BY SMTT(60)
<1>2. /\ \A n \in 1..Len(p) : \E m \in 1..Len(w) : w[m] = p[n]
      /\ \A m \in 1..Len(w) : IsPushed(w[m]) => \E n \in 1..Len(p) : w[m] = p[n]
      /\ \A m, n \in 1..Len(w) :
            m < n /\ IsPushed(w[m]) /\ IsPushed(w[n])
              => \E i, j \in 1..Len(p) : i < j /\ w[m] = p[i] /\ w[n] = p[j]
  BY DEF InOrder
<1> HIDE DEF v, q
<1>3. /\ \A m \in 1..Len(v) : m \in 1..Len(w) \/ m = Len(v)
      /\ \A n \in 1..Len(q) : n \in 1..Len(p) \/ n = Len(q)
      /\ \A m \in 1..Len(w) : m \in 1..Len(v) /\ m < Len(v)
      /\ \A n \in 1..Len(p) : n \in 1..Len(q) /\ n < Len(q)
      /\ Len(v) \in 1..Len(v) /\ Len(q) \in 1..Len(q)
      /\ \A n \in 1..Len(v) : ~(Len(v) < n)
  BY <1>1, SMTT(60)
<1>4. \A n \in 1..Len(q) : \E m \in 1..Len(v) : v[m] = q[n]
  <2> SUFFICES ASSUME NEW n \in 1..Len(q) PROVE \E m \in 1..Len(v) : v[m] = q[n]
    OBVIOUS
  <2>1. CASE n = Len(q)
    BY <1>1, <1>3, <2>1
  <2>2. CASE n \in 1..Len(p)
    <3>1. PICK m \in 1..Len(w) : w[m] = p[n]
      BY <1>2, <2>2
    <3> QED BY <1>1, <1>3, <2>2, <3>1
  <2> QED BY <1>3, <2>1, <2>2
<1>5. \A m \in 1..Len(v) : IsPushed(v[m]) => \E n \in 1..Len(q) : v[m] = q[n]
  <2> SUFFICES ASSUME NEW m \in 1..Len(v), IsPushed(v[m]) PROVE \E n \in 1..Len(q) : v[m] = q[n]
    OBVIOUS
  <2>1. CASE m = Len(v)
    BY <1>1, <1>3, <2>1
  <2>2. CASE m \in 1..Len(w)
    <3>1. PICK n \in 1..Len(p) : w[m] = p[n]
      BY <1>1, <1>2, <2>2
    <3> QED BY <1>1, <1>3, <2>2, <3>1
  <2> QED BY <1>3, <2>1, <2>2
<1>6. \A m, n \in 1..Len(v) :
            m < n /\ IsPushed(v[m]) /\ IsPushed(v[n])
              => \E i, j \in 1..Len(q) : i < j /\ v[m] = q[i] /\ v[n] = q[j]
  <2> SUFFICES ASSUME NEW m \in 1..Len(v), NEW n \in 1..Len(v), m < n, IsPushed(v[m]),
                      IsPushed(v[n])
               PROVE  \E i, j \in 1..Len(q) : i < j /\ v[m] = q[i] /\ v[n] = q[j]
    OBVIOUS
  <2>1. m \in 1..Len(w) /\ v[m] = w[m] /\ IsPushed(w[m])
    BY <1>1, <1>3
  <2>2. CASE n = Len(v)
    <3>1. PICK i \in 1..Len(p) : w[m] = p[i]
      BY <1>2, <2>1
    <3> QED BY <1>1, <1>3, <2>1, <2>2, <3>1
  <2>3. CASE n \in 1..Len(w)
    <3>1. v[n] = w[n] /\ IsPushed(w[n])
      BY <1>1, <2>3
    <3>2. PICK i \in 1..Len(p), j \in 1..Len(p) : i < j /\ w[m] = p[i] /\ w[n] = p[j]
      BY <1>2, <2>1, <2>3, <3>1
    <3> QED BY <1>1, <1>3, <2>1, <3>1, <3>2
  <2> QED BY <1>3, <2>2, <2>3
<1>7. InOrder(v, q)
  BY <1>4, <1>5, <1>6 DEF InOrder
<1> QED BY <1>7 DEF v, q

\* An instruction comes in between d and s.
LEMMA BetweenInserted ==
  ASSUME NEW d \in Seq(Ids), NEW s \in Seq(Ids), NEW p \in Seq(Ids), NEW x \in Ids, ~IsPushed(x),
         InOrder(d \o s, p)
  PROVE  InOrder(Append(d, x) \o s, p)
<1> DEFINE w == d \o s
           v == Append(d, x) \o s
           k == Len(d) + 1
<1>1. /\ w \in Seq(Ids) /\ v \in Seq(Ids) /\ k \in 1..(Len(w) + 1) /\ Len(v) = Len(w) + 1
      /\ v[k] = x
  BY SMTT(60)
<1>2. \A m \in 1..Len(v) : m < k => v[m] = w[m]
  BY SMTT(60)
<1>3. \A m \in 1..Len(v) : k < m => v[m] = w[m - 1]
  BY SMTT(60)
<1>4. InOrder(w, p)
  OBVIOUS
<1>5. ~IsPushed(v[k])
  <2> HIDE DEF v, k
  <2> QED BY <1>1
<1> HIDE DEF w, v, k
<1>6. InOrder(v, p)
  BY <1>1, <1>2, <1>3, <1>4, <1>5, OrderInserted
<1> QED BY <1>6 DEF v

\* It takes c's place between d and s.
LEMMA BetweenReplaced ==
  ASSUME NEW d \in Seq(Ids), NEW s \in Seq(Ids), NEW p \in Seq(Ids), NEW x \in Ids, NEW c \in Ids,
         ~IsPushed(x), ~IsPushed(c), AllPushed(p), InOrder(Append(d, c) \o s, p)
  PROVE  InOrder(Append(d, x) \o s, p)
<1> DEFINE w == Append(d, c) \o s
           v == Append(d, x) \o s
           k == Len(d) + 1
<1>1. /\ w \in Seq(Ids) /\ v \in Seq(Ids) /\ Len(v) = Len(w) /\ v[k] = x /\ w[k] = c
  BY SMTT(60)
<1>2. \A m \in 1..Len(w) : m # k => v[m] = w[m]
  BY SMTT(60)
<1>4. InOrder(w, p)
  OBVIOUS
<1>5. ~IsPushed(v[k]) /\ ~IsPushed(w[k])
  <2> HIDE DEF v, w, k
  <2> QED BY <1>1
<1> HIDE DEF w, v, k
<1>6. InOrder(v, p)
  BY <1>1, <1>2, <1>4, <1>5, OrderReplaced
<1> QED BY <1>6 DEF v

\* The ids of a thread's waiting instruction and of its FIFO.
LEMMA WayParts ==
  ASSUME NEW T \in Thread, NEW d \in Seq(Ids)
  PROVE  /\ IdsOf(T.cur) \in Seq(Ids) /\ IdsOf(T.fifo) \in Seq(Ids)
         /\ Way(T, d) \in Seq(Ids)
         /\ Way(T, d) = d \o (IdsOf(T.cur) \o IdsOf(T.fifo))
<1>1. IdsOf(T.cur) \in Seq(Ids) /\ IdsOf(T.fifo) \in Seq(Ids)
  BY IdsType DEF Thread
<1> DEFINE c == IdsOf(T.cur)
           f == IdsOf(T.fifo)
<1>2. Way(T, d) = d \o c \o f
  BY DEF Way
<1>3. c \in Seq(Ids) /\ f \in Seq(Ids)
  BY <1>1
<1> HIDE DEF c, f
<1>4. d \o c \o f = d \o (c \o f) /\ d \o c \o f \in Seq(Ids)
  BY <1>3, SMTT(60)
<1> QED BY <1>1, <1>2, <1>4 DEF c, f

\* Between two sequences of ids there is room for one more element.
LEMMA Between ==
  ASSUME NEW d \in Seq(Ids), NEW f \in Seq(Ids), NEW x \in Ids
  PROVE  d \o <<>> \o f = d \o f /\ d \o <<x>> \o f = Append(d, x) \o f
<1>1. d \o <<>> = d /\ d \o <<x>> = Append(d, x)
  BY SMTT(60)
<1> QED BY <1>1

\* An expander's instruction comes in.
LEMMA RefilledOrder ==
  ASSUME CopInv, NEW t \in Threads, Refilled(t), OnlyMoves(t),
         InOrder(Way(th[t], done[t]), pushed[t])
  PROVE  InOrder(Way(th'[t], done'[t]), pushed[t])
<1> DEFINE d == done[t]
           f == IdsOf(th[t].fifo)
<1>1. /\ th[t] \in Thread /\ th'[t] \in Thread /\ d \in Seq(Ids) /\ pushed[t] \in Seq(Ids)
  BY DEF CopInv, OnlyMoves
<1>2. PICK tok \in Tokens : FromExpander(tok.id) /\ th'[t].cur = <<tok>>
  BY DEF Refilled
<1>3. done'[t] = d /\ th[t].cur = <<>> /\ th'[t].fifo = th[t].fifo
  BY DEF Refilled
<1>4. tok.id \in Ids /\ ~IsPushed(tok.id)
  BY <1>2 DEF Tokens, IsPushed, FromExpander
<1>5. f \in Seq(Ids)
  BY <1>1, WayParts
<1>6. IdsOf(<<>>) = <<>> /\ IdsOf(<<tok>>) = <<tok.id>>
  BY IdsOfOne
<1>7. Way(th[t], d) = d \o <<>> \o f
  BY <1>3, <1>6 DEF Way
<1>8. Way(th'[t], done'[t]) = d \o <<tok.id>> \o f
  BY <1>2, <1>3, <1>6 DEF Way
<1>9. InOrder(Way(th[t], d), pushed[t])
  OBVIOUS
<1> HIDE DEF d, f
<1>10. d \o <<>> \o f = d \o f /\ d \o <<tok.id>> \o f = Append(d, tok.id) \o f
  BY <1>1, <1>4, <1>5, Between
<1>11. InOrder(d \o f, pushed[t])
  BY <1>7, <1>9, <1>10
<1>12. InOrder(Append(d, tok.id) \o f, pushed[t])
  BY <1>1, <1>4, <1>5, <1>11, BetweenInserted
<1> QED BY <1>8, <1>10, <1>12

\* A direct instruction is executed past what waits, or drops it when it is a MOP; then
\* what waited was not pushed.
LEMMA DirectOrder ==
  ASSUME CopInv, MopsAlone, NEW t \in Threads, DirectRan(t), OnlyMoves(t),
         InOrder(Way(th[t], done[t]), pushed[t])
  PROVE  InOrder(Way(th'[t], done'[t]), pushed[t])
<1> DEFINE d == done[t]
           x == Direct(t).id
           c == IdsOf(th[t].cur)
           f == IdsOf(th[t].fifo)
<1>1. /\ th[t] \in Thread /\ th'[t] \in Thread /\ d \in Seq(Ids) /\ pushed[t] \in Seq(Ids)
      /\ KindsOK(t, th[t]) /\ prog \in Programs /\ t \in Hosts
  BY ThreadsAssumption DEF CopInv, OnlyMoves
<1>2. /\ HasOp(t, "direct") /\ done'[t] = Append(d, x) /\ th'[t].fifo = th[t].fifo
  BY DEF DirectRan
<1>3. x \in Ids /\ ~IsPushed(x)
  BY <1>1, <1>2, DirectOp
<1>4. c \in Seq(Ids) /\ f \in Seq(Ids)
  BY <1>1, WayParts
<1>5. InOrder(Way(th[t], d), pushed[t])
  OBVIOUS
<1>6. CASE th'[t].cur = th[t].cur
  <2>1. Way(th'[t], done'[t]) = Append(d, x) \o c \o f
    BY <1>2, <1>6 DEF Way
  <2>2. Way(th[t], d) = d \o (c \o f)
    BY <1>1, WayParts
  <2> HIDE DEF d, x, c, f
  <2>3. c \o f \in Seq(Ids) /\ Append(d, x) \o c \o f = Append(d, x) \o (c \o f)
    BY <1>1, <1>3, <1>4, SMTT(60)
  <2>4. InOrder(d \o (c \o f), pushed[t])
    BY <1>5, <2>2
  <2>5. InOrder(Append(d, x) \o (c \o f), pushed[t])
    BY <1>1, <1>3, <2>3, <2>4, BetweenInserted
  <2> QED BY <2>1, <2>3, <2>5
<1>7. CASE Op(t).ins.op = MOP /\ th'[t].cur = <<>> /\ th[t].cur # <<>>
  <2>1. th[t].cur \in Seq(Tokens) /\ Len(th[t].cur) <= 1
    BY <1>1 DEF Thread, KindsOK
  <2> DEFINE tok == th[t].cur[1]
  <2>2. th[t].cur = <<tok>> /\ tok \in Tokens /\ 1 \in 1..Len(th[t].cur)
    BY <1>7, <2>1, SMTT(60)
  <2>3. PushedTo(t, tok.id) \/ FromExpander(tok.id)
    BY <1>1, <2>2 DEF KindsOK
  <2>4. tok.id \in Ids
    BY <2>2 DEF Tokens
  <2>5. ~PushedTo(t, tok.id)
    <3>1. pc[t] \in 1..Len(prog[t]) /\ prog[t][pc[t]].via = "direct" /\ prog[t][pc[t]].ins.op = MOP
      BY <1>1, <1>2, <1>7, OpWord DEF Op
    <3>2. \A h \in Hosts : \A k \in 1..Len(prog[h]) :
             ~(prog[h][k].via = "push" /\ prog[h][k].to = t)
      BY <1>1, <3>1 DEF MopsAlone
    <3>3. tok.id[1] \in Hosts
      BY <2>4, IdParts
    <3> QED BY <3>2, <3>3 DEF PushedTo, IsPushed, Via
  <2>6. ~IsPushed(tok.id)
    BY <2>3, <2>5 DEF FromExpander, IsPushed
  <2>7. AllPushed(pushed[t])
    BY DEF AllPushed, PushedTo, CopInv
  <2>8. IdsOf(<<>>) = <<>> /\ IdsOf(<<tok>>) = <<tok.id>>
    <3> HIDE DEF tok
    <3> QED BY <2>2, IdsOfOne
  <2>9. Way(th'[t], done'[t]) = Append(d, x) \o <<>> \o f
    BY <1>2, <1>7, <2>8 DEF Way
  <2>10. Way(th[t], d) = d \o <<tok.id>> \o f
    <3>1. IdsOf(th[t].cur) = <<tok.id>>
      <4> HIDE DEF tok
      <4> QED BY <2>2, <2>8
    <3> QED BY <3>1 DEF Way
  <2> DEFINE y == tok.id
  <2>11. y \in Ids /\ ~IsPushed(y) /\ Way(th[t], d) = d \o <<y>> \o f
    BY <2>4, <2>6, <2>10
  <2> HIDE DEF tok, y, d, x, f
  <2>12. d \o <<y>> \o f = Append(d, y) \o f /\ Append(d, x) \o <<>> \o f = Append(d, x) \o f
    BY <1>1, <1>3, <1>4, <2>11, SMTT(60)
  <2>13. InOrder(Append(d, y) \o f, pushed[t])
    BY <1>5, <2>11, <2>12
  <2>14. InOrder(Append(d, x) \o f, pushed[t])
    BY <1>1, <1>3, <1>4, <2>7, <2>11, <2>13, BetweenReplaced
  <2> QED BY <2>9, <2>12, <2>14
<1> QED BY <1>6, <1>7 DEF DirectRan

Distinct(p) == \A i, j \in 1..Len(p) : i < j => p[i] # p[j]

\* A pushed instruction goes to the end of the passage and of what was pushed, and was not
\* there before.
LEMMA PushOrder ==
  ASSUME CopInv, NEW h \in Hosts, PushIn(h), NEW t \in Threads, t = Op(h).to,
         InOrder(Way(th[t], done[t]), pushed[t]), Distinct(pushed[t])
  PROVE  InOrder(Way(th'[t], done'[t]), pushed'[t]) /\ Distinct(pushed'[t])
<1> DEFINE d == done[t]
           x == PushTok(h).id
           c == IdsOf(th[t].cur)
           f == IdsOf(th[t].fifo)
           p == pushed[t]
<1>1. /\ th[t] \in Thread /\ d \in Seq(Ids) /\ p \in Seq(Ids) /\ pushed \in [Threads -> Seq(Ids)]
      /\ \A n \in 1..Len(p) : p[n][2] < pc[p[n][1]]
  BY DEF CopInv
<1>2. /\ HasOp(h, "push") /\ th'[t].cur = th[t].cur /\ th'[t].fifo = Append(th[t].fifo, PushTok(h))
      /\ pushed' = [pushed EXCEPT ![t] = Append(p, x)] /\ done'[t] = d
  BY DEF PushIn
<1>3. PushTok(h) \in Tokens /\ x \in Ids /\ x[1] = h /\ x[2] = pc[h] /\ pc[h] \in Nat
  BY <1>2, PushOp, OpWord
<1>4. pushed'[t] = Append(p, x)
  BY <1>1, <1>2
<1>5. c \in Seq(Ids) /\ f \in Seq(Ids)
  BY <1>1, WayParts
<1>6. IdsOf(Append(th[t].fifo, PushTok(h))) = Append(f, x)
  <2> DEFINE s == th[t].fifo
             tok == PushTok(h)
             g == IdsOf(Append(s, tok))
  <2>1. s \in Seq(Tokens) /\ tok \in Tokens
    BY <1>1, <1>3 DEF Thread
  <2>2. f \in Seq(Ids) /\ Len(f) = Len(s) /\ \A n \in 1..Len(s) : f[n] = s[n].id
    BY <2>1, IdsType
  <2> HIDE DEF s, tok, f
  <2>3. /\ Append(s, tok) \in Seq(Tokens) /\ Len(Append(s, tok)) = Len(s) + 1 /\ Len(s) \in Nat
        /\ \A n \in 1..Len(s) : Append(s, tok)[n] = s[n] /\ n \in 1..(Len(s) + 1)
        /\ Append(s, tok)[Len(s) + 1] = tok /\ Len(s) + 1 \in 1..(Len(s) + 1)
    BY <2>1, SMTT(60)
  <2>4. /\ g \in Seq(Ids) /\ Len(g) = Len(s) + 1
        /\ \A n \in 1..(Len(s) + 1) : g[n] = Append(s, tok)[n].id
    BY <2>3, IdsType
  <2> HIDE DEF g
  <2>5. g[Len(s) + 1] = tok.id /\ \A n \in 1..Len(s) : g[n] = f[n]
    BY <2>2, <2>3, <2>4
  <2>6. tok.id \in Ids
    BY <2>1 DEF Tokens
  <2> DEFINE y == tok.id
  <2>7. y \in Ids /\ g[Len(s) + 1] = y
    BY <2>5, <2>6
  <2> HIDE DEF y
  <2>8. g = Append(f, y)
    BY <2>2, <2>3, <2>4, <2>5, <2>7, SMTT(60)
  <2> QED BY <2>8 DEF g, s, tok, y, f
<1>7. Way(th'[t], done'[t]) = d \o c \o Append(f, x)
  BY <1>2, <1>6 DEF Way
<1>8. Way(th[t], d) = d \o c \o f
  BY DEF Way
<1>9. InOrder(Way(th[t], d), p) /\ Distinct(p)
  OBVIOUS
<1>10. \A n \in 1..Len(p) : p[n] # x
  <2> SUFFICES ASSUME NEW n \in 1..Len(p), p[n] = x PROVE FALSE
    OBVIOUS
  <2>1. x[2] < pc[x[1]]
    BY <1>1
  <2>2. pc[h] < pc[h]
    BY <1>3, <2>1
  <2> QED BY <1>3, <2>2, SMTT(60)
<1> HIDE DEF d, x, c, f, p
<1>11. d \o c \o Append(f, x) = Append(d \o c \o f, x) /\ d \o c \o f \in Seq(Ids)
  BY <1>1, <1>3, <1>5, SMTT(60)
<1>12. InOrder(d \o c \o f, p)
  BY <1>8, <1>9
<1>13. InOrder(Append(d \o c \o f, x), Append(p, x))
  BY <1>1, <1>3, <1>11, <1>12, OrderPushed
<1>14. Distinct(Append(p, x))
  <2> DEFINE q == Append(p, x)
  <2>1. /\ \A n \in 1..Len(q) : (n \in 1..Len(p) /\ q[n] = p[n]) \/ (n = Len(p) + 1 /\ q[n] = x)
        /\ Len(p) \in Nat
    BY <1>1, <1>3, SMTT(60)
  <2> HIDE DEF q
  <2>2. ASSUME NEW i \in 1..Len(q), NEW j \in 1..Len(q), i < j PROVE q[i] # q[j]
    <3>1. CASE i \in 1..Len(p) /\ j \in 1..Len(p) /\ q[i] = p[i] /\ q[j] = p[j]
      BY <1>9, <2>2, <3>1 DEF Distinct
    <3>2. CASE i \in 1..Len(p) /\ q[i] = p[i] /\ q[j] = x
      BY <1>10, <3>2
    <3>3. i # Len(p) + 1
      <4> SUFFICES ASSUME i = Len(p) + 1 PROVE FALSE
        OBVIOUS
      <4>1. j \in 1..Len(p) \/ j = Len(p) + 1
        BY <2>1
      <4> QED BY <2>1, <2>2, <4>1, SMTT(60)
    <3> QED BY <2>1, <3>1, <3>2, <3>3
  <2>3. Distinct(q)
    BY <2>2 DEF Distinct
  <2> QED BY <2>3 DEF q
<1> QED BY <1>4, <1>7, <1>11, <1>13, <1>14

\* The property, as a fact about one thread.
LEMMA FifoPrime ==
  ASSUME prog' = prog,
         \A t \in Threads : InOrder(Way(th'[t], done'[t]), pushed'[t]) /\ Distinct(pushed'[t])
  PROVE  FifoConservation'
<1>1. ASSUME NEW t \in Threads PROVE InOrder(Passage(t), pushed[t])'
  <2> DEFINE w == done'[t] \o IdsOf(th'[t].cur) \o IdsOf(th'[t].fifo)
             pu(id) == prog'[id[1]][id[2]].via = "push" /\ id[3] = 0 /\ id[4] = 0
  <2>1. InOrder(w, pushed'[t])
    BY DEF Way
  <2>2. \A id : IsPushed(id) <=> pu(id)
    BY DEF IsPushed, Via
  <2> HIDE DEF pu
  <2>3. /\ \A n \in 1..Len(pushed'[t]) : \E m \in 1..Len(w) : w[m] = pushed'[t][n]
        /\ \A m \in 1..Len(w) : pu(w[m]) => \E n \in 1..Len(pushed'[t]) : w[m] = pushed'[t][n]
        /\ \A m, n \in 1..Len(w) :
              m < n /\ pu(w[m]) /\ pu(w[n])
                => \E i, j \in 1..Len(pushed'[t]) :
                      i < j /\ w[m] = pushed'[t][i] /\ w[n] = pushed'[t][j]
    <3> HIDE DEF w
    <3> QED BY <2>1, <2>2 DEF InOrder
  <2> QED BY <2>3 DEF InOrder, IsPushed, Via, Passage, pu
<1> QED BY <1>1 DEF FifoConservation, Distinct

\* One thread keeps the order of what was pushed to it.
LEMMA FifoThread ==
  ASSUME FifoConservation
  PROVE  \A t \in Threads : InOrder(Way(th[t], done[t]), pushed[t]) /\ Distinct(pushed[t])
BY DEF FifoConservation, Passage, Way, Distinct

\* Every step keeps what is pushed in order.
LEMMA FifoStep ==
  ASSUME CopInv, MopsAlone, FifoConservation, [CopNext]_copVars
  PROVE  FifoConservation'
<1>1. \A t \in Threads : InOrder(Way(th[t], done[t]), pushed[t]) /\ Distinct(pushed[t])
  BY FifoThread
<1>2. CASE CopNext
  <2>1. prog' = prog
    BY <1>2 DEF CopNext
  <2>2. ASSUME pushed' = pushed, NEW t \in Threads, Effect(t)
        PROVE  \A u \in Threads : InOrder(Way(th'[u], done'[u]), pushed'[u]) /\ Distinct(pushed'[u])
    <3>1. OnlyMoves(t)
      BY <2>2 DEF Effect
    <3>2. InOrder(Way(th'[t], done'[t]), pushed[t])
      <4>1. CASE SameWay(t)
        BY <1>1, <4>1 DEF SameWay
      <4>2. CASE Refilled(t)
        BY <1>1, <3>1, <4>2, RefilledOrder
      <4>3. CASE DirectRan(t)
        BY <1>1, <3>1, <4>3, DirectOrder
      <4> QED BY <2>2, <4>1, <4>2, <4>3 DEF Effect, TookUp
    <3>3. \A u \in Threads : u # t => th'[u] = th[u] /\ done'[u] = done[u]
      BY <3>1 DEF OnlyMoves
    <3>4. ASSUME NEW u \in Threads
          PROVE  InOrder(Way(th'[u], done'[u]), pushed'[u]) /\ Distinct(pushed'[u])
      <4>1. CASE u = t
        BY <1>1, <2>2, <3>2, <4>1
      <4>2. CASE u # t
        BY <1>1, <2>2, <3>3, <4>2
      <4> QED BY <4>1, <4>2
    <3> QED BY <3>4
  <2>3. ASSUME NEW h \in Hosts, PushIn(h)
        PROVE  \A u \in Threads : InOrder(Way(th'[u], done'[u]), pushed'[u]) /\ Distinct(pushed'[u])
    <3>1. /\ \A u \in Threads : u # Op(h).to => th'[u] = th[u]
          /\ pushed' = [pushed EXCEPT ![Op(h).to] = Append(@, PushTok(h).id)] /\ done' = done
      BY <2>3 DEF PushIn
    <3>2. ASSUME NEW u \in Threads
          PROVE  InOrder(Way(th'[u], done'[u]), pushed'[u]) /\ Distinct(pushed'[u])
      <4>1. CASE u = Op(h).to
        BY <1>1, <2>3, <4>1, PushOrder
      <4>2. CASE u # Op(h).to
        <5>1. pushed'[u] = pushed[u] /\ th'[u] = th[u] /\ done'[u] = done[u]
          BY <3>1, <4>2 DEF CopInv
        <5> QED BY <1>1, <5>1
      <4> QED BY <4>1, <4>2
    <3> QED BY <3>2
  <2>4. CASE ThreadsStay
    <3>1. th' = th /\ done' = done /\ pushed' = pushed
      BY <2>4 DEF ThreadsStay
    <3>2. \A u \in Threads : InOrder(Way(th'[u], done'[u]), pushed'[u]) /\ Distinct(pushed'[u])
      BY <1>1, <3>1
    <3> QED BY <2>1, <3>2, FifoPrime
  <2> QED BY <1>2, <2>1, <2>2, <2>3, <2>4, CopCases, FifoPrime
<1>3. CASE UNCHANGED copVars
  <2>1. th' = th /\ done' = done /\ pushed' = pushed /\ prog' = prog
    BY <1>3 DEF copVars, hostVars
  <2>2. \A u \in Threads : InOrder(Way(th'[u], done'[u]), pushed'[u]) /\ Distinct(pushed'[u])
    BY <1>1, <2>1
  <2> QED BY <2>1, <2>2, FifoPrime
<1> QED BY <1>2, <1>3

\* Nothing has gone in.
LEMMA FifoInit == CopInit => FifoConservation
<1> SUFFICES ASSUME CopInit, NEW t \in Threads
             PROVE  Distinct(pushed[t]) /\ InOrder(Passage(t), pushed[t])
  BY DEF FifoConservation, Distinct
<1>1. done[t] = <<>> /\ pushed[t] = <<>> /\ th[t].cur = <<>> /\ th[t].fifo = <<>>
  BY DEF CopInit, FreshThread
<1>2. IdsOf(<<>>) = <<>>
  <2>1. <<>> \in Seq(Tokens) /\ Len(<<>>) = 0
    BY SMTT(60)
  <2>2. Len(IdsOf(<<>>)) = 0 /\ IdsOf(<<>>) \in Seq(Ids)
    BY <2>1, IdsType
  <2> QED BY <2>2, SMTT(60)
<1>3. Passage(t) = <<>> \o <<>> \o <<>>
  BY <1>1, <1>2 DEF Passage
<1>4. <<>> \o <<>> \o <<>> = <<>> /\ Len(<<>>) = 0 /\ 1..0 = {}
  BY SMTT(60)
<1>5. 1..Len(Passage(t)) = {} /\ 1..Len(pushed[t]) = {}
  BY <1>1, <1>3, <1>4
<1> QED BY <1>5 DEF Distinct, InOrder

\* What the cores push to a thread is executed in the order it was pushed, none lost and
\* none twice, for any programs in which no core mixes direct MOPs with pushes to the same
\* thread.
THEOREM CopFifoOrder ==
  ASSUME MopsAlone
  PROVE  CopSpec => []FifoConservation
<1>1. CopInv /\ FifoConservation /\ [CopNext]_copVars => FifoConservation'
  BY FifoStep
<1> QED BY <1>1, FifoInit, CopInvariant, PTL DEF CopSpec
-----------------------------------------------------------------------------
(* Direct instructions and their expansions. *)

\* An instruction with an expansion of its own comes from its core directly.
PlainPushes ==
    \A p \in Programs, h \in Hosts : \A k \in 1..Len(p[h]) :
        p[h][k].via = "push" => p[h][k].ins.op \notin {MOP, "REPLAY"}

\* A direct REPLAY does not block half way (it would start over: ttreplay), and what is
\* recorded is neither MOP nor REPLAY and, with execute_while_loading, can be executed.
Smooth ==
    \A h \in Threads :
        /\ phase[h] = "replay" /\ th[h].cur # <<>>
             => Passes(th[h].gate, th[h].cur[1].ins) /\ Ready(th[h].cur[1].ins)
        /\ phase[h] = "exec" /\ th[h].rec.left > 0 /\ Op(h).ins.op # "MOP_CFG"
             => /\ Op(h).ins.op \notin {MOP, "REPLAY"}
                /\ th[h].rec.ewl => Op(h).ins.op = "PACR" \/ Ready(Op(h).ins)

Simple(i) == i.op # MOP /\ i.op # "REPLAY"

\* The places of i's expansion are <<j, q>> with j up to LastPlace(i) and q up to Played.
LastPlace(i) == IF i.op = MOP THEN Len(i.body) ELSE 0
Plays(i) == i.op = "REPLAY" /\ ~i.load
Played(i) == IF Plays(i) THEN i.count ELSE 0

\* The waiting instruction came from an expander.
Own(T) == T.cur # <<>> /\ FromExpander(T.cur[1].id)

\* How far the expanders of state T are in instruction i: the place of the body, and the
\* place that is executed next.
Point(T, i) == LastPlace(i) - Len(T.mop.rest)
Ahead(T, i) ==
    IF T.exp.on THEN <<Point(T, i), IF Own(T) THEN T.exp.pos ELSE T.exp.pos + 1>>
                ELSE <<IF Own(T) THEN Point(T, i) ELSE Point(T, i) + 1, 0>>

\* The expanders of T are at work on i, the k-th operation of core h.
Unfolding(h, k, i, T) ==
    LET j == Point(T, i)
    IN  /\ Len(T.mop.rest) <= LastPlace(i)
        /\ \A m \in 1..Len(T.mop.rest) :
              T.mop.rest[m] = Token(<<h, k, j + m, 0>>, At(i, j + m))
        /\ T.exp.on => /\ T.exp.by = <<h, k, j, 0>>
                       /\ Plays(At(i, j)) /\ T.exp.count = At(i, j).count
                       /\ T.exp.pos <= T.exp.count
        /\ Own(T) => /\ T.cur[1].id = <<h, k, j, IF T.exp.on THEN T.exp.pos ELSE 0>>
                     /\ IF T.exp.on THEN Simple(T.cur[1].ins) ELSE T.cur[1].ins = At(i, j)

\* A core in phase ph, with its thread in state T, is in the expansion of its direct
\* instruction.
Inside(T, ph) == T.mop.active \/ ph = "replay"

\* What is pushed or recorded has no expansion.
SimpleOK(T) ==
    /\ \A n \in 1..Len(T.fifo) : Simple(T.fifo[n].ins)
    /\ T.cur # <<>> /\ ~Own(T) => Simple(T.cur[1].ins)
    /\ \A s \in Slots : Simple(T.buf[s])

\* In which phases a MOP is being expanded.
PhaseFits(ph, active) ==
    /\ ph # "mopDrain"
    /\ ph \in {"mop", "mopEntry"} => active
    /\ ph \in {"drain", "exec", "post", "push", "replay"} => ~active

\* In these definitions p is the program of core h and c the index of its next operation.
ExpansionOK(h, T, ph, p, c) ==
    /\ ~T.mop.active => T.mop.rest = <<>>
    /\ ~Inside(T, ph) => ~T.exp.on /\ ~Own(T)
    /\ Inside(T, ph) => /\ c \in 1..Len(p) /\ p[c].via = "direct"
                        /\ T.mop.active <=> p[c].ins.op = MOP
                        /\ Unfolding(h, c, p[c].ins, T)

\* The places of i's expansion before place a.
Upto(i, a) == {x \in Places(i) : Before(x, a)}

\* What of the k-th operation, a direct instruction, is to be executed by now.
Expected(T, ph, p, c, k) ==
    IF k < c THEN Places(p[k].ins)
    ELSE IF k = c /\ Inside(T, ph) THEN Upto(p[k].ins, Ahead(T, p[k].ins))
    ELSE {}

RanAre(d, h, k, S) == Ordered(d, h, k) /\ Ran(d, h, k) = S

Once(h, T, ph, d, p, c) ==
    /\ SimpleOK(T) /\ PhaseFits(ph, T.mop.active) /\ ExpansionOK(h, T, ph, p, c)
    /\ \A k \in 1..Len(p) : p[k].via = "direct" => RanAre(d, h, k, Expected(T, ph, p, c, k))

OnceAt(h) == Once(h, th[h], phase[h], done[h], prog[h], pc[h])
OnceInv == \A h \in Threads : OnceAt(h)

\* The places of an instruction's expansion.
LEMMA PlacesAre ==
  ASSUME NEW i \in Words
  PROVE  /\ LastPlace(i) \in Nat
         /\ \A j \in 0..LastPlace(i) : At(i, j) \in Words /\ Played(At(i, j)) \in Nat
         /\ \A j, q : <<j, q>> \in Places(i) <=> j \in 0..LastPlace(i) /\ q \in 0..Played(At(i, j))
         /\ \A p \in Places(i) : p = <<p[1], p[2]>>
<1>1. \A x \in Words : Played(x) \in Nat /\ ReplayPlaces(x) = 0..Played(x)
  <2> SUFFICES ASSUME NEW x \in Words PROVE Played(x) \in Nat /\ ReplayPlaces(x) = 0..Played(x)
    OBVIOUS
  <2>1. 0 \in Nat /\ 0..0 = {0}
    BY SMTT(60)
  <2> QED BY <2>1, WordOK DEF Played, Plays, ReplayPlaces, InsOK
<1>2. CASE i.op = MOP
  <2>1. i.body \in Seq(Words) /\ i.op # "REPLAY"
    BY <1>2, WordOK, SMTT(60) DEF InsOK, MOP
  <2> DEFINE b == i.body
  <2>2. Len(b) \in Nat /\ \A j \in 1..Len(b) : b[j] \in Words
    BY <2>1, SMTT(60)
  <2>3. LastPlace(i) = Len(b) /\ Played(i) = 0
    BY <1>2, <2>1 DEF LastPlace, Played, Plays
  <2>4. \A j \in 1..Len(b) : ReplayPlaces(b[j]) = 0..Played(b[j]) /\ Played(b[j]) \in Nat
    BY <1>1, <2>2
  <2>5. Places(i) = ({0} \X (0..0)) \cup UNION {{j} \X (0..Played(b[j])) : j \in 1..Len(b)}
    <3>1. ReplayPlaces(i) = 0..0
      BY <1>1, <2>3
    <3>2. Places(i) = ({0} \X (0..0)) \cup UNION {{j} \X ReplayPlaces(b[j]) : j \in 1..Len(b)}
      BY <1>2, <3>1 DEF Places
    <3>3. {{j} \X ReplayPlaces(b[j]) : j \in 1..Len(b)} = {{j} \X (0..Played(b[j])) : j \in 1..Len(b)}
      BY <2>4
    <3> QED BY <3>2, <3>3
  <2>6. \A j \in 0..LastPlace(i) : At(i, j) = IF j = 0 THEN i ELSE b[j]
    BY DEF At
  <2> HIDE DEF b
  <2>7. \A j \in 0..LastPlace(i) : At(i, j) \in Words /\ Played(At(i, j)) \in Nat
    BY <1>1, <2>2, <2>3, <2>6, SMTT(60)
  <2>8. \A p : p \in Places(i) <=> \/ p \in {0} \X (0..0)
                                   \/ \E j \in 1..Len(b) : p \in {j} \X (0..Played(b[j]))
    BY <2>5
  <2>9. \A j, q : <<j, q>> \in Places(i) <=> \/ j = 0 /\ q \in 0..0
                                             \/ j \in 1..Len(b) /\ q \in 0..Played(b[j])
    BY <2>8, SMTT(60)
  <2>10. \A j, q : <<j, q>> \in Places(i) <=> j \in 0..LastPlace(i) /\ q \in 0..Played(At(i, j))
    <3> SUFFICES ASSUME NEW j, NEW q
                 PROVE  <<j, q>> \in Places(i) <=> j \in 0..LastPlace(i) /\ q \in 0..Played(At(i, j))
      OBVIOUS
    <3>1. CASE j = 0
      <4>1. At(i, j) = i /\ j \in 0..LastPlace(i) /\ j \notin 1..Len(b)
        BY <2>2, <2>3, <3>1, SMTT(60) DEF At
      <4> QED BY <2>3, <2>9, <3>1, <4>1
    <3>2. CASE j # 0
      <4>1. At(i, j) = b[j] /\ (j \in 0..LastPlace(i) <=> j \in 1..Len(b))
        BY <2>2, <2>3, <3>2, SMTT(60) DEF At, b
      <4> QED BY <2>9, <3>2, <4>1
    <3> QED BY <3>1, <3>2
  <2>11. \A p \in Places(i) : p = <<p[1], p[2]>>
    BY <2>8, SMTT(60)
  <2> QED BY <2>2, <2>3, <2>7, <2>10, <2>11
<1>3. CASE i.op # MOP
  <2>1. Places(i) = {0} \X (0..Played(i)) /\ LastPlace(i) = 0
    BY <1>1, <1>3 DEF Places, LastPlace
  <2>2. \A j \in 0..LastPlace(i) : j = 0 /\ At(i, j) = i
    BY <2>1, SMTT(60) DEF At
  <2>3. \A j, q : <<j, q>> \in Places(i) <=> j = 0 /\ q \in 0..Played(i)
    BY <2>1, SMTT(60)
  <2>4. \A p \in Places(i) : p = <<p[1], p[2]>>
    BY <2>1, SMTT(60)
  <2>5. 0 \in Nat /\ 0 \in 0..0
    BY SMTT(60)
  <2> QED BY <1>1, <2>1, <2>2, <2>3, <2>4, <2>5
<1> QED BY <1>2, <1>3

\* When a place is taken, it is one more; at the end of a replay the next place of the body
\* comes, and after the last one all places have been.
LEMMA PlacesTaken ==
  ASSUME NEW i \in Words, NEW j \in 0..LastPlace(i), NEW q \in Nat
  PROVE  /\ q <= Played(At(i, j))
              => <<j, q>> \in Places(i) /\ Upto(i, <<j, q + 1>>) = Upto(i, <<j, q>>) \cup {<<j, q>>}
         /\ Played(At(i, j)) < q => Upto(i, <<j, q>>) = Upto(i, <<j + 1, 0>>)
         /\ Upto(i, <<LastPlace(i) + 1, 0>>) = Places(i)
         /\ Upto(i, <<0, 0>>) = {}
<1> DEFINE P == Places(i)
           n == LastPlace(i)
           c(x) == Played(At(i, x))
           B(p, a) == p[1] < a[1] \/ (p[1] = a[1] /\ p[2] < a[2])
           U(a) == {p \in P : B(p, a)}
<1>1. /\ n \in Nat /\ \A x \in 0..n : c(x) \in Nat
      /\ \A x, y : <<x, y>> \in P <=> x \in 0..n /\ y \in 0..c(x)
      /\ \A p \in P : p = <<p[1], p[2]>>
  BY PlacesAre
<1>2. \A a : Upto(i, a) = U(a)
  BY DEF Upto, Before
<1> HIDE DEF P, n, c
<1>3. \A p \in P : p[1] \in 0..n /\ p[2] \in 0..c(p[1])
  BY <1>1
<1>4. j \in 0..n
  BY DEF n
<1>5. q <= c(j) => <<j, q>> \in P /\ U(<<j, q + 1>>) = U(<<j, q>>) \cup {<<j, q>>}
  <2> SUFFICES ASSUME q <= c(j)
               PROVE  <<j, q>> \in P /\ U(<<j, q + 1>>) = U(<<j, q>>) \cup {<<j, q>>}
    OBVIOUS
  <2>1. <<j, q>> \in P
    BY <1>1, <1>4, SMTT(60)
  <2>2. \A p \in P : B(p, <<j, q + 1>>) <=> B(p, <<j, q>>) \/ p = <<j, q>>
    <3> SUFFICES ASSUME NEW p \in P PROVE B(p, <<j, q + 1>>) <=> B(p, <<j, q>>) \/ p = <<j, q>>
      OBVIOUS
    <3>1. p[1] \in Nat /\ p[2] \in Nat /\ p = <<p[1], p[2]>> /\ j \in Nat /\ c(p[1]) \in Nat
      BY <1>1, <1>3, <1>4, SMTT(60)
    <3> QED BY <3>1, SMTT(60)
  <2> HIDE DEF B
  <2> QED BY <2>1, <2>2
<1>6. c(j) < q => U(<<j, q>>) = U(<<j + 1, 0>>)
  <2> SUFFICES ASSUME c(j) < q PROVE U(<<j, q>>) = U(<<j + 1, 0>>)
    OBVIOUS
  <2>1. \A p \in P : B(p, <<j, q>>) <=> B(p, <<j + 1, 0>>)
    <3> SUFFICES ASSUME NEW p \in P PROVE B(p, <<j, q>>) <=> B(p, <<j + 1, 0>>)
      OBVIOUS
    <3>1. p[1] \in Nat /\ p[2] \in Nat /\ p[2] <= c(p[1]) /\ j \in Nat /\ c(p[1]) \in Nat
      BY <1>1, <1>3, <1>4, SMTT(60)
    <3>2. p[1] = j => p[2] <= c(j)
      BY <3>1
    <3>3. c(j) \in Nat
      BY <1>1, <1>4
    <3> QED BY <3>1, <3>2, <3>3, SMTT(60)
  <2> HIDE DEF B
  <2> QED BY <2>1
<1>7. U(<<n + 1, 0>>) = P /\ U(<<0, 0>>) = {}
  <2>1. \A p \in P : B(p, <<n + 1, 0>>) /\ ~B(p, <<0, 0>>)
    BY <1>1, <1>3, SMTT(60)
  <2> HIDE DEF B
  <2> QED BY <2>1
<1>8. /\ Upto(i, <<j, q>>) = U(<<j, q>>) /\ Upto(i, <<j, q + 1>>) = U(<<j, q + 1>>)
      /\ Upto(i, <<j + 1, 0>>) = U(<<j + 1, 0>>) /\ Upto(i, <<n + 1, 0>>) = U(<<n + 1, 0>>)
      /\ Upto(i, <<0, 0>>) = U(<<0, 0>>)
  BY <1>2
<1> HIDE DEF U
<1> QED BY <1>5, <1>6, <1>7, <1>8 DEF P, n, c

\* What is executed for another operation changes nothing for this one.
LEMMA RanOther ==
  ASSUME NEW d \in Seq(Ids), NEW id \in Ids, NEW h, NEW k, NEW S, RanAre(d, h, k, S),
         ~(id[1] = h /\ id[2] = k)
  PROVE  RanAre(Append(d, id), h, k, S)
<1> DEFINE e == Append(d, id)
<1>1. /\ Len(d) \in Nat /\ Len(e) = Len(d) + 1 /\ e[Len(d) + 1] = id
      /\ \A n \in 1..Len(d) : e[n] = d[n] /\ n \in 1..Len(e)
      /\ \A n \in 1..Len(e) : n \in 1..Len(d) \/ n = Len(d) + 1
  BY SMTT(60)
<1> HIDE DEF e
<1>2. Times(e, h, k) = Times(d, h, k) /\ \A n \in Times(d, h, k) : e[n] = d[n]
  BY <1>1 DEF Times
<1>3. Ran(e, h, k) = Ran(d, h, k)
  BY <1>2 DEF Ran
<1>4. Ordered(e, h, k)
  <2> SUFFICES ASSUME NEW m \in Times(e, h, k), NEW n \in Times(e, h, k), m < n
               PROVE  Before(Place(e[m]), Place(e[n]))
    BY DEF Ordered
  <2>1. m \in Times(d, h, k) /\ n \in Times(d, h, k) /\ e[m] = d[m] /\ e[n] = d[n]
    BY <1>2
  <2> QED BY <2>1 DEF Ordered, RanAre
<1> QED BY <1>3, <1>4 DEF RanAre, e

\* The next place of this operation is executed.
LEMMA RanNext ==
  ASSUME NEW d \in Seq(Ids), NEW h \in Hosts, NEW k \in Nat, NEW a \in Nat, NEW b \in Nat, NEW S,
         RanAre(d, h, k, S), \A p \in S : Before(p, <<a, b>>)
  PROVE  RanAre(Append(d, <<h, k, a, b>>), h, k, S \cup {<<a, b>>})
<1> DEFINE id == <<h, k, a, b>>
           e == Append(d, id)
           N == Len(d) + 1
<1>0. id \in Ids /\ id[1] = h /\ id[2] = k /\ Place(id) = <<a, b>>
  BY SMTT(60) DEF Ids, Place
<1> HIDE DEF id
<1>1. /\ Len(d) \in Nat /\ Len(e) = N /\ e[N] = id /\ N \in 1..Len(e)
      /\ \A n \in 1..Len(d) : e[n] = d[n] /\ n \in 1..Len(e) /\ n < N
      /\ \A n \in 1..Len(e) : n \in 1..Len(d) \/ n = N
      /\ \A n \in 1..Len(e) : ~(N < n)
  BY <1>0, SMTT(60)
<1> HIDE DEF e, N
<1>2. Times(e, h, k) = Times(d, h, k) \cup {N} /\ \A n \in Times(d, h, k) : e[n] = d[n]
  BY <1>0, <1>1 DEF Times
<1>3. Ran(e, h, k) = S \cup {<<a, b>>}
  <2>1. Ran(e, h, k) = {Place(e[n]) : n \in Times(d, h, k)} \cup {Place(e[N])}
    BY <1>2 DEF Ran
  <2>2. {Place(e[n]) : n \in Times(d, h, k)} = {Place(d[n]) : n \in Times(d, h, k)}
    BY <1>2
  <2> QED BY <1>0, <1>1, <2>1, <2>2 DEF Ran, RanAre
<1>4. \A n \in Times(d, h, k) : Place(d[n]) \in S
  BY DEF Ran, RanAre
<1>5. Ordered(e, h, k)
  <2> SUFFICES ASSUME NEW m \in Times(e, h, k), NEW n \in Times(e, h, k), m < n
               PROVE  Before(Place(e[m]), Place(e[n]))
    BY DEF Ordered
  <2>1. m # N
    BY <1>1 DEF Times
  <2>2. m \in Times(d, h, k) /\ e[m] = d[m]
    BY <1>2, <2>1
  <2>3. CASE n = N
    BY <1>0, <1>1, <1>4, <2>2, <2>3
  <2>4. CASE n # N
    BY <1>2, <2>2, <2>4 DEF Ordered, RanAre
  <2> QED BY <2>3, <2>4
<1> QED BY <1>3, <1>5 DEF RanAre, e, id
-----------------------------------------------------------------------------
(* What a step does to the expanders. *)

\* The expanders after ttreplay in replay mode and after ttmop.
Playing(tok) == [on |-> TRUE, start |-> tok.ins.start, count |-> tok.ins.count, pos |-> 0,
                 by |-> tok.id]
Expanding(tok) ==
    [active |-> TRUE, rest |-> [j \in 1..Len(tok.ins.body) |->
                                  Token(<<tok.id[1], tok.id[2], j, 0>>, tok.ins.body[j])]]

\* An executed instruction starts an expander or leaves both alone.
LEMMA LatchFields ==
  ASSUME NEW T \in Thread, NEW tok \in Tokens
  PROVE  /\ LatchIfWait(T, tok).buf = T.buf
         /\ LatchIfWait(T, tok).mop = IF tok.ins.op = MOP THEN Expanding(tok) ELSE T.mop
         /\ LatchIfWait(T, tok).exp = IF Plays(tok.ins) THEN Playing(tok) ELSE T.exp
<1> DEFINE U == LatchIfWait(T, tok)
           i == tok.ins
<1>0. MOP \notin WaitOps /\ MOP # "REPLAY" /\ "REPLAY" \notin WaitOps
  BY SMTT(60) DEF MOP, WaitOps
<1>1. CASE i.op \in WaitOps
  <2>1. U = [T EXCEPT !.gate = Latch(i)]
    BY <1>1 DEF LatchIfWait
  <2>2. i.op # MOP /\ ~Plays(i)
    BY <1>0, <1>1 DEF Plays
  <2> HIDE DEF U
  <2>3. U.buf = T.buf /\ U.mop = T.mop /\ U.exp = T.exp
    BY <2>1 DEF Thread
  <2> QED BY <2>2, <2>3 DEF U
<1>2. CASE i.op = MOP
  <2>1. U = MopExpand(T, tok)
    BY <1>0, <1>2 DEF LatchIfWait, ThreadAfter
  <2>2. U = [T EXCEPT !.mop = Expanding(tok), !.cur = <<>>]
    BY <2>1 DEF MopExpand, Expanding
  <2>3. ~Plays(i)
    BY <1>0, <1>2 DEF Plays
  <2> HIDE DEF U
  <2>4. U.buf = T.buf /\ U.mop = Expanding(tok) /\ U.exp = T.exp
    BY <2>2 DEF Thread
  <2> QED BY <1>2, <2>3, <2>4 DEF U
<1>3. CASE i.op = "REPLAY"
  <2>0. i.op # MOP /\ i.op \notin WaitOps
    BY <1>0, <1>3
  <2>1. U = SetReplay(T, tok)
    BY <1>3, <2>0 DEF LatchIfWait, ThreadAfter
  <2>2. CASE i.load
    <3> DEFINE r == [left |-> i.count, index |-> i.start, ewl |-> i.ewl]
    <3>1. U = [T EXCEPT !.rec = r]
      BY <2>1, <2>2 DEF SetReplay
    <3> HIDE DEF U, r
    <3>2. U.buf = T.buf /\ U.mop = T.mop /\ U.exp = T.exp
      BY <3>1 DEF Thread
    <3> QED BY <2>0, <2>2, <3>2 DEF U, Plays
  <2>3. CASE ~i.load
    <3>1. U = [T EXCEPT !.exp = Playing(tok)]
      BY <2>1, <2>3 DEF SetReplay, Playing
    <3> HIDE DEF U
    <3>2. U.buf = T.buf /\ U.mop = T.mop /\ U.exp = Playing(tok)
      BY <3>1 DEF Thread
    <3> QED BY <1>3, <2>0, <2>3, <3>2 DEF U, Plays
  <2> QED BY <2>2, <2>3
<1>4. CASE i.op \notin WaitOps /\ i.op # MOP /\ i.op # "REPLAY"
  <2>1. U = T
    BY <1>4 DEF LatchIfWait, ThreadAfter
  <2> QED BY <1>4, <2>1 DEF Plays
<1> QED BY <1>1, <1>2, <1>3, <1>4

\* The same for tensix_cop_step.
LEMMA RanFields ==
  ASSUME NEW T \in Thread, ~Idle(T)
  PROVE  /\ RanOne(T).buf = T.buf
         /\ RanOne(T).mop = IF Fetched(T).ins.op = MOP THEN Expanding(Fetched(T)) ELSE T.mop
         /\ RanOne(T).exp = IF Plays(Fetched(T).ins) THEN Playing(Fetched(T)) ELSE T.exp
<1> DEFINE P == Popped(T)
           tok == Fetched(T)
           G == [P EXCEPT !.gate = GateBehind(P.gate, tok.ins)]
<1>1. /\ tok \in Tokens /\ P \in Thread /\ P.mop = T.mop /\ P.exp = T.exp /\ P.buf = T.buf
  BY PoppedThread
<1>2. P.gate \in Gates /\ tok.ins \in Words
  BY <1>1 DEF Thread, Tokens
<1>3. GateBehind(P.gate, tok.ins) \in Gates
  BY <1>2, GateType
<1>4. RanOne(T) = LatchIfWait(G, tok)
  BY DEF RanOne
<1> HIDE DEF P, tok
<1>5. G \in Thread /\ G.mop = P.mop /\ G.exp = P.exp /\ G.buf = P.buf
  BY <1>1, <1>3 DEF Thread
<1> HIDE DEF G
<1>6. /\ LatchIfWait(G, tok).buf = G.buf
      /\ LatchIfWait(G, tok).mop = IF tok.ins.op = MOP THEN Expanding(tok) ELSE G.mop
      /\ LatchIfWait(G, tok).exp = IF Plays(tok.ins) THEN Playing(tok) ELSE G.exp
  BY <1>1, <1>5, LatchFields
<1> QED BY <1>1, <1>4, <1>5, <1>6 DEF tok

\* A waiting instruction that does not come from an expander has none of its own, and what
\* the expanders do is not changed by it.
SameExpansion(T, U) ==
    /\ U.mop = T.mop /\ U.exp = T.exp /\ (Own(U) <=> Own(T))
    /\ Own(T) => U.cur[1] = T.cur[1]

\* Then how far they are is the same.
LEMMA SameUnfolding ==
  ASSUME NEW T, NEW U, SameExpansion(T, U), NEW h, NEW k, NEW i
  PROVE  /\ Unfolding(h, k, i, T) => Unfolding(h, k, i, U)
         /\ Ahead(U, i) = Ahead(T, i)
<1>1. U.mop = T.mop /\ U.exp = T.exp /\ (Own(U) <=> Own(T)) /\ (Own(T) => U.cur[1] = T.cur[1])
  BY DEF SameExpansion
<1>2. Point(U, i) = Point(T, i)
  BY <1>1 DEF Point
<1>3. Ahead(U, i) = Ahead(T, i)
  BY <1>1, <1>2 DEF Ahead
<1>4. Unfolding(h, k, i, T) => Unfolding(h, k, i, U)
  BY <1>1, <1>2 DEF Unfolding
<1> QED BY <1>3, <1>4

\* Where the expanders are is a place of the expansion.
LEMMA PointPlace ==
  ASSUME NEW T \in Thread, NEW h, NEW k, NEW i \in Words, Unfolding(h, k, i, T)
  PROVE  /\ Point(T, i) \in 0..LastPlace(i) /\ Point(T, i) \in Nat /\ LastPlace(i) \in Nat
         /\ Len(T.mop.rest) \in Nat /\ Point(T, i) + Len(T.mop.rest) = LastPlace(i)
         /\ At(i, Point(T, i)) \in Words
         /\ Point(T, i) # 0 => At(i, Point(T, i)).op # MOP
         /\ T.exp \in Expansions /\ T.mop.rest \in Seq(Tokens) /\ T.exp.pos \in Nat
<1>1. T.mop \in Mops /\ T.exp \in Expansions
  BY DEF Thread
<1>2. T.mop.rest \in Seq(Tokens) /\ T.exp.pos \in Nat
  BY <1>1 DEF Mops, Expansions
<1>3. /\ LastPlace(i) \in Nat
      /\ \A j \in 0..LastPlace(i) : At(i, j) \in Words
  BY PlacesAre
<1>4. Len(T.mop.rest) <= LastPlace(i)
  BY DEF Unfolding
<1> DEFINE r == T.mop.rest
           n == LastPlace(i)
           j == Point(T, i)
<1>5. j = n - Len(r)
  BY DEF Point
<1> HIDE DEF r, n, j
<1>6. Len(r) \in Nat /\ j \in 0..n /\ j \in Nat /\ j + Len(r) = n
  BY <1>2, <1>3, <1>4, <1>5, SMTT(60) DEF r, n
<1>7. j # 0 => At(i, j).op # MOP
  <2> SUFFICES ASSUME j # 0 PROVE At(i, j).op # MOP
    OBVIOUS
  <2>1. n # 0
    BY <1>3, <1>6, SMTT(60) DEF n
  <2>2. i.op = MOP /\ n = Len(i.body)
    BY <2>1 DEF n, LastPlace
  <2>3. j \in 1..Len(i.body)
    BY <1>6, <2>2, SMTT(60)
  <2>4. i.body[j].op # MOP
    BY <2>2, <2>3, WordOK DEF InsOK
  <2> QED BY <2>4 DEF At
<1>8. At(i, j) \in Words
  BY <1>3, <1>6 DEF n
<1> QED BY <1>1, <1>2, <1>3, <1>6, <1>7, <1>8 DEF r, n, j

\* An expander's instruction that waited is executed: its place is taken.
LEMMA OwnRan ==
  ASSUME NEW t, NEW T \in Thread, KindsOK(t, T), NEW h \in Hosts, NEW k \in Nat, NEW i \in Words,
         Unfolding(h, k, i, T), Own(T), SimpleOK(T)
  PROVE  /\ Unfolding(h, k, i, RanOne(T)) /\ ~Own(RanOne(T)) /\ SimpleOK(RanOne(T))
         /\ RanOne(T).mop = T.mop
         /\ \E a, b \in Nat :
               /\ Ahead(T, i) = <<a, b>> /\ Fetched(T).id = <<h, k, a, b>>
               /\ Upto(i, Ahead(RanOne(T), i)) = Upto(i, <<a, b>>) \cup {<<a, b>>}
<1> DEFINE U == RanOne(T)
           tok == T.cur[1]
           j == Point(T, i)
           q == IF T.exp.on THEN T.exp.pos ELSE 0
<1>1. T.cur # <<>> /\ FromExpander(tok.id) /\ Fetched(T) = tok /\ ~Idle(T)
  BY DEF Own, Fetched, Idle
<1>2. /\ U \in Thread /\ U.cur = <<>> /\ U.fifo = T.fifo
  <2>1. Popped(T).fifo = T.fifo
    BY <1>1, PoppedThread
  <2> QED BY <1>1, <2>1, RanThread
<1>3. /\ U.buf = T.buf
      /\ U.mop = IF tok.ins.op = MOP THEN Expanding(tok) ELSE T.mop
      /\ U.exp = IF Plays(tok.ins) THEN Playing(tok) ELSE T.exp
  BY <1>1, RanFields
<1>4. /\ j \in 0..LastPlace(i) /\ j \in Nat /\ At(i, j) \in Words
      /\ (j # 0 => At(i, j).op # MOP) /\ T.exp.pos \in Nat
  BY PointPlace
<1>5. /\ tok.id = <<h, k, j, q>>
      /\ IF T.exp.on THEN Simple(tok.ins) ELSE tok.ins = At(i, j)
      /\ Len(T.mop.rest) <= LastPlace(i)
      /\ \A m \in 1..Len(T.mop.rest) : T.mop.rest[m] = Token(<<h, k, j + m, 0>>, At(i, j + m))
      /\ T.exp.on => /\ T.exp.by = <<h, k, j, 0>>
                     /\ Plays(At(i, j)) /\ T.exp.count = At(i, j).count
                     /\ T.exp.pos <= T.exp.count
  BY DEF Unfolding
<1>6. Ahead(T, i) = <<j, q>>
  BY DEF Ahead
<1>7. q \in Nat /\ 0 \in Nat
  <2>1. 0 \in Nat
    BY SMTT(60)
  <2> QED BY <1>4, <2>1
<1>8. ~Own(U)
  BY <1>2 DEF Own
<1>9. SimpleOK(U)
  BY <1>2, <1>3 DEF SimpleOK
<1> HIDE DEF U, tok, j
<1>10. tok.ins.op # MOP
  <2>1. CASE T.exp.on
    BY <1>5, <2>1 DEF Simple
  <2>2. CASE ~T.exp.on
    <3>1. tok.id[3] = j /\ tok.id[4] = 0
      BY <1>5, <2>2, SMTT(60)
    <3>2. j # 0
      BY <1>1, <3>1 DEF FromExpander
    <3> QED BY <1>4, <1>5, <2>2, <3>2
  <2> QED BY <2>1, <2>2
<1>11. U.mop = T.mop
  BY <1>3, <1>10
<1>12. Point(U, i) = j
  BY <1>11 DEF Point, j
<1>13. CASE T.exp.on
  <2>1. U.exp = T.exp
    BY <1>3, <1>5, <1>13 DEF Simple, Plays
  <2>2. Ahead(U, i) = <<j, q + 1>>
    BY <1>8, <1>12, <1>13, <2>1 DEF Ahead
  <2>3. Played(At(i, j)) = T.exp.count /\ q <= Played(At(i, j))
    BY <1>5, <1>13 DEF Played
  <2>5. Unfolding(h, k, i, U)
    BY <1>5, <1>8, <1>11, <1>12, <2>1 DEF Unfolding
  <2> HIDE DEF q
  <2>4. Upto(i, <<j, q + 1>>) = Upto(i, <<j, q>>) \cup {<<j, q>>}
    BY <1>4, <1>7, <2>3, PlacesTaken
  <2> QED BY <1>1, <1>4, <1>5, <1>6, <1>7, <1>8, <1>9, <1>11, <2>2, <2>4, <2>5 DEF U
<1>14. CASE ~T.exp.on
  <2>1. q = 0 /\ tok.ins = At(i, j)
    BY <1>5, <1>14
  <2> HIDE DEF q
  <2>2. Played(At(i, j)) \in Nat
    BY <1>4, PlacesAre
  <2>3. 0 <= Played(At(i, j)) /\ 0 + 1 = 1 /\ 1 \in Nat
    BY <2>2, SMTT(60)
  <2>4. Upto(i, <<j, 1>>) = Upto(i, <<j, 0>>) \cup {<<j, 0>>}
    <3>1. Upto(i, <<j, 0 + 1>>) = Upto(i, <<j, 0>>) \cup {<<j, 0>>}
      BY <1>4, <1>7, <2>3, PlacesTaken
    <3> QED BY <2>3, <3>1
  <2>5. Upto(i, Ahead(U, i)) = Upto(i, <<j, 1>>) /\ Unfolding(h, k, i, U)
    <3>1. CASE Plays(At(i, j))
      <4>1. U.exp = Playing(tok)
        BY <1>3, <2>1, <3>1
      <4>2. /\ Playing(tok).on /\ Playing(tok).pos = 0 /\ Playing(tok).count = At(i, j).count
            /\ Playing(tok).by = <<h, k, j, 0>>
        BY <1>5, <2>1 DEF Playing
      <4>3. Ahead(U, i) = <<j, 0 + 1>>
        BY <1>8, <1>12, <4>1, <4>2 DEF Ahead
      <4>4. 0 <= At(i, j).count
        BY <2>2, <3>1, SMTT(60) DEF Played
      <4>5. Unfolding(h, k, i, U)
        BY <1>5, <1>8, <1>11, <1>12, <3>1, <4>1, <4>2, <4>4 DEF Unfolding
      <4> QED BY <2>3, <4>3, <4>5
    <3>2. CASE ~Plays(At(i, j))
      <4>1. U.exp = T.exp
        BY <1>3, <2>1, <3>2
      <4>2. Ahead(U, i) = <<j + 1, 0>>
        BY <1>8, <1>12, <1>14, <4>1 DEF Ahead
      <4>3. Played(At(i, j)) < 1
        BY <3>2, SMTT(60) DEF Played
      <4>4. Upto(i, <<j, 1>>) = Upto(i, <<j + 1, 0>>)
        BY <1>4, <2>3, <4>3, PlacesTaken
      <4>5. Unfolding(h, k, i, U)
        BY <1>5, <1>8, <1>11, <1>12, <1>14, <4>1 DEF Unfolding
      <4> QED BY <4>2, <4>4, <4>5
    <3> QED BY <3>1, <3>2
  <2> QED BY <1>1, <1>4, <1>5, <1>6, <1>7, <1>8, <1>9, <1>11, <2>1, <2>4, <2>5 DEF U
<1> QED BY <1>13, <1>14

\* drain_replay_expansion takes the next slot: the place that was ahead now waits.
LEMMA ReplaySlot ==
  ASSUME NEW T \in Thread, NEW U, NEW x, NEW h, NEW k, NEW i \in Words, Unfolding(h, k, i, T),
         T.cur = <<>>, T.exp.on, ~(T.exp.pos >= T.exp.count),
         U.mop = T.mop, U.exp = [T.exp EXCEPT !.pos = @ + 1], U.cur = <<x>>,
         x.id = <<T.exp.by[1], T.exp.by[2], T.exp.by[3], T.exp.pos + 1>>, Simple(x.ins)
  PROVE  Unfolding(h, k, i, U) /\ Ahead(U, i) = Ahead(T, i)
<1> DEFINE j == Point(T, i)
           e == T.exp
           q == e.pos
<1>1. e \in Expansions /\ q \in Nat /\ j \in Nat
  BY PointPlace
<1>2. e.count \in Nat
  BY <1>1 DEF Expansions
<1>3. /\ Len(T.mop.rest) <= LastPlace(i)
      /\ \A m \in 1..Len(T.mop.rest) : T.mop.rest[m] = Token(<<h, k, j + m, 0>>, At(i, j + m))
      /\ e.by = <<h, k, j, 0>> /\ Plays(At(i, j)) /\ e.count = At(i, j).count
  BY DEF Unfolding
<1>4. /\ U.exp.on /\ U.exp.by = e.by /\ U.exp.count = e.count /\ U.exp.pos = q + 1
  <2> HIDE DEF e
  <2>1. U.exp = [e EXCEPT !.pos = @ + 1] /\ e.on
    BY DEF e
  <2> QED BY <1>1, <2>1 DEF Expansions
<1>5. U.cur # <<>> /\ U.cur[1] = x
  BY SMTT(60)
<1>6. Point(U, i) = j
  BY DEF Point
<1>7. x.id = <<h, k, j, q + 1>>
  <2>0. x.id = <<e.by[1], e.by[2], e.by[3], q + 1>>
    OBVIOUS
  <2> HIDE DEF e, j, q
  <2>1. e.by[1] = h /\ e.by[2] = k /\ e.by[3] = j
    BY <1>3, SMTT(60)
  <2> QED BY <2>0, <2>1
<1>0. ~(q >= e.count)
  OBVIOUS
<1> HIDE DEF j, e, q
<1>8. q + 1 # 0 /\ q + 1 <= e.count
  BY <1>0, <1>1, <1>2, SMTT(60)
<1>9. x.id[4] = q + 1
  BY <1>7, SMTT(60)
<1>10. Own(U)
  BY <1>5, <1>8, <1>9 DEF Own, FromExpander
<1>11. ~Own(T)
  BY DEF Own
<1>12. Ahead(U, i) = <<j, q + 1>> /\ Ahead(T, i) = <<j, q + 1>>
  BY <1>4, <1>6, <1>10, <1>11 DEF Ahead, j, q, e
<1>13. Unfolding(h, k, i, U)
  BY <1>3, <1>4, <1>5, <1>6, <1>7, <1>8 DEF Unfolding
<1> QED BY <1>12, <1>13

\* It has replayed every slot: what is ahead is the next place of the body.
LEMMA ReplayOver ==
  ASSUME NEW T \in Thread, NEW U, NEW h, NEW k, NEW i \in Words, Unfolding(h, k, i, T),
         T.cur = <<>>, T.exp.on, T.exp.pos >= T.exp.count,
         U.mop = T.mop, U.exp = NoExp, U.cur = T.cur
  PROVE  Unfolding(h, k, i, U) /\ Upto(i, Ahead(U, i)) = Upto(i, Ahead(T, i))
<1> DEFINE j == Point(T, i)
           q == T.exp.pos
<1>1. T.exp \in Expansions /\ q \in Nat /\ j \in 0..LastPlace(i) /\ At(i, j) \in Words
  BY PointPlace
<1>2. /\ Len(T.mop.rest) <= LastPlace(i)
      /\ \A m \in 1..Len(T.mop.rest) : T.mop.rest[m] = Token(<<h, k, j + m, 0>>, At(i, j + m))
      /\ Plays(At(i, j)) /\ T.exp.count = At(i, j).count
  BY DEF Unfolding
<1>3. T.exp.count \in Nat
  BY <1>1 DEF Expansions
<1>4. ~Own(T) /\ ~Own(U) /\ ~U.exp.on /\ Point(U, i) = j
  <2>1. NoExp.on = FALSE
    BY DEF NoExp
  <2> QED BY <2>1 DEF Own, Point
<1>5. Ahead(U, i) = <<j + 1, 0>> /\ Ahead(T, i) = <<j, q + 1>>
  BY <1>4 DEF Ahead
<1>6. Played(At(i, j)) = T.exp.count
  BY <1>2 DEF Played
<1>7. T.exp.count < q + 1 /\ q + 1 \in Nat
  <2>1. q >= T.exp.count
    OBVIOUS
  <2> HIDE DEF q
  <2> QED BY <1>1, <1>3, <2>1, SMTT(60)
<1> HIDE DEF j, q
<1>8. Upto(i, <<j, q + 1>>) = Upto(i, <<j + 1, 0>>)
  <2>1. Played(At(i, j)) < q + 1
    BY <1>6, <1>7
  <2> QED BY <1>1, <1>7, <2>1, PlacesTaken
<1>9. Unfolding(h, k, i, U)
  BY <1>2, <1>4 DEF Unfolding
<1> QED BY <1>5, <1>8, <1>9

\* tensix_cop_mop_expand takes the next instruction of the body.
LEMMA BodyPlace ==
  ASSUME NEW T \in Thread, NEW U, NEW h, NEW k, NEW i \in Words, Unfolding(h, k, i, T),
         T.cur = <<>>, ~T.exp.on, T.mop.rest # <<>>,
         U.mop = [T.mop EXCEPT !.rest = Tail(T.mop.rest)], U.exp = T.exp,
         U.cur = <<Head(T.mop.rest)>>
  PROVE  Unfolding(h, k, i, U) /\ Ahead(U, i) = Ahead(T, i) /\ Own(U)
<1> DEFINE r == T.mop.rest
           j == Point(T, i)
           n == LastPlace(i)
           x == Head(r)
<1>1. r \in Seq(Tokens) /\ j \in Nat /\ n \in Nat /\ Len(r) \in Nat /\ j + Len(r) = n
  BY PointPlace
<1>2. \A m \in 1..Len(r) : r[m] = Token(<<h, k, j + m, 0>>, At(i, j + m))
  BY DEF Unfolding
<1>3. U.mop.rest = Tail(r)
  <2>1. T.mop \in Mops
    BY DEF Thread
  <2> QED BY <2>1 DEF Mops
<1>4. r # <<>> /\ U.cur = <<x>>
  OBVIOUS
<1>5. U.cur # <<>> /\ U.cur[1] = x
  BY <1>4, SMTT(60)
<1>6. Point(U, i) = n - Len(Tail(r))
  BY <1>3 DEF Point
<1> HIDE DEF r, j, n
<1>7. /\ Len(Tail(r)) \in Nat /\ n - Len(Tail(r)) = j + 1 /\ Len(Tail(r)) <= n /\ x = r[1]
      /\ 1 \in 1..Len(r)
      /\ \A m \in 1..Len(Tail(r)) :
            Tail(r)[m] = r[m + 1] /\ m + 1 \in 1..Len(r) /\ j + (m + 1) = (j + 1) + m
  BY <1>1, <1>4, SMTT(60)
<1>8. Point(U, i) = j + 1
  BY <1>6, <1>7
<1>9. x = Token(<<h, k, j + 1, 0>>, At(i, j + 1))
  BY <1>2, <1>7
<1> HIDE DEF x
<1>10. x.id = <<h, k, j + 1, 0>> /\ x.ins = At(i, j + 1)
  BY <1>9 DEF Token
<1>11. \A m \in 1..Len(Tail(r)) :
          Tail(r)[m] = Token(<<h, k, (j + 1) + m, 0>>, At(i, (j + 1) + m))
  BY <1>2, <1>7
<1>12. x.id[3] # 0
  BY <1>1, <1>10, SMTT(60)
<1>13. Own(U) /\ ~Own(T)
  BY <1>5, <1>12 DEF Own, FromExpander
<1>14. Ahead(U, i) = <<j + 1, 0>> /\ Ahead(T, i) = <<j + 1, 0>>
  BY <1>8, <1>13 DEF Ahead, j
<1>15. Unfolding(h, k, i, U)
  BY <1>3, <1>5, <1>7, <1>8, <1>10, <1>11 DEF Unfolding, n
<1> QED BY <1>13, <1>14, <1>15

\* The expanders have nothing left: every place has been taken.
LEMMA AllPlaces ==
  ASSUME NEW T \in Thread, NEW h, NEW k, NEW i \in Words, Unfolding(h, k, i, T),
         T.cur = <<>>, ~T.exp.on, T.mop.rest = <<>>
  PROVE  Upto(i, Ahead(T, i)) = Places(i)
<1> DEFINE n == LastPlace(i)
<1>1. n \in Nat
  BY PointPlace
<1>2. Point(T, i) = n - Len(<<>>) /\ ~Own(T)
  BY DEF Point, Own
<1>3. n - Len(<<>>) = n /\ n \in 0..n /\ 0 \in Nat
  BY <1>1, SMTT(60)
<1>4. Ahead(T, i) = <<n + 1, 0>>
  BY <1>2, <1>3 DEF Ahead
<1> QED BY <1>3, <1>4, PlacesTaken
-----------------------------------------------------------------------------
(* What a step does to a core's row: its thread's state T, its phase ph, what the thread    *)
(* executed d, and the next operation c of its program p.                                   *)

\* The core stays at its operation, and its thread does nothing for it.
LEMMA RowQuiet ==
  ASSUME NEW h \in Hosts, NEW T, NEW U, NEW ph, NEW ph2, NEW d, NEW p, NEW c,
         Once(h, T, ph, d, p, c), SameExpansion(T, U), SimpleOK(U),
         ph2 = "replay" <=> ph = "replay", PhaseFits(ph2, T.mop.active)
  PROVE  Once(h, U, ph2, d, p, c)
<1>1. U.mop = T.mop /\ U.exp = T.exp /\ (Own(U) <=> Own(T))
  BY DEF SameExpansion
<1>2. Inside(U, ph2) <=> Inside(T, ph)
  BY <1>1 DEF Inside
<1>3. \A k, i : /\ Unfolding(h, k, i, T) => Unfolding(h, k, i, U)
                /\ Ahead(U, i) = Ahead(T, i)
  BY SameUnfolding
<1>4. ExpansionOK(h, U, ph2, p, c)
  <2>1. ExpansionOK(h, T, ph, p, c)
    BY DEF Once
  <2> QED BY <1>1, <1>2, <1>3, <2>1 DEF ExpansionOK
<1>5. ASSUME NEW k \in 1..Len(p), p[k].via = "direct"
      PROVE  RanAre(d, h, k, Expected(U, ph2, p, c, k))
  <2>1. Expected(U, ph2, p, c, k) = Expected(T, ph, p, c, k)
    BY <1>2, <1>3 DEF Expected
  <2> QED BY <1>5, <2>1 DEF Once
<1> QED BY <1>1, <1>4, <1>5 DEF Once

\* The thread executes an instruction that is no part of a direct one.
LEMMA RowOther ==
  ASSUME NEW h \in Hosts, NEW T, NEW ph, NEW d \in Seq(Ids), NEW id \in Ids, NEW p, NEW c,
         Once(h, T, ph, d, p, c),
         ~(id[1] = h /\ id[2] \in 1..Len(p) /\ p[id[2]].via = "direct")
  PROVE  Once(h, T, ph, Append(d, id), p, c)
<1>1. ASSUME NEW k \in 1..Len(p), p[k].via = "direct"
      PROVE  RanAre(Append(d, id), h, k, Expected(T, ph, p, c, k))
  <2>1. RanAre(d, h, k, Expected(T, ph, p, c, k))
    BY <1>1 DEF Once
  <2>2. ~(id[1] = h /\ id[2] = k)
    BY <1>1
  <2> QED BY <2>1, <2>2, RanOther
<1> QED BY <1>1 DEF Once

\* The core leaves an operation behind that was no direct instruction.
LEMMA RowPast ==
  ASSUME NEW h \in Hosts, NEW T, NEW U, NEW ph, NEW ph2, NEW d \in Seq(Ids), NEW p, NEW c \in Nat,
         Once(h, T, ph, d, p, c), SameExpansion(T, U), SimpleOK(U),
         c \in 1..Len(p), p[c].via # "direct", ph2 # "replay", PhaseFits(ph2, FALSE)
  PROVE  Once(h, U, ph2, d, p, c + 1)
<1>1. U.mop = T.mop /\ U.exp = T.exp /\ (Own(U) <=> Own(T))
  BY DEF SameExpansion
<1>2. ExpansionOK(h, T, ph, p, c)
  BY DEF Once
<1>3. ~Inside(T, ph) /\ ~T.mop.active
  BY <1>2 DEF ExpansionOK, Inside
<1>4. ~Inside(U, ph2) /\ ~U.mop.active
  BY <1>1, <1>3 DEF Inside
<1>5. ExpansionOK(h, U, ph2, p, c + 1)
  BY <1>1, <1>2, <1>3, <1>4 DEF ExpansionOK
<1>6. PhaseFits(ph2, U.mop.active)
  BY <1>4 DEF PhaseFits
<1>7. ASSUME NEW k \in 1..Len(p), p[k].via = "direct"
      PROVE  RanAre(d, h, k, Expected(U, ph2, p, c + 1, k))
  <2>1. k # c
    BY <1>7
  <2>2. k < c + 1 <=> k < c
    BY <2>1, SMTT(60)
  <2>3. Expected(U, ph2, p, c + 1, k) = Expected(T, ph, p, c, k)
    BY <1>3, <1>4, <2>2 DEF Expected
  <2> QED BY <1>7, <2>3 DEF Once
<1> QED BY <1>5, <1>6, <1>7 DEF Once

\* The thread executes the next instruction of the core's expansion.
LEMMA RowOwn ==
  ASSUME NEW h \in Hosts, NEW T \in Thread, KindsOK(h, T), NEW ph, NEW ph2, NEW d \in Seq(Ids),
         NEW p, NEW c \in Nat, c \in 1..Len(p) => p[c].ins \in Words,
         Once(h, T, ph, d, p, c), Own(T),
         ph2 = "replay" <=> ph = "replay", PhaseFits(ph2, T.mop.active)
  PROVE  Once(h, RanOne(T), ph2, Append(d, Fetched(T).id), p, c)
<1> DEFINE U == RanOne(T)
           i == p[c].ins
           id == Fetched(T).id
<1>1. ExpansionOK(h, T, ph, p, c) /\ SimpleOK(T)
  BY DEF Once
<1>2. Inside(T, ph)
  BY <1>1 DEF ExpansionOK
<1>3. /\ c \in 1..Len(p) /\ p[c].via = "direct" /\ (T.mop.active <=> i.op = MOP)
      /\ Unfolding(h, c, i, T) /\ i \in Words
  BY <1>1, <1>2 DEF ExpansionOK
<1> HIDE DEF i
<1> HIDE DEF U, id
<1>4. /\ Unfolding(h, c, i, U) /\ ~Own(U) /\ SimpleOK(U) /\ U.mop = T.mop
      /\ \E a, b \in Nat :
            /\ Ahead(T, i) = <<a, b>> /\ id = <<h, c, a, b>>
            /\ Upto(i, Ahead(U, i)) = Upto(i, <<a, b>>) \cup {<<a, b>>}
  <2>1. /\ Unfolding(h, c, i, RanOne(T)) /\ ~Own(RanOne(T)) /\ SimpleOK(RanOne(T))
        /\ RanOne(T).mop = T.mop
        /\ \E a, b \in Nat :
              /\ Ahead(T, i) = <<a, b>> /\ Fetched(T).id = <<h, c, a, b>>
              /\ Upto(i, Ahead(RanOne(T), i)) = Upto(i, <<a, b>>) \cup {<<a, b>>}
    BY <1>1, <1>3, OwnRan, SMTT(60)
  <2> QED BY <2>1 DEF U, id
<1>5. Inside(U, ph2)
  BY <1>2, <1>4 DEF Inside
<1>6. ExpansionOK(h, U, ph2, p, c)
  BY <1>1, <1>3, <1>4, <1>5 DEF ExpansionOK, i
<1>7. PICK a \in Nat, b \in Nat :
          /\ Ahead(T, i) = <<a, b>> /\ id = <<h, c, a, b>>
          /\ Upto(i, Ahead(U, i)) = Upto(i, <<a, b>>) \cup {<<a, b>>}
  BY <1>4
<1>8. ASSUME NEW k \in 1..Len(p), p[k].via = "direct"
      PROVE  RanAre(Append(d, id), h, k, Expected(U, ph2, p, c, k))
  <2>1. RanAre(d, h, k, Expected(T, ph, p, c, k))
    BY <1>8 DEF Once
  <2>2. CASE k = c
    <3>1. ~(k < c)
      BY <2>2, SMTT(60)
    <3>2. Expected(T, ph, p, c, k) = Upto(i, <<a, b>>)
      BY <1>2, <1>7, <2>2, <3>1 DEF Expected, i
    <3>3. Expected(U, ph2, p, c, k) = Upto(i, <<a, b>>) \cup {<<a, b>>}
      BY <1>5, <1>7, <2>2, <3>1 DEF Expected, i
    <3>4. \A x \in Upto(i, <<a, b>>) : Before(x, <<a, b>>)
      BY DEF Upto
    <3>5. RanAre(Append(d, <<h, c, a, b>>), h, c, Upto(i, <<a, b>>) \cup {<<a, b>>})
      BY <2>1, <2>2, <3>2, <3>4, RanNext
    <3> QED BY <1>7, <2>2, <3>3, <3>5
  <2>3. CASE k # c
    <3>1. id \in Ids /\ id[2] = c
      BY <1>7, SMTT(60) DEF Ids
    <3>2. Expected(U, ph2, p, c, k) = Expected(T, ph, p, c, k)
      BY <2>3 DEF Expected
    <3>3. ~(id[1] = h /\ id[2] = k)
      BY <2>3, <3>1
    <3> QED BY <2>1, <3>1, <3>2, <3>3, RanOther
  <2> QED BY <2>2, <2>3
<1>9. PhaseFits(ph2, U.mop.active)
  BY <1>4
<1> QED BY <1>4, <1>6, <1>8, <1>9 DEF Once, U, id

\* An expander moves on within the expansion.
LEMMA RowInside ==
  ASSUME NEW h \in Hosts, NEW T, NEW U, NEW ph, NEW d, NEW p, NEW c,
         Once(h, T, ph, d, p, c), Inside(T, ph), SimpleOK(U),
         U.mop.active <=> T.mop.active, ~U.mop.active => U.mop.rest = <<>>,
         Unfolding(h, c, p[c].ins, U),
         Upto(p[c].ins, Ahead(U, p[c].ins)) = Upto(p[c].ins, Ahead(T, p[c].ins))
  PROVE  Once(h, U, ph, d, p, c)
<1>1. ExpansionOK(h, T, ph, p, c) /\ PhaseFits(ph, T.mop.active)
  BY DEF Once
<1>2. Inside(U, ph)
  BY DEF Inside
<1>3. ExpansionOK(h, U, ph, p, c)
  BY <1>1, <1>2 DEF ExpansionOK
<1>4. PhaseFits(ph, U.mop.active)
  BY <1>1 DEF PhaseFits
<1>5. ASSUME NEW k \in 1..Len(p), p[k].via = "direct"
      PROVE  RanAre(d, h, k, Expected(U, ph, p, c, k))
  <2>1. Expected(U, ph, p, c, k) = Expected(T, ph, p, c, k)
    BY <1>2 DEF Expected
  <2> QED BY <1>5, <2>1 DEF Once
<1> QED BY <1>3, <1>4, <1>5 DEF Once

\* The core is done with a direct instruction, and all its places have been taken.
LEMMA RowDone ==
  ASSUME NEW h \in Hosts, NEW T, NEW U, NEW ph, NEW d, NEW e, NEW p, NEW c \in Nat,
         Once(h, T, ph, d, p, c), SimpleOK(U),
         ~U.mop.active, U.mop.rest = <<>>, ~U.exp.on, ~Own(U),
         RanAre(e, h, c, Places(p[c].ins)),
         \A k \in 1..Len(p) : \A S : k # c /\ RanAre(d, h, k, S) => RanAre(e, h, k, S)
  PROVE  Once(h, U, "post", e, p, c + 1)
<1>1. ~Inside(U, "post")
  BY DEF Inside
<1>2. ExpansionOK(h, U, "post", p, c + 1)
  BY <1>1 DEF ExpansionOK
<1>3. PhaseFits("post", U.mop.active)
  BY DEF PhaseFits
<1>4. ASSUME NEW k \in 1..Len(p), p[k].via = "direct"
      PROVE  RanAre(e, h, k, Expected(U, "post", p, c + 1, k))
  <2>1. CASE k = c
    <3>1. k < c + 1
      BY <2>1, SMTT(60)
    <3> QED BY <2>1, <3>1 DEF Expected
  <2>2. CASE k # c
    <3>1. k < c + 1 <=> k < c
      BY <2>2, SMTT(60)
    <3>2. Expected(U, "post", p, c + 1, k) = Expected(T, ph, p, c, k)
      BY <1>1, <2>2, <3>1 DEF Expected
    <3> QED BY <1>4, <2>2, <3>2 DEF Once
  <2> QED BY <2>1, <2>2
<1> QED BY <1>2, <1>3, <1>4 DEF Once

\* The expansion is at its end.
LEMMA RowEnd ==
  ASSUME NEW h \in Hosts, NEW T \in Thread, NEW U, NEW ph, NEW d, NEW p, NEW c \in Nat,
         p[c].ins \in Words, Once(h, T, ph, d, p, c), Inside(T, ph),
         T.cur = <<>>, ~T.exp.on, T.mop.rest = <<>>, SimpleOK(U),
         ~U.mop.active, U.mop.rest = <<>>, U.exp = T.exp, U.cur = T.cur
  PROVE  Once(h, U, "post", d, p, c + 1)
<1> DEFINE i == p[c].ins
<1>1. ExpansionOK(h, T, ph, p, c)
  BY DEF Once
<1>2. c \in 1..Len(p) /\ p[c].via = "direct" /\ Unfolding(h, c, i, T)
  BY <1>1 DEF ExpansionOK
<1>3. Upto(i, Ahead(T, i)) = Places(i)
  BY <1>2, AllPlaces
<1>4. ~(c < c)
  BY SMTT(60)
<1>5. RanAre(d, h, c, Places(i))
  BY <1>2, <1>3, <1>4 DEF Once, Expected
<1>6. ~Own(U)
  BY DEF Own
<1> QED BY <1>5, <1>6, RowDone

\* The core's direct instruction itself is executed (or recorded).
LEMMA DirectRuns ==
  ASSUME NEW h \in Hosts, NEW T, NEW ph, NEW d \in Seq(Ids), NEW p, NEW c \in Nat,
         Once(h, T, ph, d, p, c), ~Inside(T, ph), c \in 1..Len(p), p[c].via = "direct"
  PROVE  /\ RanAre(Append(d, <<h, c, 0, 0>>), h, c, {<<0, 0>>})
         /\ \A k \in 1..Len(p) : \A S :
               k # c /\ RanAre(d, h, k, S) => RanAre(Append(d, <<h, c, 0, 0>>), h, k, S)
<1>1. ~(c < c) /\ 0 \in Nat
  BY SMTT(60)
<1>2. RanAre(d, h, c, {})
  BY <1>1 DEF Once, Expected
<1>3. RanAre(Append(d, <<h, c, 0, 0>>), h, c, {} \cup {<<0, 0>>})
  BY <1>1, <1>2, RanNext
<1> DEFINE id == <<h, c, 0, 0>>
<1>4. id \in Ids /\ id[2] = c
  BY SMTT(60) DEF Ids
<1> HIDE DEF id
<1>5. ASSUME NEW k \in 1..Len(p), NEW S, k # c, RanAre(d, h, k, S)
      PROVE  RanAre(Append(d, id), h, k, S)
  BY <1>4, <1>5, RanOther
<1>6. {} \cup {<<0, 0>>} = {<<0, 0>>}
  OBVIOUS
<1> QED BY <1>3, <1>5, <1>6 DEF id

\* It has no expansion.
LEMMA RowRan ==
  ASSUME NEW h \in Hosts, NEW T, NEW U, NEW ph, NEW d \in Seq(Ids), NEW p, NEW c \in Nat,
         Once(h, T, ph, d, p, c), ~Inside(T, ph), c \in 1..Len(p), p[c].via = "direct",
         p[c].ins \in Words, p[c].ins.op # MOP, ~Plays(p[c].ins),
         SameExpansion(T, U), SimpleOK(U)
  PROVE  Once(h, U, "post", Append(d, <<h, c, 0, 0>>), p, c + 1)
<1> DEFINE i == p[c].ins
           e == Append(d, <<h, c, 0, 0>>)
<1>1. ExpansionOK(h, T, ph, p, c)
  BY DEF Once
<1>2. ~T.mop.active /\ T.mop.rest = <<>> /\ ~T.exp.on /\ ~Own(T)
  BY <1>1 DEF ExpansionOK, Inside
<1>3. ~U.mop.active /\ U.mop.rest = <<>> /\ ~U.exp.on /\ ~Own(U)
  BY <1>2 DEF SameExpansion
<1>4. Places(i) = {<<0, 0>>}
  <2>1. ReplayPlaces(i) = {0}
    BY DEF ReplayPlaces, Plays
  <2>2. Places(i) = {0} \X {0}
    BY <2>1 DEF Places
  <2> HIDE DEF i
  <2> QED BY <2>2, SMTT(60)
<1>5. /\ RanAre(e, h, c, {<<0, 0>>})
      /\ \A k \in 1..Len(p) : \A S : k # c /\ RanAre(d, h, k, S) => RanAre(e, h, k, S)
  BY DirectRuns
<1> HIDE DEF e
<1> QED BY <1>3, <1>4, <1>5, RowDone DEF e

\* It starts an expander: nothing but its own place has been taken.
LEMMA RowStarts ==
  ASSUME NEW h \in Hosts, NEW T, NEW U \in Thread, NEW ph, NEW ph2, NEW d \in Seq(Ids), NEW p,
         NEW c \in Nat,
         Once(h, T, ph, d, p, c), ~Inside(T, ph), c \in 1..Len(p), p[c].via = "direct",
         p[c].ins \in Words, SimpleOK(U), PhaseFits(ph2, U.mop.active), Inside(U, ph2),
         ~U.mop.active => U.mop.rest = <<>>, U.mop.active <=> p[c].ins.op = MOP,
         Unfolding(h, c, p[c].ins, U), Upto(p[c].ins, Ahead(U, p[c].ins)) = {<<0, 0>>}
  PROVE  Once(h, U, ph2, Append(d, <<h, c, 0, 0>>), p, c)
<1> DEFINE i == p[c].ins
           e == Append(d, <<h, c, 0, 0>>)
<1>1. ExpansionOK(h, U, ph2, p, c)
  BY DEF ExpansionOK
<1>2. /\ RanAre(e, h, c, {<<0, 0>>})
      /\ \A k \in 1..Len(p) : \A S : k # c /\ RanAre(d, h, k, S) => RanAre(e, h, k, S)
  BY DirectRuns
<1> HIDE DEF e
<1>3. ASSUME NEW k \in 1..Len(p), p[k].via = "direct"
      PROVE  RanAre(e, h, k, Expected(U, ph2, p, c, k))
  <2>1. CASE k = c
    <3>1. ~(k < c)
      BY <2>1, SMTT(60)
    <3>2. Expected(U, ph2, p, c, k) = {<<0, 0>>}
      BY <2>1, <3>1 DEF Expected
    <3> QED BY <1>2, <2>1, <3>2
  <2>2. CASE k # c
    <3>1. Expected(U, ph2, p, c, k) = Expected(T, ph, p, c, k)
      BY <2>2 DEF Expected
    <3>2. RanAre(d, h, k, Expected(T, ph, p, c, k))
      BY <1>3 DEF Once
    <3> QED BY <1>2, <2>2, <3>1, <3>2
  <2> QED BY <2>1, <2>2
<1> QED BY <1>1, <1>3 DEF Once, e

\* A MOP, and a REPLAY in replay mode, when executed: the first place is taken and no other.
LEMMA FirstPlace ==
  ASSUME NEW i \in Words
  PROVE  /\ Upto(i, <<0, 1>>) = {<<0, 0>>}
         /\ i.op = MOP => Upto(i, <<1, 0>>) = {<<0, 0>>}
<1>1. LastPlace(i) \in Nat /\ \A j \in 0..LastPlace(i) : Played(At(i, j)) \in Nat
  BY PlacesAre
<1>2. 0 \in 0..LastPlace(i) /\ 0 + 1 = 1 /\ 0 \in Nat /\ 1 \in Nat
  BY <1>1, SMTT(60)
<1>3. At(i, 0) = i
  BY DEF At
<1>4. Played(i) \in Nat
  BY <1>1, <1>2, <1>3
<1>5. 0 <= Played(i) /\ 0 < 1
  BY <1>4, SMTT(60)
<1>6. 0 <= Played(At(i, 0))
  BY <1>3, <1>5
<1>7. Upto(i, <<0, 0 + 1>>) = Upto(i, <<0, 0>>) \cup {<<0, 0>>} /\ Upto(i, <<0, 0>>) = {}
  BY <1>2, <1>6, PlacesTaken
<1>8. Upto(i, <<0, 1>>) = {<<0, 0>>}
  BY <1>2, <1>7
<1>9. ASSUME i.op = MOP PROVE Upto(i, <<1, 0>>) = {<<0, 0>>}
  <2>1. MOP # "REPLAY"
    BY SMTT(60) DEF MOP
  <2>2. Played(At(i, 0)) < 1
    BY <1>3, <1>5, <1>9, <2>1 DEF Played, Plays
  <2>3. Upto(i, <<0, 1>>) = Upto(i, <<0 + 1, 0>>)
    BY <1>2, <2>2, PlacesTaken
  <2> QED BY <1>2, <1>8, <2>3
<1> QED BY <1>8, <1>9

\* ttmop: the expander is at the MOP itself.
LEMMA MopUnfolds ==
  ASSUME NEW U, NEW tok, NEW h, NEW k, NEW i \in Words, i.op = MOP,
         tok.ins = i, tok.id = <<h, k, 0, 0>>,
         U.mop = Expanding(tok), U.cur = <<>>, ~U.exp.on
  PROVE  /\ Unfolding(h, k, i, U) /\ Upto(i, Ahead(U, i)) = {<<0, 0>>}
         /\ U.mop.active /\ ~Own(U)
<1> DEFINE b == i.body
           R == [j \in 1..Len(tok.ins.body) |->
                   Token(<<tok.id[1], tok.id[2], j, 0>>, tok.ins.body[j])]
<1>1. b \in Seq(Words)
  BY WordOK DEF InsOK
<1>2. tok.id[1] = h /\ tok.id[2] = k
  BY SMTT(60)
<1>3. U.mop.active /\ U.mop.rest = R
  <2>1. Expanding(tok).active /\ Expanding(tok).rest = R
    BY DEF Expanding
  <2> HIDE DEF R
  <2> QED BY <2>1
<1>4. LastPlace(i) = Len(b) /\ \A j : j # 0 => At(i, j) = b[j]
  BY DEF LastPlace, At
<1>6. DOMAIN R = 1..Len(b) /\ \A j \in 1..Len(b) : R[j] = Token(<<h, k, j, 0>>, b[j])
  <2>1. /\ DOMAIN R = 1..Len(tok.ins.body)
        /\ \A j \in 1..Len(tok.ins.body) :
              R[j] = Token(<<tok.id[1], tok.id[2], j, 0>>, tok.ins.body[j])
    OBVIOUS
  <2> HIDE DEF R
  <2> QED BY <1>2, <2>1
<1> HIDE DEF b
<1>5. Len(b) \in Nat
  BY <1>1, SMTT(60)
<1> HIDE DEF R
<1>7. Len(R) = Len(b)
  BY <1>5, <1>6, SMTT(60)
<1>8. Len(b) - Len(b) = 0 /\ Len(b) <= Len(b) /\ 0 + 1 = 1
  BY <1>5, SMTT(60)
<1>9. Point(U, i) = 0
  BY <1>3, <1>4, <1>7, <1>8 DEF Point
<1>10. ~Own(U)
  BY DEF Own
<1>11. \A m \in 1..Len(b) : m # 0 /\ 0 + m = m
  BY <1>5, SMTT(60)
<1>12. \A m \in 1..Len(R) : R[m] = Token(<<h, k, 0 + m, 0>>, At(i, 0 + m))
  BY <1>4, <1>6, <1>7, <1>11
<1>13. Unfolding(h, k, i, U)
  BY <1>3, <1>4, <1>7, <1>8, <1>9, <1>10, <1>12 DEF Unfolding
<1>14. Ahead(U, i) = <<1, 0>>
  BY <1>8, <1>9, <1>10 DEF Ahead
<1> QED BY <1>3, <1>10, <1>13, <1>14, FirstPlace

\* ttreplay: the replay unit is at the REPLAY itself.
LEMMA ReplayUnfolds ==
  ASSUME NEW U, NEW tok, NEW h, NEW k, NEW i \in Words, Plays(i),
         tok.ins = i, tok.id = <<h, k, 0, 0>>,
         U.exp = Playing(tok), U.mop.rest = <<>>, ~Own(U)
  PROVE  Unfolding(h, k, i, U) /\ Upto(i, Ahead(U, i)) = {<<0, 0>>} /\ U.exp.on
<1>1. i.op # MOP
  <2>1. MOP # "REPLAY"
    BY SMTT(60) DEF MOP
  <2> QED BY <2>1 DEF Plays
<1>2. i.count \in Nat
  BY WordOK DEF InsOK, Plays
<1>3. LastPlace(i) = 0 /\ At(i, 0) = i
  BY <1>1 DEF LastPlace, At
<1>4. 0 - Len(<<>>) = 0 /\ Len(<<>>) <= 0 /\ 0 + 1 = 1 /\ ~(\E m \in 1..Len(<<>>) : TRUE)
  <2>1. Len(<<>>) = 0 /\ 0 - 0 = 0 /\ 0 <= 0 /\ 0 + 1 = 1 /\ ~(\E m \in 1..0 : TRUE)
    BY SMTT(60)
  <2> QED BY <2>1
<1>5. Point(U, i) = 0
  BY <1>3, <1>4 DEF Point
<1>6. /\ U.exp.on /\ U.exp.pos = 0 /\ U.exp.count = i.count /\ U.exp.by = <<h, k, 0, 0>>
  <2>1. /\ Playing(tok).on /\ Playing(tok).pos = 0 /\ Playing(tok).count = tok.ins.count
        /\ Playing(tok).by = tok.id
    BY DEF Playing
  <2> QED BY <2>1
<1>7. 0 <= i.count
  BY <1>2, SMTT(60)
<1>8. Unfolding(h, k, i, U)
  BY <1>3, <1>4, <1>5, <1>6, <1>7 DEF Unfolding
<1>9. Ahead(U, i) = <<0, 1>>
  BY <1>4, <1>5, <1>6 DEF Ahead
<1> QED BY <1>6, <1>8, <1>9, FirstPlace

\* The order of the places is transitive.
LEMMA BeforeBefore ==
  ASSUME NEW i \in Words, NEW x \in Places(i), NEW y \in Places(i), NEW a,
         a[1] \in Nat, a[2] \in Nat, Before(x, y), Before(y, a)
  PROVE  Before(x, a)
<1>1. LastPlace(i) \in Nat /\ \A j \in 0..LastPlace(i) : Played(At(i, j)) \in Nat
  BY PlacesAre
<1>2. x = <<x[1], x[2]>> /\ y = <<y[1], y[2]>>
  BY PlacesAre
<1>3. <<x[1], x[2]>> \in Places(i) /\ <<y[1], y[2]>> \in Places(i)
  BY <1>2
<1>4. /\ x[1] \in 0..LastPlace(i) /\ x[2] \in 0..Played(At(i, x[1]))
      /\ y[1] \in 0..LastPlace(i) /\ y[2] \in 0..Played(At(i, y[1]))
  BY <1>3, PlacesAre
<1>5. x[1] \in Nat /\ x[2] \in Nat /\ y[1] \in Nat /\ y[2] \in Nat
  <2>1. \A n : \A m \in 0..n : m \in Nat
    BY SMTT(60)
  <2> QED BY <1>4, <2>1
<1> QED BY <1>5, SMTT(60) DEF Before

\* Types of a row.
LEMMA RowType ==
  ASSUME CopInv, NEW u \in Threads
  PROVE  /\ u \in Hosts /\ th[u] \in Thread /\ KindsOK(u, th[u]) /\ done[u] \in Seq(Ids)
         /\ pc[u] \in Nat /\ Len(prog[u]) \in Nat
         /\ pc[u] \in 1..Len(prog[u]) => prog[u][pc[u]].ins \in Words
         /\ pc \in [Hosts -> Nat] /\ phase \in [Hosts -> CopPhases]
<1>1. u \in Hosts
  BY ThreadsAssumption
<1>2. /\ th[u] \in Thread /\ KindsOK(u, th[u]) /\ done[u] \in Seq(Ids)
      /\ pc[u] \in Nat /\ pc \in [Hosts -> Nat] /\ phase \in [Hosts -> CopPhases]
      /\ prog \in Programs
  BY <1>1 DEF CopInv
<1>3. prog[u] \in Seq(Operations)
  BY <1>1, <1>2, ProgramsAssumption
<1>4. Len(prog[u]) \in Nat /\ (pc[u] \in 1..Len(prog[u]) => prog[u][pc[u]] \in Operations)
  BY <1>2, <1>3, SMTT(60)
<1>5. \A o \in Operations : o.ins \in Words
  BY DEF Words
<1> QED BY <1>1, <1>2, <1>4, <1>5

\* tensix_cop_step returned false: the thread is as it was, or keeps the instruction.
LEMMA StepFalseKeeps ==
  ASSUME NEW t, th[t] \in Thread, StepFalse(t)
  PROVE  \/ th' = th
         \/ ~Idle(th[t]) /\ \E g \in Gates : th' = [th EXCEPT ![t] = KeptOne(th[t], g)]
<1> DEFINE T == th[t]
           tok == Fetched(T)
           h == GateBehind(T.gate, tok.ins)
<1>1. CASE ~Idle(T) /\ th' = [th EXCEPT ![t] = [Popped(T) EXCEPT !.cur = <<tok>>]]
  <2>1. Popped(T) \in Thread /\ Popped(T).gate = T.gate /\ T.gate \in Gates
    BY <1>1, PoppedThread DEF Thread
  <2>2. [Popped(T) EXCEPT !.cur = <<tok>>] = KeptOne(T, T.gate)
    BY <2>1, KeptSame DEF KeptOne
  <2> QED BY <1>1, <2>1, <2>2
<1>2. CASE /\ ~Idle(T)
           /\ th' = [th EXCEPT ![t] = [Popped(T) EXCEPT !.cur = <<tok>>,
                                         !.gate = GateBehind(@, tok.ins)]]
  <2>1. Popped(T).gate = T.gate /\ T.gate \in Gates /\ tok.ins \in Words
    BY <1>2, PoppedThread DEF Thread, Tokens
  <2>2. h \in Gates
    BY <2>1, GateType
  <2>3. [Popped(T) EXCEPT !.cur = <<tok>>, !.gate = GateBehind(@, tok.ins)] = KeptOne(T, h)
    BY <2>1, SMTT(60) DEF KeptOne
  <2> QED BY <1>2, <2>2, <2>3
<1> QED BY <1>1, <1>2 DEF StepFalse
=============================================================================
