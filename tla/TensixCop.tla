----------------------------- MODULE TensixCop -----------------------------
(***************************************************************************)
(* The front end of the Tensix coprocessor (tensix_cop.c) driven by the    *)
(* RISC-V cores (emulate.c: do_ttinsn, rv_step).                           *)
(*                                                                         *)
(* Each of the three threads has an instruction FIFO, one instruction that *)
(* was taken up and had to wait (cur), a wait gate, a MOP expander and a   *)
(* replay unit.  A core reaches its thread in two ways: it pushes an       *)
(* instruction into the FIFO (a store to INSTRN_BUF) or it issues it       *)
(* directly (a Tensix word in its own instruction stream), and retries a   *)
(* direct instruction until the coprocessor reports it completed.          *)
(*                                                                         *)
(* The cores are coroutines: they yield between blocks only.  A call of    *)
(* tensix_cop_step_direct is a run of steps, each of them one call of      *)
(* tensix_cop_step, in which no other core moves (see Alone).              *)
(***************************************************************************)
EXTENDS SrcBanks, SyncUnit, FiniteSets

CONSTANTS
    Threads,     \* the coprocessor threads, 0, 1 and 2, and the TRISCs driving them
    Hosts,       \* the cores with a program: Threads and possibly BRISC
    Programs,    \* the programs the cores may run: a set of [Hosts -> Seq(operation)]
    FifoSize,    \* TENSIX_FIFO_SIZE
    ReplaySize   \* slots of the replay buffer (32 in the code)

VARIABLES
    prog,     \* the operations each core carries out
    pc,       \* the index of a core's next operation
    phase,    \* where in step_direct or in the push loop a core is
    retry,    \* the core's direct instruction was reported blocked
    th,       \* the coprocessor's state, per thread
    done,     \* history: what a thread executed or recorded, in order
    pushed,   \* history: what was pushed into a thread's FIFO, in order
    aborted   \* the assertion in the push loop failed

hostVars == <<prog, pc, phase, retry>>
copVars == <<hostVars, th, done, pushed, aborted, bankVars, syncVars>>

MATH == 1    \* the thread of the matrix unit
BRISC == 3   \* the core that may push to every thread (core_id -1 in the code)
MOP == "MOP"
WaitOps == {"STALLWAIT", "SEMWAIT", "STREAMWAIT"}

ASSUME SizesAssumption == FifoSize \in Nat \ {0} /\ ReplaySize \in Nat \ {0}
ASSUME ThreadsAssumption == Threads \subseteq {0, 1, 2} \cap Hosts

(***************************************************************************)
(* An operation of a program is [via, to, ins]: the instruction ins goes   *)
(* "direct" or by "push" to thread to; or via is "mmio", a store to a      *)
(* semaphore.  In the FIFO and the expanders an instruction carries the    *)
(* core, the operation, the place in the MOP's expansion (0: not from a    *)
(* MOP) and the place in the replay (0: not replayed) that it came from.   *)
(***************************************************************************)
Operations == UNION {{p[h][k] : k \in DOMAIN p[h]} : p \in Programs, h \in Hosts}
NOP == [op |-> "NOP"]

\* The instructions that can come to be in a thread.
Words ==
    {NOP} \cup {o.ins : o \in Operations}
          \cup UNION {{o.ins.body[j] : j \in DOMAIN o.ins.body} : o \in {q \in Operations : q.ins.op = MOP}}

\* What the fields of an instruction word can say.
InsOK(i) ==
    /\ i.op = "UNPACR" => i.src \in Srcs /\ i.tile \in Content
    /\ i.op \in {"SETDVALID", "ELW", "SETRWC"} => i.flip \subseteq Srcs
    /\ i.op = "SEMINIT" => i.init \in 0..SemCap /\ i.max \in 0..SemCap
    /\ i.op \in WaitOps => i.block \subseteq 0..8
    /\ i.op = "REPLAY" => i.load \in BOOLEAN /\ i.ewl \in BOOLEAN /\ i.start \in Nat /\ i.count \in Nat
    /\ i.op = MOP => i.body \in Seq(Words) /\ \A j \in 1..Len(i.body) : i.body[j].op # MOP

ASSUME ProgramsAssumption == Programs \subseteq [Hosts -> Seq(Operations)]
ASSUME WordsAssumption == \A i \in Words : InsOK(i)
ASSUME OperationsAssumption ==
    /\ \A o \in Operations :
          /\ o.via \in {"direct", "push", "mmio"}
          /\ o.via = "push" => o.to \in Threads
          /\ o.via = "mmio" /\ o.ins.op = "write" => o.ins.value \in 0..SemCap
    /\ \A p \in Programs, h \in Hosts : \A k \in 1..Len(p[h]) :
          p[h][k].via = "direct" => h \in Threads

Token(id, i) == [id |-> id, ins |-> i]
Op(h) == prog[h][pc[h]]
Via(id) == prog[id[1]][id[2]].via

NoGate == [op |-> "none"]
NoExp == [on |-> FALSE, start |-> 0, count |-> 0, pos |-> 0, by |-> <<>>]

FreshThread == [fifo |-> <<>>, cur |-> <<>>, gate |-> NoGate,
                mop |-> [active |-> FALSE, rest |-> <<>>],
                rec |-> [left |-> 0, index |-> 0, ewl |-> FALSE],
                exp |-> NoExp, buf |-> [n \in 0..(ReplaySize - 1) |-> NOP]]

CopInit ==
    /\ BanksInit
    /\ SyncInit
    /\ prog \in Programs
    /\ pc = [h \in Hosts |-> 1]
    /\ phase = [h \in Hosts |-> "ready"]
    /\ retry = [h \in Hosts |-> FALSE]
    /\ th = [t \in Threads |-> FreshThread]
    /\ done = [t \in Threads |-> <<>>]
    /\ pushed = [t \in Threads |-> <<>>]
    /\ aborted = FALSE
-----------------------------------------------------------------------------
(* The wait gate. *)

\* Faulty form, for comparison: wait instructions are in no class.
BlockBitsNoWait(op) ==
    CASE op \in {"SETDVALID", "SETADC"} -> {0}
      [] op \in {"SEMINIT", "SEMPOST", "SEMGET", "ATGETM", "ATRELM"} -> {1}
      [] op = "PACR" -> {0, 2}
      [] op = "UNPACR" -> {0, 3}
      [] op = "SETDMAREG" -> {0, 5}
      [] op \in {"ELW", "SETRWC"} -> {6}
      [] op = "WRCFG" -> {7}
      [] OTHER -> {}

\* insn_get_block_bits: the classes of instructions a block mask selects from.
BlockBits(op) ==
    CASE op \in {"SETDVALID", "SETADC"} -> {0}
      [] op \in {"SEMINIT", "SEMPOST", "SEMGET", "ATGETM", "ATRELM"} -> {1}
      [] op = "PACR" -> {0, 2}
      [] op = "UNPACR" -> {0, 3}
      [] op = "SETDMAREG" -> {0, 5}
      [] op \in {"ELW", "SETRWC"} -> {6}
      [] op = "WRCFG" -> {7}
      [] op \in WaitOps -> 0..8
      [] OTHER -> {}

\* wait_gate_latch, with the defaults for empty masks.
Latch(i) ==
    LET block == IF i.block = {} THEN {6} ELSE i.block
    IN  IF i.op = "STALLWAIT" \/ (i.op = "SEMWAIT" /\ i.cond = {})
        THEN [op |-> "STALLWAIT", block |-> block, sems |-> {},
              cond |-> IF i.cond = {} THEN 0..3 ELSE i.cond]
        ELSE [op |-> i.op, block |-> block, sems |-> i.sems, cond |-> i.cond]

\* wait_gate_check.
GateOpen(g) ==
    CASE g.op = "STALLWAIT" ->
            /\ 5 \in g.cond => UnpackerOwns(src["A"])
            /\ 6 \in g.cond => UnpackerOwns(src["B"])
            /\ 7 \in g.cond => MatrixOwns(src["A"])
            /\ 8 \in g.cond => MatrixOwns(src["B"])
      [] g.op = "SEMWAIT" -> SemsOpen(g.cond, g.sems)
      [] OTHER -> TRUE

Matches(g, i) ==
    /\ g # NoGate
    /\ \/ BlockBits(i.op) \cap g.block # {}
       \/ i.op = "NOP" /\ g.block = 0..8

Passes(g, i) == Matches(g, i) => GateOpen(g)
GateBehind(g, i) == IF Matches(g, i) THEN NoGate ELSE g
-----------------------------------------------------------------------------
(* Instructions. *)

\* The auto-wait on dvalid, and the instruction's own early return.
Ready(i) ==
    CASE i.op = "UNPACR" -> UnpacrReady(i.src)
      [] i.op = "ELW" -> BothOwned
      [] i.op = "SETRWC" -> SetrwcReady(i.flip)
      [] i.op = "PACR" -> dest_dvalid
      [] OTHER -> TRUE

\* What tensix_cop_execute_insn does outside the thread.
Execute(t, i) ==
    \/ /\ i.op = "UNPACR"
       /\ Unpacr(i.src, i.tile, TRUE)
       /\ UNCHANGED syncVars
    \/ /\ i.op = "SETDVALID"
       /\ Setdvalid(i.flip)
       /\ UNCHANGED syncVars
    \/ /\ i.op = "ELW"
       /\ Elw(i.flip)
       /\ UNCHANGED syncVars
    \/ /\ i.op = "SETRWC"
       /\ Setrwc(i.flip)
       /\ UNCHANGED syncVars
    \/ /\ i.op = "SEMINIT"
       /\ Seminit(i.sems, i.max, i.init)
       /\ UNCHANGED bankVars
    \/ /\ i.op = "SEMPOST"
       /\ Sempost(i.sems)
       /\ IF t = MATH THEN SempostByMath ELSE UNCHANGED bankVars
    \/ /\ i.op = "SEMGET"
       /\ Semget(i.sems)
       /\ UNCHANGED bankVars
    \/ /\ i.op = "ATGETM"
       /\ Atgetm(t, i.mutex)
       /\ UNCHANGED bankVars
    \/ /\ i.op = "ATRELM"
       /\ Atrelm(t, i.mutex)
       /\ UNCHANGED bankVars
    \/ /\ i.op \in {"NOP", "PACR", "SETADC", "SETDMAREG", "WRCFG", "REPLAY", "MOP_CFG",
                   MOP} \cup WaitOps
       /\ UNCHANGED <<bankVars, syncVars>>

\* ttmop and tensix_cop_mop_expand: the expansion of a MOP is its body, produced
\* one instruction at a time; an instruction that was waiting is forgotten.
MopExpand(T, tok) ==
    [T EXCEPT !.mop = [active |-> TRUE,
                       rest |-> [j \in 1..Len(tok.ins.body) |->
                                   Token(<<tok.id[1], tok.id[2], j, 0>>, tok.ins.body[j])]],
              !.cur = <<>>]

\* ttreplay, in load mode and in replay mode.
SetReplay(T, tok) ==
    IF tok.ins.load
    THEN [T EXCEPT !.rec = [left |-> tok.ins.count, index |-> tok.ins.start,
                            ewl |-> tok.ins.ewl]]
    ELSE [T EXCEPT !.exp = [on |-> TRUE, start |-> tok.ins.start, count |-> tok.ins.count,
                            pos |-> 0, by |-> tok.id]]

\* What executing an instruction does to the thread itself.
ThreadAfter(T, tok) ==
    CASE tok.ins.op = MOP -> MopExpand(T, tok)
      [] tok.ins.op = "REPLAY" -> SetReplay(T, tok)
      [] OTHER -> T

LatchIfWait(T, tok) ==
    IF tok.ins.op \in WaitOps THEN [T EXCEPT !.gate = Latch(tok.ins)] ELSE ThreadAfter(T, tok)
-----------------------------------------------------------------------------
(* One call of tensix_cop_step(t). *)

Idle(T) == T.cur = <<>> /\ T.fifo = <<>>
\* Faulty form, for comparison: the FIFO before the instruction that waits.
FetchedNewest(T) == IF T.fifo # <<>> THEN Head(T.fifo) ELSE T.cur[1]

Fetched(T) == IF T.cur # <<>> THEN T.cur[1] ELSE Head(T.fifo)
Popped(T) == IF T.cur # <<>> THEN [T EXCEPT !.cur = <<>>] ELSE [T EXCEPT !.fifo = Tail(@)]

\* It returns true: the instruction passed the gate and was executed.
StepTrue(t) ==
    /\ ~Idle(th[t])
    /\ LET T == th[t]
           tok == Fetched(T)
       IN  /\ Passes(T.gate, tok.ins)
           /\ Ready(tok.ins)
           /\ th' = [th EXCEPT ![t] =
                LatchIfWait([Popped(T) EXCEPT !.gate = GateBehind(@, tok.ins)], tok)]
           /\ Execute(t, tok.ins)
           /\ done' = [done EXCEPT ![t] = Append(@, tok.id)]

\* It returns false: nothing to do, or the instruction is kept in cur.
StepFalse(t) ==
    /\ UNCHANGED <<done, bankVars, syncVars>>
    /\ LET T == th[t]
           tok == Fetched(T)
       IN  \/ Idle(T) /\ UNCHANGED th
           \/ /\ ~Idle(T)
              /\ ~Passes(T.gate, tok.ins)
              /\ th' = [th EXCEPT ![t] = [Popped(T) EXCEPT !.cur = <<tok>>]]
           \/ /\ ~Idle(T)
              /\ Passes(T.gate, tok.ins)
              /\ ~Ready(tok.ins)
              /\ th' = [th EXCEPT ![t] = [Popped(T) EXCEPT !.cur = <<tok>>,
                                            !.gate = GateBehind(@, tok.ins)]]
-----------------------------------------------------------------------------
(* A core.  While one is inside a call, no other core moves. *)

Alone(h) == \A g \in Hosts \ {h} : phase[g] = "ready"
HasOp(h, via) == pc[h] <= Len(prog[h]) /\ Op(h).via = via

Enter(h, ph) == phase' = [phase EXCEPT ![h] = ph]

\* step_direct returned true: do_ttinsn moves on; the block has ended, and rv_step
\* calls tensix_step once.
Complete(h) ==
    /\ Enter(h, "post")
    /\ pc' = [pc EXCEPT ![h] = @ + 1]
    /\ retry' = [retry EXCEPT ![h] = FALSE]

\* Faulty form, for comparison: the core moves on.
BlockedAdvances(h) ==
    /\ Enter(h, "ready")
    /\ retry' = [retry EXCEPT ![h] = TRUE]
    /\ pc' = [pc EXCEPT ![h] = @ + 1]

\* step_direct returned false: the core stays at the instruction, and rv_step leaves
\* its loop before it would call tensix_step.
Blocked(h) ==
    /\ Enter(h, "ready")
    /\ retry' = [retry EXCEPT ![h] = TRUE]
    /\ UNCHANGED pc

Stay(h, ph) == Enter(h, ph) /\ UNCHANGED <<pc, retry>>

\* do_ttinsn calls step_direct.
StartDirect(h) ==
    /\ phase[h] = "ready"
    /\ HasOp(h, "direct")
    /\ Stay(h, IF th[h].mop.active THEN "mopEntry" ELSE "drain")
    /\ UNCHANGED <<th, done, bankVars, syncVars, pushed, aborted>>

\* while (tensix_cop_step()): the FIFO goes first, as far as it can.
Drain(h) ==
    /\ phase[h] = "drain"
    /\ \/ StepTrue(h) /\ Stay(h, "drain")
       \/ StepFalse(h) /\ Stay(h, IF th[h].mop.active THEN "mopDrain" ELSE "exec")
    /\ UNCHANGED <<pushed, aborted>>

Direct(h) == Token(<<h, pc[h], 0, 0>>, Op(h).ins)

\* The expanders have nothing left.
Expanded(h) ==
    CASE phase[h] = "mopEntry" -> IF Op(h).ins.op = MOP THEN Complete(h) ELSE Stay(h, "drain")
      [] phase[h] = "mopDrain" -> Stay(h, "exec")
      [] OTHER -> Complete(h)

\* mop_continue_execution, and in phase "replay" drain_replay_expansion: a waiting
\* instruction first, then the replay, then the MOP.
Expand(h) ==
    /\ phase[h] \in {"mopEntry", "mopDrain", "mop", "replay"}
    /\ UNCHANGED <<pushed, aborted>>
    /\ LET T == th[h]
           e == T.exp
       IN  \/ /\ T.cur # <<>>
              /\ \/ StepTrue(h) /\ Stay(h, phase[h])
                 \/ StepFalse(h) /\ Blocked(h)
           \/ /\ T.cur = <<>>
              /\ UNCHANGED <<done, bankVars, syncVars>>
              /\ \/ /\ e.on
                    /\ th' = [th EXCEPT ![h] =
                         IF e.pos >= e.count
                         THEN [T EXCEPT !.exp = NoExp]
                         ELSE [T EXCEPT !.exp.pos = @ + 1,
                                        !.cur = <<Token(<<e.by[1], e.by[2], e.by[3], e.pos + 1>>,
                                                    T.buf[(e.start + e.pos) % ReplaySize])>>]]
                    /\ Stay(h, phase[h])
                 \/ /\ ~e.on
                    /\ phase[h] # "replay"
                    /\ T.mop.rest # <<>>
                    /\ th' = [th EXCEPT ![h].cur = <<Head(T.mop.rest)>>,
                                        ![h].mop.rest = Tail(@)]
                    /\ Stay(h, phase[h])
                 \/ /\ ~e.on
                    /\ phase[h] = "replay" \/ T.mop.rest = <<>>
                    /\ th' = IF phase[h] = "replay" THEN th
                                                    ELSE [th EXCEPT ![h].mop.active = FALSE]
                    /\ Expanded(h)

\* Recording: the instruction goes to the replay buffer; with
\* execute_while_loading it is executed as well, past gate and dvalid check, and
\* what it returns is ignored.
Record(h) ==
    LET T == th[h]
        i == Op(h).ins
        R == [T EXCEPT !.buf[T.rec.index % ReplaySize] = i,
                       !.rec.index = @ + 1,
                       !.rec.left = @ - 1]
        runs == T.rec.ewl /\ (i.op = "PACR" \/ Ready(i))
    IN  /\ th' = [th EXCEPT ![h] = IF runs THEN ThreadAfter(R, Direct(h)) ELSE R]
        /\ IF runs THEN Execute(h, i) ELSE UNCHANGED <<bankVars, syncVars>>
        /\ done' = IF T.rec.ewl => runs THEN [done EXCEPT ![h] = Append(@, Direct(h).id)]
                                        ELSE done
        /\ Complete(h)

\* Faulty form, for comparison: the gate is for the FIFO only.
DirectPassesAlways(T, i) == TRUE

\* A direct instruction meets the gate.
DirectPasses(T, i) == Passes(T.gate, i)

\* The rest of step_direct, from the gate check on.
Exec(h) ==
    LET T == th[h]
        tok == Direct(h)
        i == tok.ins
        recording == T.rec.left > 0 /\ i.op # "MOP_CFG"
        G == [T EXCEPT !.gate = GateBehind(@, i)]
        E == LatchIfWait(G, tok)
    IN  /\ phase[h] = "exec"
        /\ UNCHANGED <<pushed, aborted>>
        /\ \/ recording /\ Record(h)
           \/ /\ ~recording
              /\ ~DirectPasses(T, i) \/ ~Ready(i)
              /\ th' = IF DirectPasses(T, i) THEN [th EXCEPT ![h] = G] ELSE th
              /\ UNCHANGED <<done, bankVars, syncVars>>
              /\ Blocked(h)
           \/ /\ ~recording
              /\ DirectPasses(T, i)
              /\ Ready(i)
              /\ th' = [th EXCEPT ![h] = E]
              /\ Execute(h, i)
              /\ done' = [done EXCEPT ![h] = Append(@, tok.id)]
              /\ IF i.op = MOP THEN Stay(h, "mop")
                 ELSE IF E.exp.on /\ i.op \notin WaitOps \cup {"MOP_CFG"} THEN Stay(h, "replay")
                 ELSE Complete(h)

\* The tensix_step at the end of a block: after a completed direct instruction, and
\* whenever a block of other code ends.
BlockEnd(h) ==
    /\ h \in Threads
    /\ phase[h] = "post" \/ (phase[h] = "ready" /\ ~retry[h])
    /\ StepTrue(h) \/ StepFalse(h)
    /\ Stay(h, "ready")
    /\ UNCHANGED <<pushed, aborted>>

\* Faulty form, for comparison: off by one.
FifoFullLate(T) == Len(T.fifo) > FifoSize

\* tensix_fifo_is_full.
FifoFull(T) == Len(T.fifo) >= FifoSize

\* A store to INSTRN_BUF: while the FIFO is full, step the thread; if it cannot be
\* stepped the assertion fails.
Push(h) ==
    /\ phase[h] \in {"ready", "push"}
    /\ HasOp(h, "push")
    /\ LET t == Op(h).to
           tok == Token(<<h, pc[h], 0, 0>>, Op(h).ins)
       IN  \/ /\ ~FifoFull(th[t])
              /\ th' = [th EXCEPT ![t].fifo = Append(@, tok)]
              /\ pushed' = [pushed EXCEPT ![t] = Append(@, tok.id)]
              /\ pc' = [pc EXCEPT ![h] = @ + 1]
              /\ Enter(h, "ready")
              /\ UNCHANGED <<retry, done, bankVars, syncVars, aborted>>
           \/ /\ FifoFull(th[t])
              /\ \/ StepTrue(t) /\ UNCHANGED aborted
                 \/ StepFalse(t) /\ aborted' = TRUE
              /\ Stay(h, "push")
              /\ UNCHANGED pushed

\* A store to a semaphore: 0 posts, 1 gets, another value is written.
MmioSem(h) ==
    /\ phase[h] = "ready"
    /\ HasOp(h, "mmio")
    /\ LET i == Op(h).ins
       IN  \/ i.op = "post" /\ Sempost({i.sem})
           \/ i.op = "get" /\ Semget({i.sem})
           \/ i.op = "write" /\ Seminit({i.sem}, sem_max[i.sem], i.value)
    /\ pc' = [pc EXCEPT ![h] = @ + 1]
    /\ UNCHANGED <<phase, retry, th, done, pushed, aborted, bankVars>>

HostStep(h) ==
    \/ StartDirect(h)
    \/ Drain(h)
    \/ Expand(h)
    \/ Exec(h)
    \/ Push(h)
    \/ MmioSem(h)

CopNext ==
    /\ ~aborted
    /\ UNCHANGED prog
    /\ \E h \in Hosts : Alone(h) /\ (HostStep(h) \/ BlockEnd(h))

CopSpec == CopInit /\ [][CopNext]_copVars

\* rv32_run_co yields after a bounded number of rv_step calls and the caller resumes
\* every core in turn: a core that could move again and again does move, and blocks
\* keep ending on a core whose program is over.
CopFairness ==
    \A h \in Hosts :
        /\ SF_copVars(UNCHANGED prog /\ ~aborted /\ Alone(h) /\ HostStep(h))
        /\ SF_copVars(UNCHANGED prog /\ ~aborted /\ Alone(h) /\ BlockEnd(h))

CopFairSpec == CopSpec /\ CopFairness
-----------------------------------------------------------------------------
(* Properties. *)

CopPhases == {"ready", "mopEntry", "drain", "mopDrain", "exec", "mop", "replay", "push", "post"}

\* Types, and the sizes the code's arrays have.
CopTypeOK ==
    /\ BanksTypeOK
    /\ sem \in [Sems -> 0..SemCap]
    /\ \A h \in Hosts : pc[h] \in 1..(Len(prog[h]) + 1) /\ phase[h] \in CopPhases
    /\ \A t \in Threads : Len(th[t].fifo) <= FifoSize /\ Len(th[t].cur) <= 1

IdsOf(toks) == [n \in 1..Len(toks) |-> toks[n].id]
IsPushed(id) == Via(id) = "push" /\ id[3] = 0 /\ id[4] = 0

\* What went through a thread and what is still on its way, oldest first.
Passage(t) == done[t] \o IdsOf(th[t].cur) \o IdsOf(th[t].fifo)

\* Every id of p is in w, the pushed ids of w are in p, and they come in p's order.
InOrder(w, p) ==
    /\ \A n \in 1..Len(p) : \E m \in 1..Len(w) : w[m] = p[n]
    /\ \A m \in 1..Len(w) : IsPushed(w[m]) => \E n \in 1..Len(p) : w[m] = p[n]
    /\ \A m, n \in 1..Len(w) :
          m < n /\ IsPushed(w[m]) /\ IsPushed(w[n])
            => \E i, j \in 1..Len(p) : i < j /\ w[m] = p[i] /\ w[n] = p[j]

\* What was pushed into a thread's FIFO is executed in that order, none lost and none
\* twice, whatever blocked on the way (test_wait_behavior: instructions behind a
\* blocked one stay in the FIFO and run later without being pushed again).
FifoConservation ==
    \A t \in Threads :
        /\ \A i, j \in 1..Len(pushed[t]) : i < j => pushed[t][i] # pushed[t][j]
        /\ InOrder(Passage(t), pushed[t])

\* Where in d, what a thread executed, instructions of core h's operation k are, and which
\* places of its expansion they stand for.
Times(d, h, k) == {n \in 1..Len(d) : d[n][1] = h /\ d[n][2] = k}
Place(id) == <<id[3], id[4]>>
Ran(d, h, k) == {Place(d[n]) : n \in Times(d, h, k)}

\* All places of the expansion of instruction i; <<0, 0>> is i itself.
ReplayPlaces(i) == IF i.op = "REPLAY" /\ ~i.load THEN 0..i.count ELSE {0}
Places(i) ==
    ({0} \X ReplayPlaces(i)) \cup
    (IF i.op = MOP THEN UNION {{j} \X ReplayPlaces(i.body[j]) : j \in 1..Len(i.body)} ELSE {})

Before(p, q) == p[1] < q[1] \/ (p[1] = q[1] /\ p[2] < q[2])

Ordered(d, h, k) == \A m, n \in Times(d, h, k) : m < n => Before(Place(d[m]), Place(d[n]))

\* A direct instruction that do_ttinsn has left behind was executed exactly once, its
\* expansion in order and in full; the one it is retrying is somewhere in the middle;
\* later ones have not started.
DirectOnce ==
    \A h \in Hosts \cap Threads : \A k \in 1..Len(prog[h]) :
        prog[h][k].via = "direct" =>
            LET all == Places(prog[h][k].ins)
                ran == Ran(done[h], h, k)
            IN  /\ Ordered(done[h], h, k)
                /\ k < pc[h] => ran = all
                /\ k = pc[h] => \A p \in all, q \in ran : Before(p, q) => p \in ran
                /\ k > pc[h] => ran = {}

\* A closed wait gate is not replaced, not even by another wait instruction (the
\* comment in tensix_cop_step: "a new wait instruction would incorrectly overwrite the
\* old unsatisfied wait gate").
GateStable ==
    [][\A t \in Threads : th'[t].gate # th[t].gate => GateOpen(th[t].gate)]_copVars

\* The instruction that thread t executes under this id: the one it takes up next, from
\* the FIFO or an expander, or the core's direct one.
Issued(t, id) ==
    IF ~Idle(th[t]) /\ Fetched(th[t]).id = id THEN Fetched(th[t]).ins
                                              ELSE prog[id[1]][id[2]].ins

\* No instruction of a class that a thread's closed gate blocks is executed by that
\* thread, on neither of the two ways in, expanded and replayed ones included.  (An
\* instruction that step_direct records is stored before the gate is looked at.)
GateRespected ==
    [][\A t \in Threads :
          done'[t] # done[t] /\ ~(phase[t] = "exec" /\ th[t].rec.left > 0)
            => Passes(th[t].gate, Issued(t, done'[t][Len(done'[t])]))]_copVars

\* The instruction at place j of i's expansion, and the one that an entry of done stands
\* for; a replayed one counts as a NOP.
At(i, j) == IF j = 0 THEN i ELSE i.body[j]
Did(id) == IF id[4] # 0 THEN NOP ELSE At(prog[id[1]][id[2]].ins, id[3])

\* Instructions that raise semaphore q, and wait instructions that hold the sync unit's
\* class back until q is below its maximum.
Raises(i, q) == i.op \in {"SEMINIT", "SEMPOST"} /\ q \in i.sems
Awaits(i, q) == i.op = "SEMWAIT" /\ q \in i.sems /\ 1 \in i.cond /\ 1 \in i.block

\* Neither raises a semaphore nor waits nor expands.
Quiet(i) == i.op \notin {"SEMINIT", "SEMPOST", MOP} \cup WaitOps

\* Among the first n instructions of d one awaits q, and none after it raises q.
Armed(d, n, q) ==
    \E m \in 1..n : Awaits(Did(d[m]), q) /\ \A j \in (m + 1)..n : ~Raises(Did(d[j]), q)

\* The discipline of a kernel: a semaphore is raised by the thread that owns it, a SEMPOST
\* comes after a SEMWAIT for "below maximum" of its own, and what is recorded is quiet.
Disciplined(owner) ==
    /\ \A t \in Threads : \A n \in 1..Len(done[t]) : \A q \in Sems :
          Raises(Did(done[t][n]), q) =>
             /\ t = owner[q]
             /\ Did(done[t][n]).op = "SEMINIT" => Did(done[t][n]).init <= Did(done[t][n]).max
             /\ Did(done[t][n]).op = "SEMPOST" => Armed(done[t], n - 1, q)
    /\ \A h \in Threads :
          phase[h] = "exec" /\ th[h].rec.left > 0 /\ Op(h).ins.op # "MOP_CFG"
            => Quiet(Op(h).ins)

\* The cores only take from semaphores.
OnlyGets == \A o \in Operations : o.via = "mmio" => o.ins.op = "get"

\* A semaphore guarded by SEMWAIT on both sides stays within its maximum.
SemWithinMax == \A q \in Sems : sem_max[q] > 0 => sem[q] <= sem_max[q]

\* A mutex changes hands only through its holder: what one thread took, no other thread's
\* ATGETM or ATRELM takes away.
MutexByHolder ==
    [][\A m \in Mutexes : \A t \in Threads :
          mutex[m] = t /\ mutex'[m] # t => done'[t] # done[t]]_copVars

\* Every core gets through its program: no instruction is retried for ever.
AllFinish == <>(\A h \in Hosts : pc[h] > Len(prog[h]))
=============================================================================
