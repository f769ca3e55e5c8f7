---------------------------- MODULE MopExpander ----------------------------
(***************************************************************************)
(* The MOP expander of one thread (tensix_cop.c, mop_generate_next...): a  *)
(* macro-operation is a loop over the instructions in the thread's nine    *)
(* configuration registers.  The expander is lazy: every call of the       *)
(* generator yields one instruction and reads most of the registers again. *)
(* A core that issued the MOP directly is held until the expansion ends; a *)
(* MOP that came through the FIFO leaves its core free to write registers. *)
(***************************************************************************)
EXTENDS Integers, Sequences

CONSTANTS
    Configs,    \* what kernels write to mop_cfg: a set of functions on 0..8
    Params,     \* operands of MOP: [tmpl, count1, lo], lo the mask bits that are set
    LoBits,     \* mask bits that come with the instruction (16 in the code)
    ZMasks,     \* what MOP_CFG may set the upper mask bits to: sets of bits
    Wrapped,    \* extra outer iterations of a counter that wrapped (128)
    MaxMops,    \* bound: MOPs a behaviour issues
    MaxWrites   \* bound: register writes after the kernel's configuration

\* Registers and operands are words, masks sets of bits.
ASSUME MopAssumption ==
    /\ LoBits \in Nat /\ Wrapped \in Nat /\ MaxMops \in Nat /\ MaxWrites \in Nat
    /\ \A c \in Configs : DOMAIN c = 0..8 /\ c[0] \in Nat /\ c[1] \in Nat
    /\ \A p \in Params : p.tmpl \in {0, 1} /\ p.count1 \in Nat /\ p.lo \subseteq Nat
    /\ \A z \in ZMasks : z \subseteq Nat

VARIABLES
    cfg,     \* mop_cfg
    zmask,   \* zmask_hi16
    st,      \* mop_state, and busy: inside a call of the generator
    held,    \* the issuing core waits for the expansion
    mops,    \* MOPs issued
    writes,  \* register writes since the start
    dirty,   \* history: a register was written while this MOP expanded
    want,    \* history: what the MOP stood for when it was issued, a sequence of instructions
             \* for each iteration of its outer loop
    got      \* history: the instructions generated for it, by iteration

mopVars == <<cfg, zmask, st, held, mops, writes, dirty, want, got>>

NOP == [op |-> "NOP"]
Idle == [active |-> FALSE, busy |-> FALSE]

\* The registers hold the kernel's configuration.
MopInit ==
    /\ zmask = {}
    /\ st = Idle
    /\ held = FALSE
    /\ mops = 0 /\ writes = 0 /\ dirty = FALSE
    /\ want = <<>> /\ got = <<>>
-----------------------------------------------------------------------------
(* What a MOP stands for: two nested loops, or one loop under a mask. *)

Unless(i) == IF i = NOP THEN <<>> ELSE <<i>>

\* A loop count is seven bits of its register.
Count(w) == w % 128

Inner(c) == Count(c[1]) * (IF c[6] = NOP THEN 1 ELSE 2)

Outer(c) ==
    IF Count(c[0]) = 1 /\ c[2] = NOP /\ Count(c[1]) = 0 /\ c[3] # NOP
    THEN Count(c[0]) + Wrapped ELSE Count(c[0])

\* Iteration n of the inner loop in the j-th outer one: the last is special, the others
\* alternate between the two loop instructions.
LoopInsn(c, j, n) ==
    IF n = Inner(c) THEN IF j = Outer(c) THEN c[7] ELSE c[8]
    ELSE IF c[6] # NOP /\ n % 2 = 0 THEN c[6] ELSE c[5]

LoopInsns(c, j, k) == [n \in 1..k |-> LoopInsn(c, j, n)]

NestedLoops(c) ==
    [j \in 1..Outer(c) |->
        Unless(c[2]) \o LoopInsns(c, j, Inner(c)) \o Unless(c[3]) \o Unless(c[4])]

HasB(c) == c[1] % 2 = 1
HasA123(c) == (c[1] \div 2) % 2 = 1

MaskedInsns(c, skip) ==
    IF skip
    THEN <<c[7]>> \o (IF HasB(c) THEN <<c[8]>> ELSE <<>>)
    ELSE <<c[3]>> \o (IF HasA123(c) THEN <<c[4], c[5], c[6]>> ELSE <<>>)
                  \o (IF HasB(c) THEN <<c[2]>> ELSE <<>>)

MaskedLoop(c, mask, count) == [n \in 1..count |-> MaskedInsns(c, n - 1 \in mask)]

\* The bits that are set.
Mask(p) == {LoBits + b : b \in zmask} \cup p.lo

Meaning(p) ==
    IF p.tmpl = 0 THEN MaskedLoop(cfg, Mask(p), p.count1 + 1) ELSE NestedLoops(cfg)
-----------------------------------------------------------------------------
(* The expander. *)

\* tensix_cop_mop_expand: the counts and the loop instructions are captured here.
Expand(p) ==
    st' = IF p.tmpl = 0
          THEN [active |-> TRUE, busy |-> FALSE, tmpl |-> 0, mask |-> Mask(p), i |-> 0,
                count |-> p.count1 + 1, sub |-> <<>>]
          ELSE LET twice == cfg[6] # NOP
                   inner == IF twice THEN Count(cfg[1]) * 2 ELSE Count(cfg[1])
                   wraps == Count(cfg[0]) = 1 /\ cfg[2] = NOP /\ inner = 0 /\ cfg[3] # NOP
               IN  [active |-> TRUE, busy |-> FALSE, tmpl |-> 1, j |-> 0, i |-> 0, phase |-> 0,
                    outer |-> Count(cfg[0]) + (IF wraps THEN Wrapped ELSE 0), inner |-> inner,
                    loop_op |-> cfg[5], other |-> IF twice THEN cfg[6] ELSE cfg[5]]

Mop(p, direct) ==
    /\ ~st.active /\ ~held
    /\ mops < MaxMops
    /\ Expand(p)
    /\ held' = direct
    /\ mops' = mops + 1
    /\ want' = Meaning(p) /\ got' = [n \in DOMAIN Meaning(p) |-> <<>>] /\ dirty' = FALSE
    /\ UNCHANGED <<cfg, zmask, writes>>

\* MOP_CFG sets the upper mask bits.
MopCfg(z) ==
    /\ ~st.active /\ ~held
    /\ zmask' = z
    /\ UNCHANGED <<cfg, st, held, mops, writes, dirty, want, got>>

\* A store of the core to one of the thread's configuration registers.
WriteCfg(s, v) ==
    /\ ~held /\ ~st.busy
    /\ cfg[s] # v
    /\ writes < MaxWrites
    /\ cfg' = [cfg EXCEPT ![s] = v]
    /\ writes' = writes + 1
    /\ dirty' = (dirty \/ st.active)
    /\ UNCHANGED <<zmask, st, held, mops, want, got>>

\* An instruction of the n-th iteration; or the generator goes on to its next phase.
Emit(n, i, s) ==
    got' = [got EXCEPT ![n] = Append(@, i)] /\ st' = [s EXCEPT !.busy = FALSE] /\ held' = held
Skip(s) == got' = got /\ st' = [s EXCEPT !.busy = TRUE] /\ held' = held
EmitUnless(i, s) == IF i = NOP THEN Skip(s) ELSE Emit(st.j + 1, i, s)

\* Faulty form, for comparison: the core is not released.
FinishHolds == st' = Idle /\ held' = held /\ got' = got

\* The expansion is over: a core that issued the MOP directly goes on.
Finish == st' = Idle /\ held' = FALSE /\ got' = got

\* mop_generate_next_t0.
Generate0 ==
    LET subs == IF 0 \notin st.mask
                THEN <<cfg[3]>> \o (IF HasA123(cfg) THEN <<cfg[4], cfg[5], cfg[6]>> ELSE <<>>)
                ELSE <<cfg[7]>>
        end == IF 0 \notin st.mask THEN cfg[2] ELSE cfg[8]
        all == IF HasB(cfg) THEN Append(subs, end) ELSE subs
    IN  CASE st.sub # <<>> -> Emit(st.i, Head(st.sub), [st EXCEPT !.sub = Tail(@)])
          [] st.sub = <<>> /\ st.i >= st.count -> Finish
          [] OTHER -> Emit(st.i + 1, Head(all), [st EXCEPT !.sub = Tail(all), !.i = @ + 1,
                                                          !.mask = {b - 1 : b \in @ \ {0}}])

\* Faulty form, for comparison: the loop instructions do not alternate on the last one.
InnerInsnKeepsOp ==
    IF st.i # st.inner - 1
    THEN Emit(st.j + 1, st.loop_op, [st EXCEPT !.i = @ + 1, !.loop_op = st.other, !.other = st.loop_op])
    ELSE Emit(st.j + 1, IF st.j # st.outer - 1 THEN cfg[8] ELSE cfg[7], [st EXCEPT !.i = @ + 1])

InnerInsn ==
    Emit(st.j + 1,
         IF st.i # st.inner - 1 THEN st.loop_op
         ELSE IF st.j # st.outer - 1 THEN cfg[8] ELSE cfg[7],
         [st EXCEPT !.i = @ + 1, !.loop_op = st.other, !.other = st.loop_op])

\* Faulty form, for comparison: the phase is left only after an instruction.
StartUnlessNop == IF cfg[2] = NOP THEN Skip(st) ELSE Emit(st.j + 1, cfg[2], [st EXCEPT !.phase = 1, !.i = 0])

Start == EmitUnless(cfg[2], [st EXCEPT !.phase = 1, !.i = 0])

\* mop_generate_next_t1, one turn of its loop.
Generate1 ==
    CASE st.j >= st.outer -> Finish
      [] st.j < st.outer /\ st.phase = 0 -> Start
      [] st.j < st.outer /\ st.phase = 1 /\ st.i < st.inner -> InnerInsn
      [] st.j < st.outer /\ st.phase = 1 /\ st.i >= st.inner -> Skip([st EXCEPT !.phase = 2])
      [] st.j < st.outer /\ st.phase = 2 -> EmitUnless(cfg[3], [st EXCEPT !.phase = 3])
      [] OTHER -> EmitUnless(cfg[4], [st EXCEPT !.phase = 0, !.j = @ + 1])

Generate ==
    /\ st.active
    /\ IF st.tmpl = 0 THEN Generate0 ELSE Generate1
    /\ UNCHANGED <<cfg, zmask, mops, writes, dirty, want>>

-----------------------------------------------------------------------------
(* Properties. *)

\* Types; a core is held only by a running expansion (step_direct returns when
\* mop_continue_execution does).
MopTypeOK ==
    /\ st.active \in BOOLEAN /\ st.busy \in BOOLEAN
    /\ held => st.active
    /\ mops \in 0..MaxMops /\ writes \in 0..MaxWrites

\* The iterations up to the k-th are complete, nothing of the later ones is generated.
UpTo(k) ==
    /\ \A n \in DOMAIN want : n < k => got[n] = want[n]
    /\ k \in DOMAIN want => got[k] = SubSeq(want[k], 1, Len(got[k]))
    /\ \A n \in DOMAIN want : n > k => got[n] = <<>>

\* The lazy generator yields exactly the loops the registers described when the MOP was
\* issued, one iteration after the other, unless its core wrote a register meanwhile,
\* which it can only do when the MOP came through the FIFO (mop_generate_next_t0 and _t1
\* re-read mop_cfg on every call).
ExpansionExact ==
    ~dirty => IF st.active THEN \E k \in 0..Len(want) : UpTo(k) ELSE got = want
=============================================================================
