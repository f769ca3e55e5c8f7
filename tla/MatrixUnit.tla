----------------------------- MODULE MatrixUnit -----------------------------
(***************************************************************************)
(* The matrix unit driven by a MOP: the row counters of the math thread    *)
(* (RWCs), the address modes every instruction ends with (apply_addr_mod), *)
(* the fidelity phase, and which products are accumulated into Dst.        *)
(*                                                                         *)
(* Instructions are records: op, the Dst row, the address mode.  The value *)
(* of a product is abstract; acc counts, for every Dst row and phase, how  *)
(* often a product was added.                                              *)
(***************************************************************************)
EXTENDS MopExpander, RowCounters, FiniteSets

CONSTANTS
    Kernels,    \* [cfg, op, blocks, phases, rewind]: the registers a kernel loads,
                \* and what it computes with them
    AddrMods,   \* the address modes, thd_reg[12..19] and thd_reg[28..35]
    Block       \* rows an instruction computes (8)

ASSUME KernelAssumption ==
    \A k \in Kernels : DOMAIN k.cfg = 0..8 /\ k.cfg[0] \in Nat /\ k.cfg[1] \in Nat

\* Dst is made of whole blocks and divides the range of the counters.
ASSUME RowsAssumption ==
    /\ Block \in Nat \ {0} /\ DestSize \in Nat \ {0} /\ CountMod \in Nat
    /\ DestSize % Block = 0 /\ CountMod % DestSize = 0 /\ CountMod >= 4

VARIABLES kernel,  \* the kernel of this behaviour
          acc,     \* products accumulated: Dst row -> phase -> count
          runs     \* history: MOPs that ran to their end

muVars == <<mopVars, rwc, kernel, acc, runs>>
DstRows == 0..(DestSize - 1)
Phases == 0..3
Cleared == [r \in DstRows |-> [p \in Phases |-> 0]]

MuInit ==
    /\ MopInit
    /\ kernel \in Kernels /\ cfg = kernel.cfg
    /\ RwcInit
    /\ acc = Cleared
    /\ runs = 0
-----------------------------------------------------------------------------
Align(n, k) == n - (n % k)

\* Rows dest_base .. dest_base + 7, the counter masked to the size of Dst.
DestBlock(i) ==
    LET base == Align((i.dst + rwc.d) % DestSize, Block) IN base..(base + Block - 1)

Accumulate(rows, p) == acc' = [r \in DstRows |-> [acc[r] EXCEPT ![p] = IF r \in rows THEN @ + 1 ELSE @]]

\* Faulty form, for comparison: every phase adds the whole product.
MvmulEveryPhase(i) == Accumulate(DestBlock(i), 0)

\* MVMUL: full products in phase 0, nothing in the others.
Mvmul(i) == IF rwc.fid # 0 THEN UNCHANGED acc ELSE Accumulate(DestBlock(i), 0)

\* ELWMUL: the phase's slice of the mantissas.
Elwmul(i) == Accumulate(DestBlock(i), rwc.fid % 4)

\* GAPOOL: one row, in phase 0.
Gapool(i) ==
    IF rwc.fid # 0 THEN UNCHANGED acc ELSE Accumulate({(i.dst + rwc.d) % DestSize}, 0)

\* ZEROACC: one row, a face (two blocks), half or all of Dst; the single row is not masked.
ZeroaccRows(i) ==
    CASE i.mode = "row" -> {i.dst + rwc.d}
      [] i.mode = "face" -> (2 * i.dst * Block)..(2 * i.dst * Block + 2 * Block - 1)
      [] i.mode = "half" -> LET b == (i.dst % 2) * (DestSize \div 2) IN b..(b + DestSize \div 2 - 1)
      [] OTHER -> DstRows

Zeroacc(i) ==
    acc' = [r \in DstRows |-> IF r \in ZeroaccRows(i) THEN Cleared[r] ELSE acc[r]]

ExecuteMath(i) ==
    CASE i.op = "MVMUL" -> Mvmul(i) /\ ApplyAddrMod(AddrMods[i.mod])
      [] i.op = "ELWMUL" -> Elwmul(i) /\ ApplyAddrMod(AddrMods[i.mod])
      [] i.op = "GAPOOL" -> Gapool(i) /\ ApplyAddrMod(AddrMods[i.mod])
      [] i.op = "ZEROACC" -> Zeroacc(i) /\ UNCHANGED rwc
      [] i.op = "SETRWC" -> Setrwc(i.set, i.val, i.cr) /\ UNCHANGED acc
      [] i.op = "INCRWC" -> Incrwc(i.val, i.cr) /\ UNCHANGED acc
      [] OTHER -> UNCHANGED <<acc, rwc>>

\* An instruction of the expansion is executed as soon as it is generated.
MuGenerate ==
    /\ Generate
    /\ IF got' = got THEN UNCHANGED <<acc, rwc>>
       ELSE \E n \in DOMAIN got : got'[n] # got[n] /\ ExecuteMath(got'[n][Len(got'[n])])
    /\ runs' = IF st'.active THEN runs ELSE runs + 1
    /\ UNCHANGED kernel

\* The core of the thread.
CoreStep ==
    /\ \/ \E p \in Params, direct \in BOOLEAN : (kernel.op = "none" \/ p.tmpl = 1) /\ Mop(p, direct)
       \/ \E z \in ZMasks : kernel.op = "none" /\ MopCfg(z)
       \/ \E s \in 0..8, c \in Configs : kernel.op = "none" /\ WriteCfg(s, c[s])
    /\ UNCHANGED <<acc, rwc, runs, kernel>>

MuNext == MuGenerate \/ CoreStep

\* The thread runs as long as it has something to generate: its core retries or steps it
\* after every block.
MuSpec == MuInit /\ [][MuNext]_muVars /\ WF_muVars(MuGenerate)
-----------------------------------------------------------------------------
(* Properties. *)

\* How often the kernel came to the block of a row: it walks through Dst block by block,
\* and starts over with every MOP or goes on where it was.
Visits(r) ==
    Cardinality({m \in 0..(runs * kernel.blocks - 1) :
        (IF kernel.rewind THEN m % kernel.blocks ELSE m) % (DestSize \div Block) = r \div Block})

Products(r, p) ==
    CASE kernel.op = "ELWMUL" -> IF p < kernel.phases THEN Visits(r) ELSE 0
      [] kernel.op = "GAPOOL" -> IF p = 0 /\ r % Block = 0 THEN Visits(r) ELSE 0
      [] OTHER -> IF p = 0 THEN Visits(r) ELSE 0

\* A kernel that repeats its multiplications once per fidelity phase adds every product
\* exactly once to every row it walks through: MVMUL and GAPOOL ("Skip computation for
\* phases > 0 to avoid 4x scaling") in phase 0 only, ELWMUL one slice per phase, also
\* when the 32-bit counters have run past the end of Dst (mop_generate_next_t1,
\* apply_addr_mod, ttmvmul, ttelwmul, ttgapool, ttsetrwc, ttincrwc together).
EachProductOnce ==
    kernel.op # "none" /\ ~st.active => \A r \in DstRows, p \in Phases : acc[r][p] = Products(r, p)

\* Every MOP comes to its end, also with loop counts of zero and when its registers are
\* rewritten under it (the generator's for (;;) in mop_generate_next_t1).
ExpansionEnds == (mops > 0 /\ st.active) ~> ~st.active
=============================================================================
