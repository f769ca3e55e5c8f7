---------------------------- MODULE MCMatrixUnit ----------------------------
(* Small kernels for the matrix unit and its MOP expander. *)
EXTENDS MatrixUnit, TLC

Keep == [incr |-> 0, how |-> "inc"]
Mode(dst, fid, clr) == [a |-> Keep, b |-> [incr |-> 1, how |-> "cr"], d |-> dst,
                        fid |-> [incr |-> fid, clr |-> clr]]

\* 0: next phase; 1: next block, counting on; 2: next block by carriage return; 3: rewind.
MCAddrMods ==
    [n \in 0..5 |->
        CASE n = 0 -> Mode(Keep, 1, FALSE)
          [] n = 1 -> Mode([incr |-> 2, how |-> "inc"], 0, TRUE)
          [] n = 2 -> Mode([incr |-> 2, how |-> "cr"], 0, TRUE)
          [] n = 3 -> Mode([incr |-> 0, how |-> "clr"], 0, TRUE)
          [] n = 4 -> Mode([incr |-> 2, how |-> "c2cr"], 0, TRUE)
          [] OTHER -> Mode(Keep, 0, TRUE)]

Insn(op, m) == [op |-> op, dst |-> 0, mod |-> m]
Val(d) == [a |-> 1, b |-> 0, d |-> d]
Registers(outer, inner, start, end0, end1, loop, last0, last1) ==
    <<inner, start, end0, end1, loop, NOP, last0, last1>> @@ (0 :> outer)

Kernel(op, blocks, phases, next, last, end0, rewind) ==
    [op |-> op, blocks |-> blocks, phases |-> phases, rewind |-> rewind,
     cfg |-> Registers(blocks, phases, NOP, end0, NOP, Insn(op, 0), Insn(op, last), Insn(op, next))]

Set == [op |-> "SETRWC", set |-> {"d", "fid"}, val |-> Val(2), cr |-> {"c2cr"}]
Inc == [op |-> "INCRWC", val |-> Val(2), cr |-> {"d"}]
ZeroKernel ==
    [op |-> "MVMUL", blocks |-> 0, phases |-> 1, rewind |-> TRUE,
     cfg |-> Registers(1, 2, Insn("MVMUL", 1), [op |-> "ZEROACC", dst |-> 1, mode |-> "half"],
                       [op |-> "ZEROACC", dst |-> 0, mode |-> "face"],
                       Insn("MVMUL", 1), Insn("MVMUL", 3), Insn("MVMUL", 1))]

MatrixKernels ==
    {ZeroKernel} \cup
    UNION {{Kernel(op, blocks, phases, 1, 3, NOP, TRUE), Kernel(op, blocks, phases, 2, 2, NOP, FALSE),
            Kernel(op, blocks, phases, 4, 4, NOP, FALSE), Kernel(op, blocks, phases, 5, 5, Set, FALSE),
            Kernel(op, blocks, phases, 5, 5, Inc, FALSE)} :
              op \in {"MVMUL", "ELWMUL", "GAPOOL"}, blocks \in 1..3, phases \in {1, 2, 4}}

\* Registers of kernels that only move data.
I(n) == [op |-> "MOVE", n |-> n]
MCConfigs ==
    {Registers(outer, inner, start, I(3), end1, I(5), I(7), I(8)) :
        outer \in 0..1, inner \in {0, 3}, start \in {NOP, I(2)}, end1 \in {NOP, I(4)}}
    \cup {[Registers(2, inner, NOP, I(3), NOP, I(5), I(7), I(8)) EXCEPT ![6] = I(6)] : inner \in 0..2}

MoveKernels == {[op |-> "none", cfg |-> c] : c \in MCConfigs}
MCKernels == MatrixKernels \cup MoveKernels
AllConfigs == {k.cfg : k \in MCKernels}

MCParams == {[tmpl |-> 1, count1 |-> 0, lo |-> {}], [tmpl |-> 0, count1 |-> 0, lo |-> {0}],
             [tmpl |-> 0, count1 |-> 2, lo |-> {0}]}
MCZMasks == {{}, {0}}
=============================================================================
