------------------------------ MODULE PlainRv ------------------------------
(***************************************************************************)
(* The processor a program is written for: it executes one instruction     *)
(* after the other, each straight from memory.  This is what translation   *)
(* into blocks, constant folding and fusion promise to preserve.  Its      *)
(* program counter is a parameter, pc before and next after a step: a      *)
(* module that implements the processor says what stands for it.           *)
(***************************************************************************)
EXTENDS RvExec

CONSTANTS
    Pcs,      \* addresses of code
    Setups,   \* programs, each with the registers it starts with
    Bytes,    \* what memory may hold at the start
    Words     \* what may arrive in the mailbox

VARIABLE code   \* code[a]: the instruction at a

ASSUME PcsAssumption == Pcs \subseteq {a \in Word : a + 4 \in Word /\ a % 4 = 0}

PlainInit(pc) ==
    /\ \E s \in Setups : code = s.code /\ X = s.X
    /\ mem \in [Ram -> Bytes]
    /\ fifo = <<>>
    /\ pc = 0

Insn(pc) == Decoded(code[pc])

\* A misaligned access traps; rv_trap_default_handler resumes behind it.
PlainTrap(pc, next) ==
    /\ pc \in Pcs /\ Misaligned(Insn(pc))
    /\ next = pc + 4
    /\ UNCHANGED <<X, mem, fifo, code>>

\* A load of an empty mailbox is repeated until a word is there.  Until then it may
\* overwrite its destination, but never the register its address comes from.
PlainWait(pc, next) ==
    /\ pc \in Pcs /\ ReadsMailbox(Insn(pc)) /\ fifo = <<>>
    /\ X' = [X EXCEPT ![Insn(pc).rd] = 0, ![Insn(pc).rs1] = X[Insn(pc).rs1]]
    /\ next = pc
    /\ UNCHANGED <<mem, fifo, code>>

\* A Tensix instruction that the wait gate blocks is repeated: the stutter of pc.
PlainStep(pc, next) ==
    /\ pc \in Pcs /\ ~Misaligned(Insn(pc))
    /\ ReadsMailbox(Insn(pc)) => fifo # <<>>
    /\ Do(Insn(pc), pc)
    /\ next = NextPc(Insn(pc), pc)
    /\ UNCHANGED code

PlainPush(pc, next) ==
    /\ \E v \in Words : Push(v)
    /\ next = pc
    /\ UNCHANGED code

PlainNext(pc, next) ==
    PlainTrap(pc, next) \/ PlainWait(pc, next) \/ PlainStep(pc, next) \/ PlainPush(pc, next)
=============================================================================
