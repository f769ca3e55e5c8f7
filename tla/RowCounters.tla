---------------------------- MODULE RowCounters ----------------------------
(***************************************************************************)
(* The row/word counters (RWCs) of a thread: SrcA, SrcB and Dst, each with *)
(* its carriage-return counter, and the fidelity phase.  The emulator      *)
(* keeps 32-bit counters and masks them where a row is used.               *)
(***************************************************************************)
EXTENDS Integers

CONSTANTS
    DestSize,   \* rows of Dst
    CountMod    \* where the counters wrap (2^32)

VARIABLE rwc   \* [a, acr, b, bcr, d, dcr, fid]

RwcInit == rwc = [a |-> 0, acr |-> 0, b |-> 0, bcr |-> 0, d |-> 0, dcr |-> 0, fid |-> 0]

\* One counter and its carriage return: cleared, both moved from the counter, both moved
\* from the carriage return, or the counter alone.
Step(c, cr, incr, how) ==
    CASE how = "clr" -> <<0, 0>>
      [] how = "c2cr" -> <<(c + incr) % CountMod, (c + incr) % CountMod>>
      [] how = "cr" -> <<(cr + incr) % CountMod, (cr + incr) % CountMod>>
      [] OTHER -> <<(c + incr) % CountMod, cr>>

\* apply_addr_mod.
ApplyAddrMod(m) ==
    LET a == Step(rwc.a, rwc.acr, m.a.incr, m.a.how)
        b == Step(rwc.b, rwc.bcr, m.b.incr, m.b.how)
        d == Step(rwc.d, rwc.dcr, m.d.incr, m.d.how)
    IN  rwc' = [a |-> a[1], acr |-> a[2], b |-> b[1], bcr |-> b[2], d |-> d[1], dcr |-> d[2],
                fid |-> IF m.fid.clr THEN 0 ELSE (rwc.fid + m.fid.incr) % CountMod]

\* SETRWC: the counters in set become val, plus the carriage return or the counter.
Setrwc(set, val, cr) ==
    LET a == (val.a + (IF "a" \in cr THEN rwc.acr ELSE 0)) % CountMod
        b == (val.b + (IF "b" \in cr THEN rwc.bcr ELSE 0)) % CountMod
        d == (val.d + (IF "c2cr" \in cr THEN rwc.d ELSE IF "d" \in cr THEN rwc.dcr ELSE 0)) % CountMod
    IN  rwc' = [a |-> IF "a" \in set THEN a ELSE rwc.a, acr |-> IF "a" \in set THEN a ELSE rwc.acr,
                b |-> IF "b" \in set THEN b ELSE rwc.b, bcr |-> IF "b" \in set THEN b ELSE rwc.bcr,
                d |-> IF "d" \in set THEN d ELSE rwc.d, dcr |-> IF "d" \in set THEN d ELSE rwc.dcr,
                fid |-> IF "fid" \in set THEN 0 ELSE rwc.fid]

\* INCRWC: all three counters.
Incrwc(val, cr) ==
    LET how(x) == IF x \in cr THEN "cr" ELSE "inc"
        a == Step(rwc.a, rwc.acr, val.a, how("a"))
        b == Step(rwc.b, rwc.bcr, val.b, how("b"))
        d == Step(rwc.d, rwc.dcr, val.d, how("d"))
    IN  rwc' = [a |-> a[1], acr |-> a[2], b |-> b[1], bcr |-> b[2], d |-> d[1], dcr |-> d[2],
                fid |-> rwc.fid]
=============================================================================
