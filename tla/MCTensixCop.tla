---------------------------- MODULE MCTensixCop ----------------------------
(***************************************************************************)
(* TensixCop for TLC: small instruction alphabets and the programs over    *)
(* them, one set of programs for each question.                            *)
(***************************************************************************)
EXTENDS TensixCop

CONSTANT tile

MCTiles == {tile}
MCInstrs == {"UNPACR", "SETDVALID", "ELW", "SETRWC", "SEMPOST"}
NoStall == {}
ThreeThreads == {0, 1, 2}
JustMath == {1}

direct(t, i) == [via |-> "direct", to |-> t, ins |-> i]
push(t, i) == [via |-> "push", to |-> t, ins |-> i]
mmio(o, q) == [via |-> "mmio", to |-> 0, ins |-> [op |-> o, sem |-> q, value |-> 2]]

UpTo(n, S) == UNION {[1..m -> S] : m \in 0..n}

Plain(o) == [op |-> o]
Sem(o, q) == [op |-> o, sems |-> {q}]
Semwait(q, c, blk) == [op |-> "SEMWAIT", sems |-> {q}, cond |-> {c}, block |-> blk]
Stallwait(c, blk) == [op |-> "STALLWAIT", sems |-> {}, cond |-> c, block |-> blk]
Mop(body) == [op |-> MOP, body |-> body]
Load(n, ewl) == [op |-> "REPLAY", load |-> TRUE, start |-> 0, count |-> n, ewl |-> ewl]
Play(n) == [op |-> "REPLAY", load |-> FALSE, start |-> 0, count |-> n, ewl |-> FALSE]
-----------------------------------------------------------------------------
(* Both ways into a thread, with another thread that opens its gate. *)

StreamOps == {Semwait(0, 0, {1, 7}), Stallwait({}, {}), Sem("SEMPOST", 1), Plain("WRCFG")}
StreamHosts == {1, BRISC}
StreamPrograms ==
    {[h \in StreamHosts |-> IF h = 1 THEN p ELSE q] :
        p \in UpTo(4, {push(1, i) : i \in StreamOps} \cup {direct(1, i) : i \in StreamOps}),
        q \in {<<mmio("post", 0), push(1, Plain("NOP"))>>,
               <<push(1, Sem("SEMPOST", 0)), mmio("post", 0)>>}}
-----------------------------------------------------------------------------
(* Expansions: MOPs whose bodies block, and recording and replay. *)

BlockingMop == Mop(<<Semwait(0, 0, {1}), Sem("SEMPOST", 1), Plain("NOP")>>)
ReplayMop == Mop(<<Play(2), Sem("SEMPOST", 1)>>)
Directly(p) == [n \in DOMAIN p |-> direct(1, p[n])]
Phrases(buffer) == {<<BlockingMop>>, <<ReplayMop>>, <<Load(1, TRUE), Sem("SEMPOST", 1)>>,
                    <<Load(2, FALSE), Plain("MOP_CFG")>> \o buffer}
Opener == <<mmio("get", 0), mmio("post", 0), mmio("write", 0)>>
ExpandPrograms ==
    {[h \in StreamHosts |-> IF h = 1 THEN Directly(p \o q \o r) ELSE Opener] :
        p, q, r \in Phrases(<<Semwait(0, 0, {1}), Sem("SEMPOST", 1)>>)}
    \cup
    {[h \in StreamHosts |-> IF h = 1 THEN Directly(p \o q) ELSE Opener] :
        p, q \in Phrases(<<Sem("SEMPOST", 1), Sem("SEMGET", 1)>>) \cup {<<Play(2)>>}}

FrontEndPrograms == StreamPrograms \cup ExpandPrograms
-----------------------------------------------------------------------------
(* The three-stage pipeline: unpack, math, pack. *)

Unpack(s) == [op |-> "UNPACR", src |-> s, tile |-> tile]
Flip(o, F) == [op |-> o, flip |-> F]
Init1 == [op |-> "SEMINIT", sems |-> {1}, max |-> 1, init |-> 0]

UnpackStage == <<push(0, Unpack("A")), direct(0, Unpack("B")),
                 direct(0, Mop(<<Unpack("A"), Unpack("B")>>)),
                 direct(0, Stallwait({5, 6}, {0})), direct(0, Flip("SETDVALID", {"A", "B"}))>>
Mutex(o) == [op |-> o, mutex |-> 0]
MathStage == <<direct(1, Init1), direct(1, Mutex("ATGETM")), direct(1, Mutex("ATRELM")),
               direct(1, Mop(<<Flip("ELW", {}), Flip("SETRWC", {"A", "B"})>>)),
               direct(1, Semwait(1, 1, {1, 6})), direct(1, Sem("SEMPOST", 1)),
               push(1, Flip("ELW", {"A", "B"})),
               direct(1, Semwait(1, 1, {1, 6})), push(1, Sem("SEMPOST", 1)),
               direct(1, Stallwait({7, 8}, {6})), direct(1, Flip("SETRWC", {"A", "B"}))>>
PackStage == <<direct(2, Mutex("ATGETM")), direct(2, Mutex("ATRELM")),
               direct(2, Semwait(1, 0, {0, 1})), direct(2, Plain("PACR")),
               push(2, Sem("SEMGET", 1)),
               direct(2, Semwait(1, 0, {0, 1})), direct(2, Plain("PACR")),
               direct(2, Sem("SEMGET", 1))>>
PipelinePrograms ==
    {[t \in ThreeThreads |-> CASE t = 0 -> UnpackStage [] t = 1 -> MathStage [] t = 2 -> PackStage]}

\* step_direct and tensix_cop_step keep the pipeline's wait-then-post order in what the
\* threads execute: every SEMPOST comes after a SEMWAIT for room of its own, and only the
\* math thread raises a semaphore.
PostsAwaited == OnlyGets /\ Disciplined([q \in Sems |-> 1])
-----------------------------------------------------------------------------
(* Programs behind the comments that do not hold. *)

One(p) == {[h \in StreamHosts |-> IF h = 1 THEN p ELSE <<mmio("post", 0)>>]}

\* A pushed instruction waits at the gate, a direct MOP follows.
ForgetPrograms == One(<<direct(1, Semwait(0, 0, {7})), push(1, Plain("WRCFG")),
                        direct(1, Mop(<<Plain("NOP")>>))>>)

\* A replayed instruction waits at the gate.
ReplayTwicePrograms ==
    One(<<direct(1, Load(2, FALSE)), direct(1, Sem("SEMPOST", 1)), direct(1, Plain("WRCFG")),
          direct(1, Semwait(0, 0, {7})), direct(1, Play(2))>>)
=============================================================================
