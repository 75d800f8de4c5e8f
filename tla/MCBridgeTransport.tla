--------------------------- MODULE MCBridgeTransport ---------------------------
(* Instances of BridgeTransport for TLC.                                   *)
EXTENDS BridgeStream, TLC

CONSTANTS
    t2, p2, q2, k1, k2, main,
    MaxEvents        \* bound: what the CLIs print and the hosts write together

\* Every mix of stdout lines, stderr lines and writes, few of each (a stderr
\* line counts twice), and one fewer while two calls overlap.
Happened == writes + FoldSet(LAMBDA p, n : Len(printed[p]) + 2 * lp[p].logged + n,
                             0, Procs)
InCalls == {k \in Tasks : op[k] # NoOp}
Budget == Happened + (IF Cardinality(InCalls) > 1 THEN 1 ELSE 0) <= MaxEvents

OneName == [t \in Transports |-> main]

TaskSymmetry == Permutations(Tasks)

\* With two transports and two processes that nothing tells apart.
FullSymmetry == Permutations(Tasks) \union Permutations(Transports)
                \union Permutations(Procs) \union Permutations(Queues)
=============================================================================
