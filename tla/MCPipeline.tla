----------------------------- MODULE MCPipeline -----------------------------
(* The graphs on which module Pipeline is checked. *)
EXTENDS Pipeline

CONSTANTS s, s2, a, k

(* The outputs of each node, its edges in the order they were added. *)
OutputsOf(nodes, edges) == [n \in nodes |-> SelectSeq(edges, LAMBDA e : e[1] = n)]

OneSource == {s}
TwoSources == {s, s2}

(* A source and a sink. *)
PairNodes == {s, k}
PairOutputs == OutputsOf(PairNodes, <<<<s, k>>>>)

(* A source, an operator and a sink in a row. *)
ChainNodes == {s, a, k}
ChainOutputs == OutputsOf(ChainNodes, <<<<s, a>>, <<a, k>>>>)

(* The source also feeds the sink: its stream branches and meets again. *)
DiamondOutputs == OutputsOf(ChainNodes, <<<<s, a>>, <<s, k>>, <<a, k>>>>)

(* Two sinks. *)
BranchOutputs == OutputsOf(ChainNodes, <<<<s, a>>, <<s, k>>>>)

(* Two sources and the sink that merges them. *)
MergeNodes == {s, s2, k}
MergeOutputs == OutputsOf(MergeNodes, <<<<s, k>>, <<s2, k>>>>)
=============================================================================
