--------------------------- MODULE MCGraphBuilder ---------------------------
(* The bounds within which module GraphBuilder is checked. *)
EXTENDS GraphBuilder

Limit(types, edgeCount, builds, ports, configs, sized) ==
  [types |-> types, edges |-> edgeCount, builds |-> builds, ports |-> ports,
   configs |-> configs, sized |-> sized]

Any(ids) == [id \in Ids |-> IF id \in ids THEN Types ELSE {}]
TwoOperators == [id \in Ids |-> CASE id = 1 -> {"source"} [] id = 4 -> {"sink"} [] OTHER -> {"operator"}]

(* All graphs of up to three nodes and edges; all of up to four edges over a  *)
(* source, two operators and a sink; two nodes with ports, sizes and error    *)
(* configurations.                                                            *)
AllLimits ==
  {Limit(Any({1, 2, 3}), 3, 1, {"default"}, {}, FALSE),
   Limit(TwoOperators, 4, 1, {"default"}, {}, FALSE),
   Limit(Any({1, 2}), 2, 1, {"default", "p"}, {"fail", "deadletter"}, TRUE)}

SmallOnly == {Limit(Any({1, 2}), 2, 2, {"default", "p", "q"}, {"deadletterNoSink"}, FALSE)}
=============================================================================
