---------------------------- MODULE GraphBuilder ----------------------------
(***************************************************************************)
(* The builder (builder.go) and the graph it checks (graph.go).            *)
(*                                                                         *)
(* The application adds nodes and edges in any order, wrong ones included, *)
(* and calls Build.  Build validates the graph, its cycle check being a    *)
(* depth-first search taken step by step (Go ranges over the map of nodes  *)
(* in any order), and wires the nodes with a buffer per edge.  A buffer is *)
(* named by the number of the Build that made it and that of its edge.     *)
(***************************************************************************)
EXTENDS Naturals, Sequences, FiniteSets

CONSTANTS
  Ids,     \* ids of nodes
  Limits   \* bounds, one of which is chosen: the number of edges and of Builds, the
           \* types each id is added with, the ports and error configurations in use,
           \* whether buffers are sized

Types == {"source", "operator", "sink"}
ErrorConfigs == {"skip", "fail", "deadletter", "deadletterNoSink"}

ASSUME GraphBuilderAssumption ==
  /\ IsFiniteSet(Ids)
  /\ Limits \subseteq [types : [Ids -> SUBSET Types], edges : Nat, builds : Nat, sized : BOOLEAN,
                      ports : SUBSET {"default", "p", "q"}, configs : SUBSET ErrorConfigs]

VARIABLES
  limits,     \* the member of Limits in force
  nodes,      \* g.nodes: id -> type
  edges,      \* g.edges, in the order they were added
  sizes,      \* bufferSizes: the pairs of nodes that have one
  errCfg,     \* errorConfig, "skip" if none is set
  err,        \* b.err is set
  phase,      \* "open", or "dfs" inside detectCycles
  color,      \* id -> "white", "gray" or "black"
  stack,      \* the calls of dfs under way, each with the last edge it has looked at
  result,     \* the outcome of the last Build: "none", "error", "invalid", "cycle", "ok"
  pipes,      \* the pipelines built
  adapter     \* what SetOutputs and SetPortOutputs gave each node: id -> [outputs, ports]

graphVars == <<nodes, edges, sizes, errCfg, err>>
dfsVars == <<phase, color, stack>>
vars == <<limits, graphVars, dfsVars, result, pipes, adapter>>

Init ==
  /\ limits \in Limits
  /\ nodes = << >> /\ edges = << >> /\ sizes = {} /\ errCfg = "skip" /\ err = FALSE
  /\ phase = "open" /\ color = << >> /\ stack = << >>
  /\ result = "none" /\ pipes = << >> /\ adapter = << >>

Names == DOMAIN nodes
EdgesFrom(n) == {k \in 1 .. Len(edges) : edges[k].from = n}
EdgesTo(n) == {k \in 1 .. Len(edges) : edges[k].to = n}

-----------------------------------------------------------------------------
(* The calls of the application.  After an error they all do nothing.  Once *)
(* it has called Build, it only calls Build again, if that succeeded.       *)

InUse == {id \in Ids : limits.types[id] # {}}

MayCall == phase = "open" /\ result = "none"

(* AddSource, AddOperator and AddSink, with Graph.AddNode. *)
AddNode(id, type) ==
  /\ MayCall /\ ~err
  /\ type \in limits.types[id]
  /\ IF id \in Names
     THEN err' = TRUE /\ UNCHANGED nodes
     ELSE /\ nodes' = [n \in Names \cup {id} |-> IF n = id THEN type ELSE nodes[n]]
          /\ UNCHANGED err
  /\ UNCHANGED <<limits, edges, sizes, errCfg, dfsVars, result, pipes, adapter>>

(* Connect and ConnectPort, with Graph.AddEdge. *)
Connect(from, port, to) ==
  /\ MayCall /\ ~err
  /\ port \in limits.ports /\ {from, to} \subseteq InUse
  /\ Len(edges) < limits.edges
  /\ IF {from, to} \subseteq Names
     THEN edges' = Append(edges, [from |-> from, port |-> port, to |-> to]) /\ UNCHANGED err
     ELSE err' = TRUE /\ UNCHANGED edges
  /\ UNCHANGED <<limits, nodes, sizes, errCfg, dfsVars, result, pipes, adapter>>

SetBufferSize(from, to) ==
  /\ MayCall /\ ~err
  /\ limits.sized /\ sizes = {} /\ {from, to} \subseteq InUse
  /\ sizes' = {<<from, to>>}
  /\ UNCHANGED <<limits, nodes, edges, errCfg, err, dfsVars, result, pipes, adapter>>

SetErrorConfig(cfg) ==
  /\ MayCall /\ ~err
  /\ cfg \in limits.configs \ {errCfg}
  /\ errCfg' = cfg
  /\ UNCHANGED <<limits, nodes, edges, sizes, err, dfsVars, result, pipes, adapter>>

-----------------------------------------------------------------------------
(* Validate. *)

(* Mutant of Structure: an operator without inputs is accepted. *)
StructureOfOutputs ==
  /\ Names # {}
  /\ \A n \in Names :
       /\ EdgesFrom(n) \cup EdgesTo(n) # {} \/ Names = {n}
       /\ CASE nodes[n] = "source" -> EdgesTo(n) = {}
            [] nodes[n] = "sink" -> EdgesFrom(n) = {}
            [] nodes[n] = "operator" -> EdgesFrom(n) # {}

(* What it asks before it looks for cycles. *)
Structure ==
  /\ Names # {}
  /\ \A n \in Names :
       /\ EdgesFrom(n) \cup EdgesTo(n) # {} \/ Names = {n}
       /\ CASE nodes[n] = "source" -> EdgesTo(n) = {}
            [] nodes[n] = "sink" -> EdgesFrom(n) = {}
            [] nodes[n] = "operator" -> EdgesTo(n) # {} /\ EdgesFrom(n) # {}

(* Build, up to detectCycles. *)
Build ==
  /\ phase = "open" /\ result \in {"none", "ok"} /\ Len(pipes) < limits.builds
  /\ IF err \/ ~Structure
     THEN /\ result' = IF err THEN "error" ELSE "invalid"
          /\ UNCHANGED dfsVars
     ELSE /\ phase' = "dfs"
          /\ color' = [n \in Names |-> "white"]
          /\ stack' = << >>
          /\ UNCHANGED result
  /\ UNCHANGED <<limits, graphVars, pipes, adapter>>

Push(s, n) == Append(s, [node |-> n, seen |-> 0])
Pop(s) == SubSeq(s, 1, Len(s) - 1)
Top == stack[Len(stack)]

(* adj: the edges of the node on top that are still to be looked at. *)
Ahead == {k \in EdgesFrom(Top.node) : k > Top.seen}
Looked(k) == [stack EXCEPT ![Len(stack)] = [node |-> Top.node, seen |-> k]]

(* The loop over the nodes calls dfs on a white one. *)
DfsRoot(n) ==
  /\ phase = "dfs" /\ stack = << >>
  /\ n \in Names /\ color[n] = "white"
  /\ color' = [color EXCEPT ![n] = "gray"]
  /\ stack' = Push(stack, n)
  /\ UNCHANGED <<limits, graphVars, phase, result, pipes, adapter>>

(* Mutant of DfsEdge: it does not get past a black neighbour. *)
DfsLooksAgain(k) ==
  /\ phase = "dfs" /\ stack # << >>
  /\ k \in Ahead /\ \A j \in Ahead : k <= j
  /\ \/ /\ color[edges[k].to] = "gray"
        /\ phase' = "open" /\ result' = "cycle"
        /\ UNCHANGED <<color, stack>>
     \/ /\ color[edges[k].to] = "white"
        /\ color' = [color EXCEPT ![edges[k].to] = "gray"]
        /\ stack' = Push(Looked(k), edges[k].to)
        /\ UNCHANGED <<phase, result>>
  /\ UNCHANGED <<limits, graphVars, pipes, adapter>>

(* dfs looks at the next edge: a gray neighbour makes a cycle, a white one  *)
(* is visited, a black one is passed.                                       *)
DfsEdge(k) ==
  /\ phase = "dfs" /\ stack # << >>
  /\ k \in Ahead /\ \A j \in Ahead : k <= j
  /\ \/ /\ color[edges[k].to] = "gray"
        /\ phase' = "open" /\ result' = "cycle"
        /\ UNCHANGED <<color, stack>>
     \/ /\ color[edges[k].to] = "white"
        /\ color' = [color EXCEPT ![edges[k].to] = "gray"]
        /\ stack' = Push(Looked(k), edges[k].to)
        /\ UNCHANGED <<phase, result>>
     \/ /\ color[edges[k].to] = "black"
        /\ stack' = Looked(k)
        /\ UNCHANGED <<phase, color, result>>
  /\ UNCHANGED <<limits, graphVars, pipes, adapter>>

(* Mutant of DfsReturn: the last neighbour is left out. *)
DfsReturnsEarly ==
  /\ phase = "dfs" /\ stack # << >>
  /\ \A j, k \in Ahead : j = k
  /\ color' = [color EXCEPT ![Top.node] = "black"]
  /\ stack' = Pop(stack)
  /\ UNCHANGED <<limits, graphVars, phase, result, pipes, adapter>>

(* All edges of the node have been looked at. *)
DfsReturn ==
  /\ phase = "dfs" /\ stack # << >>
  /\ Ahead = {}
  /\ color' = [color EXCEPT ![Top.node] = "black"]
  /\ stack' = Pop(stack)
  /\ UNCHANGED <<limits, graphVars, phase, result, pipes, adapter>>

-----------------------------------------------------------------------------
(* The rest of Build. *)

(* The buffers of the edges in K, in the order of the edges: the one at     *)
(* place j is that of the edge with j members of K up to it.                *)
Buffers(K) ==
  LET nth(j) == CHOOSE k \in K : Cardinality({i \in K : i <= k}) = j
  IN  [j \in 1 .. Cardinality(K) |-> [build |-> Len(pipes) + 1, edge |-> nth(j),
         sized |-> <<edges[nth(j)].from, edges[nth(j)].to>> \in sizes]]

Outputs == [n \in Names |-> Buffers(EdgesFrom(n))]

(* Mutant of PortOutputs: the last edge of a port replaces the others. *)
LastPortOutput ==
  [n \in Names |->
    [p \in {edges[k].port : k \in EdgesFrom(n)} |->
      LET bs == Buffers({k \in EdgesFrom(n) : edges[k].port = p}) IN <<bs[Len(bs)]>>]]

PortOutputs ==
  [n \in Names |->
    [p \in {edges[k].port : k \in EdgesFrom(n)} |->
      Buffers({k \in EdgesFrom(n) : edges[k].port = p})]]

(* The runtimes get their buffers, the nodes their outputs; a dead-letter   *)
(* buffer and runtime are made if there is a sink for them.                 *)
Wire ==
  /\ phase = "dfs" /\ stack = << >>
  /\ \A n \in Names : color[n] # "white"
  /\ phase' = "open" /\ result' = "ok"
  /\ pipes' = Append(pipes, [inputs |-> [n \in Names |-> Buffers(EdgesTo(n))],
                             outputs |-> Outputs,
                             strategy |-> IF errCfg = "deadletterNoSink" THEN "deadletter" ELSE errCfg,
                             dlBuffer |-> errCfg = "deadletter"])
  /\ adapter' = [n \in Names |-> [outputs |-> Outputs[n], ports |-> PortOutputs[n]]]
  /\ UNCHANGED <<limits, graphVars, color, stack>>

DfsStep ==
  \/ \E n \in Names : DfsRoot(n)
  \/ \E k \in 1 .. Len(edges) : DfsEdge(k)
  \/ DfsReturn \/ Wire

Next ==
  \/ \E id \in Ids, type \in Types : AddNode(id, type)
  \/ \E from, to \in Ids, port \in {"default", "p", "q"} : Connect(from, port, to)
  \/ \E from, to \in Ids : SetBufferSize(from, to)
  \/ \E cfg \in ErrorConfigs : SetErrorConfig(cfg)
  \/ Build \/ DfsStep

Spec == Init /\ [][Next]_vars

(* A Build that is under way goes on. *)
FairSpec == Spec /\ WF_vars(DfsStep)

-----------------------------------------------------------------------------
(* runtimeCollector and RouterOperator: the buffers a message is sent to. *)

Emit(n) == adapter[n].outputs

EmitToPort(n, port) ==
  IF port \in DOMAIN adapter[n].ports THEN adapter[n].ports[port] ELSE Emit(n)

(* The route function gives a port or "none". *)
Router(n, route, defaultPort) ==
  LET port == IF route = "none" THEN defaultPort ELSE route
  IN  IF port = "none" THEN << >> ELSE EmitToPort(n, port)

-----------------------------------------------------------------------------
Joined(a, b) == \E k \in 1 .. Len(edges) : edges[k].from = a /\ edges[k].to = b

(* The types; and a gray node is one on the stack, once, and the stack is a *)
(* path in the graph.                                                       *)
TypeOK ==
  /\ limits \in Limits
  /\ Names \subseteq Ids /\ \A n \in Names : nodes[n] \in Types
  /\ \A k \in 1 .. Len(edges) : {edges[k].from, edges[k].to} \subseteq Names
  /\ phase \in {"open", "dfs"}
  /\ result \in {"none", "error", "invalid", "cycle", "ok"}
  /\ phase = "dfs" =>
       /\ color \in [Names -> {"white", "gray", "black"}]
       /\ {n \in Names : color[n] = "gray"} = {stack[k].node : k \in 1 .. Len(stack)}
       /\ \A j, k \in 1 .. Len(stack) : stack[j].node = stack[k].node => j = k
       /\ \A k \in 2 .. Len(stack) : Joined(stack[k - 1].node, stack[k].node)

(* A black node has only black neighbours: what dfs has left behind is      *)
(* explored completely, wherever it entered the graph.                      *)
BlackIsExplored ==
  phase = "dfs" =>
    \A a, b \in Names : Joined(a, b) /\ color[a] = "black" => color[b] = "black"

(* Every set of nodes has a member that no edge leads from into the set. *)
Acyclic ==
  \A S \in (SUBSET Names) \ {{}} : \E a \in S : \A b \in S : ~Joined(a, b)

(* Build tells graphs with a cycle from those without: it accepts none that *)
(* has one, self-loops and parallel edges included, and refuses none for a  *)
(* cycle it has not, in whatever order Go ranges over the nodes.            *)
CyclesAreFound ==
  /\ result = "cycle" => ~Acyclic
  /\ result = "ok" /\ phase = "open" => Acyclic

(* Every node lies between a source and a sink: in a pipeline of more than  *)
(* one node, any set of nodes that has all the sources and whatever is      *)
(* behind a member is the set of all nodes, and so for the sinks.  A stop   *)
(* that sets out at the sources thus reaches every node.                    *)
AllReached ==
  result = "ok" /\ phase = "open" /\ (\A n \in Names : Names # {n}) =>
    /\ \A S \in SUBSET Names :
         /\ {n \in Names : nodes[n] = "source"} \subseteq S
         /\ \A a, b \in Names : a \in S /\ Joined(a, b) => b \in S
         => S = Names
    /\ \A S \in SUBSET Names :
         /\ {n \in Names : nodes[n] = "sink"} \subseteq S
         /\ \A a, b \in Names : b \in S /\ Joined(a, b) => a \in S
         => S = Names

EdgesOf(bs) == {bs[k].edge : k \in 1 .. Len(bs)}

(* Each edge has a buffer with one writer and one reader: its ends.  A      *)
(* message emitted to a port that is connected goes out on every edge of    *)
(* that port and on no other, also where two edges join the same nodes.     *)
WiredAsConnected ==
  result = "ok" /\ phase = "open" =>
    LET p == pipes[Len(pipes)]
    IN  /\ \A k \in 1 .. Len(edges), n \in Names :
             /\ k \in EdgesOf(p.outputs[n]) <=> edges[k].from = n
             /\ k \in EdgesOf(p.inputs[n]) <=> edges[k].to = n
             /\ \A port \in {edges[j].port : j \in EdgesFrom(n)} :
                  k \in EdgesOf(Router(n, port, "none"))
                    <=> edges[k].from = n /\ edges[k].port = port
        /\ \A n \in Names : EdgesOf(Router(n, "none", "none")) = {}

(* An error of a call sticks: nothing is added after it and no Build        *)
(* succeeds.                                                                *)
ErrorSticks == [][err => err' /\ nodes' = nodes /\ edges' = edges /\ pipes' = pipes]_vars

(* Build returns. *)
BuildReturns == phase = "dfs" ~> phase = "open"

(* A pipeline's nodes emit into its own buffers. *)
OwnBuffers ==
  phase = "open" =>
    \A k \in 1 .. Len(pipes) : \A n \in DOMAIN pipes[k].outputs :
      adapter[n].outputs = pipes[k].outputs[n]

(* "Each message is sent to exactly one port determined by the RouteFn"     *)
(* (operator.go).                                                           *)
OnePort ==
  result = "ok" /\ phase = "open" =>
    \A n \in Names, port \in limits.ports :
      \A j, k \in EdgesOf(Router(n, port, "none")) : edges[j].port = edges[k].port

(* "ErrorStrategyDeadLetter routes failed messages to a dead-letter sink"   *)
(* (errors.go).                                                             *)
DeadLetterHasBuffer ==
  \A k \in 1 .. Len(pipes) : pipes[k].strategy = "deadletter" => pipes[k].dlBuffer
=============================================================================
