------------------------- MODULE GraphBuilderProofs -------------------------
(***************************************************************************)
(* Theorems about module GraphBuilder, for graphs of any size: the search  *)
(* of detectCycles finds a cycle if and only if there is one, in what      *)
(* Build accepts every node lies between a source and a sink, and the      *)
(* buffers are wired as the edges say.                                     *)
(***************************************************************************)
EXTENDS GraphBuilder, SequenceTheorems, FiniteSetTheorems, TLAPS

-----------------------------------------------------------------------------
(* The inductive invariant. *)

Frame == [node : Names, seen : Nat]
Ports == {"default", "p", "q"}

(* The graph is well formed. *)
Shape ==
  /\ limits \in Limits
  /\ Names \subseteq Ids
  /\ \A n \in Names : nodes[n] \in Types
  /\ edges \in Seq([from : Names, port : Ports, to : Names])
  /\ phase \in {"open", "dfs"}
  /\ result \in {"none", "error", "invalid", "cycle", "ok"}

(* The gray nodes are those on the stack, each once. *)
GrayOnStack ==
  /\ color \in [Names -> {"white", "gray", "black"}]
  /\ stack \in Seq(Frame)
  /\ \A k \in 1 .. Len(stack) : color[stack[k].node] = "gray"
  /\ \A n \in Names : color[n] = "gray" => \E k \in 1 .. Len(stack) : stack[k].node = n
  /\ \A j, k \in 1 .. Len(stack) : stack[j].node = stack[k].node => j = k

StackIsPath ==
  \A k \in 1 .. Len(stack) : k + 1 <= Len(stack) => Joined(stack[k].node, stack[k + 1].node)

(* An edge a call has looked at leads to a black node or to the call above it. *)
SeenIsBlack ==
  \A k \in 1 .. Len(stack), i \in 1 .. Len(edges) :
    edges[i].from = stack[k].node /\ i <= stack[k].seen =>
      \/ color[edges[i].to] = "black"
      \/ k + 1 <= Len(stack) /\ stack[k + 1].node = edges[i].to

Explored ==
  \A a, b \in Names : Joined(a, b) /\ color[a] = "black" => color[b] = "black"

BlackSets == {S \in SUBSET Names : S # {} /\ \A n \in S : color[n] = "black"}

(* Every set of black nodes has a last member and a first one. *)
BlackHasLast == \A S \in BlackSets : \E a \in S : \A b \in S : ~Joined(a, b)
BlackHasFirst == \A S \in BlackSets : \E b \in S : \A a \in S : ~Joined(a, b)

DfsInv == GrayOnStack /\ StackIsPath /\ SeenIsBlack /\ Explored /\ BlackHasLast /\ BlackHasFirst

(* Acyclic, seen from the other end of the edges. *)
AcyclicBack ==
  \A S \in (SUBSET Names) \ {{}} : \E b \in S : \A a \in S : ~Joined(a, b)

Inv ==
  /\ Shape
  /\ phase = "dfs" => DfsInv /\ ~err /\ Structure /\ result \in {"none", "ok"}
  /\ result = "cycle" => ~Acyclic
  /\ result = "ok" /\ phase = "open" => Acyclic /\ AcyclicBack /\ Structure

-----------------------------------------------------------------------------
(* The graph does not change while the search is under way. *)
LEMMA SameGraph ==
  ASSUME UNCHANGED <<limits, graphVars>>
  PROVE  /\ Names' = Names /\ limits' = limits /\ nodes' = nodes /\ edges' = edges /\ err' = err
         /\ \A a, b : Joined(a, b)' <=> Joined(a, b)
         /\ Structure' <=> Structure
         /\ Acyclic' <=> Acyclic
         /\ AcyclicBack' <=> AcyclicBack
  BY DEF graphVars, Names, Joined, Structure, EdgesFrom, EdgesTo, Acyclic, AcyclicBack

(* Nor do the calls that add nothing change it. *)
LEMMA SameEdges ==
  ASSUME nodes' = nodes, edges' = edges
  PROVE  /\ Names' = Names
         /\ \A a, b : Joined(a, b)' <=> Joined(a, b)
         /\ Structure' <=> Structure
         /\ Acyclic' <=> Acyclic
         /\ AcyclicBack' <=> AcyclicBack
  BY DEF Names, Joined, Structure, EdgesFrom, EdgesTo, Acyclic, AcyclicBack

(* What the steps make of the stack. *)
LEMMA StackTop ==
  ASSUME stack \in Seq(Frame), stack # << >>
  PROVE  Len(stack) \in Nat \ {0} /\ Top \in Frame /\ Top = stack[Len(stack)]
  <1> HIDE DEF Frame
  <1> QED BY DEF Top

(* What is left of the stack when its top frame is popped. *)
LEMMA StackPop ==
  ASSUME stack \in Seq(Frame), stack # << >>
  PROVE  /\ Pop(stack) \in Seq(Frame)
         /\ Len(Pop(stack)) = Len(stack) - 1
         /\ \A k \in 1 .. Len(stack) - 1 : Pop(stack)[k] = stack[k]
  <1> HIDE DEF Frame
  <1> DEFINE m == Len(stack) - 1
  <1>1. m \in Nat /\ \A i \in 1 .. m : stack[i] \in Frame
    OBVIOUS
  <1>2. Pop(stack) = SubSeq(stack, 1, m)
    BY DEF Pop
  <1> HIDE DEF m
  <1>3. /\ SubSeq(stack, 1, m) \in Seq(Frame)
        /\ Len(SubSeq(stack, 1, m)) = IF 1 <= m THEN m - 1 + 1 ELSE 0
        /\ \A i \in 1 .. m - 1 + 1 : SubSeq(stack, 1, m)[i] = stack[1 + i - 1]
    BY <1>1, SubSeqProperties
  <1>4. Len(SubSeq(stack, 1, m)) = m /\ \A i \in 1 .. m : SubSeq(stack, 1, m)[i] = stack[i]
    BY <1>1, <1>3
  <1> QED BY <1>2, <1>3, <1>4 DEF m

(* What is left of the stack when its top frame has looked at one more node. *)
LEMMA StackLooked ==
  ASSUME stack \in Seq(Frame), stack # << >>, NEW k \in Nat
  PROVE  /\ Looked(k) \in Seq(Frame)
         /\ Len(Looked(k)) = Len(stack)
         /\ \A j \in 1 .. Len(stack) : Looked(k)[j].node = stack[j].node
         /\ \A j \in 1 .. Len(stack) : Looked(k)[j].seen = IF j = Len(stack) THEN k ELSE stack[j].seen
  <1>1. Len(stack) \in Nat \ {0} /\ Top \in Frame /\ Top = stack[Len(stack)]
    BY StackTop
  <1>2. [node |-> Top.node, seen |-> k] \in Frame
    BY <1>1 DEF Frame
  <1> QED BY <1>1, <1>2 DEF Looked, Frame

(* The stack with one more frame. *)
LEMMA StackPush ==
  ASSUME NEW s \in Seq(Frame), NEW n \in Names
  PROVE  /\ Push(s, n) \in Seq(Frame)
         /\ Len(Push(s, n)) = Len(s) + 1
         /\ \A j \in 1 .. Len(s) : Push(s, n)[j] = s[j]
         /\ Push(s, n)[Len(s) + 1] = [node |-> n, seen |-> 0]
  <1>1. [node |-> n, seen |-> 0] \in Frame
    BY DEF Frame
  <1> QED BY <1>1 DEF Push

(* Edges join nodes of the graph; frames are of its nodes. *)
LEMMA EdgeEnds ==
  ASSUME Shape, NEW k \in 1 .. Len(edges)
  PROVE  edges[k].from \in Names /\ edges[k].to \in Names
  <1> DEFINE E == [from : Names, port : Ports, to : Names]
  <1>1. edges \in Seq(E)
    BY DEF Shape
  <1> HIDE DEF E
  <1>2. edges[k] \in E
    BY <1>1
  <1> QED BY <1>2 DEF E

(* The nodes of the frames are gray and no two are the same. *)
LEMMA GrayFrames ==
  ASSUME DfsInv
  PROVE  /\ color \in [Names -> {"white", "gray", "black"}]
         /\ stack \in Seq(Frame)
         /\ \A j \in 1 .. Len(stack) : stack[j].node \in Names
         /\ \A j \in 1 .. Len(stack) : color[stack[j].node] = "gray"
         /\ \A j, i \in 1 .. Len(stack) : stack[j].node = stack[i].node => j = i
         /\ \A n \in Names : color[n] = "gray" => \E j \in 1 .. Len(stack) : stack[j].node = n
  <1>1. stack \in Seq(Frame)
    BY DEF DfsInv, GrayOnStack
  <1>2. \A j \in 1 .. Len(stack) : stack[j] \in Frame
    <2> HIDE DEF Frame
    <2> QED BY <1>1
  <1>3. \A j \in 1 .. Len(stack) : stack[j].node \in Names
    BY <1>2 DEF Frame
  <1> QED BY <1>1, <1>3 DEF DfsInv, GrayOnStack

-----------------------------------------------------------------------------
(* The steps of the search. *)

(* A root is pushed on the empty stack. *)
LEMMA RootKeeps ==
  ASSUME Shape, DfsInv, NEW n \in Names, DfsRoot(n)
  PROVE  DfsInv'
  <1>1. /\ stack = << >> /\ color[n] = "white" /\ stack' = Push(stack, n)
        /\ color' = [color EXCEPT ![n] = "gray"] /\ UNCHANGED <<limits, graphVars>>
    BY DEF DfsRoot
  <1>2. /\ Names' = Names /\ edges' = edges /\ \A a, b : Joined(a, b)' <=> Joined(a, b)
    BY <1>1, SameGraph
  <1>3. /\ stack' \in Seq(Frame) /\ Len(stack') = 1 /\ stack'[1] = [node |-> n, seen |-> 0]
    <2>1. stack \in Seq(Frame) /\ Len(stack) = 0
      BY <1>1 DEF DfsInv, GrayOnStack
    <2>2. /\ Push(stack, n) \in Seq(Frame) /\ Len(Push(stack, n)) = Len(stack) + 1
          /\ Push(stack, n)[Len(stack) + 1] = [node |-> n, seen |-> 0]
      BY <2>1, StackPush
    <2> HIDE DEF Frame, Push
    <2> QED BY <1>1, <2>1, <2>2
  <1>4. /\ color \in [Names -> {"white", "gray", "black"}]
        /\ \A m \in Names : color[m] # "gray"
    BY <1>1 DEF DfsInv, GrayOnStack
  <1>5. /\ color' \in [Names -> {"white", "gray", "black"}] /\ color'[n] = "gray"
        /\ \A m \in Names : m # n => color'[m] = color[m]
        /\ \A m \in Names : color'[m] = "black" <=> color[m] = "black"
    BY <1>1, <1>4
  <1>6. GrayOnStack'
    BY <1>2, <1>3, <1>4, <1>5 DEF GrayOnStack, Frame
  <1>7. StackIsPath' /\ SeenIsBlack'
    BY <1>2, <1>3 DEF StackIsPath, SeenIsBlack
  <1>8. Explored' /\ BlackHasLast' /\ BlackHasFirst'
    <2>1. BlackSets' = BlackSets
      BY <1>2, <1>5 DEF BlackSets
    <2> QED BY <2>1, <1>2, <1>5 DEF DfsInv, Explored, BlackHasLast, BlackHasFirst
  <1> QED BY <1>6, <1>7, <1>8 DEF DfsInv

(* A black neighbour is passed. *)
LEMMA PassKeeps ==
  ASSUME Shape, DfsInv, stack # << >>, NEW k \in 1 .. Len(edges), k \in Ahead,
         \A j \in Ahead : k <= j, color[edges[k].to] = "black",
         stack' = Looked(k), color' = color, UNCHANGED <<limits, graphVars>>
  PROVE  DfsInv'
  <1>1. /\ Names' = Names /\ edges' = edges /\ \A a, b : Joined(a, b)' <=> Joined(a, b)
    BY SameGraph
  <1>2. stack \in Seq(Frame) /\ k \in Nat
    BY DEF DfsInv, GrayOnStack
  <1>3. Len(stack) \in Nat \ {0} /\ Top = stack[Len(stack)]
    BY <1>2, StackTop
  <1>4. /\ stack' \in Seq(Frame) /\ Len(stack') = Len(stack)
        /\ \A j \in 1 .. Len(stack) : stack'[j].node = stack[j].node
        /\ \A j \in 1 .. Len(stack) : stack'[j].seen = IF j = Len(stack) THEN k ELSE stack[j].seen
    BY <1>2, StackLooked
  <1>5. GrayOnStack'
    <2>1. Frame' = Frame
      BY <1>1 DEF Frame
    <2>2. /\ \A j \in 1 .. Len(stack) : color[stack'[j].node] = "gray"
          /\ \A j, i \in 1 .. Len(stack) : stack'[j].node = stack'[i].node => j = i
      BY <1>4 DEF DfsInv, GrayOnStack
    <2>3. \A n \in Names : color[n] = "gray" => \E j \in 1 .. Len(stack) : stack'[j].node = n
      BY <1>4 DEF DfsInv, GrayOnStack
    <2>4. color \in [Names -> {"white", "gray", "black"}]
      BY DEF DfsInv, GrayOnStack
    <2> QED BY <1>1, <1>4, <2>1, <2>2, <2>3, <2>4 DEF GrayOnStack
  <1>6. StackIsPath'
    <2> SUFFICES ASSUME NEW j \in 1 .. Len(stack), j + 1 <= Len(stack)
                 PROVE  Joined(stack'[j].node, stack'[j + 1].node)
      BY <1>1, <1>4 DEF StackIsPath
    <2>1. j + 1 \in 1 .. Len(stack)
      BY <1>3
    <2> QED BY <2>1, <1>4 DEF DfsInv, StackIsPath
  <1>7. SeenIsBlack'
    <2> SUFFICES ASSUME NEW j \in 1 .. Len(stack), NEW i \in 1 .. Len(edges),
                        edges[i].from = stack[j].node, i <= stack'[j].seen
                 PROVE  color[edges[i].to] = "black"
                          \/ (j + 1 <= Len(stack) /\ stack'[j + 1].node = edges[i].to)
      BY <1>1, <1>4 DEF SeenIsBlack
    <2>1. CASE j # Len(stack)
      <3>1. i <= stack[j].seen /\ j + 1 \in 1 .. Len(stack)
        BY <2>1, <1>3, <1>4
      <3> QED BY <3>1, <1>4 DEF DfsInv, SeenIsBlack
    <2>2. CASE j = Len(stack)
      <3>1. i <= k
        BY <2>2, <1>4
      <3>2. CASE i = k
        BY <3>2
      <3>3. CASE i # k
        <4>1. i \notin Ahead
          BY <3>1, <3>3
        <4>2. stack[j].seen \in Nat /\ i <= stack[j].seen
          <5>1. stack[j] \in Frame /\ Top = stack[j]
            BY <2>2, <1>2, <1>3
          <5>2. stack[j].seen \in Nat
            BY <5>1 DEF Frame
          <5>3. i \in EdgesFrom(Top.node)
            BY <5>1 DEF EdgesFrom
          <5>4. ~(i > stack[j].seen)
            BY <4>1, <5>1, <5>3 DEF Ahead
          <5> QED BY <5>2, <5>4
        <4>3. ~(j + 1 <= Len(stack))
          BY <2>2, <1>3
        <4> QED BY <4>2, <4>3 DEF DfsInv, SeenIsBlack
      <3> QED BY <3>2, <3>3
    <2> QED BY <2>1, <2>2
  <1>8. Explored' /\ BlackHasLast' /\ BlackHasFirst'
    <2>1. BlackSets' = BlackSets
      BY <1>1 DEF BlackSets
    <2> QED BY <2>1, <1>1 DEF DfsInv, Explored, BlackHasLast, BlackHasFirst
  <1> QED BY <1>5, <1>6, <1>7, <1>8 DEF DfsInv

(* A white neighbour is visited. *)
LEMMA VisitKeeps ==
  ASSUME Shape, DfsInv, stack # << >>, NEW k \in 1 .. Len(edges), k \in Ahead,
         \A j \in Ahead : k <= j, color[edges[k].to] = "white",
         stack' = Push(Looked(k), edges[k].to),
         color' = [color EXCEPT ![edges[k].to] = "gray"], UNCHANGED <<limits, graphVars>>
  PROVE  DfsInv'
  <1> DEFINE m == edges[k].to
             L == Len(stack)
  <1>1. /\ Names' = Names /\ edges' = edges /\ \A a, b : Joined(a, b)' <=> Joined(a, b)
    BY SameGraph
  <1>2. stack \in Seq(Frame) /\ k \in Nat /\ m \in Names /\ edges[k].from \in Names
    BY EdgeEnds, GrayFrames
  <1>3. L \in Nat \ {0} /\ Top = stack[L] /\ stack[L] \in Frame
    BY <1>2, StackTop
  <1>4. /\ Looked(k) \in Seq(Frame) /\ Len(Looked(k)) = L
        /\ \A j \in 1 .. L : Looked(k)[j].node = stack[j].node
        /\ \A j \in 1 .. L : Looked(k)[j].seen = IF j = L THEN k ELSE stack[j].seen
    BY <1>2, StackLooked
  <1>5. /\ stack' \in Seq(Frame) /\ Len(stack') = L + 1
        /\ \A j \in 1 .. L : stack'[j] = Looked(k)[j]
        /\ stack'[L + 1] = [node |-> m, seen |-> 0]
    <2>1. /\ Push(Looked(k), m) \in Seq(Frame) /\ Len(Push(Looked(k), m)) = Len(Looked(k)) + 1
          /\ \A j \in 1 .. Len(Looked(k)) : Push(Looked(k), m)[j] = Looked(k)[j]
          /\ Push(Looked(k), m)[Len(Looked(k)) + 1] = [node |-> m, seen |-> 0]
      BY <1>2, <1>4, StackPush
    <2> QED BY <2>1, <1>4
  <1>6. /\ \A j \in 1 .. L : stack'[j].node = stack[j].node
        /\ \A j \in 1 .. L : stack'[j].seen = IF j = L THEN k ELSE stack[j].seen
        /\ stack'[L + 1].node = m /\ stack'[L + 1].seen = 0
    <2> HIDE DEF L, m
    <2> QED BY <1>4, <1>5
  <1>7. /\ color \in [Names -> {"white", "gray", "black"}]
        /\ \A j \in 1 .. L : color[stack[j].node] = "gray" /\ stack[j].node \in Names
    BY GrayFrames
  <1>8. /\ color' \in [Names -> {"white", "gray", "black"}] /\ color'[m] = "gray"
        /\ \A n \in Names : n # m => color'[n] = color[n]
        /\ \A n \in Names : color'[n] = "black" <=> color[n] = "black"
    BY <1>2, <1>7
  <1>9. \A j \in 1 .. L : stack[j].node # m
    BY <1>7
  <1>10. edges[k].from = stack[L].node
    BY <1>3 DEF Ahead, EdgesFrom
  <1>11. \A j \in 1 .. L + 1 : j = L + 1 \/ j \in 1 .. L
    BY <1>3
  <1> HIDE DEF m, L
  <1>12. GrayOnStack'
    <2>1. Frame' = Frame
      BY <1>1 DEF Frame
    <2>2. \A j \in 1 .. L + 1 : color'[stack'[j].node] = "gray"
      BY <1>6, <1>7, <1>8, <1>9, <1>11
    <2>3. \A n \in Names : color'[n] = "gray" => \E j \in 1 .. L + 1 : stack'[j].node = n
      <3> SUFFICES ASSUME NEW n \in Names, color'[n] = "gray"
                   PROVE  \E j \in 1 .. L + 1 : stack'[j].node = n
        OBVIOUS
      <3>1. CASE n = m
        BY <3>1, <1>3, <1>6
      <3>2. CASE n # m
        <4>1. \E j \in 1 .. L : stack[j].node = n
          BY <3>2, <1>8 DEF DfsInv, GrayOnStack, L
        <4> QED BY <4>1, <1>3, <1>6
      <3> QED BY <3>1, <3>2
    <2>4. \A j, i \in 1 .. L : stack[j].node = stack[i].node => j = i
      BY DEF DfsInv, GrayOnStack, L
    <2>5. \A j, i \in 1 .. L + 1 : stack'[j].node = stack'[i].node => j = i
      BY <2>4, <1>6, <1>9, <1>11
    <2> QED BY <1>1, <1>5, <1>8, <2>1, <2>2, <2>3, <2>5 DEF GrayOnStack
  <1>13. StackIsPath'
    <2> SUFFICES ASSUME NEW j \in 1 .. L + 1, j + 1 <= L + 1
                 PROVE  Joined(stack'[j].node, stack'[j + 1].node)
      BY <1>1, <1>5 DEF StackIsPath
    <2>1. j \in 1 .. L
      BY <1>3
    <2>2. CASE j = L
      <3>1. Joined(edges[k].from, m)
        BY DEF Joined, m
      <3> QED BY <3>1, <2>1, <2>2, <1>6, <1>10
    <2>3. CASE j # L
      <3>1. j + 1 \in 1 .. L /\ j + 1 <= L
        BY <2>1, <2>3, <1>3
      <3>2. Joined(stack[j].node, stack[j + 1].node)
        BY <3>1, <2>1 DEF DfsInv, StackIsPath, L
      <3> QED BY <3>1, <3>2, <2>1, <1>6
    <2> QED BY <2>2, <2>3
  <1>14. SeenIsBlack'
    <2> SUFFICES ASSUME NEW j \in 1 .. L + 1, NEW i \in 1 .. Len(edges),
                        edges[i].from = stack'[j].node, i <= stack'[j].seen
                 PROVE  color'[edges[i].to] = "black"
                          \/ (j + 1 <= L + 1 /\ stack'[j + 1].node = edges[i].to)
      BY <1>1, <1>5 DEF SeenIsBlack
    <2>0. edges[i].to \in Names
      BY EdgeEnds
    <2>1. CASE j = L + 1
      BY <2>1, <1>6
    <2>2. CASE j \in 1 .. L /\ j # L
      <3>1. i <= stack[j].seen /\ j + 1 \in 1 .. L /\ edges[i].from = stack[j].node
        BY <2>2, <1>3, <1>6
      <3>2. color[edges[i].to] = "black" \/ (j + 1 <= L /\ stack[j + 1].node = edges[i].to)
        BY <3>1, <2>2 DEF DfsInv, SeenIsBlack, L
      <3> QED BY <3>1, <3>2, <2>0, <2>2, <1>3, <1>6, <1>8
    <2>3. CASE j = L
      <3>0. j \in 1 .. L /\ j + 1 <= L + 1 /\ ~(j + 1 <= L)
        BY <2>3, <1>3
      <3>1. i <= k
        BY <2>3, <3>0, <1>6
      <3>2. CASE i = k
        BY <3>0, <3>2, <2>3, <1>6 DEF m
      <3>3. CASE i # k
        <4>1. i \notin Ahead
          BY <3>1, <3>3
        <4>2. stack[j].seen \in Nat
          BY <2>3, <1>3 DEF Frame
        <4>3. edges[i].from = stack[j].node
          BY <3>0, <1>6
        <4>4. i <= stack[j].seen
          <5>1. i \in EdgesFrom(Top.node)
            BY <4>3, <2>3, <1>3 DEF EdgesFrom
          <5>2. ~(i > stack[j].seen)
            BY <4>1, <5>1, <2>3, <1>3 DEF Ahead
          <5> QED BY <5>2, <4>2
        <4>5. color[edges[i].to] = "black"
          BY <4>3, <4>4, <3>0 DEF DfsInv, SeenIsBlack, L
        <4> QED BY <4>5, <2>0, <1>8
      <3> QED BY <3>2, <3>3
    <2> QED BY <2>1, <2>2, <2>3, <1>11
  <1>15. Explored' /\ BlackHasLast' /\ BlackHasFirst'
    <2>1. BlackSets' = BlackSets
      BY <1>1, <1>8 DEF BlackSets
    <2> QED BY <2>1, <1>1, <1>8 DEF DfsInv, Explored, BlackHasLast, BlackHasFirst
  <1> QED BY <1>12, <1>13, <1>14, <1>15 DEF DfsInv

(* The call on top returns and its node becomes black. *)
LEMMA ReturnKeeps ==
  ASSUME Shape, DfsInv, DfsReturn
  PROVE  DfsInv'
  <1> DEFINE L == Len(stack)
             t == stack[L].node
  <1>1. /\ stack # << >> /\ Ahead = {} /\ stack' = Pop(stack)
        /\ color' = [color EXCEPT ![Top.node] = "black"] /\ UNCHANGED <<limits, graphVars>>
    BY DEF DfsReturn
  <1>2. /\ Names' = Names /\ edges' = edges /\ \A a, b : Joined(a, b)' <=> Joined(a, b)
    BY <1>1, SameGraph
  <1>3. stack \in Seq(Frame) /\ L \in Nat \ {0} /\ Top = stack[L] /\ stack[L] \in Frame
    <2>1. stack \in Seq(Frame)
      BY DEF DfsInv, GrayOnStack
    <2> QED BY <2>1, <1>1, StackTop
  <1>4. t \in Names /\ stack[L].seen \in Nat
    BY <1>3 DEF Frame
  <1>5. /\ stack' \in Seq(Frame) /\ Len(stack') = L - 1
        /\ \A j \in 1 .. L - 1 : stack'[j] = stack[j]
    BY <1>1, <1>3, StackPop
  <1>6. /\ color \in [Names -> {"white", "gray", "black"}]
        /\ \A j \in 1 .. L : color[stack[j].node] = "gray" /\ stack[j].node \in Names
        /\ \A j, i \in 1 .. L : stack[j].node = stack[i].node => j = i
        /\ \A n \in Names : color[n] = "gray" => \E j \in 1 .. L : stack[j].node = n
    BY GrayFrames
  <1>7. color[t] = "gray"
    BY <1>3, <1>6
  <1>8. /\ color' \in [Names -> {"white", "gray", "black"}] /\ color'[t] = "black"
        /\ \A n \in Names : n # t => color'[n] = color[n]
    BY <1>1, <1>3, <1>4, <1>6
  <1>9. \A b \in Names : Joined(t, b) => color[b] = "black" /\ b # t
    <2> SUFFICES ASSUME NEW i \in 1 .. Len(edges), edges[i].from = t
                 PROVE  color[edges[i].to] = "black"
      BY <1>7 DEF Joined
    <2>1. i \in EdgesFrom(Top.node)
      BY <1>3 DEF EdgesFrom
    <2>2. ~(i > stack[L].seen)
      BY <2>1, <1>1, <1>3 DEF Ahead
    <2>3. i <= stack[L].seen /\ ~(L + 1 <= L) /\ L \in 1 .. Len(stack)
      BY <2>2, <1>3, <1>4
    <2> QED BY <2>3 DEF DfsInv, SeenIsBlack
  <1>10. \A a \in Names : color[a] = "black" => ~Joined(a, t)
    BY <1>4, <1>7 DEF DfsInv, Explored
  <1>11. \A j \in 1 .. L - 1 : j \in 1 .. L /\ j # L /\ stack[j].node # t
    BY <1>3, <1>6
  <1> HIDE DEF t, L
  <1>12. GrayOnStack'
    <2>1. Frame' = Frame
      BY <1>2 DEF Frame
    <2>2. \A j \in 1 .. L - 1 : color'[stack'[j].node] = "gray"
      BY <1>5, <1>6, <1>8, <1>11
    <2>3. \A n \in Names : color'[n] = "gray" => \E j \in 1 .. L - 1 : stack'[j].node = n
      <3> SUFFICES ASSUME NEW n \in Names, color'[n] = "gray"
                   PROVE  \E j \in 1 .. L - 1 : stack'[j].node = n
        OBVIOUS
      <3>1. n # t /\ color[n] = "gray"
        BY <1>8
      <3>2. PICK j \in 1 .. L : stack[j].node = n
        BY <3>1, <1>6
      <3>3. j # L
        BY <3>1, <3>2 DEF t
      <3>4. j \in 1 .. L - 1
        BY <3>3, <1>3
      <3> QED BY <3>2, <3>4, <1>5
    <2>4. \A j, i \in 1 .. L - 1 : stack'[j].node = stack'[i].node => j = i
      BY <1>5, <1>6, <1>11
    <2> QED BY <1>2, <1>5, <1>8, <2>1, <2>2, <2>3, <2>4 DEF GrayOnStack
  <1>13. StackIsPath'
    <2> SUFFICES ASSUME NEW j \in 1 .. L - 1, j + 1 <= L - 1
                 PROVE  Joined(stack'[j].node, stack'[j + 1].node)
      BY <1>2, <1>5 DEF StackIsPath
    <2>1. j \in 1 .. L /\ j + 1 \in 1 .. L - 1 /\ j + 1 <= L
      BY <1>3
    <2>2. Joined(stack[j].node, stack[j + 1].node)
      BY <2>1 DEF DfsInv, StackIsPath, L
    <2> QED BY <2>1, <2>2, <1>5
  <1>14. SeenIsBlack'
    <2> SUFFICES ASSUME NEW j \in 1 .. L - 1, NEW i \in 1 .. Len(edges),
                        edges[i].from = stack[j].node, i <= stack[j].seen
                 PROVE  color'[edges[i].to] = "black"
                          \/ (j + 1 <= L - 1 /\ stack'[j + 1].node = edges[i].to)
      BY <1>2, <1>5 DEF SeenIsBlack
    <2>0. edges[i].to \in Names
      BY EdgeEnds
    <2>1. j \in 1 .. L
      BY <1>3
    <2>2. color[edges[i].to] = "black" \/ (j + 1 <= L /\ stack[j + 1].node = edges[i].to)
      BY <2>1 DEF DfsInv, SeenIsBlack, L
    <2>3. CASE color[edges[i].to] = "black"
      BY <2>0, <2>3, <1>8
    <2>4. CASE j + 1 <= L /\ stack[j + 1].node = edges[i].to
      <3>1. CASE j + 1 = L
        BY <3>1, <2>4, <1>8 DEF t
      <3>2. CASE j + 1 # L
        <4>1. j + 1 <= L - 1 /\ j + 1 \in 1 .. L - 1
          BY <3>2, <2>4, <1>3
        <4> QED BY <4>1, <2>4, <1>5
      <3> QED BY <3>1, <3>2
    <2> QED BY <2>2, <2>3, <2>4
  <1>15. Explored'
    BY <1>2, <1>4, <1>8, <1>9 DEF DfsInv, Explored
  <1>16. BlackHasLast'
    <2> SUFFICES ASSUME NEW S \in BlackSets'
                 PROVE  \E a \in S : \A b \in S : ~Joined(a, b)
      BY <1>2 DEF BlackHasLast
    <2>1. S \in SUBSET Names /\ S # {} /\ \A n \in S : n # t => color[n] = "black"
      BY <1>2, <1>8 DEF BlackSets
    <2>2. CASE S = {t}
      BY <2>2, <1>4, <1>9
    <2>3. CASE S # {t}
      <3>1. S \ {t} \in BlackSets
        BY <2>1, <2>3 DEF BlackSets
      <3>2. PICK a \in S \ {t} : \A b \in S \ {t} : ~Joined(a, b)
        BY <3>1 DEF DfsInv, BlackHasLast
      <3>3. ~Joined(a, t)
        BY <3>2, <2>1, <1>10
      <3> QED BY <3>2, <3>3
    <2> QED BY <2>2, <2>3
  <1>17. BlackHasFirst'
    <2> SUFFICES ASSUME NEW S \in BlackSets'
                 PROVE  \E b \in S : \A a \in S : ~Joined(a, b)
      BY <1>2 DEF BlackHasFirst
    <2>1. S \in SUBSET Names /\ S # {} /\ \A n \in S : n # t => color[n] = "black"
      BY <1>2, <1>8 DEF BlackSets
    <2>2. CASE t \in S
      <3>1. \A a \in S : ~Joined(a, t)
        BY <2>1, <1>4, <1>9, <1>10
      <3> QED BY <3>1, <2>2
    <2>3. CASE t \notin S
      <3>1. S \in BlackSets
        BY <2>1, <2>3 DEF BlackSets
      <3> QED BY <3>1 DEF DfsInv, BlackHasFirst
    <2> QED BY <2>2, <2>3
  <1> QED BY <1>12, <1>13, <1>14, <1>15, <1>16, <1>17 DEF DfsInv

(* A gray neighbour closes a cycle: the calls from it upwards. *)
LEMMA CycleIsOne ==
  ASSUME Shape, DfsInv, stack # << >>, NEW k \in 1 .. Len(edges), k \in Ahead,
         color[edges[k].to] = "gray"
  PROVE  ~Acyclic
  <1> DEFINE L == Len(stack)
  <1>1. L \in Nat \ {0} /\ Top = stack[L]
    BY GrayFrames, StackTop
  <1>2. PICK m \in 1 .. L : stack[m].node = edges[k].to
    BY EdgeEnds, GrayFrames
  <1>3. edges[k].from = stack[L].node
    BY <1>1 DEF Ahead, EdgesFrom
  <1> DEFINE S == {stack[j].node : j \in m .. L}
  <1>4. S \in (SUBSET Names) \ {{}}
    <2>1. \A j \in m .. L : j \in 1 .. L
      BY <1>1
    <2>2. S \subseteq Names
      BY <2>1, GrayFrames
    <2>3. stack[L].node \in S
      BY <1>1
    <2> QED BY <2>2, <2>3
  <1>5. ASSUME NEW a \in S PROVE \E b \in S : Joined(a, b)
    <2>1. PICK j \in m .. L : a = stack[j].node
      OBVIOUS
    <2>2. CASE j = L
      <3>1. Joined(a, stack[m].node)
        BY <2>1, <2>2, <1>2, <1>3 DEF Joined
      <3>2. stack[m].node \in S
        BY <1>1
      <3> QED BY <3>1, <3>2
    <2>3. CASE j # L
      <3>1. j \in 1 .. L /\ j + 1 \in m .. L /\ j + 1 <= L
        BY <2>3, <1>1
      <3>2. Joined(a, stack[j + 1].node)
        BY <2>1, <3>1 DEF DfsInv, StackIsPath
      <3>3. stack[j + 1].node \in S
        BY <3>1
      <3> QED BY <3>2, <3>3
    <2> QED BY <2>2, <2>3
  <1> HIDE DEF S
  <1> QED BY <1>4, <1>5 DEF Acyclic

(* When all nodes have been visited, all are black. *)
LEMMA AllBlack ==
  ASSUME Shape, DfsInv, stack = << >>, \A n \in Names : color[n] # "white"
  PROVE  Acyclic /\ AcyclicBack
  <1>1. \A n \in Names : color[n] # "gray"
    BY GrayFrames
  <1>2. \A n \in Names : color[n] = "black"
    BY <1>1, GrayFrames
  <1>3. BlackSets = (SUBSET Names) \ {{}}
    BY <1>2 DEF BlackSets
  <1> QED BY <1>3 DEF DfsInv, BlackHasLast, BlackHasFirst, Acyclic, AcyclicBack

(* An empty search satisfies its invariant. *)
LEMMA FreshSearch ==
  color = [n \in Names |-> "white"] /\ stack = << >> => DfsInv
  <1> SUFFICES ASSUME color = [n \in Names |-> "white"], stack = << >> PROVE DfsInv
    OBVIOUS
  <1>1. stack \in Seq(Frame) /\ Len(stack) = 0
    OBVIOUS
  <1>2. BlackSets = {}
    BY DEF BlackSets
  <1>3. \A n \in Names : color[n] = "white"
    OBVIOUS
  <1> QED BY <1>1, <1>2, <1>3
    DEF DfsInv, GrayOnStack, StackIsPath, SeenIsBlack, Explored, BlackHasLast, BlackHasFirst

-----------------------------------------------------------------------------
(* The initial states satisfy the invariant. *)
LEMMA InitInv == Init => Inv
  <1> SUFFICES ASSUME Init PROVE Inv
    OBVIOUS
  <1>1. Names = {}
    BY DEF Init, Names
  <1>2. edges \in Seq([from : Names, port : Ports, to : Names])
    BY DEF Init
  <1> QED BY <1>1, <1>2 DEF Init, Inv, Shape

(* AddNode. *)
LEMMA AddNodeInv ==
  ASSUME Inv, NEW id \in Ids, NEW type \in Types, AddNode(id, type)
  PROVE  Inv'
  <1>1. phase = "open" /\ result = "none" /\ phase' = phase /\ result' = result /\ limits' = limits
    BY DEF AddNode, MayCall, dfsVars
  <1>2. edges' = edges
    BY DEF AddNode
  <1>3. CASE id \in Names
    <2>1. nodes' = nodes /\ Names' = Names
      BY <1>3 DEF AddNode, Names
    <2> QED BY <1>1, <1>2, <2>1 DEF Inv, Shape
  <1>4. CASE id \notin Names
    <2>1. nodes' = [n \in Names \cup {id} |-> IF n = id THEN type ELSE nodes[n]]
      BY <1>4 DEF AddNode
    <2>2. Names' = Names \cup {id}
      BY <2>1 DEF Names
    <2>3. \A n \in Names' : nodes'[n] \in Types
      BY <2>1, <2>2 DEF Inv, Shape
    <2>4. edges' \in Seq([from : Names', port : Ports, to : Names'])
      <3> DEFINE E == [from : Names, port : Ports, to : Names]
                 F == [from : Names', port : Ports, to : Names']
      <3>1. E \subseteq F
        BY <2>2
      <3>2. edges \in Seq(E)
        BY DEF Inv, Shape
      <3> HIDE DEF E, F
      <3>3. edges \in Seq(F)
        BY <3>1, <3>2
      <3> QED BY <3>3, <1>2 DEF F
    <2> QED BY <1>1, <2>2, <2>3, <2>4 DEF Inv, Shape
  <1> QED BY <1>3, <1>4

(* Connect and ConnectPort. *)
LEMMA ConnectInv ==
  ASSUME Inv, NEW from \in Ids, NEW to \in Ids, NEW port \in Ports, Connect(from, port, to)
  PROVE  Inv'
  <1>1. /\ phase = "open" /\ result = "none" /\ phase' = phase /\ result' = result
        /\ limits' = limits /\ nodes' = nodes /\ Names' = Names
    BY DEF Connect, MayCall, dfsVars, Names
  <1> DEFINE E == [from : Names, port : Ports, to : Names]
  <1>2. edges \in Seq(E)
    BY DEF Inv, Shape
  <1>3. edges' = edges \/ (from \in Names /\ to \in Names
                             /\ edges' = Append(edges, [from |-> from, port |-> port, to |-> to]))
    BY DEF Connect
  <1>4. from \in Names /\ to \in Names => [from |-> from, port |-> port, to |-> to] \in E
    OBVIOUS
  <1>5. edges' \in Seq(E)
    <2> HIDE DEF E
    <2> QED BY <1>2, <1>3, <1>4
  <1> QED BY <1>1, <1>5 DEF Inv, Shape

(* Calls that leave the graph alone. *)
LEMMA StepInv ==
  ASSUME Inv, UNCHANGED <<limits, nodes, edges, err, dfsVars, result>>
  PROVE  Inv'
  <1>1. /\ limits' = limits /\ nodes' = nodes /\ edges' = edges /\ err' = err
        /\ phase' = phase /\ color' = color /\ stack' = stack /\ result' = result
    BY DEF dfsVars
  <1>2. /\ Names' = Names /\ \A a, b : Joined(a, b)' <=> Joined(a, b)
    BY <1>1, SameEdges
  <1>3. (Structure' <=> Structure) /\ (Acyclic' <=> Acyclic) /\ (AcyclicBack' <=> AcyclicBack)
    BY <1>1, SameEdges
  <1>4. Shape' <=> Shape
    BY <1>1, <1>2 DEF Shape
  <1>5. DfsInv' <=> DfsInv
    <2>1. Frame' = Frame /\ BlackSets' = BlackSets
      BY <1>1, <1>2 DEF Frame, BlackSets
    <2>2. GrayOnStack' <=> GrayOnStack
      BY <1>1, <1>2, <2>1 DEF GrayOnStack
    <2>3. (StackIsPath' <=> StackIsPath) /\ (SeenIsBlack' <=> SeenIsBlack)
      BY <1>1, <1>2 DEF StackIsPath, SeenIsBlack
    <2>4. Explored' <=> Explored
      BY <1>1, <1>2 DEF Explored
    <2>5. (BlackHasLast' <=> BlackHasLast) /\ (BlackHasFirst' <=> BlackHasFirst)
      BY <1>2, <2>1 DEF BlackHasLast, BlackHasFirst
    <2> QED BY <2>2, <2>3, <2>4, <2>5 DEF DfsInv
  <1> QED BY <1>1, <1>3, <1>4, <1>5 DEF Inv

(* Build. *)
LEMMA BuildInv ==
  ASSUME Inv, Build
  PROVE  Inv'
  <1>1. UNCHANGED <<limits, graphVars>> /\ phase = "open" /\ result \in {"none", "ok"}
    BY DEF Build
  <1>2. /\ Names' = Names /\ limits' = limits /\ nodes' = nodes /\ edges' = edges /\ err' = err
        /\ Structure' <=> Structure
    BY <1>1, SameGraph
  <1>3. CASE err \/ ~Structure
    <2>1. result' \in {"error", "invalid"} /\ phase' = "open"
      BY <1>1, <1>3 DEF Build, dfsVars
    <2> QED BY <1>2, <2>1 DEF Inv, Shape
  <1>4. CASE ~err /\ Structure
    <2>1. /\ phase' = "dfs" /\ result' = result
          /\ color' = [n \in Names |-> "white"] /\ stack' = << >>
      BY <1>4 DEF Build
    <2>2. DfsInv'
      <3>1. (color = [n \in Names |-> "white"] /\ stack = << >>)'
        BY <1>2, <2>1
      <3> QED BY <3>1, FreshSearch, PTL
    <2>3. Shape'
      BY <1>2, <2>1 DEF Inv, Shape
    <2> QED BY <1>1, <1>2, <1>4, <2>1, <2>2, <2>3 DEF Inv
  <1> QED BY <1>3, <1>4

(* The steps of the search and the end of Build. *)
LEMMA DfsStepInv ==
  ASSUME Inv, DfsStep
  PROVE  Inv'
  <1>1. phase = "dfs" /\ UNCHANGED <<limits, graphVars>>
    BY DEF DfsStep, DfsRoot, DfsEdge, DfsReturn, Wire
  <1>2. Shape /\ DfsInv /\ ~err /\ Structure /\ result \in {"none", "ok"}
    BY <1>1 DEF Inv
  <1>3. /\ Names' = Names /\ limits' = limits /\ nodes' = nodes /\ edges' = edges /\ err' = err
        /\ (Structure' <=> Structure) /\ (Acyclic' <=> Acyclic) /\ (AcyclicBack' <=> AcyclicBack)
    BY <1>1, SameGraph
  <1>4. ASSUME DfsInv', phase' = phase, result' = result PROVE Inv'
    <2>1. Shape'
      BY <1>2, <1>3, <1>4 DEF Shape
    <2> QED BY <1>1, <1>2, <1>3, <1>4, <2>1 DEF Inv
  <1>5. ASSUME NEW n \in Names, DfsRoot(n) PROVE Inv'
    BY <1>2, <1>4, <1>5, RootKeeps DEF DfsRoot
  <1>6. ASSUME NEW k \in 1 .. Len(edges), DfsEdge(k) PROVE Inv'
    <2>1. stack # << >> /\ k \in Ahead /\ \A j \in Ahead : k <= j
      BY <1>6 DEF DfsEdge
    <2>2. CASE color[edges[k].to] = "gray" /\ phase' = "open" /\ result' = "cycle"
      <3>1. ~Acyclic
        BY <1>2, <2>1, <2>2, CycleIsOne
      <3>2. Shape'
        BY <1>2, <1>3, <2>2 DEF Shape
      <3> QED BY <1>3, <2>2, <3>1, <3>2 DEF Inv
    <2>3. CASE /\ color[edges[k].to] = "white"
               /\ color' = [color EXCEPT ![edges[k].to] = "gray"]
               /\ stack' = Push(Looked(k), edges[k].to) /\ UNCHANGED <<phase, result>>
      BY <1>1, <1>2, <1>4, <2>1, <2>3, VisitKeeps
    <2>4. CASE /\ color[edges[k].to] = "black"
               /\ stack' = Looked(k) /\ UNCHANGED <<phase, color, result>>
      BY <1>1, <1>2, <1>4, <2>1, <2>4, PassKeeps
    <2> QED BY <1>6, <2>2, <2>3, <2>4 DEF DfsEdge
  <1>7. ASSUME DfsReturn PROVE Inv'
    BY <1>2, <1>4, <1>7, ReturnKeeps DEF DfsReturn
  <1>8. ASSUME Wire PROVE Inv'
    <2>1. Acyclic /\ AcyclicBack
      BY <1>2, <1>8, AllBlack DEF Wire
    <2>2. phase' = "open" /\ result' = "ok"
      BY <1>8 DEF Wire
    <2>3. Shape'
      BY <1>2, <1>3, <2>2 DEF Shape
    <2> QED BY <1>2, <1>3, <2>1, <2>2, <2>3 DEF Inv
  <1> QED BY <1>5, <1>6, <1>7, <1>8 DEF DfsStep

(* Every step keeps the invariant. *)
LEMMA NextInv == Inv /\ [Next]_vars => Inv'
  <1> SUFFICES ASSUME Inv, [Next]_vars PROVE Inv'
    OBVIOUS
  <1>1. CASE \E id \in Ids, type \in Types : AddNode(id, type)
    BY <1>1, AddNodeInv
  <1>2. CASE \E from, to \in Ids, port \in {"default", "p", "q"} : Connect(from, port, to)
    BY <1>2, ConnectInv DEF Ports
  <1>3. CASE \E from, to \in Ids : SetBufferSize(from, to)
    BY <1>3, StepInv DEF SetBufferSize
  <1>4. CASE \E cfg \in ErrorConfigs : SetErrorConfig(cfg)
    BY <1>4, StepInv DEF SetErrorConfig
  <1>5. CASE Build
    BY <1>5, BuildInv
  <1>6. CASE DfsStep
    BY <1>6, DfsStepInv
  <1>7. CASE UNCHANGED vars
    BY <1>7, StepInv DEF vars, graphVars
  <1> QED BY <1>1, <1>2, <1>3, <1>4, <1>5, <1>6, <1>7 DEF Next

(* The invariant holds in every state of the builder. *)
THEOREM Invariance == Spec => []Inv
  BY InitInv, NextInv, PTL DEF Spec

(* The builder keeps its types; inside detectCycles the gray nodes are the  *)
(* calls under way and form a path.                                         *)
THEOREM TypeCorrect == Spec => []TypeOK
  <1>1. Inv => TypeOK
    <2> SUFFICES ASSUME Inv PROVE TypeOK
      OBVIOUS
    <2>1. \A k \in 1 .. Len(edges) : {edges[k].from, edges[k].to} \subseteq Names
      BY EdgeEnds DEF Inv
    <2>2. CASE phase = "dfs"
      <3>1. DfsInv
        BY <2>2 DEF Inv
      <3>2. {n \in Names : color[n] = "gray"} = {stack[k].node : k \in 1 .. Len(stack)}
        BY <3>1, GrayFrames
      <3>3. ASSUME NEW k \in 2 .. Len(stack) PROVE Joined(stack[k - 1].node, stack[k].node)
        <4>1. k - 1 \in 1 .. Len(stack) /\ (k - 1) + 1 = k /\ k <= Len(stack)
          BY <3>1, GrayFrames
        <4> QED BY <4>1, <3>1 DEF DfsInv, StackIsPath
      <3> QED BY <2>1, <3>1, <3>2, <3>3, GrayFrames DEF Inv, Shape, TypeOK
    <2>3. CASE phase # "dfs"
      BY <2>1, <2>3 DEF Inv, Shape, TypeOK
    <2> QED BY <2>2, <2>3
  <1> QED BY <1>1, Invariance, PTL

(* What dfs has left behind is explored completely. *)
THEOREM Exploration == Spec => []BlackIsExplored
  <1>1. Inv => BlackIsExplored
    BY DEF Inv, DfsInv, Explored, BlackIsExplored
  <1> QED BY <1>1, Invariance, PTL

(* Build refuses a graph for a cycle if it has one, and only then. *)
THEOREM CycleDetection == Spec => []CyclesAreFound
  <1>1. Inv => CyclesAreFound
    BY DEF Inv, CyclesAreFound
  <1> QED BY <1>1, Invariance, PTL

(* In a pipeline of several nodes every node is behind a source and in      *)
(* front of a sink.                                                         *)
THEOREM Reachability == Spec => []AllReached
  <1>1. Inv => AllReached
    <2> SUFFICES ASSUME Inv, result = "ok", phase = "open", \A n \in Names : Names # {n}
                 PROVE  AllReached
      BY DEF AllReached
    <2>1. Acyclic /\ AcyclicBack /\ Structure /\ Shape
      BY DEF Inv
    <2>2. ASSUME NEW n \in Names, nodes[n] # "source"
          PROVE  \E a \in Names : Joined(a, n)
      <3>1. EdgesTo(n) # {}
        BY <2>1, <2>2 DEF Structure, Shape, Types
      <3>2. PICK k \in 1 .. Len(edges) : edges[k].to = n
        BY <3>1 DEF EdgesTo
      <3>3. edges[k].from \in Names
        BY <2>1, EdgeEnds
      <3> QED BY <3>2, <3>3 DEF Joined
    <2>3. ASSUME NEW n \in Names, nodes[n] # "sink"
          PROVE  \E b \in Names : Joined(n, b)
      <3>1. EdgesFrom(n) # {}
        BY <2>1, <2>3 DEF Structure, Shape, Types
      <3>2. PICK k \in 1 .. Len(edges) : edges[k].from = n
        BY <3>1 DEF EdgesFrom
      <3>3. edges[k].to \in Names
        BY <2>1, EdgeEnds
      <3> QED BY <3>2, <3>3 DEF Joined
    <2>4. ASSUME NEW S \in SUBSET Names, {n \in Names : nodes[n] = "source"} \subseteq S,
                 \A a, b \in Names : a \in S /\ Joined(a, b) => b \in S
          PROVE  S = Names
      <3> SUFFICES ASSUME Names \ S # {} PROVE FALSE
        BY <2>4
      <3>1. PICK b \in Names \ S : \A a \in Names \ S : ~Joined(a, b)
        BY <2>1 DEF AcyclicBack
      <3>2. PICK a \in Names : Joined(a, b)
        BY <2>2, <2>4, <3>1
      <3> QED BY <2>4, <3>1, <3>2
    <2>5. ASSUME NEW S \in SUBSET Names, {n \in Names : nodes[n] = "sink"} \subseteq S,
                 \A a, b \in Names : b \in S /\ Joined(a, b) => a \in S
          PROVE  S = Names
      <3> SUFFICES ASSUME Names \ S # {} PROVE FALSE
        BY <2>5
      <3>1. PICK a \in Names \ S : \A b \in Names \ S : ~Joined(a, b)
        BY <2>1 DEF Acyclic
      <3>2. PICK b \in Names : Joined(a, b)
        BY <2>3, <2>5, <3>1
      <3> QED BY <2>5, <3>1, <3>2
    <2> QED BY <2>4, <2>5 DEF AllReached
  <1> QED BY <1>1, Invariance, PTL

(* After an error of a call nothing is added and no pipeline is built. *)
THEOREM StickyError == Spec => ErrorSticks
  <1>1. Inv /\ [Next]_vars => [err => err' /\ nodes' = nodes /\ edges' = edges /\ pipes' = pipes]_vars
    <2> SUFFICES ASSUME Inv, Next, err
                 PROVE  err' /\ nodes' = nodes /\ edges' = edges /\ pipes' = pipes
      OBVIOUS
    <2>1. phase # "dfs"
      BY DEF Inv
    <2>2. Build
      BY <2>1 DEF Next, DfsStep, DfsRoot, DfsEdge, DfsReturn, Wire, AddNode, Connect,
                  SetBufferSize, SetErrorConfig
    <2> QED BY <2>2 DEF Build, graphVars
  <1> QED BY <1>1, Invariance, PTL DEF Spec, ErrorSticks

-----------------------------------------------------------------------------
(* The wiring. *)

(* The members of a finite set of numbers have the ranks from 1 to its size. *)
LEMMA RankOfEdges ==
  ASSUME NEW N \in Nat, NEW K \in SUBSET (1 .. N)
  PROVE  /\ IsFiniteSet(K) /\ Cardinality(K) \in Nat
         /\ \A k \in K : Cardinality({i \in K : i <= k}) \in 1 .. Cardinality(K)
         /\ \A k, l \in K : Cardinality({i \in K : i <= k}) = Cardinality({i \in K : i <= l}) => k = l
         /\ \A j \in 1 .. Cardinality(K) : \E k \in K : Cardinality({i \in K : i <= k}) = j
  <1> DEFINE UpTo(k) == {i \in K : i <= k}
  <1> DEFINE Rank == [k \in K |-> Cardinality(UpTo(k))]
  <1>1. IsFiniteSet(K) /\ Cardinality(K) \in Nat
    <2>1. IsFiniteSet(1 .. N)
      BY FS_Interval
    <2>2. IsFiniteSet(K)
      BY <2>1, FS_Subset
    <2> QED BY <2>2, FS_CardinalityType
  <1>2. ASSUME NEW k \in K
        PROVE  IsFiniteSet(UpTo(k)) /\ Cardinality(UpTo(k)) \in 1 .. Cardinality(K)
    <2>1. UpTo(k) \in SUBSET K /\ k \in UpTo(k)
      OBVIOUS
    <2> HIDE DEF UpTo
    <2>2. IsFiniteSet(UpTo(k)) /\ Cardinality(UpTo(k)) <= Cardinality(K)
      BY <1>1, <2>1, FS_Subset
    <2>3. Cardinality(UpTo(k)) \in Nat /\ Cardinality(UpTo(k)) # 0
      BY <2>1, <2>2, FS_CardinalityType, FS_EmptySet
    <2> QED BY <1>1, <2>2, <2>3
  <1>3. ASSUME NEW k \in K, NEW l \in K, k < l
        PROVE  Cardinality(UpTo(k)) # Cardinality(UpTo(l))
    <2>1. UpTo(k) \in SUBSET UpTo(l) /\ l \in UpTo(l) /\ l \notin UpTo(k)
      <3>1. \A i \in K : i <= k => i <= l
        BY <1>3
      <3>2. k \in Nat /\ l \in Nat /\ ~(l <= k) /\ l <= l
        BY <1>3
      <3> QED BY <3>1, <3>2
    <2>2. IsFiniteSet(UpTo(l))
      BY <1>2
    <2> HIDE DEF UpTo
    <2> QED BY <2>1, <2>2, FS_Subset
  <1>4. ASSUME NEW k \in K, NEW l \in K, Cardinality(UpTo(k)) = Cardinality(UpTo(l))
        PROVE  k = l
    <2>1. k \in Nat /\ l \in Nat
      OBVIOUS
    <2> HIDE DEF UpTo
    <2> QED BY <1>3, <1>4, <2>1
  <1>5. ASSUME NEW j \in 1 .. Cardinality(K) PROVE \E k \in K : Cardinality(UpTo(k)) = j
    <2> DEFINE Ranks == 1 .. Cardinality(K)
    <2> HIDE DEF UpTo
    <2>1. Rank \in [K -> Ranks]
      BY <1>2
    <2>2. \A k, l \in K : Rank[k] = Rank[l] => k = l
      BY <1>4
    <2>3. Rank \in Injection(K, Ranks)
      <3> HIDE DEF Rank, Ranks
      <3> QED BY <2>1, <2>2 DEF Injection, IsInjective
    <2>4. IsFiniteSet(Ranks) /\ Cardinality(Ranks) = Cardinality(K)
      BY <1>1, FS_Interval
    <2>5. Rank \in Surjection(K, Ranks)
      <3> HIDE DEF Rank, Ranks
      <3> QED BY <2>3, <2>4, FS_Injection
    <2>6. \E k \in K : Rank[k] = j
      <3> HIDE DEF Rank
      <3> QED BY <2>5 DEF Surjection
    <2> QED BY <2>6
  <1> QED BY <1>1, <1>2, <1>4, <1>5

(* Buffers(K) has a buffer for each edge in K, and no other. *)
LEMMA BuffersAreThose ==
  ASSUME Shape, NEW K \in SUBSET (1 .. Len(edges))
  PROVE  EdgesOf(Buffers(K)) = K
  <1> DEFINE R(k) == Cardinality({i \in K : i <= k})
  <1> DEFINE C == Cardinality(K)
  <1>1. Len(edges) \in Nat
    BY DEF Shape
  <1>2. /\ C \in Nat
        /\ \A k \in K : R(k) \in 1 .. C
        /\ \A k, l \in K : R(k) = R(l) => k = l
        /\ \A j \in 1 .. C : \E k \in K : R(k) = j
    BY <1>1, RankOfEdges
  <1> DEFINE nth(j) == CHOOSE k \in K : R(k) = j
  <1> DEFINE bs == [j \in 1 .. C |-> [build |-> Len(pipes) + 1, edge |-> nth(j),
                     sized |-> <<edges[nth(j)].from, edges[nth(j)].to>> \in sizes]]
  <1>3. Buffers(K) = bs
    BY DEF Buffers
  <1> HIDE DEF R, C
  <1>4. \A j \in 1 .. C : nth(j) \in K /\ R(nth(j)) = j
    BY <1>2
  <1>5. \A k \in K : nth(R(k)) = k
    BY <1>2, <1>4
  <1> HIDE DEF nth
  <1>6. Len(bs) = C /\ \A j \in 1 .. C : bs[j].edge = nth(j)
    BY <1>2
  <1> HIDE DEF bs
  <1>7. ASSUME NEW k \in EdgesOf(bs) PROVE k \in K
    <2>1. PICK j \in 1 .. C : k = bs[j].edge
      BY <1>6, <1>7 DEF EdgesOf
    <2> QED BY <1>4, <1>6, <2>1
  <1>8. ASSUME NEW k \in K PROVE k \in EdgesOf(bs)
    <2>1. R(k) \in 1 .. Len(bs) /\ bs[R(k)].edge = k
      BY <1>2, <1>5, <1>6
    <2> QED BY <2>1 DEF EdgesOf
  <1> QED BY <1>3, <1>7, <1>8
(* The pipelines built are a list. *)
PipesListed == Len(pipes) \in Nat /\ pipes \in Seq({pipes[k] : k \in 1 .. Len(pipes)})

(* Wire adds a pipeline whose buffers are those of the edges. *)
LEMMA WireConnects ==
  ASSUME Inv, PipesListed, Wire
  PROVE  PipesListed' /\ WiredAsConnected'
  <1>1. Shape /\ edges' = edges /\ nodes' = nodes /\ Names' = Names
    BY DEF Inv, Wire, graphVars, Names
  <1> DEFINE In(n) == Buffers(EdgesTo(n))
             pipe == [inputs |-> [n \in Names |-> In(n)], outputs |-> Outputs,
                      strategy |-> IF errCfg = "deadletterNoSink" THEN "deadletter" ELSE errCfg,
                      dlBuffer |-> errCfg = "deadletter"]
             S == {pipes[k] : k \in 1 .. Len(pipes)}
  <1>2. pipes' = Append(pipes, pipe)
    BY DEF Wire
  <1>3. adapter' = [n \in Names |-> [outputs |-> Outputs[n], ports |-> PortOutputs[n]]]
    BY DEF Wire
  <1>4. /\ pipe.inputs = [n \in Names |-> In(n)]
        /\ pipe.outputs = Outputs
    OBVIOUS
  <1>5. PipesListed' /\ pipes'[Len(pipes')] = pipe
    <2> HIDE DEF pipe, S
    <2>1. Len(pipes) \in Nat /\ pipes \in Seq(S)
      BY DEF PipesListed, S
    <2>2. /\ Len(pipes') = Len(pipes) + 1 /\ pipes'[Len(pipes) + 1] = pipe
          /\ \A k \in 1 .. Len(pipes) : pipes'[k] = pipes[k]
          /\ pipes' \in Seq(S \cup {pipe})
      BY <1>2, <2>1
    <2>3. Len(pipes') \in Nat /\ pipes'[Len(pipes')] = pipe
      BY <2>1, <2>2
    <2>4. {pipes'[k] : k \in 1 .. Len(pipes')} = S \cup {pipe}
      <3>1. ASSUME NEW x \in S PROVE x \in {pipes'[k] : k \in 1 .. Len(pipes')}
        <4>1. PICK k \in 1 .. Len(pipes) : x = pipes[k]
          BY <3>1 DEF S
        <4>2. k \in 1 .. Len(pipes') /\ x = pipes'[k]
          BY <2>1, <2>2, <4>1
        <4> QED BY <4>2
      <3>2. pipe \in {pipes'[k] : k \in 1 .. Len(pipes')}
        <4>1. Len(pipes) + 1 \in 1 .. Len(pipes')
          BY <2>1, <2>2
        <4> QED BY <2>2, <4>1
      <3>3. ASSUME NEW k \in 1 .. Len(pipes') PROVE pipes'[k] \in S \cup {pipe}
        <4>1. k \in 1 .. Len(pipes) \/ k = Len(pipes) + 1
          BY <2>1, <2>2
        <4> QED BY <2>2, <4>1 DEF S
      <3> QED BY <3>1, <3>2, <3>3
    <2> QED BY <2>2, <2>3, <2>4 DEF PipesListed
  <1>6. ASSUME NEW n \in Names
        PROVE  /\ EdgesFrom(n) \in SUBSET (1 .. Len(edges)) /\ EdgesTo(n) \in SUBSET (1 .. Len(edges))
               /\ EdgesOf(Outputs[n]) = EdgesFrom(n) /\ EdgesOf(In(n)) = EdgesTo(n)
    <2>1. EdgesFrom(n) \in SUBSET (1 .. Len(edges)) /\ EdgesTo(n) \in SUBSET (1 .. Len(edges))
      BY DEF EdgesFrom, EdgesTo
    <2>2. EdgesOf(Buffers(EdgesFrom(n))) = EdgesFrom(n) /\ EdgesOf(Buffers(EdgesTo(n))) = EdgesTo(n)
      BY <1>1, <2>1, BuffersAreThose
    <2> QED BY <2>1, <2>2 DEF Outputs
  <1> DEFINE PortsOf(n) == {edges[j].port : j \in EdgesFrom(n)}
  <1>7. ASSUME NEW n \in Names, NEW port \in PortsOf(n)
        PROVE  /\ port \in DOMAIN PortOutputs[n]
               /\ EdgesOf(PortOutputs[n][port]) = {k \in EdgesFrom(n) : edges[k].port = port}
    <2> DEFINE K == {k \in EdgesFrom(n) : edges[k].port = port}
    <2>1. K \in SUBSET (1 .. Len(edges))
      BY <1>6
    <2>2. EdgesOf(Buffers(K)) = K
      BY <1>1, <2>1, BuffersAreThose
    <2>3. /\ DOMAIN PortOutputs[n] = PortsOf(n)
          /\ PortOutputs[n][port] = Buffers(K)
      BY DEF PortOutputs
    <2> QED BY <2>2, <2>3
  <1>8. ASSUME NEW n \in Names, NEW port \in PortsOf(n)
        PROVE  Router(n, port, "none")' = PortOutputs[n][port]
    <2>1. port # "none"
      <3>1. PICK j \in EdgesFrom(n) : port = edges[j].port
        BY <1>8
      <3>2. edges[j].port \in Ports
        <4> DEFINE E == [from : Names, port : Ports, to : Names]
        <4>1. edges \in Seq(E) /\ j \in 1 .. Len(edges)
          BY <1>1, <1>6 DEF Shape
        <4>2. edges[j] \in E
          <5> HIDE DEF E
          <5> QED BY <4>1
        <4> QED BY <4>2
      <3> QED BY <3>1, <3>2 DEF Ports
    <2>2. adapter'[n].ports = PortOutputs[n]
      BY <1>3
    <2> QED BY <1>7, <1>8, <2>1, <2>2 DEF Router, EmitToPort
  <1>9. ASSUME NEW n \in Names PROVE EdgesOf(Router(n, "none", "none"))' = {}
    BY DEF Router, EdgesOf
  <1>10. ASSUME NEW n \in Names PROVE EdgesFrom(n)' = EdgesFrom(n) /\ EdgesTo(n)' = EdgesTo(n)
    BY <1>1 DEF EdgesFrom, EdgesTo
  <1>11. ASSUME NEW k \in 1 .. Len(edges), NEW n \in Names
         PROVE  /\ k \in EdgesOf(Outputs[n]) <=> edges[k].from = n
                /\ k \in EdgesOf(In(n)) <=> edges[k].to = n
                /\ \A port \in PortsOf(n) : k \in EdgesOf(PortOutputs[n][port])
                                              <=> edges[k].from = n /\ edges[k].port = port
    <2>1. /\ k \in EdgesFrom(n) <=> edges[k].from = n
          /\ k \in EdgesTo(n) <=> edges[k].to = n
      BY DEF EdgesFrom, EdgesTo
    <2>2. EdgesOf(Outputs[n]) = EdgesFrom(n) /\ EdgesOf(In(n)) = EdgesTo(n)
      BY <1>6
    <2>3. ASSUME NEW port \in PortsOf(n)
          PROVE  EdgesOf(PortOutputs[n][port]) = {i \in EdgesFrom(n) : edges[i].port = port}
      BY <1>7, <2>3
    <2> HIDE DEF In, PortsOf
    <2> QED BY <2>1, <2>2, <2>3
  <1>12. \A bs : EdgesOf(bs)' = EdgesOf(bs)
    BY DEF EdgesOf
  <1>13. WiredAsConnected'
    <2> DEFINE p == pipes'[Len(pipes')]
    <2>1. p.outputs = Outputs /\ \A n \in Names : p.inputs[n] = In(n)
      BY <1>4, <1>5
    <2>2. ASSUME NEW k \in 1 .. Len(edges'), NEW n \in Names'
          PROVE  /\ k \in EdgesOf(p.outputs[n]) <=> edges'[k].from = n
                 /\ k \in EdgesOf(p.inputs[n]) <=> edges'[k].to = n
                 /\ \A port \in {edges'[j].port : j \in EdgesFrom(n)'} :
                      k \in EdgesOf(Router(n, port, "none"))'
                        <=> edges'[k].from = n /\ edges'[k].port = port
      <3>1. k \in 1 .. Len(edges) /\ n \in Names /\ {edges'[j].port : j \in EdgesFrom(n)'} = PortsOf(n)
        BY <1>1, <1>10, <2>2
      <3>2. \A port \in PortsOf(n) : EdgesOf(Router(n, port, "none"))' = EdgesOf(PortOutputs[n][port])
        BY <1>8, <3>1 DEF EdgesOf
      <3> HIDE DEF p, In, PortsOf
      <3> QED BY <1>1, <1>11, <2>1, <3>1, <3>2
    <2> HIDE DEF pipe
    <2> QED BY <1>1, <1>9, <2>2 DEF WiredAsConnected, EdgesOf
  <1> QED BY <1>5, <1>13

(* Only Wire leads to the end of a successful Build, and the graph does not *)
(* change after it.                                                         *)
LEMMA WiredStep ==
  ASSUME Inv, PipesListed, WiredAsConnected, [Next]_vars
  PROVE  PipesListed' /\ WiredAsConnected'
  <1>1. CASE Wire
    BY <1>1, WireConnects
  <1>2. CASE UNCHANGED vars
    <2>1. /\ nodes' = nodes /\ edges' = edges /\ phase' = phase /\ result' = result
          /\ pipes' = pipes /\ adapter' = adapter
      BY <1>2 DEF vars, graphVars, dfsVars
    <2>2. /\ Names' = Names /\ \A n : EdgesFrom(n)' = EdgesFrom(n)
          /\ \A n, port : Router(n, port, "none")' = Router(n, port, "none")
      BY <2>1 DEF Names, EdgesFrom, Router, EmitToPort, Emit
    <2>3. PipesListed'
      BY <2>1 DEF PipesListed
    <2>4. WiredAsConnected'
      <3> SUFFICES ASSUME result = "ok", phase = "open" PROVE WiredAsConnected'
        BY <2>1 DEF WiredAsConnected
      <3> DEFINE p == pipes[Len(pipes)]
      <3>1. ASSUME NEW k \in 1 .. Len(edges), NEW n \in Names
            PROVE  /\ k \in EdgesOf(p.outputs[n]) <=> edges[k].from = n
                   /\ k \in EdgesOf(p.inputs[n]) <=> edges[k].to = n
                   /\ \A port \in {edges[j].port : j \in EdgesFrom(n)} :
                        k \in EdgesOf(Router(n, port, "none"))
                          <=> edges[k].from = n /\ edges[k].port = port
        BY <3>1 DEF WiredAsConnected
      <3>2. \A n \in Names : EdgesOf(Router(n, "none", "none")) = {}
        BY DEF WiredAsConnected
      <3>3. \A n, port : EdgesOf(Router(n, port, "none"))' = EdgesOf(Router(n, port, "none"))
        BY <2>2 DEF EdgesOf
      <3>4. p' = p
        BY <2>1
      <3> HIDE DEF p
      <3>5. ASSUME NEW k \in 1 .. Len(edges'), NEW n \in Names'
            PROVE  /\ k \in EdgesOf(p.outputs[n])' <=> edges'[k].from = n
                   /\ k \in EdgesOf(p.inputs[n])' <=> edges'[k].to = n
                   /\ \A port \in {edges'[j].port : j \in EdgesFrom(n)'} :
                        k \in EdgesOf(Router(n, port, "none"))'
                          <=> edges'[k].from = n /\ edges'[k].port = port
        <4>1. EdgesOf(p.outputs[n])' = EdgesOf(p.outputs[n]) /\ EdgesOf(p.inputs[n])' = EdgesOf(p.inputs[n])
          BY <3>4 DEF EdgesOf
        <4> QED BY <2>1, <2>2, <3>1, <3>3, <3>5, <4>1
      <3>6. \A n \in Names' : EdgesOf(Router(n, "none", "none"))' = {}
        BY <2>2, <3>2, <3>3
      <3> QED BY <3>5, <3>6 DEF WiredAsConnected, EdgesOf, p
    <2> QED BY <2>3, <2>4
  <1>3. CASE Next /\ ~Wire
    <2>1. pipes' = pipes
      BY <1>3 DEF Next, DfsStep, AddNode, Connect, SetBufferSize, SetErrorConfig, Build,
                  DfsRoot, DfsEdge, DfsReturn
    <2>2. ~(result' = "ok" /\ phase' = "open")
      BY <1>3 DEF Inv, Next, DfsStep, AddNode, Connect, SetBufferSize, SetErrorConfig, Build,
                  DfsRoot, DfsEdge, DfsReturn, MayCall, dfsVars
    <2> QED BY <2>1, <2>2 DEF PipesListed, WiredAsConnected
  <1> QED BY <1>1, <1>2, <1>3

(* A message goes out on the edges of its port and on no other, and every   *)
(* edge has a buffer between its ends.                                      *)
THEOREM Wiring == Spec => []WiredAsConnected
  <1>1. Init => PipesListed /\ WiredAsConnected
    BY DEF Init, PipesListed, WiredAsConnected
  <1>2. Inv /\ PipesListed /\ WiredAsConnected /\ [Next]_vars => PipesListed' /\ WiredAsConnected'
    BY WiredStep
  <1> QED BY <1>1, <1>2, Invariance, PTL DEF Spec
=============================================================================
