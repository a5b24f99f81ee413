--------------------------- MODULE PipelineProofs ---------------------------
(***************************************************************************)
(* Proofs about Pipeline, for graphs of any size and all capacities: the   *)
(* lifecycle moves as documented, a graceful stop ends with a checkpoint   *)
(* that every node has taken, and a pipeline whose sources end loses       *)
(* nothing.                                                                *)
(***************************************************************************)
EXTENDS Pipeline, EngineLemmas, FiniteSetTheorems, SequenceTheorems

-----------------------------------------------------------------------------
(* The lifecycle. *)

(* Moves that the failure of a node adds to those of the diagram: its error *)
(* is stored whatever the state is, and the monitor may replace it.         *)
FailureMove(from, to) == to = "error" \/ (from = "error" /\ to = "stopped")

(* A call that acts on a state it has read has read one of the two states   *)
(* in which it is accepted; only Terminate stores Terminated; and nothing   *)
(* but Start is possible before Start.                                      *)
LifeInv ==
  /\ state \in States
  /\ call \in [Calls -> [pc : {"idle", "read", "send", "ok", "rejected", "expired"},
                         to : SUBSET Nodes, arg : {"none", "running", "paused"} \cup Nat]]
  /\ epoch \in Nat
  /\ \A c \in Calls : call[c].pc = "read" => call[c].arg \in {"running", "paused"}
  /\ state = "terminated" => Terminating
  /\ monitor.pc # "new" => state # "initializing"

(* LifeInv holds at the start. *)
LEMMA LifeInit == Init => LifeInv
BY PipelineAssumption DEF Init, LifeInv, States

(* Steps of the nodes and their buffers leave the lifecycle as it is. *)
LEMMA FlowLeavesLife ==
  ASSUME \/ \E s \in Sources : SourceStep(s)
         \/ \E e \in Edges : Merge(e)
         \/ \E n \in Nodes : LoopStep(n)
  PROVE  UNCHANGED <<state, pipeCtx, call, epoch, monitor>>
<1>1. CASE \E s \in Sources : SourceStep(s)
  BY <1>1 DEF SourceStep, SourceEmit, SourceSend, SourceReturn, SourceDone, lifeVars
<1>2. CASE \E e \in Edges : Merge(e)
  BY <1>2 DEF Merge, lifeVars
<1>3. CASE \E n \in Nodes : LoopStep(n)
  BY <1>3 DEF LoopStep, SelectDone, SelectMerged, SelectControl, WaitControl, HandleData,
              HandleStop, HandleBarrier, Send, SendFails, ReportCompletion, CancelSelf, lifeVars
<1> QED
  BY <1>1, <1>2, <1>3

(* A call whose context expires is the only one to move on. *)
LEMMA ExpiredCall ==
  ASSUME LifeInv, NEW c \in Calls, SendControlFails(c)
  PROVE  /\ call' \in [Calls -> [pc : {"idle", "read", "send", "ok", "rejected", "expired"},
                                 to : SUBSET Nodes, arg : {"none", "running", "paused"} \cup Nat]]
         /\ \A d \in Calls : call'[d].arg = call[d].arg
         /\ \A d \in Calls :
              \/ call'[d].pc = call[d].pc
              \/ d # "terminate" /\ call[d].pc = "send" /\ call'[d].pc = "expired"
<1>1. CASE c = "terminate"
  BY <1>1 DEF SendControlFails, LifeInv
<1>2. CASE c # "terminate"
  BY <1>2 DEF SendControlFails, LifeInv
<1> QED
  BY <1>1, <1>2

(* One step of a call, or of the monitor. *)
LEMMA LifeStep ==
  ASSUME LifeInv, [Next]_vars
  PROVE  /\ LifeInv'
         /\ state' # state => \/ <<state, state'>> \in LegalMoves
                              \/ Terminating
                              \/ FailureMove(state, state')
<1>1. CASE UNCHANGED <<state, pipeCtx, call, epoch, monitor>>
  BY <1>1 DEF LifeInv, Terminating
<1>2. CASE UNCHANGED vars
  BY <1>1, <1>2 DEF vars, lifeVars
<1>3. CASE Start
  BY <1>3 DEF Start, LifeInv, LegalMoves, States, Terminating
<1>4. CASE \E n \in Nodes : NodeError(n)
  BY <1>4 DEF NodeError, LifeInv, FailureMove, States, Terminating
<1>5. CASE MonitorRead
  BY <1>5 DEF MonitorRead, LifeInv, Terminating
<1>6. CASE MonitorDone
  BY <1>6 DEF MonitorDone, LifeInv, LegalMoves, FailureMove, States, Terminating
<1>7. ASSUME NEW c \in Calls, CallStep(c)
      PROVE  /\ LifeInv'
             /\ state' # state => <<state, state'>> \in LegalMoves \/ Terminating
  <2>1. CASE Reject(c)
    BY <2>1 DEF Reject, LifeInv, MayCall, Terminating
  <2>2. CASE PauseResume(c)
    BY <2>2 DEF PauseResume, LifeInv, MayCall, LegalMoves, Terminating, States
  <2>3. CASE ReadState(c)
    BY <2>3 DEF ReadState, LifeInv, MayCall, Terminating
  <2>4. CASE Stop(c)
    BY <2>4, PipelineAssumption DEF Stop, IsStop, Method, LifeInv, LegalMoves, Terminating, States
  <2>5. CASE Terminate(c)
    BY <2>5 DEF Terminate, LifeInv, Terminating, States
  <2>6. CASE SendControl(c)
    BY <2>6 DEF SendControl, LifeInv, Terminating
  <2>7. CASE ReturnCall(c)
    BY <2>7 DEF ReturnCall, LifeInv, Terminating
  <2>8. CASE SendControlFails(c)
    <3>1. UNCHANGED <<state, epoch, monitor>>
      BY <2>8 DEF SendControlFails
    <3> QED
      BY <2>8, <3>1, ExpiredCall DEF LifeInv, Terminating
  <2> QED
    BY <1>7, <2>1, <2>2, <2>3, <2>4, <2>5, <2>6, <2>7, <2>8 DEF CallStep
<1> QED
  BY <1>1, <1>2, <1>3, <1>4, <1>5, <1>6, <1>7, FlowLeavesLife DEF Next, MonitorStep

(* However calls, failures, sources that end and the monitor race, every    *)
(* change of the lifecycle state is one of the diagram, or the failure of a *)
(* node, or follows an accepted Terminate (pipeline.go).                    *)
THEOREM MovesOrFails ==
  Spec => [][state # state' => \/ <<state, state'>> \in LegalMoves
                               \/ Terminating
                               \/ FailureMove(state, state')]_<<state, call>>
<1>1. LifeInv /\ [Next]_vars => LifeInv'
  BY LifeStep
<1>2. LifeInv /\ [Next]_vars =>
        [state # state' => \/ <<state, state'>> \in LegalMoves
                           \/ Terminating
                           \/ FailureMove(state, state')]_<<state, call>>
  BY LifeStep
<1> QED
  BY <1>1, <1>2, LifeInit, PTL DEF Spec

(* No operator can fail the pipeline. *)
NoFailures == Fails = {} \/ "fail" \notin Strategies

NoError == strategy \in Strategies /\ errq = {} /\ state # "error"

(* Then nothing is ever reported to the errs goroutine. *)
LEMMA NoErrorStep ==
  ASSUME NoFailures, LifeInv, NoError, [Next]_vars
  PROVE  NoError'
<1>1. UNCHANGED strategy
  BY DEF Next, vars, Start, SourceStep, SourceEmit, SourceSend, SourceReturn, SourceDone, Merge,
         LoopStep, SelectDone, SelectMerged, SelectControl, WaitControl, HandleData, HandleStop,
         HandleBarrier, Send, SendFails, ReportCompletion, CancelSelf, NodeError, CallStep,
         Reject, PauseResume, ReadState, Stop, Terminate, SendControl, SendControlFails, ReturnCall,
         MonitorStep, MonitorRead, MonitorDone
<1>2. CASE Start \/ MonitorStep \/ UNCHANGED vars
  BY <1>1, <1>2 DEF Start, MonitorStep, MonitorRead, MonitorDone, NoError, vars, lifeVars
<1>3. CASE (\E s \in Sources : SourceStep(s)) \/ (\E e \in Edges : Merge(e))
  BY <1>1, <1>3 DEF SourceStep, SourceEmit, SourceSend, SourceReturn, SourceDone, Merge,
                    lifeVars, NoError
<1>4. ASSUME NEW n \in Nodes, LoopStep(n)
      PROVE  NoError'
  <2>1. CASE HandleData(n)
    BY <1>1, <2>1 DEF HandleData, NoFailures, NoError
  <2>2. CASE SelectDone(n) \/ SelectMerged(n) \/ SelectControl(n)
    BY <1>1, <2>2 DEF SelectDone, SelectMerged, SelectControl, handleCheckpointRequest, Return,
                      NoError, lifeVars
  <2>3. CASE WaitControl(n)
    BY <1>1, <2>3 DEF WaitControl, Return, NoError
  <2>4. CASE HandleStop(n) \/ HandleBarrier(n) \/ Send(n) \/ ReportCompletion(n) \/ CancelSelf(n)
    BY <1>1, <2>4 DEF HandleStop, HandleBarrier, Send, ReportCompletion, CancelSelf, NoError,
                      lifeVars
  <2>5. CASE SendFails(n)
    BY <1>1, <2>5 DEF SendFails, Return, NoError
  <2> QED
    BY <1>4, <2>1, <2>2, <2>3, <2>4, <2>5 DEF LoopStep
<1>5. ASSUME NEW n \in Nodes, NodeError(n)
      PROVE  NoError'
  BY <1>5 DEF NodeError, NoError
<1>6. ASSUME NEW c \in Calls, CallStep(c)
      PROVE  NoError'
  BY <1>1, <1>6 DEF CallStep, Reject, PauseResume, ReadState, Stop, Terminate, SendControl,
                    SendControlFails,
                    ReturnCall, NoError
<1> QED
  BY <1>2, <1>3, <1>4, <1>5, <1>6 DEF Next

(* While no node fails, the lifecycle state moves as the diagram of the     *)
(* architecture says, until Terminate is accepted (pipeline.go).            *)
THEOREM LifecycleMovesCorrect ==
  ASSUME NoFailures
  PROVE  Spec => LifecycleMoves
<1>1. Init => NoError
  BY DEF Init, NoError
<1>2. LifeInv /\ NoError /\ [Next]_vars => LifeInv' /\ NoError'
  BY LifeStep, NoErrorStep
<1>3. LifeInv /\ NoError /\ [Next]_vars =>
        [state # state' => <<state, state'>> \in LegalMoves \/ Terminating]_<<state, call>>
  BY LifeStep, NoErrorStep DEF FailureMove, NoError
<1> QED
  BY <1>1, <1>2, <1>3, LifeInit, PTL DEF Spec, LifecycleMoves

-----------------------------------------------------------------------------
(* What travels.  E is a set of epochs and S is {StopMsg} or empty: the     *)
(* proofs below choose them as small as their hypotheses allow.             *)

Barrier(E) == [kind : {"barrier"}, epoch : E, thenStop : {TRUE}]
Unmarked(S) == DataMsgs(Nodes) \cup S
Flow(E, S) == Unmarked(S) \cup Barrier(E)
Packet(E, S) == [from : Edges, msg : Flow(E, S)]
Request(E) == [type : {"pause", "resume", "terminate"}] \cup [type : {"checkpoint"}, epoch : E]

Item(E, S) ==
  [op : {"handle"}, msg : Flow(E, S)]
    \cup [op : {"send"}, outs : Seq(Edges) \ {<< >>}, msg : Flow(E, S)]
    \cup [op : {"report"}, epoch : E] \cup [op : {"cancel"}]

(* The aligner of a node: in an alignment it remembers a barrier. *)
Aligner(E, S) ==
  {b \in [aligning : BOOLEAN, currentEpoch : Nat, received : SUBSET Edges,
          buffered : Seq(Unmarked(S)), currentBarrier : Barrier(E) \cup {NoBarrier}] :
     b.aligning => b.currentBarrier \in Barrier(E)}

(* Every message, request and step of a handler is of the expected shape,   *)
(* and every epoch in it is one of E.                                       *)
Carried(E, S) ==
  /\ buf \in [Edges -> Seq(Flow(E, S))]
  /\ merged \in [Nodes -> Seq(Packet(E, S))]
  /\ held \in [Nodes -> Seq(Packet(E, S))]
  /\ work \in [Nodes -> Seq(Item(E, S))]
  /\ ba \in [Nodes -> Aligner(E, S)]
  /\ ctl \in [Nodes -> Seq(Request(E))]
  /\ pc \in [Nodes -> {"new", "loop", "wait", "gone"}]
  /\ \A n \in Nodes : pc[n] = "wait" => Len(held[n]) = 1
  /\ handled \in [Nodes -> SUBSET DataMsgs(Nodes)]
  /\ \A n \in Nodes : IsFiniteSet(handled[n])
  /\ src \in [Sources -> [pc : {"new", "run", "stop", "done"}, n : Nat, outs : Seq(Edges)]]
  /\ \A s \in Sources : src[s].pc = "stop" => StopMsg \in S
  /\ \A c \in Calls : IsStop(c) /\ call[c].pc = "send" => call[c].arg \in E

(* The outputs of a node are edges. *)
LEMMA OutEdges ==
  ASSUME NEW n \in Nodes
  PROVE  /\ Out(n) \in Seq(Edges)
         /\ \A k \in 1 .. Len(Out(n)) : Out(n)[k] \in Edges /\ Out(n)[k][1] = n
<1>1. Out(n) \in Seq(Nodes \X (Nodes \ Sources))
  BY PipelineAssumption DEF Out
<1>2. \A k \in 1 .. Len(Out(n)) : Out(n)[k] \in Edges
  BY DEF Edges
<1>3. \A k \in 1 .. Len(Out(n)) : Out(n)[k][1] = n
  BY PipelineAssumption
<1> QED
  BY <1>1, <1>2, <1>3

(* An edge runs from a node to one that is not a source. *)
LEMMA EdgeEnds ==
  ASSUME NEW e \in Edges
  PROVE  /\ e = <<e[1], e[2]>> /\ e[1] \in Nodes /\ e[2] \in Nodes /\ e[2] \notin Sources
         /\ \E k \in 1 .. Len(Out(e[1])) : Out(e[1])[k] = e
<1>1. PICK n \in Nodes : \E k \in 1 .. Len(Out(n)) : e = Out(n)[k]
  BY DEF Edges
<1>2. PICK k \in 1 .. Len(Out(n)) : e = Out(n)[k]
  BY <1>1
<1>3. Out(n) \in Seq(Nodes \X (Nodes \ Sources))
  BY PipelineAssumption DEF Out
<1>4. e \in Nodes \X (Nodes \ Sources)
  BY <1>2, <1>3
<1>5. e[1] = n
  BY <1>2, OutEdges
<1> QED
  BY <1>2, <1>4, <1>5

(* A node has finitely many inputs. *)
LEMMA InFinite ==
  ASSUME NEW n \in Nodes
  PROVE  IsFiniteSet(In(n))
<1>1. IsFiniteSet(Nodes)
  BY PipelineAssumption
<1>2. IsFiniteSet(Nodes \X Nodes)
  BY <1>1, FS_Product
<1>3. In(n) \subseteq Nodes \X Nodes
  BY EdgeEnds DEF In
<1> QED
  BY <1>2, <1>3, FS_Subset

(* What a message is can be seen from its kind. *)
LEMMA FlowKinds ==
  ASSUME NEW E, NEW S \in SUBSET {StopMsg}, NEW m \in Flow(E, S)
  PROVE  /\ m.kind \in {"data", "stop", "barrier"}
         /\ m.kind = "data" <=> m \in DataMsgs(Nodes)
         /\ m.kind = "stop" <=> m = StopMsg
         /\ m.kind = "stop" => StopMsg \in S
         /\ m.kind = "barrier" <=> m \in Barrier(E)
<1>1. m \in DataMsgs(Nodes) \/ m \in S \/ m \in Barrier(E)
  BY DEF Flow, Unmarked
<1>2. ASSUME m \in DataMsgs(Nodes) PROVE m.kind = "data"
  BY <1>2 DEF DataMsgs
<1>3. ASSUME m \in S PROVE m = StopMsg
  BY <1>3
<1>4. ASSUME m = StopMsg PROVE m.kind = "stop"
  BY <1>4 DEF StopMsg
<1>5. ASSUME m \in Barrier(E) PROVE m.kind = "barrier"
  BY <1>5 DEF Barrier
<1> QED
  BY <1>1, <1>2, <1>3, <1>4, <1>5

(* What the aligner returns for a message are that message, messages it     *)
(* held back and the barrier of the alignment.                              *)
LEMMA AlignerCarries ==
  ASSUME NEW E, NEW S, NEW b \in Aligner(E, S), NEW N \in Nat, NEW i \in Edges,
         NEW m \in Flow(E, S), E \subseteq Nat, S \subseteq {StopMsg}, NEW r,
         r = OnMessage(b, N, i, m)
  PROVE  /\ r.ba \in Aligner(E, S)
         /\ r.toProcess \in Seq(Flow(E, S))
         /\ r.aligned = NoBarrier \/ r.aligned \in Flow(E, S)
<1> DEFINE B == [aligning : BOOLEAN, currentEpoch : Nat, received : SUBSET Edges,
                 buffered : Seq(Unmarked(S)), currentBarrier : Barrier(E) \cup {NoBarrier}]
<1>1. b \in B /\ (b.aligning => b.currentBarrier \in Barrier(E))
  BY DEF Aligner
<1>2. \A s \in Seq(Unmarked(S)) : s \in Seq(Flow(E, S))
  BY DEF Flow
<1>3. NewBarrierAligner \in Aligner(E, S)
  BY DEF Aligner, NewBarrierAligner
<1>4. CASE m.kind = "barrier"
  <2>1. m \in Barrier(E)
    BY <1>4 DEF Flow, Unmarked, DataMsgs, StopMsg
  <2>2. m.epoch \in Nat
    BY <2>1 DEF Barrier
  <2> DEFINE st == StartAlignment(b, m)
             j == [st EXCEPT !.received = @ \cup {i}]
  <2>3. st \in B /\ st.currentBarrier \in Barrier(E)
    <3>1. CASE b.aligning
      BY <1>1, <3>1 DEF StartAlignment
    <3>2. CASE ~b.aligning
      BY <2>1, <2>2, <3>2 DEF StartAlignment
    <3> QED
      BY <3>1, <3>2
  <2>4. j \in B /\ j.currentBarrier \in Barrier(E)
    <3> HIDE DEF st
    <3> QED
      BY <2>3
  <2>5. j \in Aligner(E, S)
    BY <2>4 DEF Aligner
  <2>6. r = IF N <= 1 THEN [ba |-> b, toProcess |-> << >>, aligned |-> m]
            ELSE IF Cardinality(j.received) = N
                 THEN [ba |-> NewBarrierAligner, toProcess |-> j.buffered,
                       aligned |-> j.currentBarrier]
                 ELSE [ba |-> j, toProcess |-> << >>, aligned |-> NoBarrier]
    BY <1>4 DEF OnMessage, onBarrier
  <2>7. j.buffered \in Seq(Flow(E, S)) /\ j.currentBarrier \in Flow(E, S)
    BY <1>2, <2>4 DEF Flow
  <2> HIDE DEF j
  <2> QED
    BY <1>3, <2>5, <2>6, <2>7
<1>5. CASE m.kind # "barrier"
  <2>1. m \in Unmarked(S)
    BY <1>5 DEF Flow, Barrier
  <2> DEFINE b2 == [b EXCEPT !.buffered = Append(@, m)]
  <2>2. b2 \in Aligner(E, S)
    <3>1. Append(b.buffered, m) \in Seq(Unmarked(S))
      BY <1>1, <2>1
    <3>2. b2 \in B /\ b2.aligning = b.aligning /\ b2.currentBarrier = b.currentBarrier
      BY <1>1, <3>1
    <3> HIDE DEF b2
    <3> QED
      BY <1>1, <3>2 DEF Aligner
  <2>3. r = IF Holds(b, i) THEN [ba |-> b2, toProcess |-> << >>, aligned |-> NoBarrier]
                           ELSE [ba |-> b, toProcess |-> <<m>>, aligned |-> NoBarrier]
    BY <1>5 DEF OnMessage
  <2> HIDE DEF b2
  <2> QED
    BY <2>2, <2>3
<1> QED
  BY <1>4, <1>5

(* The step lemma: a message, a request or a step of a handler that is new  *)
(* is made of what was there before.                                        *)
LEMMA CarriedInit ==
  ASSUME NEW E, NEW S, Init
  PROVE  Carried(E, S)
<1>1. NewBarrierAligner \in Aligner(E, S)
  BY DEF Aligner, NewBarrierAligner
<1> QED
  BY <1>1, FS_EmptySet, PipelineAssumption DEF Init, Carried

(* A step of the loop of a node that has a step to do starts with it. *)
LEMMA WorkHead ==
  ASSUME NEW E, NEW S, Carried(E, S), NEW n \in Nodes, work[n] # << >>
  PROVE  /\ work[n] \in Seq(Item(E, S)) /\ Tail(work[n]) \in Seq(Item(E, S))
         /\ Head(work[n]) = work[n][1] /\ work[n][1] \in Item(E, S)
         /\ work[n][1].op = "handle" =>
              work[n][1] = Handle(work[n][1].msg) /\ work[n][1].msg \in Flow(E, S)
         /\ work[n][1].op = "send" =>
              /\ work[n][1] \in [op : {"send"}, outs : Seq(Edges) \ {<< >>}, msg : Flow(E, S)]
         /\ work[n][1].op = "report" => work[n][1].epoch \in E
<1>1. work[n] \in Seq(Item(E, S))
  BY DEF Carried
<1>2. Tail(work[n]) \in Seq(Item(E, S)) /\ Head(work[n]) = work[n][1]
      /\ work[n][1] \in Item(E, S)
  BY <1>1
<1> DEFINE it == work[n][1]
<1>3. it \in Item(E, S)
  BY <1>2
<1> HIDE DEF it
<1>4. /\ it.op = "handle" => it = Handle(it.msg) /\ it.msg \in Flow(E, S)
      /\ it.op = "send" => it \in [op : {"send"}, outs : Seq(Edges) \ {<< >>}, msg : Flow(E, S)]
      /\ it.op = "report" => it.epoch \in E
  BY <1>3 DEF Item, Handle
<1> QED
  BY <1>1, <1>2, <1>4 DEF it

(* The list that sends msg to every output is one of steps. *)
LEMMA SendAllType ==
  ASSUME NEW E, NEW S, NEW n \in Nodes, NEW m \in Flow(E, S)
  PROVE  SendAll(n, m) \in Seq(Item(E, S))
<1>1. CASE Out(n) = << >>
  BY <1>1 DEF SendAll
<1>2. CASE Out(n) # << >>
  <2>1. Out(n) \in Seq(Edges) \ {<< >>}
    BY <1>2, OutEdges
  <2>2. [op |-> "send", outs |-> Out(n), msg |-> m] \in Item(E, S)
    BY <2>1 DEF Item
  <2> QED
    BY <1>2, <2>2 DEF SendAll
<1> QED
  BY <1>1, <1>2

(* A list of two or more elements has a tail that is not empty. *)
LEMMA TailNotEmpty ==
  ASSUME NEW T, NEW o \in Seq(T), o # << >>, Len(o) # 1
  PROVE  Tail(o) \in Seq(T) \ {<< >>}
<1> DEFINE x == Tail(o)
<1>1. Len(o) \in Nat /\ Len(o) # 0
  OBVIOUS
<1>2. x \in Seq(T) /\ Len(x) = Len(o) - 1
  OBVIOUS
<1> HIDE DEF x
<1>3. Len(x) # 0
  BY <1>1, <1>2
<1>4. x # << >>
  BY <1>2, <1>3
<1> QED
  BY <1>2, <1>4 DEF x

(* After a send the list has one output less, or one step less. *)
LEMMA PassedType ==
  ASSUME NEW E, NEW S, Carried(E, S), NEW n \in Nodes, Doing(n, "send")
  PROVE  /\ Passed(n) \in [Nodes -> Seq(Item(E, S))]
         /\ \A m \in Nodes : m # n => Passed(n)[m] = work[m]
         /\ Len(work[n][1].outs) = 1 => Passed(n)[n] = Tail(work[n])
         /\ Len(work[n][1].outs) # 1 =>
              /\ Tail(work[n][1].outs) \in Seq(Edges) \ {<< >>}
              /\ Passed(n)[n] = <<[op |-> "send", outs |-> Tail(work[n][1].outs),
                                   msg |-> work[n][1].msg]>> \o Tail(work[n])
<1> DEFINE w == work[n]
           it == work[n][1]
           rest == [op |-> "send", outs |-> Tail(it.outs), msg |-> it.msg]
<1>1. w \in Seq(Item(E, S)) /\ Tail(w) \in Seq(Item(E, S)) /\ w # << >> /\ Head(w) = it
      /\ it \in [op : {"send"}, outs : Seq(Edges) \ {<< >>}, msg : Flow(E, S)]
  BY WorkHead DEF Doing
<1>2. work \in [Nodes -> Seq(Item(E, S))]
  BY DEF Carried
<1>4. ASSUME Len(it.outs) # 1
      PROVE  Tail(it.outs) \in Seq(Edges) \ {<< >>} /\ rest \in Item(E, S)
  <2> DEFINE o == it.outs
  <2>1. Tail(o) \in Seq(Edges) \ {<< >>}
    <3>1. o \in Seq(Edges) /\ o # << >> /\ Len(o) # 1
      BY <1>1, <1>4
    <3> HIDE DEF o
    <3> QED
      BY <3>1, TailNotEmpty
  <2>2. rest \in Item(E, S)
    BY <1>1, <2>1 DEF Item
  <2> QED
    BY <2>1, <2>2
<1>5. Passed(n) = [work EXCEPT ![n] = (IF Len(it.outs) = 1 THEN << >> ELSE <<rest>>) \o Tail(w)]
  BY <1>1 DEF Passed
<1> HIDE DEF w, it, rest
<1>6. CASE Len(it.outs) = 1
  <2>1. << >> \o Tail(w) = Tail(w)
    BY <1>1
  <2>2. Passed(n) = [work EXCEPT ![n] = Tail(w)]
    BY <1>5, <1>6, <2>1
  <2> QED
    BY <1>1, <1>2, <1>6, <2>2 DEF w, it
<1>7. CASE Len(it.outs) # 1
  <2>1. <<rest>> \o Tail(w) \in Seq(Item(E, S))
    BY <1>1, <1>4, <1>7
  <2>2. Passed(n) = [work EXCEPT ![n] = <<rest>> \o Tail(w)]
    BY <1>5, <1>7
  <2> DEFINE w2 == <<rest>> \o Tail(w)
  <2> HIDE DEF w2
  <2>3. Passed(n) \in [Nodes -> Seq(Item(E, S))] /\ Passed(n)[n] = w2
        /\ \A m \in Nodes : m # n => Passed(n)[m] = work[m]
    BY <1>2, <2>1, <2>2 DEF w2
  <2> QED
    BY <1>4, <1>7, <2>3 DEF w, it, rest, w2
<1> QED
  BY <1>6, <1>7

(* Dispatch leaves a list of messages to handle. *)
LEMMA DispatchType ==
  ASSUME NEW E \in SUBSET Nat, NEW S \in SUBSET {StopMsg}, Carried(E, S), NEW n \in Nodes,
         NEW im \in Packet(E, S), Dispatch(n, im)
  PROVE  /\ ba' \in [Nodes -> Aligner(E, S)]
         /\ work' \in [Nodes -> Seq(Item(E, S))]
         /\ \A m \in Nodes : m # n => work'[m] = work[m] /\ ba'[m] = ba[m]
         /\ \A k \in 1 .. Len(work'[n]) : work'[n][k].op = "handle"
<1> DEFINE r == OnMessage(ba[n], Cardinality(In(n)), im.from, im.msg)
           all == r.toProcess \o (IF r.aligned = NoBarrier THEN << >> ELSE <<r.aligned>>)
           w == [k \in 1 .. Len(all) |-> Handle(all[k])]
<1>1. ba \in [Nodes -> Aligner(E, S)] /\ work \in [Nodes -> Seq(Item(E, S))]
  BY DEF Carried
<1>2. ba' = [ba EXCEPT ![n] = r.ba] /\ work' = [work EXCEPT ![n] = w]
  BY DEF Dispatch
<1>3. im.from \in Edges /\ im.msg \in Flow(E, S) /\ ba[n] \in Aligner(E, S)
  BY <1>1 DEF Packet
<1>4. Cardinality(In(n)) \in Nat
  BY InFinite, FS_CardinalityType
<1>5. /\ r.ba \in Aligner(E, S)
      /\ r.toProcess \in Seq(Flow(E, S))
      /\ r.aligned = NoBarrier \/ r.aligned \in Flow(E, S)
  <2> HIDE DEF r
  <2>1. r = OnMessage(ba[n], Cardinality(In(n)), im.from, im.msg)
    BY DEF r
  <2> QED
    BY <1>3, <1>4, <2>1, AlignerCarries
<1> HIDE DEF r
<1>6. all \in Seq(Flow(E, S))
  BY <1>5
<1> HIDE DEF all
<1>7. Len(all) \in Nat /\ \A k \in 1 .. Len(all) : all[k] \in Flow(E, S)
  BY <1>6
<1>8. w \in Seq(Item(E, S)) /\ \A k \in 1 .. Len(w) : w[k].op = "handle"
  <2>1. \A k \in 1 .. Len(all) : Handle(all[k]) \in Item(E, S) /\ Handle(all[k]).op = "handle"
    BY <1>7 DEF Handle, Item
  <2> QED
    BY <1>7, <2>1
<1> HIDE DEF w
<1> QED
  BY <1>1, <1>2, <1>5, <1>8

(* The same for a step of the loop of a node. *)
LEMMA CarriedLoop ==
  ASSUME NEW E \in SUBSET Nat, NEW S \in SUBSET {StopMsg}, Carried(E, S),
         NEW n \in Nodes, LoopStep(n)
  PROVE  Carried(E, S)'
<1>0. /\ work \in [Nodes -> Seq(Item(E, S))] /\ pc \in [Nodes -> {"new", "loop", "wait", "gone"}]
      /\ << >> \in Seq(Item(E, S)) /\ << >> \in Seq(Packet(E, S))
  BY DEF Carried
<1>1. CASE SelectDone(n)
  BY <1>0, <1>1 DEF SelectDone, Return, Carried, flowVars
<1>2. CASE SelectMerged(n)
  <2>1. merged[n] \in Seq(Packet(E, S)) /\ merged[n] # << >>
    BY <1>2 DEF SelectMerged, Carried
  <2>2. Head(merged[n]) \in Packet(E, S) /\ Tail(merged[n]) \in Seq(Packet(E, S))
    BY <2>1
  <2>3. merged' \in [Nodes -> Seq(Packet(E, S))]
    BY <1>2, <2>2 DEF SelectMerged, Carried
  <2>4. CASE paused[n]
    <3>1. held' = [held EXCEPT ![n] = <<Head(merged[n])>>] /\ pc' = [pc EXCEPT ![n] = "wait"]
          /\ UNCHANGED <<ba, work, buf, handled, ctl, src, call>>
      BY <1>2, <2>4 DEF SelectMerged, lifeVars
    <3>2. held' \in [Nodes -> Seq(Packet(E, S))] /\ Len(held'[n]) = 1
          /\ \A m \in Nodes : m # n => held'[m] = held[m]
      BY <2>2, <3>1 DEF Carried
    <3> QED
      BY <1>0, <2>3, <3>1, <3>2 DEF Carried
  <2>5. CASE ~paused[n]
    <3>1. Dispatch(n, Head(merged[n])) /\ UNCHANGED <<pc, held, buf, handled, ctl, src, call>>
      BY <1>2, <2>5 DEF SelectMerged, lifeVars
    <3>2. ba' \in [Nodes -> Aligner(E, S)] /\ work' \in [Nodes -> Seq(Item(E, S))]
      BY <2>2, <3>1, DispatchType
    <3> QED
      BY <2>3, <3>1, <3>2 DEF Carried
  <2> QED
    BY <2>4, <2>5
<1>3. CASE SelectControl(n)
  <2>1. ctl[n] \in Seq(Request(E)) /\ ctl[n] # << >>
    BY <1>3 DEF SelectControl, Carried
  <2>2. Head(ctl[n]) \in Request(E) /\ Tail(ctl[n]) \in Seq(Request(E))
    BY <2>1
  <2>3. ctl' \in [Nodes -> Seq(Request(E))]
    BY <1>3, <2>2 DEF SelectControl, Carried
  <2> DEFINE req == Head(ctl[n])
  <2>4. CASE req.type = "checkpoint" /\ handleCheckpointRequest(n, req)
    <3>1. req.epoch \in E
      BY <2>2, <2>4 DEF Request
    <3>2. BarrierMsg(req.epoch, TRUE) \in Flow(E, S)
      BY <3>1 DEF BarrierMsg, Flow, Barrier
    <3> DEFINE w == SendAll(n, BarrierMsg(req.epoch, TRUE)) \o <<Report(req.epoch), StopSelf>>
    <3>3. <<Report(req.epoch), StopSelf>> \in Seq(Item(E, S))
      BY <3>1 DEF Report, StopSelf, Item
    <3>4. w \in Seq(Item(E, S))
      <4> DEFINE x == SendAll(n, BarrierMsg(req.epoch, TRUE))
                 y == <<Report(req.epoch), StopSelf>>
      <4>1. x \in Seq(Item(E, S)) /\ y \in Seq(Item(E, S))
        BY <3>2, <3>3, SendAllType
      <4> HIDE DEF x, y
      <4>2. x \o y \in Seq(Item(E, S))
        BY <4>1
      <4> QED
        BY <4>2 DEF x, y
    <3>5. work' = [work EXCEPT ![n] = w] /\ UNCHANGED pc
      BY <2>4 DEF handleCheckpointRequest
    <3> HIDE DEF w
    <3>6. work' \in [Nodes -> Seq(Item(E, S))]
      BY <1>0, <3>4, <3>5
    <3> QED
      BY <1>3, <2>3, <3>5, <3>6 DEF SelectControl, Carried, flowVars
  <2>5. CASE req.type \in {"pause", "resume"} /\ UNCHANGED <<pc, work>>
    BY <1>3, <2>3, <2>5 DEF SelectControl, Carried, flowVars
  <2>6. CASE req.type = "terminate" /\ Return(n, FALSE)
    BY <1>0, <1>3, <2>3, <2>6 DEF SelectControl, Return, Carried, flowVars
  <2> QED
    BY <1>3, <2>4, <2>5, <2>6 DEF SelectControl
<1>4. CASE WaitControl(n)
  <2>1. ctl[n] \in Seq(Request(E)) /\ ctl[n] # << >> /\ pc[n] = "wait"
    BY <1>4 DEF WaitControl, Carried
  <2>2. ctl' \in [Nodes -> Seq(Request(E))]
    BY <1>4, <2>1 DEF WaitControl, Carried
  <2>3. held[n] \in Seq(Packet(E, S)) /\ Len(held[n]) = 1
    BY <2>1 DEF Carried
  <2>4. held[n][1] \in Packet(E, S)
    BY <2>3
  <2>5. UNCHANGED <<buf, merged, handled, src, call>>
    BY <1>4 DEF WaitControl, flowVars
  <2> DEFINE req == Head(ctl[n])
  <2>6. CASE held' = [held EXCEPT ![n] = << >>] /\ Return(n, FALSE) /\ UNCHANGED ba
    BY <1>0, <2>2, <2>5, <2>6 DEF Return, Carried
  <2>7. CASE /\ held' = [held EXCEPT ![n] = << >>] /\ pc' = [pc EXCEPT ![n] = "loop"]
             /\ Dispatch(n, held[n][1])
    <3>1. ba' \in [Nodes -> Aligner(E, S)] /\ work' \in [Nodes -> Seq(Item(E, S))]
      BY <2>4, <2>7, DispatchType
    <3> QED
      BY <1>0, <2>2, <2>5, <2>7, <3>1 DEF Carried
  <2>8. CASE Return(n, FALSE) /\ UNCHANGED <<held, ba>>
    BY <1>0, <2>2, <2>5, <2>8 DEF Return, Carried
  <2>9. CASE UNCHANGED <<held, ba, pc, work>>
    BY <2>2, <2>5, <2>9 DEF Carried
  <2> QED
    BY <1>4, <2>6, <2>7, <2>8, <2>9 DEF WaitControl
<1>5. CASE HandleData(n)
  <2>1. work[n] # << >> /\ Head(work[n]).op = "handle" /\ Head(work[n]).msg.kind = "data"
    BY <1>5 DEF HandleData, Doing
  <2>2. Head(work[n]).msg \in DataMsgs(Nodes) /\ Tail(work[n]) \in Seq(Item(E, S))
    <3>1. Head(work[n]).msg \in Flow(E, S)
      BY <2>1, WorkHead
    <3> DEFINE m == Head(work[n]).msg
    <3>2. m \in Flow(E, S) /\ m.kind = "data"
      BY <2>1, <3>1
    <3> HIDE DEF m
    <3>3. m \in DataMsgs(Nodes)
      BY <3>2, FlowKinds
    <3>4. Tail(work[n]) \in Seq(Item(E, S))
      BY <2>1, WorkHead
    <3> QED
      BY <3>3, <3>4 DEF m
  <2>3. IsFiniteSet(handled[n]) /\ handled[n] \in SUBSET DataMsgs(Nodes)
    BY DEF Carried
  <2>4. IsFiniteSet(handled[n] \cup {Head(work[n]).msg}) /\ Cardinality(handled[n]) \in Nat
    BY <2>3, FS_AddElement, FS_CardinalityType
  <2>5. DataMsg(n, Cardinality(handled[n]) + 1) \in Flow(E, S)
    BY <2>4 DEF DataMsg, Flow, Unmarked, DataMsgs
  <2>6. SendAll(n, DataMsg(n, Cardinality(handled[n]) + 1)) \o Tail(work[n]) \in Seq(Item(E, S))
    BY <2>2, <2>5, SendAllType
  <2>7. work' \in [Nodes -> Seq(Item(E, S))]
    <3> DEFINE w == SendAll(n, DataMsg(n, Cardinality(handled[n]) + 1)) \o Tail(work[n])
    <3>1. \/ work' = [work EXCEPT ![n] = w]
          \/ work' = [work EXCEPT ![n] = Tail(work[n])]
          \/ work' = [work EXCEPT ![n] = << >>]
      BY <1>5 DEF HandleData, Return
    <3> HIDE DEF w
    <3> QED
      BY <1>0, <2>2, <2>6, <3>1 DEF w
  <2>8. /\ handled' \in [Nodes -> SUBSET DataMsgs(Nodes)]
        /\ \A m \in Nodes : IsFiniteSet(handled'[m])
    <3> DEFINE h == handled[n] \cup {Head(work[n]).msg}
    <3>1. handled' = [handled EXCEPT ![n] = h] \/ handled' = handled
      BY <1>5 DEF HandleData
    <3>2. h \in SUBSET DataMsgs(Nodes) /\ IsFiniteSet(h)
      BY <2>2, <2>3, <2>4
    <3> HIDE DEF h
    <3>3. /\ handled \in [Nodes -> SUBSET DataMsgs(Nodes)]
          /\ \A m \in Nodes : IsFiniteSet(handled[m])
      BY DEF Carried
    <3> QED
      BY <3>1, <3>2, <3>3
  <2>9. pc' \in [Nodes -> {"new", "loop", "wait", "gone"}]
        /\ \A m \in Nodes : pc'[m] = "wait" => pc[m] = "wait"
    BY <1>0, <1>5 DEF HandleData, Return
  <2> QED
    BY <1>5, <2>7, <2>8, <2>9 DEF HandleData, Carried, flowVars
<1>6. CASE HandleStop(n)
  <2>1. work[n] # << >> /\ Head(work[n]).op = "handle" /\ Head(work[n]).msg.kind = "stop"
    BY <1>6 DEF HandleStop, Doing
  <2>2. StopMsg \in Flow(E, S)
    <3>1. Head(work[n]).msg \in Flow(E, S)
      BY <2>1, WorkHead
    <3> QED
      BY <2>1, <3>1 DEF Flow, Unmarked, Barrier, DataMsgs, StopMsg
  <2> DEFINE w == IF active[n] <= 1 THEN SendAll(n, StopMsg) \o <<StopSelf>> ELSE << >>
  <2>3. w \in Seq(Item(E, S))
    <3>1. <<StopSelf>> \in Seq(Item(E, S))
      BY DEF StopSelf, Item
    <3>2. SendAll(n, StopMsg) \o <<StopSelf>> \in Seq(Item(E, S))
      BY <2>2, <3>1, SendAllType
    <3> QED
      BY <3>2
  <2>4. work' = [work EXCEPT ![n] = w \o Tail(work[n])]
    BY <1>6 DEF HandleStop
  <2> HIDE DEF w
  <2>5. w \o Tail(work[n]) \in Seq(Item(E, S))
    BY <2>1, <2>3, WorkHead
  <2>6. work' \in [Nodes -> Seq(Item(E, S))]
    BY <1>0, <2>4, <2>5
  <2> QED
    BY <1>6, <2>6 DEF HandleStop, Carried, flowVars, lifeVars
<1>7. CASE HandleBarrier(n)
  <2> DEFINE b == Head(work[n]).msg
             c == IF b.thenStop THEN <<StopSelf>> ELSE << >>
             w == SendAll(n, b) \o <<Report(b.epoch)>> \o c \o Tail(work[n])
  <2>1. work[n] # << >> /\ Head(work[n]).op = "handle" /\ b.kind = "barrier"
    BY <1>7 DEF HandleBarrier, Doing
  <2>2. b \in Barrier(E) /\ b \in Flow(E, S)
    <3>1. b \in Flow(E, S)
      BY <2>1, WorkHead
    <3> QED
      BY <2>1, <3>1 DEF Flow, Unmarked, DataMsgs, StopMsg
  <2>3. b.epoch \in E
    BY <2>2 DEF Barrier
  <2>4. <<Report(b.epoch)>> \in Seq(Item(E, S)) /\ c \in Seq(Item(E, S))
        /\ SendAll(n, b) \in Seq(Item(E, S)) /\ Tail(work[n]) \in Seq(Item(E, S))
    <3>1. Report(b.epoch) \in Item(E, S) /\ StopSelf \in Item(E, S)
      BY <2>3 DEF Report, StopSelf, Item
    <3> QED
      BY <2>1, <2>2, <3>1, SendAllType, WorkHead
  <2>5. work' = [work EXCEPT ![n] = w]
    BY <1>7 DEF HandleBarrier
  <2> HIDE DEF b, c
  <2>6. w \in Seq(Item(E, S))
    BY <2>4
  <2> HIDE DEF w
  <2>7. work' \in [Nodes -> Seq(Item(E, S))]
    BY <1>0, <2>5, <2>6
  <2> QED
    BY <1>7, <2>7 DEF HandleBarrier, Carried, flowVars, lifeVars
<1>8. CASE Send(n)
  <2> DEFINE it == work[n][1]
  <2>1. it \in [op : {"send"}, outs : Seq(Edges) \ {<< >>}, msg : Flow(E, S)]
        /\ Head(work[n]) = it
    BY <1>8, WorkHead DEF Send, Doing
  <2>2. it.msg \in Flow(E, S) /\ it.outs \in Seq(Edges) /\ it.outs # << >>
    BY <2>1
  <2>3. Head(it.outs) \in Edges
    BY <2>2
  <2>4. buf' = [buf EXCEPT ![Head(it.outs)] = Append(@, it.msg)]
    BY <1>8, <2>1 DEF Send
  <2> HIDE DEF it
  <2>5. buf' \in [Edges -> Seq(Flow(E, S))]
    BY <2>2, <2>3, <2>4 DEF Carried
  <2>6. work' \in [Nodes -> Seq(Item(E, S))]
    BY <1>8, PassedType DEF Send
  <2> QED
    BY <1>8, <2>5, <2>6 DEF Send, Carried, lifeVars
<1>9. CASE SendFails(n)
  <2>1. work' = Passed(n) \/ work' = [work EXCEPT ![n] = Tail(work[n])]
        \/ work' = [work EXCEPT ![n] = << >>]
    BY <1>9 DEF SendFails, Return
  <2>2. Passed(n) \in [Nodes -> Seq(Item(E, S))] /\ Tail(work[n]) \in Seq(Item(E, S))
    BY <1>9, PassedType, WorkHead DEF SendFails, Doing
  <2>3. work' \in [Nodes -> Seq(Item(E, S))]
    BY <1>0, <2>1, <2>2
  <2>4. pc' \in [Nodes -> {"new", "loop", "wait", "gone"}]
        /\ \A m \in Nodes : pc'[m] = "wait" => pc[m] = "wait"
    BY <1>0, <1>9 DEF SendFails, Return
  <2> QED
    BY <1>9, <2>3, <2>4 DEF SendFails, Carried, flowVars
<1>10. CASE ReportCompletion(n) \/ CancelSelf(n)
  <2>1. work' = [work EXCEPT ![n] = Tail(work[n])] /\ Tail(work[n]) \in Seq(Item(E, S))
    BY <1>10, WorkHead DEF ReportCompletion, CancelSelf, Doing
  <2>2. work' \in [Nodes -> Seq(Item(E, S))]
    BY <1>0, <2>1
  <2> QED
    BY <1>10, <2>2 DEF ReportCompletion, CancelSelf, Carried, flowVars, lifeVars
<1> QED
  BY <1>1, <1>2, <1>3, <1>4, <1>5, <1>6, <1>7, <1>8, <1>9, <1>10 DEF LoopStep

(* Whatever one step does, messages, requests and steps of handlers remain  *)
(* of their shape.                                                          *)
LEMMA CarriedStep ==
  ASSUME NEW E \in SUBSET Nat, NEW S \in SUBSET {StopMsg}, Carried(E, S), LifeInv, [Next]_vars,
         \A c \in Calls : Stop(c) => epoch + 1 \in E,
         \A s \in Sources : SourceReturn(s) => StopMsg \in S
  PROVE  Carried(E, S)'
<1>1. CASE UNCHANGED vars
  BY <1>1 DEF vars, flowVars, loopVars, lifeVars, Carried
<1>2. CASE Start
  BY <1>2 DEF Start, Carried, flowVars
<1>3. ASSUME NEW s \in Sources, SourceStep(s)
      PROVE  Carried(E, S)'
  <2>0. s \in Nodes /\ Out(s) \in Seq(Edges) /\ src[s] \in
          [pc : {"new", "run", "stop", "done"}, n : Nat, outs : Seq(Edges)]
    BY OutEdges, PipelineAssumption DEF Carried
  <2> DEFINE T == [pc : {"new", "run", "stop", "done"}, n : Nat, outs : Seq(Edges)]
  <2>1. CASE SourceEmit(s)
    <3> DEFINE x == [src[s] EXCEPT !.n = @ + 1, !.outs = Out(s)]
    <3>1. x \in T /\ x.pc = src[s].pc
      <4> DEFINE y == src[s]
                 z == Out(s)
      <4>1. y \in T /\ z \in Seq(Edges)
        BY <2>0
      <4> HIDE DEF y, z
      <4>2. y.n + 1 \in Nat
        BY <4>1
      <4>3. [y EXCEPT !.n = @ + 1, !.outs = z] \in T
            /\ [y EXCEPT !.n = @ + 1, !.outs = z].pc = y.pc
        BY <4>1, <4>2
      <4> QED
        BY <4>3 DEF y, z
    <3>2. src' = [src EXCEPT ![s] = x]
      BY <2>1 DEF SourceEmit, Carried
    <3> HIDE DEF x
    <3>3. src' \in [Sources -> T] /\ \A t \in Sources : src'[t].pc = src[t].pc
      BY <3>1, <3>2 DEF Carried
    <3> QED
      BY <2>1, <3>3 DEF SourceEmit, Carried, flowVars, loopVars, lifeVars
  <2>2. CASE SourceSend(s)
    <3> DEFINE e == Head(src[s].outs)
               m == IF src[s].pc = "run" THEN DataMsg(s, src[s].n) ELSE StopMsg
    <3>1. e \in Edges /\ Tail(src[s].outs) \in Seq(Edges)
      BY <2>0, <2>2 DEF SourceSend
    <3>2. m \in Flow(E, S)
      BY <2>0, <2>2 DEF SourceSend, Carried, Flow, Unmarked, DataMsgs, DataMsg
    <3>3. buf' = [buf EXCEPT ![e] = Append(@, m)] /\ src' = [src EXCEPT ![s].outs = Tail(@)]
      BY <2>2 DEF SourceSend
    <3> HIDE DEF m
    <3>4. buf' \in [Edges -> Seq(Flow(E, S))]
      BY <3>1, <3>2, <3>3 DEF Carried
    <3> DEFINE x == [src[s] EXCEPT !.outs = Tail(@)]
    <3>5. x \in T /\ x.pc = src[s].pc /\ src' = [src EXCEPT ![s] = x]
      BY <2>0, <3>1, <3>3 DEF Carried
    <3> HIDE DEF x
    <3>6. src' \in [Sources -> T] /\ \A t \in Sources : src'[t].pc = src[t].pc
      BY <3>5 DEF Carried
    <3> QED
      BY <2>2, <3>4, <3>6 DEF SourceSend, Carried, loopVars, lifeVars
  <2>3. CASE SourceReturn(s)
    BY <2>0, <2>3 DEF SourceReturn, Carried, flowVars, loopVars, lifeVars
  <2>4. CASE SourceDone(s)
    BY <2>0, <2>4 DEF SourceDone, Carried, flowVars, lifeVars
  <2> QED
    BY <1>3, <2>1, <2>2, <2>3, <2>4 DEF SourceStep
<1>4. ASSUME NEW e \in Edges, Merge(e)
      PROVE  Carried(E, S)'
  <2>1. e[2] \in Nodes /\ buf[e] \in Seq(Flow(E, S)) /\ buf[e] # << >>
    BY <1>4, EdgeEnds DEF Merge, Carried
  <2>2. [from |-> e, msg |-> Head(buf[e])] \in Packet(E, S) /\ Tail(buf[e]) \in Seq(Flow(E, S))
    BY <2>1 DEF Packet
  <2> DEFINE p == [from |-> e, msg |-> Head(buf[e])]
  <2>3. merged' = [merged EXCEPT ![e[2]] = Append(@, p)] /\ buf' = [buf EXCEPT ![e] = Tail(@)]
    BY <1>4 DEF Merge
  <2> HIDE DEF p
  <2>4. merged' \in [Nodes -> Seq(Packet(E, S))] /\ buf' \in [Edges -> Seq(Flow(E, S))]
    BY <2>1, <2>2, <2>3 DEF Carried, p
  <2> QED
    BY <1>4, <2>4 DEF Merge, Carried, loopVars, lifeVars
<1>5. ASSUME NEW n \in Nodes, LoopStep(n)
      PROVE  Carried(E, S)'
  BY <1>5, CarriedLoop
<1>6. ASSUME NEW n \in Nodes, NodeError(n)
      PROVE  Carried(E, S)'
  BY <1>6 DEF NodeError, Carried, flowVars, loopVars
<1>7. ASSUME NEW c \in Calls, CallStep(c)
      PROVE  Carried(E, S)'
  <2>1. CASE Reject(c)
    BY <2>1 DEF Reject, Carried, LifeInv, flowVars, loopVars
  <2>2. CASE PauseResume(c)
    BY <2>2 DEF PauseResume, Carried, LifeInv, flowVars, loopVars, IsStop
  <2>3. CASE ReadState(c)
    BY <2>3 DEF ReadState, Carried, LifeInv, flowVars, loopVars
  <2>4. CASE Stop(c)
    BY <2>4 DEF Stop, Carried, LifeInv, flowVars, loopVars
  <2>5. CASE Terminate(c)
    BY <2>5 DEF Terminate, Carried, LifeInv, flowVars, loopVars, IsStop, Method
  <2>6. CASE SendControl(c)
    <3>1. PICK n \in call[c].to :
            /\ ctl' = [ctl EXCEPT ![n] = Append(@,
                 IF IsStop(c) THEN [type |-> "checkpoint", epoch |-> call[c].arg]
                              ELSE [type |-> Method(c)])]
            /\ call' = [call EXCEPT ![c].to = @ \ {n}]
      BY <2>6 DEF SendControl
    <3> DEFINE q == IF IsStop(c) THEN [type |-> "checkpoint", epoch |-> call[c].arg]
                                 ELSE [type |-> Method(c)]
    <3>2. q \in Request(E)
      BY <2>6, PipelineAssumption DEF SendControl, Request, Carried, IsStop, Method
    <3>3. n \in Nodes
      BY DEF LifeInv
    <3> HIDE DEF q
    <3>4. ctl' = [ctl EXCEPT ![n] = Append(@, q)]
      BY <3>1 DEF q
    <3>5. ctl' \in [Nodes -> Seq(Request(E))]
      BY <3>2, <3>3, <3>4 DEF Carried
    <3>6. \A d \in Calls : call'[d].pc = call[d].pc /\ call'[d].arg = call[d].arg
      BY <3>1 DEF LifeInv
    <3> QED
      BY <2>6, <3>5, <3>6 DEF SendControl, Carried, flowVars, loopVars
  <2>7. CASE ReturnCall(c)
    BY <2>7 DEF ReturnCall, Carried, LifeInv, flowVars, loopVars
  <2>8. CASE SendControlFails(c)
    <3>1. UNCHANGED <<flowVars, loopVars, ctl, src, reports>>
      BY <2>8 DEF SendControlFails
    <3> QED
      BY <2>8, <3>1, ExpiredCall DEF Carried, flowVars, loopVars
  <2> QED
    BY <1>7, <2>1, <2>2, <2>3, <2>4, <2>5, <2>6, <2>7, <2>8 DEF CallStep
<1>8. CASE MonitorStep
  BY <1>8 DEF MonitorStep, MonitorRead, MonitorDone, Carried, flowVars, loopVars
<1> QED
  BY <1>1, <1>2, <1>3, <1>4, <1>5, <1>6, <1>7, <1>8 DEF Next

-----------------------------------------------------------------------------
(* The final checkpoint of Stop. *)

(* No source has returned and nobody has terminated the pipeline: only a    *)
(* barrier can end a node.                                                  *)
Quiet == ~Terminating /\ \A s \in Sources : src[s].pc \in {"new", "run"}

(* The stops that may be under way, and the epochs. *)
Stops == IF Quiet THEN {} ELSE {StopMsg}
Epochs == 1 .. epoch

(* In the list w a completion is reported before the context is cancelled.  *)
Guarded(w) ==
  \A k \in 1 .. Len(w) : w[k].op = "cancel" => \E j \in 1 .. (k - 1) : w[j].op = "report"

(* Terminate has stored its state. *)
TermSent == "terminate" \in Calls /\ call["terminate"].pc \in {"send", "ok"}

(* A node that is cancelled, or about to be, has reported the one epoch or  *)
(* does so first; a node is gone only if it was cancelled, or everything    *)
(* was, or a node failed.                                                   *)
FinalInv ==
  /\ epoch \in {0, 1} /\ cancelled \in [Nodes -> BOOLEAN]
  /\ epoch = 1 => "stop" \in Calls /\ call["stop"].pc \in {"send", "ok", "expired"}
  /\ \E E \in SUBSET Nat, S \in SUBSET {StopMsg} : E = Epochs /\ S = Stops /\ Carried(E, S)
  /\ \A n \in Nodes : \A k \in 1 .. Len(ctl[n]) : ctl[n][k].type = "terminate" => TermSent
  /\ \A n \in Nodes : <<n, 1>> \in reports => epoch = 1
  /\ Quiet => \A n \in Nodes : <<n, 1>> \in reports \/ (~cancelled[n] /\ Guarded(work[n]))
  /\ \A n \in Nodes : pc[n] = "gone" => cancelled[n] \/ pipeCtx \/ TermSent \/ errq # {}
  /\ monitor.pc \in {"deciding", "done"} => \A n \in Nodes : pc[n] = "gone"

(* More epochs and stops are allowed. *)
LEMMA CarriedMore ==
  ASSUME NEW E, NEW S, NEW F, NEW T, E \subseteq F, S \subseteq T, Carried(E, S)
  PROVE  Carried(F, T)
<1>1. Flow(E, S) \subseteq Flow(F, T) /\ Unmarked(S) \subseteq Unmarked(T)
      /\ Barrier(E) \subseteq Barrier(F)
  BY DEF Flow, Unmarked, Barrier
<1>2. Packet(E, S) \subseteq Packet(F, T)
  BY <1>1 DEF Packet
<1>3. Request(E) \subseteq Request(F)
  BY DEF Request
<1>4. Item(E, S) \subseteq Item(F, T)
  BY <1>1 DEF Item
<1>5. Aligner(E, S) \subseteq Aligner(F, T)
  <2>1. Seq(Unmarked(S)) \subseteq Seq(Unmarked(T))
    BY <1>1
  <2> QED
    BY <1>1, <2>1 DEF Aligner
<1>6. /\ Seq(Flow(E, S)) \subseteq Seq(Flow(F, T))
      /\ Seq(Packet(E, S)) \subseteq Seq(Packet(F, T))
      /\ Seq(Request(E)) \subseteq Seq(Request(F))
      /\ Seq(Item(E, S)) \subseteq Seq(Item(F, T))
  BY <1>1, <1>2, <1>3, <1>4
<1> QED
  BY <1>5, <1>6 DEF Carried

(* Before Start no goroutine runs. *)
Fresh == state = "initializing" => /\ \A s \in Sources : src[s].pc = "new"
                                   /\ \A n \in Nodes : pc[n] = "new"

(* Nothing but Start is possible then. *)
LEMMA FreshStep ==
  ASSUME NEW E, NEW S, Carried(E, S), LifeInv, Fresh, [Next]_vars
  PROVE  Fresh'
<1> SUFFICES ASSUME state' = "initializing"
             PROVE  UNCHANGED <<state, src, pc>>
  BY DEF Fresh
<1>1. ASSUME state = "initializing", NEW s \in Sources, SourceStep(s)
      PROVE  FALSE
  BY <1>1 DEF Fresh, SourceStep, SourceEmit, SourceSend, SourceReturn, SourceDone
<1>2. ASSUME state = "initializing", NEW e \in Edges, Merge(e)
      PROVE  FALSE
  BY <1>2, EdgeEnds DEF Fresh, Merge
<1>3. ASSUME state = "initializing", NEW n \in Nodes, LoopStep(n)
      PROVE  FALSE
  BY <1>3 DEF Fresh, LoopStep, SelectDone, SelectMerged, SelectControl, WaitControl, HandleData,
              HandleStop, HandleBarrier, Send, SendFails, ReportCompletion, CancelSelf, AtSelect,
              Doing
<1>4. ASSUME NEW n \in Nodes, NodeError(n)
      PROVE  FALSE
  BY <1>4 DEF NodeError
<1>5. ASSUME NEW c \in Calls, CallStep(c)
      PROVE  UNCHANGED <<state, src, pc>>
  BY <1>5 DEF CallStep, Reject, PauseResume, ReadState, Stop, Terminate, SendControl,
              SendControlFails, ReturnCall,
              MayCall, loopVars
<1>6. CASE Start
  BY <1>6 DEF Start
<1>7. CASE MonitorStep
  BY <1>7 DEF MonitorStep, MonitorRead, MonitorDone, loopVars
<1> QED
  BY <1>1, <1>2, <1>3, <1>4, <1>5, <1>6, <1>7, FlowLeavesLife DEF Next, vars, loopVars, lifeVars

(* What is over remains so: a source that has returned, an accepted         *)
(* Terminate, a cancelled context; and only a call of Stop counts epochs.   *)
LEMMA Stable ==
  ASSUME NEW E, NEW S, Carried(E, S), LifeInv, Fresh, [Next]_vars
  PROVE  /\ Terminating => Terminating'
         /\ TermSent => TermSent'
         /\ Quiet' => Quiet
         /\ pipeCtx => pipeCtx'
         /\ epoch' = epoch \/ \E c \in Calls : Stop(c)
<1>1. (Terminating => Terminating') /\ (TermSent => TermSent')
  <2>1. CASE UNCHANGED call
    BY <2>1 DEF Terminating, TermSent
  <2>2. ASSUME NEW c \in Calls, CallStep(c)
        PROVE  (Terminating => Terminating') /\ (TermSent => TermSent')
    BY <2>2 DEF CallStep, Reject, PauseResume, ReadState, Stop, Terminate, SendControl,
                SendControlFails, ReturnCall,
                MayCall, Terminating, TermSent, LifeInv, IsStop, Method
  <2> QED
    BY <2>1, <2>2, FlowLeavesLife DEF Next, Start, NodeError, MonitorStep, MonitorRead, MonitorDone,
                                      vars, lifeVars
<1>2. \A s \in Sources : src'[s].pc \in {"new", "run"} => src[s].pc \in {"new", "run"}
  <2>1. CASE UNCHANGED src
    BY <2>1
  <2>2. CASE Start
    BY <2>2 DEF Start, Fresh
  <2>3. CASE \E s \in Sources : SourceStep(s)
    <3>1. PICK s \in Sources : SourceStep(s)
      BY <2>3
    <3>2. src[s].pc \in {"run", "stop"} /\ (src[s].pc = "stop" => src'[s].pc \in {"stop", "done"})
      BY <3>1 DEF SourceStep, SourceEmit, SourceSend, SourceReturn, SourceDone, Carried
    <3>3. \A z \in Sources : z # s => src'[z] = src[z]
      BY <3>1 DEF SourceStep, SourceEmit, SourceSend, SourceReturn, SourceDone, Carried
    <3> QED
      BY <3>2, <3>3
  <2>4. CASE \E n \in Nodes : LoopStep(n)
    BY <2>1, <2>4 DEF LoopStep, SelectDone, SelectMerged, SelectControl, WaitControl, HandleData,
              HandleStop, HandleBarrier, Send, SendFails, ReportCompletion, CancelSelf
  <2>5. CASE \E c \in Calls : CallStep(c)
    BY <2>1, <2>5 DEF CallStep, Reject, PauseResume, ReadState, Stop, Terminate, SendControl,
                      SendControlFails,
                      ReturnCall
  <2> QED
    BY <2>1, <2>2, <2>3, <2>4, <2>5 DEF Next, vars, Merge, NodeError, MonitorStep, MonitorRead,
                                        MonitorDone
<1>3. pipeCtx => pipeCtx'
  <2>1. ASSUME NEW c \in Calls, CallStep(c)
        PROVE  pipeCtx => pipeCtx'
    BY <2>1 DEF CallStep, Reject, PauseResume, ReadState, Stop, Terminate, SendControl,
                SendControlFails, ReturnCall
  <2> QED
    BY <2>1, FlowLeavesLife DEF Next, vars, lifeVars, Start, NodeError, MonitorStep, MonitorRead,
                                MonitorDone
<1>4. epoch' = epoch \/ \E c \in Calls : Stop(c)
  <2>1. ASSUME NEW c \in Calls, CallStep(c)
        PROVE  epoch' = epoch \/ Stop(c)
    BY <2>1 DEF CallStep, Reject, PauseResume, ReadState, Terminate, SendControl,
                SendControlFails, ReturnCall
  <2> QED
    BY <2>1, FlowLeavesLife DEF Next, vars, lifeVars, Start, NodeError, MonitorStep, MonitorRead,
                                MonitorDone
<1> QED
  BY <1>1, <1>2, <1>3, <1>4 DEF Quiet

(* Facts about lists that are guarded. *)
LEMMA GuardedTail ==
  ASSUME NEW T, NEW w \in Seq(T), w # << >>, Guarded(w), w[1].op # "report"
  PROVE  Guarded(Tail(w))
<1> DEFINE x == Tail(w)
<1>1. Len(w) \in Nat /\ Len(x) = Len(w) - 1 /\ \A k \in 1 .. Len(x) : x[k] = w[k + 1]
  OBVIOUS
<1>2. ASSUME NEW k \in 1 .. Len(x), x[k].op = "cancel"
      PROVE  \E j \in 1 .. (k - 1) : x[j].op = "report"
  <2>1. k \in Nat /\ k + 1 \in 1 .. Len(w) /\ w[k + 1].op = "cancel"
    BY <1>1, <1>2
  <2>2. PICK j \in 1 .. k : w[j].op = "report"
    BY <2>1 DEF Guarded
  <2>3. j # 1 /\ j - 1 \in 1 .. (k - 1) /\ j - 1 \in 1 .. Len(x)
    BY <1>1, <2>1, <2>2
  <2>4. x[j - 1] = w[j]
    BY <1>1, <2>2, <2>3
  <2> QED
    BY <2>2, <2>3, <2>4
<1> QED
  BY <1>2 DEF Guarded

(* So is what follows a guarded list if it is guarded itself. *)
LEMMA GuardedConcat ==
  ASSUME NEW T, NEW x \in Seq(T), NEW y \in Seq(T), Guarded(x), Guarded(y)
  PROVE  Guarded(x \o y)
<1> DEFINE w == x \o y
<1>1. Len(x) \in Nat /\ Len(y) \in Nat /\ Len(w) = Len(x) + Len(y)
      /\ (\A k \in 1 .. Len(x) : w[k] = x[k])
      /\ (\A k \in 1 .. Len(y) : w[k + Len(x)] = y[k])
  BY ConcatProperties
<1> HIDE DEF w
<1>2. ASSUME NEW k \in 1 .. Len(w), w[k].op = "cancel"
      PROVE  \E j \in 1 .. (k - 1) : w[j].op = "report"
  <2>1. CASE k <= Len(x)
    <3>1. k \in 1 .. Len(x) /\ x[k].op = "cancel"
      BY <1>1, <1>2, <2>1
    <3>2. PICK j \in 1 .. (k - 1) : x[j].op = "report"
      BY <3>1 DEF Guarded
    <3>3. j \in 1 .. Len(x)
      BY <1>1, <3>1, <3>2
    <3> QED
      BY <1>1, <3>2, <3>3
  <2>2. CASE k > Len(x)
    <3> DEFINE l == k - Len(x)
    <3>1. l \in 1 .. Len(y) /\ k = l + Len(x)
      BY <1>1, <1>2, <2>2
    <3>2. y[l].op = "cancel"
      BY <1>1, <1>2, <3>1
    <3> HIDE DEF l
    <3>3. PICK j \in 1 .. (l - 1) : y[j].op = "report"
      BY <3>1, <3>2 DEF Guarded
    <3>4. j \in 1 .. Len(y) /\ j + Len(x) \in 1 .. (k - 1)
      BY <1>1, <3>1, <3>3
    <3> QED
      BY <1>1, <3>3, <3>4
  <2> QED
    BY <1>1, <2>1, <2>2
<1> QED
  BY <1>2 DEF Guarded, w

(* The list to send a message cancels nothing. *)
LEMMA GuardedSend ==
  ASSUME NEW n \in Nodes, NEW m
  PROVE  Guarded(SendAll(n, m))
BY DEF Guarded, SendAll

(* What a handler of a barrier does is guarded. *)
LEMMA GuardedReport ==
  ASSUME NEW e
  PROVE  Guarded(<<Report(e), StopSelf>>)
BY DEF Guarded, Report, StopSelf

(* At the start. *)
LEMMA FinalInit == Init => FinalInv /\ Fresh
<1> SUFFICES ASSUME Init PROVE FinalInv /\ Fresh
  OBVIOUS
<1>1. Carried(Epochs, Stops)
  BY CarriedInit
<1>2. Epochs \in SUBSET Nat /\ Stops \in SUBSET {StopMsg}
  BY DEF Epochs, Stops, Init
<1>3. \E E \in SUBSET Nat, S \in SUBSET {StopMsg} : E = Epochs /\ S = Stops /\ Carried(E, S)
  BY <1>1, <1>2
<1>4. Guarded(<< >>)
  BY DEF Guarded
<1> QED
  BY <1>3, <1>4 DEF FinalInv, Fresh, Init

(* Without a second Stop there is one epoch. *)
LEMMA OneEpoch ==
  ASSUME "stop2" \notin Calls, LifeInv, [Next]_vars, epoch \in {0, 1},
         epoch = 1 => "stop" \in Calls /\ call["stop"].pc \in {"send", "ok", "expired"}
  PROVE  /\ epoch' \in {0, 1} /\ epoch <= epoch'
         /\ epoch' = 1 => "stop" \in Calls /\ call'["stop"].pc \in {"send", "ok", "expired"}
         /\ \A c \in Calls : Stop(c) => epoch' = 1 /\ epoch + 1 = 1
<1>0. \A c \in Calls : IsStop(c) => c = "stop"
  BY PipelineAssumption DEF IsStop, Method
<1>1. \A c \in Calls : Stop(c) => c = "stop" /\ epoch = 0 /\ epoch' = 1 /\ epoch + 1 = 1
  BY <1>0 DEF Stop
<1>2. CASE UNCHANGED <<call, epoch>>
  BY <1>1, <1>2
<1>3. ASSUME NEW c \in Calls, CallStep(c)
      PROVE  /\ epoch' \in {0, 1} /\ epoch <= epoch'
             /\ epoch' = 1 => "stop" \in Calls /\ call'["stop"].pc \in {"send", "ok", "expired"}
  <2>1. CASE Stop(c)
    <3>1. epoch' = 1 /\ epoch = 0 /\ c = "stop"
      BY <1>1, <2>1
    <3>2. call'["stop"].pc = "send"
      BY <2>1, <3>1 DEF Stop, LifeInv
    <3> QED
      BY <3>1, <3>2
  <2>2. CASE Reject(c) \/ PauseResume(c) \/ ReadState(c) \/ Terminate(c)
    <3>1. epoch' = epoch /\ ("stop" \in Calls /\ call["stop"].pc \in {"send", "ok", "expired"} =>
                              call'["stop"].pc = call["stop"].pc)
      BY <2>2 DEF Reject, PauseResume, ReadState, Terminate, MayCall, LifeInv
    <3> QED
      BY <3>1
  <2>3. CASE SendControl(c)
    <3>1. epoch' = epoch /\ \A d \in Calls : call'[d].pc = call[d].pc
      BY <2>3 DEF SendControl, LifeInv
    <3> QED
      BY <3>1
  <2>4. CASE ReturnCall(c)
    <3>1. epoch' = epoch
          /\ \A d \in Calls : call'[d].pc = call[d].pc \/ call'[d].pc = "ok"
      BY <2>4 DEF ReturnCall, LifeInv
    <3> QED
      BY <3>1
  <2>5. CASE SendControlFails(c)
    <3>1. epoch' = epoch
      BY <2>5 DEF SendControlFails
    <3> QED
      BY <2>5, <3>1, ExpiredCall
  <2> QED
    BY <1>3, <2>1, <2>2, <2>3, <2>4, <2>5 DEF CallStep
<1> QED
  BY <1>1, <1>2, <1>3, FlowLeavesLife DEF Next, vars, lifeVars, Start, NodeError, MonitorStep,
                                          MonitorRead, MonitorDone

(* The messages that may be under way after a step. *)
LEMMA FinalCarried ==
  ASSUME "stop2" \notin Calls, LifeInv, Fresh, FinalInv, [Next]_vars
  PROVE  (\E E \in SUBSET Nat, S \in SUBSET {StopMsg} :
            E = Epochs /\ S = Stops /\ Carried(E, S))'
<1>1. PICK E \in SUBSET Nat, S \in SUBSET {StopMsg} : E = Epochs /\ S = Stops /\ Carried(E, S)
  BY DEF FinalInv
<1>2. /\ epoch \in {0, 1} /\ epoch' \in {0, 1} /\ epoch <= epoch'
      /\ \A c \in Calls : Stop(c) => epoch' = 1 /\ epoch + 1 = 1
  BY OneEpoch DEF FinalInv
<1>3. PICK F : F = Epochs'
  OBVIOUS
<1>4. PICK T : T = Stops'
  OBVIOUS
<1>5. F \in SUBSET Nat /\ E \subseteq F
  BY <1>1, <1>2, <1>3 DEF Epochs
<1>6. T \in SUBSET {StopMsg} /\ S \subseteq T
  <2>1. Quiet' => Quiet
    BY <1>1, Stable
  <2> QED
    BY <1>1, <1>4, <2>1 DEF Stops
<1>7. Carried(F, T)
  BY <1>1, <1>5, <1>6, CarriedMore
<1>8. \A c \in Calls : Stop(c) => epoch + 1 \in F
  BY <1>2, <1>3 DEF Epochs
<1>9. \A s \in Sources : SourceReturn(s) => StopMsg \in T
  <2>1. ASSUME NEW s \in Sources, SourceReturn(s)
        PROVE  ~Quiet'
    <3>1. src'[s].pc = "stop"
      BY <1>1, <2>1 DEF SourceReturn, Carried
    <3> QED
      BY <3>1 DEF Quiet
  <2> QED
    BY <1>4, <2>1 DEF Stops
<1>10. Carried(F, T)'
  BY <1>5, <1>6, <1>7, <1>8, <1>9, CarriedStep
<1> QED
  BY <1>3, <1>4, <1>5, <1>6, <1>10

(* Only Terminate asks the nodes to terminate. *)
LEMMA FinalControl ==
  ASSUME NEW E, NEW S, Carried(E, S), LifeInv, Fresh, [Next]_vars,
         \A n \in Nodes : \A k \in 1 .. Len(ctl[n]) : ctl[n][k].type = "terminate" => TermSent
  PROVE  \A n \in Nodes :
           \A k \in 1 .. Len(ctl'[n]) : ctl'[n][k].type = "terminate" => TermSent'
<1>0. (TermSent => TermSent') /\ ctl \in [Nodes -> Seq(Request(E))]
  BY Stable DEF Carried
<1>1. CASE UNCHANGED ctl
  BY <1>0, <1>1
<1>2. ASSUME NEW n \in Nodes, ctl[n] # << >>, ctl' = [ctl EXCEPT ![n] = Tail(@)]
      PROVE  \A m \in Nodes :
               \A k \in 1 .. Len(ctl'[m]) : ctl'[m][k].type = "terminate" => TermSent'
  <2>1. ctl[n] \in Seq(Request(E)) /\ ctl[n] # << >> /\ ctl'[n] = Tail(ctl[n])
    BY <1>0, <1>2
  <2>2. \A k \in 1 .. Len(ctl'[n]) : k + 1 \in 1 .. Len(ctl[n]) /\ ctl'[n][k] = ctl[n][k + 1]
    BY <2>1
  <2>3. \A m \in Nodes : m # n => ctl'[m] = ctl[m]
    BY <1>0, <1>2
  <2>4. ASSUME NEW m \in Nodes, NEW k \in 1 .. Len(ctl'[m]), ctl'[m][k].type = "terminate"
        PROVE  TermSent
    <3>1. CASE m = n
      BY <2>2, <2>4, <3>1
    <3>2. CASE m # n
      BY <2>3, <2>4, <3>2
    <3> QED
      BY <3>1, <3>2
  <2> QED
    BY <1>0, <2>4
<1>3. ASSUME NEW c \in Calls, SendControl(c)
      PROVE  \A m \in Nodes :
               \A k \in 1 .. Len(ctl'[m]) : ctl'[m][k].type = "terminate" => TermSent'
  <2> DEFINE q == IF IsStop(c) THEN [type |-> "checkpoint", epoch |-> call[c].arg]
                               ELSE [type |-> Method(c)]
  <2>1. PICK n \in call[c].to : ctl' = [ctl EXCEPT ![n] = Append(@, q)]
    BY <1>3 DEF SendControl
  <2>2. n \in Nodes
    BY DEF LifeInv
  <2>3. q.type = "terminate" => TermSent
    <3>1. ASSUME q.type = "terminate" PROVE c = "terminate"
      BY <3>1, PipelineAssumption DEF IsStop, Method
    <3> QED
      BY <1>3, <3>1 DEF SendControl, TermSent
  <2> HIDE DEF q
  <2>4. ctl[n] \in Seq(Request(E)) /\ ctl'[n] = Append(ctl[n], q)
        /\ \A m \in Nodes : m # n => ctl'[m] = ctl[m]
    BY <1>0, <2>1, <2>2
  <2>5. \A k \in 1 .. Len(ctl'[n]) :
          (k \in 1 .. Len(ctl[n]) /\ ctl'[n][k] = ctl[n][k]) \/ ctl'[n][k] = q
    BY <2>4
  <2>6. ASSUME NEW m \in Nodes, NEW k \in 1 .. Len(ctl'[m]), ctl'[m][k].type = "terminate"
        PROVE  TermSent
    <3>1. CASE m = n
      BY <2>3, <2>5, <2>6, <3>1
    <3>2. CASE m # n
      BY <2>4, <2>6, <3>2
    <3> QED
      BY <3>1, <3>2
  <2> QED
    BY <1>0, <2>6
<1>4. ASSUME NEW n \in Nodes, LoopStep(n)
      PROVE  UNCHANGED ctl \/ (ctl[n] # << >> /\ ctl' = [ctl EXCEPT ![n] = Tail(@)])
  BY <1>4 DEF LoopStep, SelectDone, SelectMerged, SelectControl, WaitControl, HandleData,
              HandleStop, HandleBarrier, Send, SendFails, ReportCompletion, CancelSelf
<1>5. ASSUME NEW c \in Calls, CallStep(c)
      PROVE  UNCHANGED ctl \/ SendControl(c)
  BY <1>5 DEF CallStep, Reject, PauseResume, ReadState, Stop, Terminate,
              SendControlFails, ReturnCall
<1>6. CASE \/ UNCHANGED vars \/ Start \/ MonitorStep
           \/ (\E s \in Sources : SourceStep(s)) \/ (\E e \in Edges : Merge(e))
           \/ (\E n \in Nodes : NodeError(n))
  BY <1>1, <1>6 DEF vars, Start, MonitorStep, MonitorRead, MonitorDone, SourceStep, SourceEmit,
                    SourceSend, SourceReturn, SourceDone, Merge, NodeError
<1> QED
  BY <1>1, <1>2, <1>3, <1>4, <1>5, <1>6 DEF Next

(* A loop ends for one of four reasons. *)
LEMMA FinalGone ==
  ASSUME NEW E, NEW S, Carried(E, S), LifeInv, Fresh, [Next]_vars,
         \A n \in Nodes : \A k \in 1 .. Len(ctl[n]) : ctl[n][k].type = "terminate" => TermSent,
         cancelled \in [Nodes -> BOOLEAN],
         \A n \in Nodes : pc[n] = "gone" => cancelled[n] \/ pipeCtx \/ TermSent \/ errq # {}
  PROVE  /\ cancelled' \in [Nodes -> BOOLEAN]
         /\ \A n \in Nodes : cancelled[n] => cancelled'[n]
         /\ \A n \in Nodes :
              pc'[n] = "gone" => cancelled'[n] \/ pipeCtx' \/ TermSent' \/ errq' # {}
         /\ \A n \in Nodes : pc[n] = "gone" => pc'[n] = "gone"
<1>0. (TermSent => TermSent') /\ (pipeCtx => pipeCtx')
      /\ pc \in [Nodes -> {"new", "loop", "wait", "gone"}]
      /\ ctl \in [Nodes -> Seq(Request(E))]
  BY Stable DEF Carried
<1>1. CASE UNCHANGED <<cancelled, pc, errq>>
  BY <1>0, <1>1
<1>2. CASE Start
  BY <1>0, <1>2 DEF Start, Fresh
<1>3. CASE \E s \in Sources : SourceStep(s)
  <2>1. UNCHANGED <<pc, errq>>
    BY <1>3 DEF SourceStep, SourceEmit, SourceSend, SourceReturn, SourceDone, loopVars, lifeVars
  <2>2. cancelled' \in [Nodes -> BOOLEAN] /\ \A n \in Nodes : cancelled[n] => cancelled'[n]
    <3>1. PICK s \in Sources : SourceStep(s)
      BY <1>3
    <3>2. cancelled' = cancelled \/ cancelled' = [cancelled EXCEPT ![s] = TRUE]
      BY <3>1 DEF SourceStep, SourceEmit, SourceSend, SourceReturn, SourceDone, loopVars
    <3> QED
      BY <3>2
  <2> QED
    BY <1>0, <2>1, <2>2
<1>4. ASSUME NEW n \in Nodes, NodeError(n)
      PROVE  UNCHANGED <<cancelled, pc>> /\ pipeCtx'
  BY <1>4 DEF NodeError, loopVars
<1>5. ASSUME NEW n \in Nodes, LoopStep(n)
      PROVE  /\ cancelled' \in [Nodes -> BOOLEAN]
             /\ \A m \in Nodes : cancelled[m] => cancelled'[m]
             /\ pc[n] # "gone"
             /\ \A m \in Nodes : m # n => pc'[m] = pc[m]
             /\ pc'[n] = "gone" => cancelled'[n] \/ pipeCtx' \/ TermSent' \/ n \in errq'
             /\ errq \subseteq errq'
  <2>1. pc[n] # "gone"
    BY <1>5 DEF LoopStep, SelectDone, SelectMerged, SelectControl, WaitControl, HandleData,
                HandleStop, HandleBarrier, Send, SendFails, ReportCompletion, CancelSelf, AtSelect,
                Doing
  <2>2. cancelled' = cancelled \/ cancelled' = [cancelled EXCEPT ![n] = TRUE]
    BY <1>5 DEF LoopStep, SelectDone, SelectMerged, SelectControl, WaitControl, HandleData,
                HandleStop, HandleBarrier, Send, SendFails, ReportCompletion, CancelSelf
  <2>3. cancelled' \in [Nodes -> BOOLEAN] /\ \A m \in Nodes : cancelled[m] => cancelled'[m]
    BY <2>2
  <2>4. CASE SelectDone(n)
    BY <1>0, <2>1, <2>3, <2>4 DEF SelectDone, Return, CtxDone
  <2>5. CASE SelectMerged(n)
    BY <1>0, <2>1, <2>3, <2>5 DEF SelectMerged, lifeVars, AtSelect
  <2>6. CASE SelectControl(n)
    <3>1. Head(ctl[n]).type = "terminate" => TermSent
      <4>1. ctl[n] \in Seq(Request(E)) /\ ctl[n] # << >>
        BY <1>0, <2>6 DEF SelectControl
      <4>2. Head(ctl[n]) = ctl[n][1] /\ 1 \in 1 .. Len(ctl[n])
        BY <4>1
      <4> QED
        BY <4>2
    <3> QED
      BY <1>0, <2>1, <2>3, <2>6, <3>1 DEF SelectControl, handleCheckpointRequest, Return, AtSelect
  <2>7. CASE WaitControl(n)
    <3>1. Head(ctl[n]).type = "terminate" => TermSent
      <4>1. ctl[n] \in Seq(Request(E)) /\ ctl[n] # << >>
        BY <1>0, <2>7 DEF WaitControl
      <4>2. Head(ctl[n]) = ctl[n][1] /\ 1 \in 1 .. Len(ctl[n])
        BY <4>1
      <4> QED
        BY <4>2
    <3>2. errq' = errq /\ \A m \in Nodes : m # n => pc'[m] = pc[m]
      BY <1>0, <2>7 DEF WaitControl, Return
    <3>3. pc'[n] = "gone" => CtxDone(n) \/ Head(ctl[n]).type = "terminate"
      BY <1>0, <2>7 DEF WaitControl, Return
    <3> QED
      BY <1>0, <2>1, <2>3, <3>1, <3>2, <3>3 DEF CtxDone
  <2>8. CASE HandleData(n)
    BY <1>0, <2>1, <2>3, <2>8 DEF HandleData, Return, Doing
  <2>9. CASE HandleStop(n) \/ HandleBarrier(n) \/ Send(n) \/ ReportCompletion(n) \/ CancelSelf(n)
    BY <1>0, <2>1, <2>3, <2>9 DEF HandleStop, HandleBarrier, Send, ReportCompletion, CancelSelf,
                                  lifeVars, Doing
  <2>10. CASE SendFails(n)
    BY <1>0, <2>1, <2>3, <2>10 DEF SendFails, Return, CtxDone, Doing
  <2> QED
    BY <1>5, <2>4, <2>5, <2>6, <2>7, <2>8, <2>9, <2>10 DEF LoopStep
<1>6. CASE \/ UNCHANGED vars \/ MonitorStep
           \/ (\E e \in Edges : Merge(e)) \/ (\E c \in Calls : CallStep(c))
  <2>1. UNCHANGED <<cancelled, pc, errq>>
    BY <1>6 DEF vars, MonitorStep, MonitorRead, MonitorDone, Merge, loopVars, lifeVars,
                CallStep, Reject, PauseResume, ReadState, Stop, Terminate, SendControl,
                SendControlFails, ReturnCall
  <2> QED
    BY <1>1, <2>1
<1>7. CASE \E n \in Nodes : LoopStep(n)
  <2>1. PICK n \in Nodes : LoopStep(n)
    BY <1>7
  <2> QED
    BY <1>0, <1>5, <2>1
<1>8. CASE \E n \in Nodes : NodeError(n)
  BY <1>0, <1>4, <1>8
<1> QED
  BY <1>2, <1>3, <1>6, <1>7, <1>8 DEF Next

(* Two lists of one element make one of two. *)
LEMMA PairConcat ==
  ASSUME NEW x, NEW y
  PROVE  <<x>> \o <<y>> = <<x, y>>
<1> DEFINE u == <<x>>
           v == <<y>>
           w == u \o v
           z == <<x, y>>
<1>1. u \in Seq({x, y}) /\ v \in Seq({x, y}) /\ Len(u) = 1 /\ Len(v) = 1 /\ u[1] = x /\ v[1] = y
  OBVIOUS
<1>2. z \in Seq({x, y}) /\ Len(z) = 2 /\ z[1] = x /\ z[2] = y
  OBVIOUS
<1> HIDE DEF u, v, z
<1>3. w \in Seq({x, y}) /\ Len(w) = 2 /\ w[1] = x /\ w[1 + 1] = y
  BY <1>1, ConcatProperties
<1> HIDE DEF w
<1>4. Len(w) = Len(z) /\ \A i \in 1 .. Len(w) : w[i] = z[i]
  BY <1>2, <1>3
<1>5. w = z
  BY <1>2, <1>3, <1>4, SeqEqual
<1> QED
  BY <1>5 DEF u, v, w, z

(* While it is quiet, a node that is cancelled or about to be has reported  *)
(* or reports first.                                                        *)
LEMMA FinalGuard ==
  ASSUME NEW E \in SUBSET {1}, NEW S \in SUBSET {StopMsg}, StopMsg \notin S, Carried(E, S),
         Fresh, LifeInv, Quiet,
         cancelled \in [Nodes -> BOOLEAN],
         \A n \in Nodes : \A k \in 1 .. Len(ctl[n]) : ctl[n][k].type = "terminate" => TermSent,
         \A n \in Nodes : <<n, 1>> \in reports \/ (~cancelled[n] /\ Guarded(work[n])),
         NEW n \in Nodes, LoopStep(n), <<n, 1>> \notin reports'
  PROVE  ~cancelled'[n] /\ Guarded(work'[n])
<1>0. /\ work \in [Nodes -> Seq(Item(E, S))] /\ ctl \in [Nodes -> Seq(Request(E))]
      /\ E \in SUBSET Nat /\ Guarded(<< >>)
  BY DEF Carried, Guarded
<1>1. reports \subseteq reports'
  BY DEF LoopStep, SelectDone, SelectMerged, SelectControl, WaitControl, HandleData,
         HandleStop, HandleBarrier, Send, SendFails, ReportCompletion, CancelSelf
<1>2. ~cancelled[n] /\ Guarded(work[n])
  BY <1>1
<1>3. ASSUME work[n] # << >>, work[n][1].op # "report"
      PROVE  Guarded(Tail(work[n])) /\ Tail(work[n]) \in Seq(Item(E, S))
  BY <1>0, <1>2, <1>3, GuardedTail, WorkHead
<1>4. ASSUME ctl[n] # << >>
      PROVE  Head(ctl[n]).type # "terminate" /\ Head(ctl[n]) \in Request(E)
  <2>1. ctl[n] \in Seq(Request(E)) /\ ctl[n] # << >>
    BY <1>0, <1>4
  <2>2. Head(ctl[n]) = ctl[n][1] /\ 1 \in 1 .. Len(ctl[n]) /\ Head(ctl[n]) \in Request(E)
    BY <2>1
  <2> QED
    BY <2>2 DEF Quiet, Terminating, TermSent
<1>5. CASE SelectDone(n)
  BY <1>0, <1>2, <1>5 DEF SelectDone, Return
<1>6. CASE SelectMerged(n)
  <2>1. cancelled' = cancelled
    BY <1>6 DEF SelectMerged
  <2>2. CASE paused[n]
    BY <1>2, <1>6, <2>1, <2>2 DEF SelectMerged
  <2>3. CASE ~paused[n]
    <3>1. Dispatch(n, Head(merged[n])) /\ merged[n] \in Seq(Packet(E, S)) /\ merged[n] # << >>
      BY <1>6, <2>3 DEF SelectMerged, Carried
    <3>2. Head(merged[n]) \in Packet(E, S)
      BY <3>1
    <3>3. \A k \in 1 .. Len(work'[n]) : work'[n][k].op = "handle"
      BY <1>0, <3>1, <3>2, DispatchType
    <3> QED
      BY <1>2, <2>1, <3>3 DEF Guarded
  <2> QED
    BY <2>2, <2>3
<1>7. CASE SelectControl(n)
  <2> DEFINE req == Head(ctl[n])
             x == SendAll(n, BarrierMsg(req.epoch, TRUE))
             y == <<Report(req.epoch), StopSelf>>
  <2>1. ctl[n] # << >> /\ cancelled' = cancelled
    BY <1>7 DEF SelectControl
  <2>2. CASE req.type = "checkpoint"
    <3>1. req.epoch \in E
      BY <1>4, <2>1, <2>2 DEF Request
    <3>2. BarrierMsg(req.epoch, TRUE) \in Flow(E, S) /\ y \in Seq(Item(E, S))
      <4>1. BarrierMsg(req.epoch, TRUE) \in Flow(E, S)
        BY <3>1 DEF BarrierMsg, Flow, Barrier
      <4>2. Report(req.epoch) \in Item(E, S) /\ StopSelf \in Item(E, S)
        BY <3>1 DEF Report, StopSelf, Item
      <4> DEFINE u == Report(req.epoch)
                 v == StopSelf
      <4> HIDE DEF u, v
      <4>3. <<u, v>> \in Seq(Item(E, S))
        BY <4>2 DEF u, v
      <4> QED
        BY <4>1, <4>3 DEF u, v
    <3>3. x \in Seq(Item(E, S)) /\ Guarded(x) /\ Guarded(y)
      BY <3>2, SendAllType, GuardedSend, GuardedReport
    <3>4. work'[n] = x \o y
      BY <1>0, <1>7, <2>2 DEF SelectControl, handleCheckpointRequest
    <3> HIDE DEF x, y
    <3> QED
      BY <1>2, <2>1, <3>2, <3>3, <3>4, GuardedConcat
  <2>3. CASE req.type # "checkpoint"
    BY <1>2, <1>4, <1>7, <2>1, <2>3 DEF SelectControl
  <2> QED
    BY <2>2, <2>3
<1>8. CASE WaitControl(n)
  <2>1. ctl[n] # << >> /\ pc[n] = "wait"
    BY <1>8 DEF WaitControl
  <2>2. held[n] \in Seq(Packet(E, S)) /\ Len(held[n]) = 1
    BY <2>1 DEF Carried
  <2>3. held[n][1] \in Packet(E, S)
    BY <2>2
  <2>4. cancelled' = cancelled
    BY <1>4, <1>8, <2>1 DEF WaitControl
  <2>5. CASE Dispatch(n, held[n][1])
    <3>1. \A k \in 1 .. Len(work'[n]) : work'[n][k].op = "handle"
      BY <1>0, <2>3, <2>5, DispatchType
    <3> QED
      BY <1>2, <2>4, <3>1 DEF Guarded
  <2>6. CASE work'[n] = << >>
    BY <1>0, <1>2, <2>4, <2>6
  <2>7. CASE work' = work
    BY <1>2, <2>4, <2>7
  <2> QED
    BY <1>0, <1>8, <2>5, <2>6, <2>7 DEF WaitControl, Return
<1>9. CASE HandleData(n)
  <2>1. work[n] # << >> /\ Head(work[n]).op = "handle" /\ Head(work[n]).msg.kind = "data"
    BY <1>9 DEF HandleData, Doing
  <2>2. Guarded(Tail(work[n])) /\ Tail(work[n]) \in Seq(Item(E, S)) /\ cancelled' = cancelled
    BY <1>3, <1>9, <2>1, WorkHead DEF HandleData
  <2> DEFINE x == SendAll(n, DataMsg(n, Cardinality(handled[n]) + 1))
  <2>3. x \in Seq(Item(E, S)) /\ Guarded(x)
    <3>1. Cardinality(handled[n]) \in Nat
      BY FS_CardinalityType DEF Carried
    <3>2. DataMsg(n, Cardinality(handled[n]) + 1) \in Flow(E, S)
      BY <3>1 DEF DataMsg, Flow, Unmarked, DataMsgs
    <3> QED
      BY <3>2, SendAllType, GuardedSend
  <2>4. work'[n] = x \o Tail(work[n]) \/ work'[n] = Tail(work[n]) \/ work'[n] = << >>
    BY <1>0, <1>9 DEF HandleData, Return
  <2> HIDE DEF x
  <2>5. Guarded(x \o Tail(work[n]))
    BY <2>2, <2>3, GuardedConcat
  <2> QED
    BY <1>0, <1>2, <2>2, <2>4, <2>5
<1>10. CASE HandleStop(n)
  <2>1. work[n] # << >> /\ Head(work[n]).op = "handle" /\ Head(work[n]).msg.kind = "stop"
    BY <1>10 DEF HandleStop, Doing
  <2>2. Head(work[n]).msg \in Flow(E, S)
    BY <2>1, WorkHead
  <2>3. StopMsg \in S
    BY <2>1, <2>2, FlowKinds
  <2> QED
    BY <2>3
<1>11. CASE HandleBarrier(n)
  <2> DEFINE b == Head(work[n]).msg
             x == SendAll(n, b)
             y == <<Report(b.epoch)>>
             z == <<StopSelf>>
  <2>1. work[n] # << >> /\ Head(work[n]).op = "handle" /\ b.kind = "barrier"
    BY <1>11 DEF HandleBarrier, Doing
  <2>2. b \in Flow(E, S) /\ b \in Barrier(E)
    <3>1. b \in Flow(E, S)
      BY <2>1, WorkHead
    <3> HIDE DEF b
    <3> QED
      BY <2>1, <3>1, FlowKinds
  <2>3. b.epoch \in E /\ b.thenStop
    BY <2>2 DEF Barrier
  <2>4. work'[n] = x \o y \o z \o Tail(work[n]) /\ cancelled' = cancelled
    BY <1>0, <1>11, <2>3 DEF HandleBarrier
  <2>5. y \in Seq(Item(E, S)) /\ z \in Seq(Item(E, S))
    BY <2>3 DEF Report, StopSelf, Item
  <2>6. x \in Seq(Item(E, S)) /\ Guarded(x)
    BY <2>2, SendAllType, GuardedSend
  <2>7. y \o z = <<Report(b.epoch), StopSelf>>
    BY PairConcat
  <2>8. Guarded(y \o z)
    BY <2>7, GuardedReport
  <2>9. Guarded(Tail(work[n])) /\ Tail(work[n]) \in Seq(Item(E, S))
    BY <1>3, <2>1, WorkHead
  <2> HIDE DEF b, x, y, z
  <2>10. x \o y \o z = x \o (y \o z) /\ y \o z \in Seq(Item(E, S))
    BY <2>5, <2>6, ConcatAssociative
  <2>11. Guarded(x \o (y \o z)) /\ x \o (y \o z) \in Seq(Item(E, S))
    <3> DEFINE v == y \o z
    <3>1. v \in Seq(Item(E, S)) /\ Guarded(v)
      BY <2>8, <2>10
    <3> HIDE DEF v
    <3>2. Guarded(x \o v)
      BY <2>6, <3>1, GuardedConcat
    <3>3. x \o v \in Seq(Item(E, S))
      BY <2>6, <3>1
    <3> QED
      BY <3>2, <3>3 DEF v
  <2>12. Guarded(x \o y \o z \o Tail(work[n]))
    <3> DEFINE u == x \o (y \o z)
    <3> HIDE DEF u
    <3>1. Guarded(u) /\ u \in Seq(Item(E, S))
      BY <2>11 DEF u
    <3>2. Guarded(u \o Tail(work[n]))
      BY <2>9, <3>1, GuardedConcat
    <3>3. x \o y \o z = u
      BY <2>10 DEF u
    <3> QED
      BY <3>2, <3>3
  <2> QED
    BY <1>2, <2>4, <2>12
<1>12. ASSUME Doing(n, "send"), work' = Passed(n)
       PROVE  Guarded(work'[n])
  <2> DEFINE it == [op |-> "send", outs |-> Tail(work[n][1].outs), msg |-> work[n][1].msg]
             x == <<it>>
  <2>1. work[n] # << >> /\ work[n][1].op = "send"
    BY <1>12, WorkHead DEF Doing
  <2>2. Guarded(Tail(work[n])) /\ Tail(work[n]) \in Seq(Item(E, S))
    BY <1>3, <2>1
  <2>3. CASE Len(work[n][1].outs) = 1
    BY <1>12, <2>2, <2>3, PassedType
  <2>4. CASE Len(work[n][1].outs) # 1
    <3>1. work'[n] = x \o Tail(work[n]) /\ Tail(work[n][1].outs) \in Seq(Edges) \ {<< >>}
      BY <1>12, <2>4, PassedType
    <3>2. work[n][1] \in [op : {"send"}, outs : Seq(Edges) \ {<< >>}, msg : Flow(E, S)]
      BY <2>1, WorkHead
    <3>3. it \in Item(E, S) /\ it.op = "send"
      BY <3>1, <3>2 DEF Item
    <3> HIDE DEF it
    <3>4. x \in Seq(Item(E, S)) /\ Guarded(x)
      BY <3>3 DEF Guarded
    <3> HIDE DEF x
    <3>5. Guarded(x \o Tail(work[n]))
      BY <2>2, <3>4, GuardedConcat
    <3> QED
      BY <3>1, <3>5
  <2> QED
    BY <2>3, <2>4
<1>13. CASE Send(n)
  BY <1>2, <1>12, <1>13 DEF Send
<1>14. CASE SendFails(n)
  <2>1. work[n] # << >> /\ work[n][1].op = "send" /\ Doing(n, "send") /\ cancelled' = cancelled
    BY <1>14, WorkHead DEF SendFails, Doing
  <2>2. work' = Passed(n) \/ work'[n] = Tail(work[n]) \/ work'[n] = << >>
    BY <1>0, <1>14 DEF SendFails, Return
  <2> QED
    BY <1>0, <1>2, <1>3, <1>12, <2>1, <2>2
<1>15. CASE ReportCompletion(n)
  <2>1. work[n] # << >> /\ Head(work[n]).op = "report"
        /\ reports' = reports \cup {<<n, Head(work[n]).epoch>>}
    BY <1>15 DEF ReportCompletion, Doing
  <2>2. Head(work[n]).epoch = 1
    BY <2>1, WorkHead
  <2> QED
    BY <2>1, <2>2
<1>16. CASE CancelSelf(n)
  <2>1. work[n] # << >> /\ work[n][1].op = "cancel" /\ work[n] \in Seq(Item(E, S))
    BY <1>16, WorkHead DEF CancelSelf, Doing
  <2>2. 1 \in 1 .. Len(work[n])
    BY <2>1
  <2>3. \E j \in 1 .. (1 - 1) : work[n][j].op = "report"
    BY <1>2, <2>1, <2>2 DEF Guarded
  <2> QED
    BY <2>3
<1> QED
  BY <1>5, <1>6, <1>7, <1>8, <1>9, <1>10, <1>11, <1>13, <1>14, <1>15, <1>16 DEF LoopStep

(* A step of a loop leaves the other nodes alone. *)
LEMMA LoopLeavesOthers ==
  ASSUME NEW E, NEW S, Carried(E, S), cancelled \in [Nodes -> BOOLEAN], NEW n \in Nodes, LoopStep(n),
         NEW m \in Nodes, m # n
  PROVE  /\ work'[m] = work[m] /\ cancelled'[m] = cancelled[m] /\ ba'[m] = ba[m]
         /\ held'[m] = held[m] /\ pc'[m] = pc[m] /\ handled'[m] = handled[m]
<1>0. /\ work \in [Nodes -> Seq(Item(E, S))] /\ ba \in [Nodes -> Aligner(E, S)]
      /\ held \in [Nodes -> Seq(Packet(E, S))] /\ pc \in [Nodes -> {"new", "loop", "wait", "gone"}]
      /\ handled \in [Nodes -> SUBSET DataMsgs(Nodes)]
  BY DEF Carried
<1>1. CASE SelectDone(n) \/ SelectControl(n)
  BY <1>0, <1>1 DEF SelectDone, SelectControl, handleCheckpointRequest, Return
<1>2. CASE SelectMerged(n)
  <2>1. CASE paused[n]
    BY <1>0, <1>2, <2>1 DEF SelectMerged
  <2>2. CASE ~paused[n]
    BY <1>0, <1>2, <2>2 DEF SelectMerged, Dispatch
  <2> QED
    BY <2>1, <2>2
<1>3. CASE WaitControl(n)
  <2>1. work'[m] = work[m] /\ ba'[m] = ba[m]
    BY <1>0, <1>3 DEF WaitControl, Dispatch, Return
  <2>2. cancelled'[m] = cancelled[m] /\ held'[m] = held[m] /\ pc'[m] = pc[m] /\ handled' = handled
    BY <1>0, <1>3 DEF WaitControl, Return
  <2> QED
    BY <2>1, <2>2
<1>4. CASE HandleData(n)
  BY <1>0, <1>4 DEF HandleData, Return
<1>5. CASE HandleStop(n) \/ HandleBarrier(n)
  BY <1>0, <1>5 DEF HandleStop, HandleBarrier
<1>6. CASE Send(n)
  BY <1>6, PassedType DEF Send
<1>7. CASE SendFails(n)
  <2>1. work'[m] = work[m]
    <3>1. Passed(n)[m] = work[m]
      BY <1>7, PassedType DEF SendFails
    <3>2. work' = Passed(n) \/ work' = [work EXCEPT ![n] = Tail(work[n])]
          \/ work' = [work EXCEPT ![n] = << >>]
      BY <1>7 DEF SendFails, Return
    <3> QED
      BY <1>0, <3>1, <3>2
  <2>2. pc'[m] = pc[m] /\ UNCHANGED <<cancelled, ba, held, handled>>
    BY <1>0, <1>7 DEF SendFails, Return
  <2> QED
    BY <2>1, <2>2
<1>8. CASE ReportCompletion(n) \/ CancelSelf(n)
  BY <1>0, <1>8 DEF ReportCompletion, CancelSelf
<1> QED
  BY <1>1, <1>2, <1>3, <1>4, <1>5, <1>6, <1>7, <1>8 DEF LoopStep

(* One step of the pipeline. *)
LEMMA FinalStep ==
  ASSUME "stop2" \notin Calls, LifeInv, Fresh, FinalInv, [Next]_vars
  PROVE  FinalInv' /\ Fresh'
<1>1. PICK E \in SUBSET Nat, S \in SUBSET {StopMsg} : E = Epochs /\ S = Stops /\ Carried(E, S)
  BY DEF FinalInv
<1>2. /\ epoch \in {0, 1} /\ epoch' \in {0, 1} /\ epoch <= epoch'
      /\ epoch' = 1 => "stop" \in Calls /\ call'["stop"].pc \in {"send", "ok", "expired"}
  BY OneEpoch DEF FinalInv
<1>3. E \in SUBSET {1} /\ (Quiet => S = {}) /\ \A k \in E : k = 1 /\ epoch = 1
  BY <1>1, <1>2 DEF Epochs, Stops
<1>4. Fresh'
  BY <1>1, FreshStep
<1>5. (\E F \in SUBSET Nat, T \in SUBSET {StopMsg} :
         F = Epochs /\ T = Stops /\ Carried(F, T))'
  BY FinalCarried
<1>6. \A n \in Nodes :
        \A k \in 1 .. Len(ctl'[n]) : ctl'[n][k].type = "terminate" => TermSent'
  BY <1>1, FinalControl DEF FinalInv
<1>7. /\ cancelled' \in [Nodes -> BOOLEAN]
      /\ \A n \in Nodes : cancelled[n] => cancelled'[n]
      /\ \A n \in Nodes :
           pc'[n] = "gone" => cancelled'[n] \/ pipeCtx' \/ TermSent' \/ errq' # {}
      /\ \A n \in Nodes : pc[n] = "gone" => pc'[n] = "gone"
  BY <1>1, FinalGone DEF FinalInv
<1>8. Quiet' => Quiet
  BY <1>1, Stable
<1>9. CASE \E n \in Nodes : LoopStep(n)
  <2>1. PICK n \in Nodes : LoopStep(n)
    BY <1>9
  <2>2. \A m \in Nodes : m # n => work'[m] = work[m] /\ cancelled'[m] = cancelled[m]
    BY <1>1, <2>1, LoopLeavesOthers DEF FinalInv
  <2>3. reports \subseteq reports' /\ \A m \in Nodes : <<m, 1>> \in reports' =>
          <<m, 1>> \in reports \/ 1 \in E
    <3>1. CASE ReportCompletion(n)
      <4>1. reports' = reports \cup {<<n, Head(work[n]).epoch>>} /\ work[n] # << >>
            /\ Head(work[n]).op = "report"
        BY <3>1 DEF ReportCompletion, Doing
      <4>2. Head(work[n]).epoch \in E
        BY <1>1, <4>1, WorkHead
      <4> QED
        BY <4>1, <4>2
    <3>2. CASE ~ReportCompletion(n)
      BY <2>1, <3>2 DEF LoopStep, SelectDone, SelectMerged, SelectControl, WaitControl, HandleData,
                        HandleStop, HandleBarrier, Send, SendFails, CancelSelf
    <3> QED
      BY <3>1, <3>2
  <2>4. \A m \in Nodes : <<m, 1>> \in reports' => epoch' = 1
    BY <1>2, <1>3, <2>3 DEF FinalInv
  <2>5. Quiet' => \A m \in Nodes : <<m, 1>> \in reports' \/ (~cancelled'[m] /\ Guarded(work'[m]))
    <3> SUFFICES ASSUME Quiet', NEW m \in Nodes, <<m, 1>> \notin reports'
                 PROVE  ~cancelled'[m] /\ Guarded(work'[m])
      BY Zenon
    <3>1. Quiet /\ \A l \in Nodes : <<l, 1>> \in reports \/ (~cancelled[l] /\ Guarded(work[l]))
      BY <1>8 DEF FinalInv
    <3>2. CASE m = n
      <4>1. StopMsg \notin S /\ E \in SUBSET {1}
        BY <1>3, <3>1
      <4>2. cancelled \in [Nodes -> BOOLEAN]
            /\ \A l \in Nodes : \A k \in 1 .. Len(ctl[l]) : ctl[l][k].type = "terminate" => TermSent
        BY DEF FinalInv
      <4> QED
        BY <1>1, <2>1, <3>1, <3>2, <4>1, <4>2, FinalGuard
    <3>3. CASE m # n
      <4>1. <<m, 1>> \notin reports
        BY <2>3
      <4> QED
        BY <2>2, <3>1, <3>3, <4>1
    <3> QED
      BY <3>2, <3>3
  <2>6. monitor' = monitor
    BY <1>9, FlowLeavesLife
  <2> QED
    BY <1>2, <1>4, <1>5, <1>6, <1>7, <2>4, <2>5, <2>6 DEF FinalInv
<1>10. CASE ~\E n \in Nodes : LoopStep(n)
  <2>1. reports' = reports /\ work' = work
    BY <1>10 DEF Next, vars, loopVars, Start, SourceStep, SourceEmit, SourceSend, SourceReturn,
         SourceDone, Merge, NodeError, CallStep,
         Reject, PauseResume, ReadState, Stop, Terminate, SendControl, SendControlFails, ReturnCall,
         MonitorStep, MonitorRead, MonitorDone
  <2>2. Quiet' => cancelled' = cancelled
    <3>1. ASSUME NEW s \in Sources, SourceDone(s)
          PROVE  ~Quiet
      BY <3>1 DEF SourceDone, Quiet
    <3> QED
      BY <1>8, <1>10, <3>1
         DEF Next, vars, loopVars, Start, SourceStep, SourceEmit, SourceSend, SourceReturn,
         Merge, NodeError, CallStep,
         Reject, PauseResume, ReadState, Stop, Terminate, SendControl, SendControlFails, ReturnCall,
         MonitorStep, MonitorRead, MonitorDone
  <2>3. monitor'.pc \in {"deciding", "done"} => \A n \in Nodes : pc'[n] = "gone"
    <3>1. CASE monitor' = monitor
      BY <1>7, <3>1 DEF FinalInv
    <3>2. CASE Start
      BY <3>2 DEF Start, LifeInv, FinalInv
    <3>3. CASE MonitorStep
      BY <1>7, <3>3 DEF MonitorStep, MonitorRead, MonitorDone, FinalInv
    <3>4. ASSUME NEW c \in Calls, CallStep(c)
          PROVE  monitor' = monitor
      BY <3>4 DEF CallStep, Reject, PauseResume, ReadState, Stop, Terminate, SendControl,
                  SendControlFails, ReturnCall
    <3> QED
      BY <1>10, <3>1, <3>2, <3>3, <3>4, FlowLeavesLife DEF Next, vars, lifeVars, NodeError
  <2>4. \A n \in Nodes : <<n, 1>> \in reports' => epoch' = 1
    BY <1>2, <2>1 DEF FinalInv
  <2>5. Quiet' => \A n \in Nodes : <<n, 1>> \in reports' \/ (~cancelled'[n] /\ Guarded(work'[n]))
    BY <1>8, <2>1, <2>2 DEF FinalInv
  <2> QED
    BY <1>2, <1>4, <1>5, <1>6, <1>7, <2>3, <2>4, <2>5 DEF FinalInv
<1> QED
  BY <1>9, <1>10

(* A graceful stop takes its checkpoint: if the pipeline ends though no     *)
(* source has returned, no node has failed and nobody has terminated it,    *)
(* then every node has reported the one epoch (pipeline.go Stop, runtime.go *)
(* handleCheckpointRequest and handleAlignedBarrier).  This is so for every *)
(* graph, whatever races with the call, if Stop is called once.             *)
THEOREM FinalCheckpointCorrect ==
  ASSUME "stop2" \notin Calls
  PROVE  Spec => []FinalCheckpointTaken
<1>1. LifeInv /\ Fresh /\ FinalInv /\ [Next]_vars => LifeInv' /\ Fresh' /\ FinalInv'
  BY LifeStep, FinalStep
<1>2. LifeInv /\ Fresh /\ FinalInv => FinalCheckpointTaken
  <2> SUFFICES ASSUME FinalInv, monitor.pc = "done", ~pipeCtx, errq = {}, ~Terminating,
                      \A s \in Sources : src[s].pc = "run"
               PROVE  \E k \in 1 .. epoch : \A n \in Nodes : <<n, k>> \in reports
    BY DEF FinalCheckpointTaken
  <2>1. Quiet
    BY DEF Quiet
  <2>2. \A n \in Nodes : cancelled[n]
    BY DEF FinalInv, Terminating, TermSent
  <2>3. \A n \in Nodes : <<n, 1>> \in reports
    BY <2>1, <2>2 DEF FinalInv
  <2>4. epoch = 1
    <3>1. \A n \in Nodes : <<n, 1>> \in reports => epoch = 1
      BY DEF FinalInv
    <3>2. Nodes # {}
      BY PipelineAssumption
    <3> QED
      BY <2>3, <3>1, <3>2
  <2> QED
    BY <2>3, <2>4
<1> QED
  BY <1>1, <1>2, LifeInit, FinalInit, PTL DEF Spec

-----------------------------------------------------------------------------
(* A pipeline whose sources end loses nothing.                              *)
(*                                                                         *)
(* On its way from the buffer b of edge e a message passes through the      *)
(* merged channel M of the node behind e, and through H if that node is     *)
(* paused.                                                                 *)

Packed(e, m) == [from |-> e, msg |-> m]

(* Message m of edge e is on its way. *)
Has(e, b, M, H, m) ==
  \/ \E k \in 1 .. Len(b) : b[k] = m
  \/ \E k \in 1 .. Len(M) : M[k] = Packed(e, m)
  \/ \E k \in 1 .. Len(H) : H[k] = Packed(e, m)

(* Nothing of edge e is. *)
NoneFrom(e, M) == \A k \in 1 .. Len(M) : M[k].from # e
Clear(e, b, M, H) == b = << >> /\ NoneFrom(e, M) /\ NoneFrom(e, H)

(* Nothing follows the stop. *)
StopLast(e, b, M, H) ==
  /\ \A k \in 1 .. Len(b) : b[k] = StopMsg => k = Len(b)
  /\ \A k \in 1 .. Len(M) : M[k] = Packed(e, StopMsg) =>
       b = << >> /\ \A j \in 1 .. Len(M) : j > k => M[j].from # e
  /\ \A k \in 1 .. Len(H) : H[k] = Packed(e, StopMsg) => b = << >> /\ NoneFrom(e, M)

HasAt(e, m) == Has(e, buf[e], merged[e[2]], held[e[2]], m)
ClearAt(e) == Clear(e, buf[e], merged[e[2]], held[e[2]])
StopLastAt(e) == StopLast(e, buf[e], merged[e[2]], held[e[2]])

(* What node n is sending, and to which outputs it has still to do so. *)
IsSending(n) == work[n] # << >> /\ work[n][1].op = "send"
Sending(n) ==
  IF n \in Sources THEN src[n].outs ELSE IF IsSending(n) THEN work[n][1].outs ELSE << >>
SentMsg(n) ==
  IF n \in Sources THEN IF src[n].pc = "run" THEN DataMsg(n, src[n].n) ELSE StopMsg
                    ELSE work[n][1].msg
Among(e, o) == \E k \in 1 .. Len(o) : o[k] = e
Unsent(e, m) == Among(e, Sending(e[1])) /\ SentMsg(e[1]) = m

(* Node n has no more data; it has put the stop on edge e. *)
Ended(n) == IF n \in Sources THEN src[n].pc \in {"stop", "done"} ELSE active[n] = 0
StopPut(e) == Ended(e[1]) /\ ~Among(e, Sending(e[1]))

(* The stop of edge e is with the handler, or handled. *)
StopTaken(e) == StopPut(e) /\ ~HasAt(e, StopMsg)
Open(n) == {e \in In(n) : ~StopTaken(e)}

(* Outputs of node n, each once. *)
OutputsLeft(n, o) ==
  /\ o \in Seq(Edges)
  /\ \A j \in 1 .. Len(o) : o[j][1] = n
  /\ \A j, k \in 1 .. Len(o) : o[j] = o[k] => j = k

(* So is what is left behind the first of them. *)
LEMMA OutputsLeftTail ==
  ASSUME NEW n, NEW o, OutputsLeft(n, o), o # << >>
  PROVE  OutputsLeft(n, Tail(o))
<1> DEFINE q == Tail(o)
<1>1. o \in Seq(Edges)
  BY DEF OutputsLeft
<1>2. /\ q \in Seq(Edges) /\ Len(q) \in Nat
      /\ \A j \in 1 .. Len(q) : j + 1 \in 1 .. Len(o) /\ q[j] = o[j + 1]
  BY <1>1
<1> HIDE DEF q
<1>3. \A j \in 1 .. Len(q) : q[j][1] = n
  BY <1>2 DEF OutputsLeft
<1>4. ASSUME NEW j \in 1 .. Len(q), NEW k \in 1 .. Len(q), q[j] = q[k]
      PROVE  j = k
  <2>1. o[j + 1] = o[k + 1] /\ j + 1 \in 1 .. Len(o) /\ k + 1 \in 1 .. Len(o)
    BY <1>2, <1>4
  <2>2. j + 1 = k + 1
    BY <2>1 DEF OutputsLeft
  <2> QED
    BY <1>2, <2>2
<1> QED
  BY <1>2, <1>3, <1>4 DEF OutputsLeft, q

(* What the loop of node n may be doing. *)
Handling(n, m) == work[n] # << >> /\ work[n][1] = Handle(m)
Shape(n) ==
  LET w == work[n]
  IN  \/ w = << >>
      \/ active[n] >= 1 /\ Len(w) = 1 /\ w[1].op = "handle"
      \/ active[n] >= 1 /\ Len(w) = 1 /\ w[1].op = "send" /\ w[1].msg.kind = "data"
                        /\ OutputsLeft(n, w[1].outs)
      \/ active[n] = 0 /\ Len(w) = 2 /\ w[1].op = "send" /\ w[1].msg = StopMsg
                       /\ OutputsLeft(n, w[1].outs) /\ w[2].op = "cancel"
      \/ active[n] = 0 /\ Len(w) = 1 /\ w[1].op = "cancel"

(* The loop and the source of a node. *)
NodeInv(n) ==
  /\ pc[n] = "gone" => cancelled[n]
  /\ pc[n] # "wait" => held[n] = << >>
  /\ pc[n] = "wait" => work[n] = << >>
  /\ \A k \in 1 .. Len(merged[n]) : merged[n][k].from \in In(n)
  /\ \A k \in 1 .. Len(held[n]) : held[n][k].from \in In(n)
  /\ n \in Sources =>
       /\ work[n] = << >>
       /\ cancelled[n] => src[n].pc = "done"
       /\ src[n].pc \in {"new", "done"} => src[n].outs = << >>
       /\ OutputsLeft(n, src[n].outs)
  /\ n \notin Sources =>
       /\ Shape(n)
       /\ active[n] \in Nat
       /\ active[n] = Cardinality(Open(n)) + IF Handling(n, StopMsg) THEN 1 ELSE 0
       /\ cancelled[n] => active[n] = 0 /\ work[n] = << >>

(* How many messages node n has produced. *)
Count(n) == IF n \in Sources THEN src[n].n ELSE Cardinality(handled[n])

(* Message m, which was produced for edge e, is somewhere. *)
Kept(e, m) == m \in handled[e[2]] \/ HasAt(e, m) \/ Unsent(e, m) \/ Handling(e[2], m)

(* The stop comes last on an edge, and what was produced is handled or      *)
(* still on its way.                                                        *)
EdgeInv(e) ==
  /\ StopLastAt(e)
  /\ HasAt(e, StopMsg) => StopPut(e)
  /\ StopTaken(e) => ClearAt(e)
  /\ e[1] \notin Fails =>
       \A k \in 1 .. Count(e[1]) : Kept(e, DataMsg(e[1], k))

(* No node has failed and none has been told to terminate. *)
MonitorPast == monitor.pc \in {"deciding", "done"}
Clean ==
  /\ ~pipeCtx /\ errq = {}
  /\ TermSent => MonitorPast /\ monitor.read \notin {"terminated", "error"}

Sound == (\A n \in Nodes : NodeInv(n)) /\ (\A e \in Edges : EdgeInv(e))

(* The inductive invariant.  The request to terminate comes from Terminate, *)
(* a node that is gone has a reason to be, and the monitor reads the state  *)
(* when all of them are; up to a failure the nodes and the edges are sound. *)
DrainInv ==
  /\ cancelled \in [Nodes -> BOOLEAN] /\ active \in [Nodes -> Int]
  /\ \A n \in Nodes : \A k \in 1 .. Len(ctl[n]) : ctl[n][k].type = "terminate" => TermSent
  /\ \A n \in Nodes : pc[n] = "gone" => cancelled[n] \/ pipeCtx \/ TermSent \/ errq # {}
  /\ MonitorPast => \A n \in Nodes : pc[n] = "gone"
  /\ TermSent /\ ~MonitorPast => state \in {"terminated", "error"}
  /\ state = "stopped" => monitor.pc = "done" /\ monitor.read \notin {"terminated", "error"}
  /\ Clean => Sound

(* A message is put on the buffer. *)
LEMMA EdgePut ==
  ASSUME NEW F, NEW e, NEW b \in Seq(F), NEW M, NEW H, NEW x \in F
  PROVE  /\ \A m : Has(e, Append(b, x), M, H, m) <=> Has(e, b, M, H, m) \/ m = x
         /\ ~Has(e, b, M, H, StopMsg) => StopLast(e, Append(b, x), M, H)
<1> DEFINE c == Append(b, x)
<1>1. Len(b) \in Nat /\ Len(c) = Len(b) + 1 /\ (\A k \in 1 .. Len(b) : c[k] = b[k])
      /\ c[Len(b) + 1] = x
  OBVIOUS
<1> HIDE DEF c
<1>2. \A k \in 1 .. Len(c) : k \in 1 .. Len(b) \/ k = Len(c)
  BY <1>1
<1>3. \A m : (\E k \in 1 .. Len(c) : c[k] = m) <=> (\E k \in 1 .. Len(b) : b[k] = m) \/ m = x
  BY <1>1, <1>2
<1>4. \A m : Has(e, c, M, H, m) <=> Has(e, b, M, H, m) \/ m = x
  BY <1>3 DEF Has
<1>5. ~Has(e, b, M, H, StopMsg) => StopLast(e, c, M, H)
  <2> SUFFICES ASSUME ~Has(e, b, M, H, StopMsg) PROVE StopLast(e, c, M, H)
    OBVIOUS
  <2>1. \A k \in 1 .. Len(c) : c[k] = StopMsg => k = Len(c)
    BY <1>1, <1>2 DEF Has
  <2> QED
    BY <2>1 DEF Has, StopLast
<1> QED
  BY <1>4, <1>5 DEF c

(* The merger of the edge moves the first message of its buffer. *)
LEMMA EdgeMerge ==
  ASSUME NEW F, NEW P, NEW e, NEW b \in Seq(F), b # << >>, NEW M \in Seq(P), NEW H, NEW p \in P,
         p = Packed(e, Head(b))
  PROVE  /\ \A m : Has(e, Tail(b), Append(M, p), H, m) <=> Has(e, b, M, H, m)
         /\ StopLast(e, b, M, H) => StopLast(e, Tail(b), Append(M, p), H)
<1> DEFINE c == Tail(b)
           N == Append(M, p)
<1>1. Len(b) \in Nat /\ Len(b) >= 1 /\ Len(c) = Len(b) - 1 /\ c \in Seq(F)
      /\ \A k \in 1 .. Len(c) : c[k] = b[k + 1] /\ k + 1 \in 1 .. Len(b)
  OBVIOUS
<1>2. Len(M) \in Nat /\ Len(N) = Len(M) + 1 /\ (\A k \in 1 .. Len(M) : N[k] = M[k])
      /\ N[Len(M) + 1] = p
  OBVIOUS
<1>3. p = Packed(e, b[1]) /\ p.from = e /\ p.msg = b[1]
  BY DEF Packed
<1> HIDE DEF c, N
<1>4. \A k \in 1 .. Len(b) : k = 1 \/ (k - 1 \in 1 .. Len(c) /\ c[k - 1] = b[k])
  BY <1>1
<1>5. \A k \in 1 .. Len(N) : k \in 1 .. Len(M) \/ k = Len(N)
  BY <1>2
<1>6. \A m : (\E k \in 1 .. Len(b) : b[k] = m) <=> (\E k \in 1 .. Len(c) : c[k] = m) \/ m = b[1]
  <2>1. ASSUME NEW m, NEW k \in 1 .. Len(b), b[k] = m
        PROVE  (\E l \in 1 .. Len(c) : c[l] = m) \/ m = b[1]
    BY <1>4, <2>1
  <2>2. ASSUME NEW m, NEW k \in 1 .. Len(c), c[k] = m
        PROVE  \E l \in 1 .. Len(b) : b[l] = m
    BY <1>1, <2>2
  <2>3. 1 \in 1 .. Len(b)
    BY <1>1
  <2> QED
    BY <2>1, <2>2, <2>3
<1>7. \A m : Packed(e, m) = p <=> m = b[1]
  BY <1>3 DEF Packed
<1>8. \A m : (\E k \in 1 .. Len(N) : N[k] = Packed(e, m)) <=>
             (\E k \in 1 .. Len(M) : M[k] = Packed(e, m)) \/ m = b[1]
  BY <1>2, <1>5, <1>7
<1>9. \A m : Has(e, c, N, H, m) <=> Has(e, b, M, H, m)
  BY <1>6, <1>8 DEF Has
<1>10. ASSUME StopLast(e, b, M, H)
       PROVE  StopLast(e, c, N, H)
  <2>1. \A k \in 1 .. Len(c) : c[k] = StopMsg => k = Len(c)
    BY <1>1, <1>10 DEF StopLast
  <2>2. \A k \in 1 .. Len(M) : M[k] # Packed(e, StopMsg)
    BY <1>10 DEF StopLast
  <2>3. p = Packed(e, StopMsg) => c = << >>
    <3> SUFFICES ASSUME p = Packed(e, StopMsg) PROVE c = << >>
      OBVIOUS
    <3>1. b[1] = StopMsg
      BY <1>7
    <3>2. Len(b) = 1
      BY <1>1, <1>10, <3>1 DEF StopLast
    <3> QED
      BY <1>1, <3>2
  <2>4. \A k \in 1 .. Len(N) : N[k] = Packed(e, StopMsg) =>
          c = << >> /\ \A j \in 1 .. Len(N) : j > k => N[j].from # e
    BY <1>2, <1>5, <2>2, <2>3
  <2>5. \A k \in 1 .. Len(H) : H[k] # Packed(e, StopMsg)
    BY <1>10 DEF StopLast
  <2> QED
    BY <2>1, <2>4, <2>5 DEF StopLast
<1> QED
  BY <1>9, <1>10 DEF c, N

(* The merger of another edge adds to the channel. *)
LEMMA EdgeOther ==
  ASSUME NEW P, NEW e, NEW b, NEW M \in Seq(P), NEW H, NEW p \in P, p.from # e
  PROVE  /\ \A m : Has(e, b, Append(M, p), H, m) <=> Has(e, b, M, H, m)
         /\ StopLast(e, b, M, H) => StopLast(e, b, Append(M, p), H)
         /\ Clear(e, b, M, H) => Clear(e, b, Append(M, p), H)
<1> DEFINE N == Append(M, p)
<1>1. Len(M) \in Nat /\ Len(N) = Len(M) + 1 /\ (\A k \in 1 .. Len(M) : N[k] = M[k])
      /\ N[Len(M) + 1] = p
  OBVIOUS
<1> HIDE DEF N
<1>2. \A k \in 1 .. Len(N) : k \in 1 .. Len(M) \/ (k = Len(N) /\ N[k] = p)
  BY <1>1
<1>3. \A m : Packed(e, m) # p
  BY DEF Packed
<1>4. \A m : (\E k \in 1 .. Len(N) : N[k] = Packed(e, m)) <=>
             (\E k \in 1 .. Len(M) : M[k] = Packed(e, m))
  BY <1>1, <1>2, <1>3
<1>5. NoneFrom(e, N) <=> NoneFrom(e, M)
  BY <1>1, <1>2 DEF NoneFrom
<1>6. StopLast(e, b, M, H) => StopLast(e, b, N, H)
  BY <1>1, <1>2, <1>3, <1>5 DEF StopLast
<1> QED
  BY <1>4, <1>5, <1>6 DEF Has, Clear, N

(* The loop takes the first message of the channel; H is where it waits. *)
LEMMA EdgeTake ==
  ASSUME NEW P, NEW e, NEW b, NEW M \in Seq(P), M # << >>
  PROVE  /\ \A m : Has(e, b, Tail(M), <<Head(M)>>, m) <=> Has(e, b, M, << >>, m)
         /\ StopLast(e, b, M, << >>) => StopLast(e, b, Tail(M), <<Head(M)>>)
         /\ Clear(e, b, M, << >>) => Clear(e, b, Tail(M), <<Head(M)>>)
<1> DEFINE N == Tail(M)
           H == <<Head(M)>>
           Z == << >>
<1>1. Len(M) \in Nat /\ Len(M) >= 1 /\ Len(N) = Len(M) - 1
      /\ (\A k \in 1 .. Len(N) : N[k] = M[k + 1] /\ k + 1 \in 1 .. Len(M))
      /\ Len(H) = 1 /\ H[1] = M[1] /\ Len(Z) = 0
  OBVIOUS
<1> HIDE DEF N, H, Z
<1>2. \A k \in 1 .. Len(M) : k = 1 \/ (k - 1 \in 1 .. Len(N) /\ N[k - 1] = M[k])
  BY <1>1
<1>3. \A m : (\E k \in 1 .. Len(M) : M[k] = Packed(e, m)) <=>
             (\E k \in 1 .. Len(N) : N[k] = Packed(e, m)) \/ M[1] = Packed(e, m)
  BY <1>1, <1>2
<1>4. \A m : (\E k \in 1 .. Len(H) : H[k] = Packed(e, m)) <=> M[1] = Packed(e, m)
  BY <1>1
<1>5. \A m : ~\E k \in 1 .. Len(Z) : Z[k] = Packed(e, m)
  BY <1>1
<1>6. \A m : Has(e, b, N, H, m) <=> Has(e, b, M, Z, m)
  BY <1>3, <1>4, <1>5 DEF Has
<1>7. NoneFrom(e, M) => NoneFrom(e, N) /\ NoneFrom(e, H)
  BY <1>1 DEF NoneFrom
<1>8. ASSUME StopLast(e, b, M, Z)
      PROVE  StopLast(e, b, N, H)
  <2>1. \A k \in 1 .. Len(N) : N[k] = Packed(e, StopMsg) =>
          b = << >> /\ \A j \in 1 .. Len(N) : j > k => N[j].from # e
    <3>1. ASSUME NEW k \in 1 .. Len(N), N[k] = Packed(e, StopMsg)
          PROVE  b = << >> /\ \A j \in 1 .. Len(N) : j > k => N[j].from # e
      <4>1. k + 1 \in 1 .. Len(M) /\ M[k + 1] = Packed(e, StopMsg)
        BY <1>1, <3>1
      <4>2. b = << >> /\ \A j \in 1 .. Len(M) : j > k + 1 => M[j].from # e
        BY <1>8, <4>1 DEF StopLast
      <4>3. ASSUME NEW j \in 1 .. Len(N), j > k
            PROVE  N[j].from # e
        <5>1. j + 1 \in 1 .. Len(M) /\ j + 1 > k + 1 /\ N[j] = M[j + 1]
          BY <1>1, <3>1, <4>3
        <5> QED
          BY <4>2, <5>1
      <4> QED
        BY <4>2, <4>3
    <3> QED
      BY <3>1
  <2>2. ASSUME M[1] = Packed(e, StopMsg)
        PROVE  b = << >> /\ NoneFrom(e, N)
    <3>1. b = << >> /\ \A j \in 1 .. Len(M) : j > 1 => M[j].from # e
      BY <1>1, <1>8, <2>2 DEF StopLast
    <3>2. \A j \in 1 .. Len(N) : N[j].from # e
      <4>1. ASSUME NEW j \in 1 .. Len(N)
            PROVE  N[j].from # e
        <5>1. j + 1 \in 1 .. Len(M) /\ j + 1 > 1 /\ N[j] = M[j + 1]
          BY <1>1
        <5> QED
          BY <3>1, <5>1
      <4> QED
        BY <4>1
    <3> QED
      BY <3>1, <3>2 DEF NoneFrom
  <2>3. \A k \in 1 .. Len(b) : b[k] = StopMsg => k = Len(b)
    BY <1>8 DEF StopLast
  <2> QED
    BY <1>1, <2>1, <2>2, <2>3 DEF StopLast
<1> QED
  BY <1>6, <1>7, <1>8 DEF Clear, N, H, Z

(* The loop hands the message that waits to its handler. *)
LEMMA EdgeDrop ==
  ASSUME NEW P, NEW e, NEW b, NEW M \in Seq(P), NEW H \in Seq(P), Len(H) = 1
  PROVE  /\ \A m : Has(e, b, M, H, m) <=> Has(e, b, M, << >>, m) \/ H[1] = Packed(e, m)
         /\ StopLast(e, b, M, H) => StopLast(e, b, M, << >>)
         /\ Clear(e, b, M, H) => Clear(e, b, M, << >>)
         /\ StopLast(e, b, M, H) /\ H[1] = Packed(e, StopMsg) =>
              Clear(e, b, M, << >>) /\ ~Has(e, b, M, << >>, StopMsg)
<1> DEFINE Z == << >>
<1>1. Len(Z) = 0
  OBVIOUS
<1> HIDE DEF Z
<1>2. \A m : (\E k \in 1 .. Len(H) : H[k] = Packed(e, m)) <=> H[1] = Packed(e, m)
  OBVIOUS
<1>3. \A m : ~\E k \in 1 .. Len(Z) : Z[k] = Packed(e, m)
  BY <1>1
<1>4. \A m : Has(e, b, M, H, m) <=> Has(e, b, M, Z, m) \/ H[1] = Packed(e, m)
  BY <1>2, <1>3 DEF Has
<1>5. NoneFrom(e, Z)
  BY <1>1 DEF NoneFrom
<1>6. StopLast(e, b, M, H) => StopLast(e, b, M, Z)
  BY <1>1 DEF StopLast
<1>7. Clear(e, b, M, H) => Clear(e, b, M, Z)
  BY <1>5 DEF Clear
<1>8. ASSUME StopLast(e, b, M, H), H[1] = Packed(e, StopMsg)
      PROVE  Clear(e, b, M, Z) /\ ~Has(e, b, M, Z, StopMsg)
  <2>1. b = << >> /\ NoneFrom(e, M)
    BY <1>8 DEF StopLast
  <2>2. \A k \in 1 .. Len(M) : M[k] # Packed(e, StopMsg)
    BY <2>1 DEF NoneFrom, Packed
  <2>3. ~\E k \in 1 .. Len(b) : b[k] = StopMsg
    BY <2>1
  <2> QED
    BY <1>3, <1>5, <2>1, <2>2, <2>3 DEF Clear, Has
<1> QED
  BY <1>4, <1>6, <1>7, <1>8 DEF Z

(* What the operators on the state say of the next one. *)
LEMMA PrimedEdge ==
  ASSUME NEW e
  PROVE  /\ \A m : HasAt(e, m)' <=> Has(e, buf'[e], merged'[e[2]], held'[e[2]], m)
         /\ ClearAt(e)' <=> Clear(e, buf'[e], merged'[e[2]], held'[e[2]])
         /\ StopLastAt(e)' <=> StopLast(e, buf'[e], merged'[e[2]], held'[e[2]])
         /\ \A m : Kept(e, m)' <=>
              m \in handled'[e[2]] \/ HasAt(e, m)' \/ Unsent(e, m)' \/ Handling(e[2], m)'
<1>1. \A m : HasAt(e, m)' <=> Has(e, buf'[e], merged'[e[2]], held'[e[2]], m)
  BY DEF HasAt, Has
<1>2. ClearAt(e)' <=> Clear(e, buf'[e], merged'[e[2]], held'[e[2]])
  BY DEF ClearAt, Clear, NoneFrom
<1>3. StopLastAt(e)' <=> StopLast(e, buf'[e], merged'[e[2]], held'[e[2]])
  BY DEF StopLastAt, StopLast, NoneFrom
<1>4. \A m : Kept(e, m)' <=>
        m \in handled'[e[2]] \/ HasAt(e, m)' \/ Unsent(e, m)' \/ Handling(e[2], m)'
  BY DEF Kept
<1> QED
  BY <1>1, <1>2, <1>3, <1>4

(* An edge whose messages stay where they are. *)
LEMMA EdgeFrame ==
  ASSUME NEW e \in Edges, EdgeInv(e),
         buf'[e] = buf[e], merged'[e[2]] = merged[e[2]], held'[e[2]] = held[e[2]],
         StopPut(e)' <=> StopPut(e),
         e[1] \notin Fails => \A k \in 1 .. Count(e[1])' :
           k \in 1 .. Count(e[1]) \/ Kept(e, DataMsg(e[1], k))',
         \A m \in DataMsgs(Nodes) : Kept(e, m) => Kept(e, m)'
  PROVE  EdgeInv(e)' /\ (StopTaken(e)' <=> StopTaken(e))
<1>1. /\ \A m : HasAt(e, m)' <=> HasAt(e, m)
      /\ ClearAt(e)' <=> ClearAt(e)
      /\ StopLastAt(e)' <=> StopLastAt(e)
  BY PrimedEdge DEF HasAt, ClearAt, StopLastAt
<1>2. StopTaken(e)' <=> StopTaken(e)
  BY <1>1 DEF StopTaken
<1>3. \A k \in 1 .. Count(e[1]) : DataMsg(e[1], k) \in DataMsgs(Nodes)
  BY EdgeEnds DEF DataMsg, DataMsgs
<1>4. e[1] \notin Fails => \A k \in 1 .. Count(e[1])' : Kept(e, DataMsg(e[1], k))'
  BY <1>3 DEF EdgeInv
<1> QED
  BY <1>1, <1>2, <1>4 DEF EdgeInv

(* A node that a step leaves alone. *)
LEMMA NodeFrame ==
  ASSUME NEW n \in Nodes, NodeInv(n), pc'[n] = pc[n], held'[n] = held[n], work'[n] = work[n],
         merged'[n] = merged[n], cancelled'[n] = cancelled[n], active'[n] = active[n],
         n \in Sources => src'[n] = src[n],
         \A e \in In(n) : StopTaken(e)' <=> StopTaken(e)
  PROVE  NodeInv(n)'
<1>1. Open(n)' = Open(n)
  BY DEF Open
<1>2. Shape(n)' <=> Shape(n)
  BY DEF Shape, OutputsLeft
<1>3. Handling(n, StopMsg)' <=> Handling(n, StopMsg)
  BY DEF Handling
<1>4. n \in Sources => (OutputsLeft(n, src[n].outs)' <=> OutputsLeft(n, src[n].outs))
  BY DEF OutputsLeft
<1>5. In(n)' = In(n)
  BY DEF In
<1> QED
  BY <1>1, <1>2, <1>3, <1>4, <1>5 DEF NodeInv

(* The elements of a list. *)
LEMMA AmongNone ==
  ASSUME NEW g
  PROVE  \A o : o = << >> => ~Among(g, o)
BY DEF Among

(* What follows the first of a list of different elements. *)
LEMMA AmongTail ==
  ASSUME NEW T, NEW o \in Seq(T), o # << >>, \A j, k \in 1 .. Len(o) : o[j] = o[k] => j = k
  PROVE  \A g : Among(g, Tail(o)) <=> g # o[1] /\ Among(g, o)
<1> DEFINE q == Tail(o)
<1>1. Len(o) \in Nat /\ Len(o) >= 1 /\ Len(q) = Len(o) - 1
      /\ \A k \in 1 .. Len(q) : q[k] = o[k + 1] /\ k + 1 \in 1 .. Len(o) /\ k + 1 # 1
  OBVIOUS
<1> HIDE DEF q
<1>2. 1 \in 1 .. Len(o)
  BY <1>1
<1>3. \A k \in 1 .. Len(q) : q[k] # o[1]
  BY <1>1, <1>2
<1>4. \A k \in 1 .. Len(o) : k = 1 \/ (k - 1 \in 1 .. Len(q) /\ q[k - 1] = o[k])
  BY <1>1
<1> SUFFICES ASSUME NEW g
             PROVE  Among(g, q) <=> g # o[1] /\ Among(g, o)
  BY DEF q
<1>5. ASSUME Among(g, q)
      PROVE  g # o[1] /\ Among(g, o)
  <2>1. PICK k \in 1 .. Len(q) : q[k] = g
    BY <1>5 DEF Among
  <2>2. k + 1 \in 1 .. Len(o) /\ o[k + 1] = g
    BY <1>1, <2>1
  <2> QED
    BY <1>3, <2>1, <2>2 DEF Among
<1>6. ASSUME Among(g, o), g # o[1]
      PROVE  Among(g, q)
  <2>1. PICK k \in 1 .. Len(o) : o[k] = g
    BY <1>6 DEF Among
  <2> QED
    BY <1>4, <1>6, <2>1 DEF Among
<1> QED
  BY <1>5, <1>6

(* Node n puts a message on one of its outputs. *)
LEMMA PutStep ==
  ASSUME NEW E, NEW S \in SUBSET {StopMsg}, Carried(E, S), NEW n \in Nodes, NEW f \in Edges,
         NEW x \in Flow(E, S), f[1] = n, x = SentMsg(n),
         Sending(n) # << >>, Sending(n)[1] = f, OutputsLeft(n, Sending(n)),
         buf' = [buf EXCEPT ![f] = Append(@, x)], UNCHANGED <<merged, held, handled>>,
         Sending(n)' = Tail(Sending(n)), Sending(n)' # << >> => SentMsg(n)' = x,
         Ended(n)' <=> Ended(n), Count(n)' = Count(n), Ended(n) <=> x = StopMsg,
         \A m \in Nodes : m # n =>
           Sending(m)' = Sending(m) /\ (Sending(m) # << >> => SentMsg(m)' = SentMsg(m))
             /\ (Ended(m)' <=> Ended(m)) /\ Count(m)' = Count(m),
         \A m \in Nodes, y \in DataMsgs(Nodes) : Handling(m, y) => Handling(m, y)',
         NEW e \in Edges, EdgeInv(e)
  PROVE  EdgeInv(e)' /\ (StopTaken(e)' <=> StopTaken(e))
<1>1. \A g : Among(g, Sending(n)') <=> g # f /\ Among(g, Sending(n))
  <2> DEFINE o == Sending(n)
  <2>1. o \in Seq(Edges) /\ o # << >> /\ o[1] = f
        /\ \A j, k \in 1 .. Len(o) : o[j] = o[k] => j = k
    BY DEF OutputsLeft
  <2>2. Sending(n)' = Tail(o)
    OBVIOUS
  <2> HIDE DEF o
  <2>3. \A g : Among(g, Tail(o)) <=> g # o[1] /\ Among(g, o)
    BY <2>1, AmongTail
  <2> QED
    BY <2>1, <2>2, <2>3 DEF o
<1>2. Among(f, Sending(n))
  <2> DEFINE o == Sending(n)
  <2>1. o \in Seq(Edges) /\ o # << >> /\ o[1] = f
    BY DEF OutputsLeft
  <2> HIDE DEF o
  <2>2. 1 \in 1 .. Len(o)
    BY <2>1
  <2>3. Among(f, o)
    BY <2>1, <2>2 DEF Among
  <2> QED
    BY <2>3 DEF o
<1>3. e[1] \in Nodes
  BY EdgeEnds
<1>6. /\ StopPut(e)' <=> Ended(e[1])' /\ ~Among(e, Sending(e[1])')
      /\ \A m : Unsent(e, m)' <=> Among(e, Sending(e[1])') /\ SentMsg(e[1])' = m
  BY DEF StopPut, Unsent, Among
<1>4. CASE e # f
  <2>1. buf'[e] = buf[e] /\ merged'[e[2]] = merged[e[2]] /\ held'[e[2]] = held[e[2]]
    BY <1>4 DEF Carried
  <2>2. StopPut(e)' <=> StopPut(e)
    BY <1>1, <1>3, <1>4, <1>6 DEF StopPut
  <2>3. \A m : Unsent(e, m) => Unsent(e, m)'
    <3> SUFFICES ASSUME NEW m, Unsent(e, m) PROVE Unsent(e, m)'
      OBVIOUS
    <3>1. CASE e[1] = n
      <4>1. Among(e, Sending(n)') /\ m = x
        BY <1>1, <1>4, <3>1 DEF Unsent
      <4>2. SentMsg(n)' = x
        BY <4>1, AmongNone
      <4> QED
        BY <1>6, <3>1, <4>1, <4>2
    <3>2. CASE e[1] # n
      <4>1. Sending(e[1]) # << >>
        BY AmongNone DEF Unsent
      <4> QED
        BY <1>3, <1>6, <3>2, <4>1 DEF Unsent
    <3> QED
      BY <3>1, <3>2
  <2>4. Count(e[1])' = Count(e[1])
    BY <1>3
  <2>5. \A m \in DataMsgs(Nodes) : Kept(e, m) => Kept(e, m)'
    <3>1. \A m : HasAt(e, m)' <=> HasAt(e, m)
      BY <2>1, PrimedEdge DEF HasAt
    <3> QED
      BY <2>3, <3>1, EdgeEnds DEF Kept
  <2> QED
    BY <2>1, <2>2, <2>4, <2>5, EdgeFrame
<1>5. CASE e = f
  <2> DEFINE b == buf[e]
             M == merged[e[2]]
             H == held[e[2]]
  <2>1. b \in Seq(Flow(E, S)) /\ buf'[e] = Append(b, x) /\ merged'[e[2]] = M /\ held'[e[2]] = H
    BY <1>5 DEF Carried
  <2>2. ~StopPut(e)
    BY <1>2, <1>5 DEF StopPut
  <2>3. ~HasAt(e, StopMsg)
    BY <2>2 DEF EdgeInv
  <2>4. StopPut(e)' <=> Ended(n)
    BY <1>1, <1>5, <1>6
  <2> HIDE DEF b, M, H
  <2>5. /\ \A m : Has(e, Append(b, x), M, H, m) <=> Has(e, b, M, H, m) \/ m = x
        /\ ~Has(e, b, M, H, StopMsg) => StopLast(e, Append(b, x), M, H)
    BY <2>1, EdgePut
  <2>6. /\ \A m : HasAt(e, m)' <=> HasAt(e, m) \/ m = x
        /\ StopLastAt(e)'
    BY <2>1, <2>3, <2>5, PrimedEdge DEF HasAt, b, M, H
  <2>7. HasAt(e, StopMsg)' <=> x = StopMsg
    BY <2>3, <2>6
  <2>8. ~StopTaken(e)' /\ ~StopTaken(e)
    BY <2>2, <2>4, <2>7 DEF StopTaken
  <2>9. \A m \in DataMsgs(Nodes) : Kept(e, m) => Kept(e, m)'
    <3>1. \A m : Unsent(e, m) => m = x
      BY <1>5 DEF Unsent
    <3> QED
      BY <2>6, <3>1, EdgeEnds DEF Kept
  <2>10. e[1] \notin Fails => \A k \in 1 .. Count(e[1])' : Kept(e, DataMsg(e[1], k))'
    <3>1. \A k \in 1 .. Count(e[1]) : DataMsg(e[1], k) \in DataMsgs(Nodes)
      BY <1>3 DEF DataMsg, DataMsgs
    <3> QED
      BY <1>5, <2>9, <3>1 DEF EdgeInv
  <2> QED
    BY <2>4, <2>6, <2>7, <2>8, <2>10 DEF EdgeInv
<1> QED
  BY <1>4, <1>5

(* A step that leaves node m alone. *)
Untouched(m) ==
  /\ pc'[m] = pc[m] /\ held'[m] = held[m] /\ work'[m] = work[m] /\ merged'[m] = merged[m]
  /\ cancelled'[m] = cancelled[m] /\ active'[m] = active[m] /\ handled'[m] = handled[m]
  /\ m \in Sources => src'[m] = src[m]

(* It sends, and handles, what it did. *)
LEMMA SameView ==
  ASSUME NEW m \in Nodes, work'[m] = work[m], active'[m] = active[m], handled'[m] = handled[m],
         m \in Sources => src'[m] = src[m]
  PROVE  /\ Sending(m)' = Sending(m) /\ SentMsg(m)' = SentMsg(m)
         /\ Ended(m)' <=> Ended(m)
         /\ Count(m)' = Count(m)
         /\ \A y : Handling(m, y)' <=> Handling(m, y)
<1>1. CASE m \in Sources
  BY <1>1 DEF Sending, SentMsg, Ended, Count, Handling
<1>2. CASE m \notin Sources
  BY <1>2 DEF Sending, SentMsg, Ended, Count, Handling, IsSending
<1> QED
  BY <1>1, <1>2

(* A step of node n that moves no message. *)
LEMMA QuietStep ==
  ASSUME Sound, UNCHANGED <<buf, merged, held>>, NEW n \in Nodes,
         \A m \in Nodes : m # n => Untouched(m),
         handled[n] \subseteq handled'[n],
         \A e \in Edges : e[1] = n =>
           /\ StopPut(e)' <=> StopPut(e)
           /\ \A y \in DataMsgs(Nodes) : Unsent(e, y) => Unsent(e, y)'
           /\ n \notin Fails => \A k \in 1 .. Count(n)' :
                k \in 1 .. Count(n) \/ Unsent(e, DataMsg(n, k))',
         \A y \in DataMsgs(Nodes) : Handling(n, y) => Handling(n, y)' \/ y \in handled'[n]
  PROVE  /\ \A e \in Edges : EdgeInv(e)' /\ (StopTaken(e)' <=> StopTaken(e))
         /\ \A m \in Nodes : m # n => NodeInv(m)'
         /\ Open(n)' = Open(n)
<1>1. ASSUME NEW e \in Edges
      PROVE  EdgeInv(e)' /\ (StopTaken(e)' <=> StopTaken(e))
  <2>1. EdgeInv(e) /\ e[1] \in Nodes /\ e[2] \in Nodes
    BY EdgeEnds DEF Sound
  <2>2. /\ e[1] # n => /\ StopPut(e)' <=> StopPut(e)
                       /\ \A y : Unsent(e, y)' <=> Unsent(e, y)
                       /\ Count(e[1])' = Count(e[1])
    <3> SUFFICES ASSUME e[1] # n
                 PROVE  /\ StopPut(e)' <=> StopPut(e)
                        /\ \A y : Unsent(e, y)' <=> Unsent(e, y)
                        /\ Count(e[1])' = Count(e[1])
      OBVIOUS
    <3>1. /\ Sending(e[1])' = Sending(e[1]) /\ SentMsg(e[1])' = SentMsg(e[1])
          /\ Ended(e[1])' <=> Ended(e[1])
          /\ Count(e[1])' = Count(e[1])
      BY <2>1, SameView DEF Untouched
    <3> QED
      BY <3>1 DEF StopPut, Unsent, Among
  <2>3. StopPut(e)' <=> StopPut(e)
    BY <2>2
  <2>4. \A y \in DataMsgs(Nodes) : Unsent(e, y) => Unsent(e, y)'
    BY <2>2
  <2>5. /\ \A y \in DataMsgs(Nodes) : Handling(e[2], y) => Handling(e[2], y)' \/ y \in handled'[e[2]]
        /\ handled[e[2]] \subseteq handled'[e[2]]
    <3>1. CASE e[2] = n
      BY <3>1
    <3>2. CASE e[2] # n
      BY <2>1, <3>2, SameView DEF Untouched
    <3> QED
      BY <3>1, <3>2
  <2>6. buf'[e] = buf[e] /\ merged'[e[2]] = merged[e[2]] /\ held'[e[2]] = held[e[2]]
    OBVIOUS
  <2>7. \A y : HasAt(e, y)' <=> HasAt(e, y)
    BY <2>6, PrimedEdge DEF HasAt
  <2>8. \A y \in DataMsgs(Nodes) : Kept(e, y) => Kept(e, y)'
    BY <2>4, <2>5, <2>7 DEF Kept
  <2>9. e[1] \notin Fails => \A k \in 1 .. Count(e[1])' :
          k \in 1 .. Count(e[1]) \/ Kept(e, DataMsg(e[1], k))'
    <3>1. CASE e[1] = n
      BY <3>1 DEF Kept
    <3>2. CASE e[1] # n
      BY <2>2, <3>2
    <3> QED
      BY <3>1, <3>2
  <2> QED
    BY <2>1, <2>3, <2>6, <2>8, <2>9, EdgeFrame
<1>2. ASSUME NEW m \in Nodes, m # n
      PROVE  NodeInv(m)'
  <2>1. \A e \in In(m) : StopTaken(e)' <=> StopTaken(e)
    BY <1>1 DEF In
  <2> QED
    BY <1>2, <2>1, NodeFrame DEF Sound, Untouched
<1>3. Open(n)' = Open(n)
  BY <1>1 DEF Open, In
<1> QED
  BY <1>1, <1>2, <1>3

(* The outputs of a node, to begin with. *)
LEMMA AllLeft ==
  ASSUME NEW n \in Nodes
  PROVE  /\ OutputsLeft(n, Out(n))
         /\ \A e \in Edges : e[1] = n => Among(e, Out(n))
<1>1. Out(n) \in Seq(Edges) /\ \A k \in 1 .. Len(Out(n)) : Out(n)[k][1] = n
  BY OutEdges
<1>2. \A j, k \in 1 .. Len(Out(n)) : Out(n)[j] = Out(n)[k] => j = k
  BY PipelineAssumption
<1> QED
  BY <1>1, <1>2, EdgeEnds DEF OutputsLeft, Among

(* What a step of a source changes. *)
LEMMA SourceFrame ==
  ASSUME NEW s \in Sources, NEW r, src' = [src EXCEPT ![s] = r], DOMAIN src = Sources,
         UNCHANGED <<pc, work, held, merged, active, handled>>,
         \A m \in Nodes : m # s => cancelled'[m] = cancelled[m]
  PROVE  src'[s] = r /\ \A m \in Nodes : m # s => Untouched(m)
BY DEF Untouched

(* The view of a source, now and next. *)
LEMMA SourceView ==
  ASSUME NEW s \in Sources
  PROVE  /\ Sending(s) = src[s].outs /\ Sending(s)' = src'[s].outs
         /\ SentMsg(s) = IF src[s].pc = "run" THEN DataMsg(s, src[s].n) ELSE StopMsg
         /\ SentMsg(s)' = IF src'[s].pc = "run" THEN DataMsg(s, src'[s].n) ELSE StopMsg
         /\ Ended(s) <=> src[s].pc \in {"stop", "done"}
         /\ Ended(s)' <=> src'[s].pc \in {"stop", "done"}
         /\ Count(s) = src[s].n /\ Count(s)' = src'[s].n
         /\ \A e \in Edges : e[1] = s =>
              /\ StopPut(e) <=> Ended(s) /\ ~Among(e, src[s].outs)
              /\ StopPut(e)' <=> Ended(s)' /\ ~Among(e, src'[s].outs)
              /\ \A y : Unsent(e, y) <=> Among(e, src[s].outs) /\ SentMsg(s) = y
              /\ \A y : Unsent(e, y)' <=> Among(e, src'[s].outs) /\ SentMsg(s)' = y
<1>1. /\ Sending(s) = src[s].outs /\ Sending(s)' = src'[s].outs
      /\ SentMsg(s) = IF src[s].pc = "run" THEN DataMsg(s, src[s].n) ELSE StopMsg
      /\ SentMsg(s)' = IF src'[s].pc = "run" THEN DataMsg(s, src'[s].n) ELSE StopMsg
      /\ Ended(s) <=> src[s].pc \in {"stop", "done"}
      /\ Ended(s)' <=> src'[s].pc \in {"stop", "done"}
      /\ Count(s) = src[s].n /\ Count(s)' = src'[s].n
  BY DEF Sending, SentMsg, Ended, Count
<1>2. ASSUME NEW e \in Edges, e[1] = s
      PROVE  /\ StopPut(e) <=> Ended(s) /\ ~Among(e, src[s].outs)
             /\ StopPut(e)' <=> Ended(s)' /\ ~Among(e, src'[s].outs)
             /\ \A y : Unsent(e, y) <=> Among(e, src[s].outs) /\ SentMsg(s) = y
             /\ \A y : Unsent(e, y)' <=> Among(e, src'[s].outs) /\ SentMsg(s)' = y
  <2>1. /\ StopPut(e)' <=> Ended(e[1])' /\ ~Among(e, Sending(e[1])')
        /\ \A m : Unsent(e, m)' <=> Among(e, Sending(e[1])') /\ SentMsg(e[1])' = m
    BY DEF StopPut, Unsent, Among
  <2> QED
    BY <1>1, <1>2, <2>1 DEF StopPut, Unsent
<1> QED
  BY <1>1, <1>2

(* Nothing comes into a source. *)
LEMMA NoInput ==
  ASSUME NEW s \in Sources
  PROVE  In(s) = {}
BY EdgeEnds DEF In

(* The source goroutine keeps the invariant. *)
LEMMA DrainSource ==
  ASSUME NEW E, NEW S \in SUBSET {StopMsg}, Carried(E, S), Sound, ~pipeCtx,
         NEW s \in Sources, SourceStep(s)
  PROVE  Sound'
<1>0. /\ s \in Nodes /\ DOMAIN src = Sources /\ NodeInv(s)
      /\ src[s] \in [pc : {"new", "run", "stop", "done"}, n : Nat, outs : Seq(Edges)]
      /\ work[s] = << >> /\ (cancelled[s] => src[s].pc = "done")
      /\ OutputsLeft(s, src[s].outs) /\ In(s)' = In(s)
  BY PipelineAssumption DEF Carried, Sound, NodeInv, In
<1>1. CASE SourceEmit(s)
  <2> DEFINE r == [src[s] EXCEPT !.n = @ + 1, !.outs = Out(s)]
  <2>1. src' = [src EXCEPT ![s] = r]
    BY <1>0, <1>1 DEF SourceEmit
  <2>2. r.pc = "run" /\ r.n = src[s].n + 1 /\ r.outs = Out(s) /\ src[s].pc = "run" /\ src[s].outs = << >>
    BY <1>0, <1>1 DEF SourceEmit
  <2>3. UNCHANGED <<buf, merged, held, pc, work, active, handled, cancelled>>
    BY <1>1 DEF SourceEmit, flowVars, loopVars
  <2> HIDE DEF r
  <2>4. src'[s] = r /\ \A m \in Nodes : m # s => Untouched(m)
    BY <1>0, <2>1, <2>3, SourceFrame
  <2>5. ASSUME NEW e \in Edges, e[1] = s
        PROVE  /\ StopPut(e)' <=> StopPut(e)
               /\ \A y \in DataMsgs(Nodes) : Unsent(e, y) => Unsent(e, y)'
               /\ \A k \in 1 .. Count(s)' : k \in 1 .. Count(s) \/ Unsent(e, DataMsg(s, k))'
    <3>1. Among(e, Out(s)) /\ ~Among(e, src[s].outs)
      BY <1>0, <2>2, <2>5, AllLeft, AmongNone
    <3>2. ~StopPut(e)' /\ ~StopPut(e) /\ \A y : ~Unsent(e, y) /\ (Unsent(e, y)' <=> y = DataMsg(s, src[s].n + 1))
      BY <2>2, <2>4, <2>5, <3>1, SourceView
    <3>3. Count(s)' = Count(s) + 1 /\ Count(s) \in Nat /\ Count(s) = src[s].n
      BY <1>0, <2>2, <2>4, SourceView
    <3> QED
      BY <3>2, <3>3
  <2>6. \A y : Handling(s, y)' <=> Handling(s, y)
    BY <2>3 DEF Handling
  <2>7. /\ \A e \in Edges : EdgeInv(e)'
        /\ \A m \in Nodes : m # s => NodeInv(m)'
    BY <1>0, <2>3, <2>4, <2>5, <2>6, QuietStep
  <2>8. NodeInv(s)'
    <3>1. OutputsLeft(s, Out(s))
      BY <1>0, AllLeft
    <3> QED
      BY <1>0, <2>2, <2>3, <2>4, <3>1 DEF NodeInv, OutputsLeft
  <2> QED
    BY <2>7, <2>8 DEF Sound
<1>2. CASE SourceSend(s)
  <2> DEFINE r == [src[s] EXCEPT !.outs = Tail(@)]
             f == Head(src[s].outs)
             x == IF src[s].pc = "run" THEN DataMsg(s, src[s].n) ELSE StopMsg
  <2>1. src' = [src EXCEPT ![s] = r] /\ buf' = [buf EXCEPT ![f] = Append(@, x)]
    BY <1>0, <1>2 DEF SourceSend
  <2>2. r.pc = src[s].pc /\ r.n = src[s].n /\ r.outs = Tail(src[s].outs)
        /\ src[s].pc \in {"run", "stop"} /\ src[s].outs # << >>
    BY <1>0, <1>2 DEF SourceSend
  <2>3. UNCHANGED <<merged, held, pc, work, active, handled, cancelled>>
    BY <1>2 DEF SourceSend, loopVars
  <2>4. x \in Flow(E, S) /\ x = SentMsg(s)
    BY <1>0, <2>2, SourceView DEF Carried, Flow, Unmarked, DataMsg, DataMsgs
  <2>5. f \in Edges /\ f[1] = s /\ Sending(s) # << >> /\ Sending(s)[1] = f
        /\ OutputsLeft(s, Sending(s))
    BY <1>0, <2>2, SourceView DEF OutputsLeft
  <2> HIDE DEF r
  <2>6. src'[s] = r /\ \A m \in Nodes : m # s => Untouched(m)
    BY <1>0, <2>1, <2>3, SourceFrame
  <2>7. Ended(s) <=> x = StopMsg
    BY <2>2, SourceView DEF DataMsg, StopMsg
  <2>8. SentMsg(s)' = x /\ Sending(s)' = Tail(Sending(s)) /\ (Ended(s)' <=> Ended(s))
        /\ Count(s)' = Count(s)
    BY <2>2, <2>6, SourceView
  <2> HIDE DEF x, f
  <2>9. \A m \in Nodes : m # s =>
           Sending(m)' = Sending(m) /\ (Sending(m) # << >> => SentMsg(m)' = SentMsg(m))
             /\ (Ended(m)' <=> Ended(m)) /\ Count(m)' = Count(m)
    BY <2>6, SameView DEF Untouched
  <2>10. \A m \in Nodes, y \in DataMsgs(Nodes) : Handling(m, y) => Handling(m, y)'
    BY <2>3 DEF Handling
  <2>11. \A e \in Edges : EdgeInv(e)' /\ (StopTaken(e)' <=> StopTaken(e))
    BY <1>0, <2>1, <2>3, <2>4, <2>5, <2>7, <2>8, <2>9, <2>10, PutStep DEF Sound
  <2>12. \A m \in Nodes : m # s => NodeInv(m)'
    BY <2>6, <2>11, NodeFrame DEF Sound, Untouched, In
  <2>13. NodeInv(s)'
    <3> DEFINE o == src[s].outs
    <3>1. OutputsLeft(s, Tail(o))
      <4>1. o \in Seq(Edges) /\ o # << >> /\ OutputsLeft(s, o)
        BY <1>0, <2>2
      <4> HIDE DEF o
      <4> QED
        BY <4>1 DEF OutputsLeft
    <3>2. src'[s].outs = Tail(o) /\ src'[s].pc = src[s].pc
      BY <2>2, <2>6
    <3> HIDE DEF o
    <3>3. OutputsLeft(s, src[s].outs)'
      BY <3>1, <3>2 DEF OutputsLeft
    <3> QED
      BY <1>0, <2>2, <2>3, <3>2, <3>3 DEF NodeInv
  <2> QED
    BY <2>11, <2>12, <2>13 DEF Sound
<1>3. CASE SourceReturn(s)
  <2> DEFINE r == [src[s] EXCEPT !.pc = "stop", !.outs = Out(s)]
  <2>1. src' = [src EXCEPT ![s] = r]
    BY <1>0, <1>3 DEF SourceReturn
  <2>2. r.pc = "stop" /\ r.n = src[s].n /\ r.outs = Out(s) /\ src[s].pc = "run" /\ src[s].outs = << >>
    BY <1>0, <1>3 DEF SourceReturn
  <2>3. UNCHANGED <<buf, merged, held, pc, work, active, handled, cancelled>>
    BY <1>3 DEF SourceReturn, flowVars, loopVars
  <2> HIDE DEF r
  <2>4. src'[s] = r /\ \A m \in Nodes : m # s => Untouched(m)
    BY <1>0, <2>1, <2>3, SourceFrame
  <2>5. ASSUME NEW e \in Edges, e[1] = s
        PROVE  /\ StopPut(e)' <=> StopPut(e)
               /\ \A y \in DataMsgs(Nodes) : Unsent(e, y) => Unsent(e, y)'
               /\ \A k \in 1 .. Count(s)' : k \in 1 .. Count(s) \/ Unsent(e, DataMsg(s, k))'
    <3>1. Among(e, Out(s)) /\ ~Among(e, src[s].outs)
      BY <1>0, <2>2, <2>5, AllLeft, AmongNone
    <3> QED
      BY <2>2, <2>4, <2>5, <3>1, SourceView
  <2>6. \A y : Handling(s, y)' <=> Handling(s, y)
    BY <2>3 DEF Handling
  <2>7. /\ \A e \in Edges : EdgeInv(e)'
        /\ \A m \in Nodes : m # s => NodeInv(m)'
    BY <1>0, <2>3, <2>4, <2>5, <2>6, QuietStep
  <2>8. NodeInv(s)'
    <3>1. OutputsLeft(s, Out(s))
      BY <1>0, AllLeft
    <3> QED
      BY <1>0, <2>2, <2>3, <2>4, <3>1 DEF NodeInv, OutputsLeft
  <2> QED
    BY <2>7, <2>8 DEF Sound
<1>4. CASE SourceDone(s)
  <2> DEFINE r == [src[s] EXCEPT !.pc = "done"]
  <2>1. src' = [src EXCEPT ![s] = r]
    BY <1>0, <1>4 DEF SourceDone
  <2>2. r.pc = "done" /\ r.n = src[s].n /\ r.outs = src[s].outs /\ src[s].pc = "stop" /\ src[s].outs = << >>
    BY <1>0, <1>4 DEF SourceDone
  <2>3. UNCHANGED <<buf, merged, held, pc, work, active, handled>>
        /\ \A m \in Nodes : m # s => cancelled'[m] = cancelled[m]
    BY <1>4 DEF SourceDone, flowVars
  <2> HIDE DEF r
  <2>4. src'[s] = r /\ \A m \in Nodes : m # s => Untouched(m)
    BY <1>0, <2>1, <2>3, SourceFrame
  <2>5. ASSUME NEW e \in Edges, e[1] = s
        PROVE  /\ StopPut(e)' <=> StopPut(e)
               /\ \A y \in DataMsgs(Nodes) : Unsent(e, y) => Unsent(e, y)'
               /\ \A k \in 1 .. Count(s)' : k \in 1 .. Count(s) \/ Unsent(e, DataMsg(s, k))'
    BY <2>2, <2>4, <2>5, SourceView
  <2>6. \A y : Handling(s, y)' <=> Handling(s, y)
    BY <2>3 DEF Handling
  <2>7. /\ \A e \in Edges : EdgeInv(e)'
        /\ \A m \in Nodes : m # s => NodeInv(m)'
    BY <1>0, <2>3, <2>4, <2>5, <2>6, QuietStep
  <2>8. NodeInv(s)'
    <3>1. OutputsLeft(s, src[s].outs)'
      BY <1>0, <2>2, <2>4 DEF OutputsLeft
    <3>2. pc[s] = "gone" => cancelled'[s]
      BY <1>0, <1>4 DEF NodeInv, SourceDone
    <3> QED
      BY <1>0, <2>2, <2>3, <2>4, <3>1, <3>2 DEF NodeInv
  <2> QED
    BY <2>7, <2>8 DEF Sound
<1> QED
  BY <1>1, <1>2, <1>3, <1>4 DEF SourceStep

(* A step that changes none of what the invariant looks at. *)
LEMMA Unmoved ==
  ASSUME Sound, UNCHANGED <<buf, merged, held, pc, work, cancelled, active, handled, src>>
  PROVE  Sound'
<1>1. \A m \in Nodes : Untouched(m)
  BY DEF Untouched
<1>2. PICK n \in Nodes : TRUE
  BY PipelineAssumption
<1>3. \A m \in Nodes : /\ Sending(m)' = Sending(m) /\ SentMsg(m)' = SentMsg(m)
                       /\ Ended(m)' <=> Ended(m)
                       /\ Count(m)' = Count(m)
                       /\ \A y : Handling(m, y)' <=> Handling(m, y)
  BY SameView
<1>4. ASSUME NEW e \in Edges
      PROVE  (StopPut(e)' <=> StopPut(e)) /\ \A y : Unsent(e, y)' <=> Unsent(e, y)
  <2>1. e[1] \in Nodes
    BY EdgeEnds
  <2> QED
    BY <1>3, <2>1 DEF StopPut, Unsent, Among
<1>5. /\ \A e \in Edges : EdgeInv(e)' /\ (StopTaken(e)' <=> StopTaken(e))
      /\ \A m \in Nodes : m # n => NodeInv(m)'
  BY <1>1, <1>3, <1>4, QuietStep
<1>6. NodeInv(n)'
  BY <1>1, <1>5, NodeFrame DEF Untouched, In, Sound
<1> QED
  BY <1>5, <1>6 DEF Sound

(* An edge whose messages move without a change. *)
LEMMA EdgeKeeps ==
  ASSUME NEW e \in Edges, EdgeInv(e), \A m : HasAt(e, m)' <=> HasAt(e, m), StopLastAt(e)',
         ClearAt(e) => ClearAt(e)', StopPut(e)' <=> StopPut(e),
         \A m \in DataMsgs(Nodes) : Unsent(e, m) => Unsent(e, m)', Count(e[1])' = Count(e[1]),
         handled[e[2]] \subseteq handled'[e[2]],
         \A m \in DataMsgs(Nodes) : Handling(e[2], m) => Handling(e[2], m)'
  PROVE  EdgeInv(e)' /\ (StopTaken(e)' <=> StopTaken(e))
<1>1. StopTaken(e)' <=> StopTaken(e)
  BY DEF StopTaken
<1>2. \A m \in DataMsgs(Nodes) : Kept(e, m) => Kept(e, m)'
  BY DEF Kept
<1>3. \A k \in 1 .. Count(e[1]) : DataMsg(e[1], k) \in DataMsgs(Nodes)
  BY EdgeEnds DEF DataMsg, DataMsgs
<1> QED
  BY <1>1, <1>2, <1>3 DEF EdgeInv

(* All the nodes do what they did. *)
LEMMA SameViews ==
  ASSUME UNCHANGED <<work, active, handled, src>>
  PROVE  \A e \in Edges : /\ StopPut(e)' <=> StopPut(e)
                          /\ \A y : Unsent(e, y)' <=> Unsent(e, y)
                          /\ Count(e[1])' = Count(e[1])
                          /\ \A y : Handling(e[2], y)' <=> Handling(e[2], y)
<1> SUFFICES ASSUME NEW e \in Edges
             PROVE  /\ StopPut(e)' <=> StopPut(e)
                    /\ \A y : Unsent(e, y)' <=> Unsent(e, y)
                    /\ Count(e[1])' = Count(e[1])
                    /\ \A y : Handling(e[2], y)' <=> Handling(e[2], y)
  OBVIOUS
<1>1. e[1] \in Nodes /\ e[2] \in Nodes
  BY EdgeEnds
<1>2. /\ Sending(e[1])' = Sending(e[1]) /\ SentMsg(e[1])' = SentMsg(e[1])
      /\ Ended(e[1])' <=> Ended(e[1])
      /\ Count(e[1])' = Count(e[1])
      /\ \A y : Handling(e[2], y)' <=> Handling(e[2], y)
  BY <1>1, SameView
<1> QED
  BY <1>2 DEF StopPut, Unsent, Among

(* The merger of an edge keeps the invariant. *)
LEMMA DrainMerge ==
  ASSUME NEW E, NEW S, Carried(E, S), Sound, NEW f \in Edges, Merge(f)
  PROVE  Sound'
<1> DEFINE n == f[2]
           p == Packed(f, Head(buf[f]))
<1>1. /\ buf[f] \in Seq(Flow(E, S)) /\ buf[f] # << >>
      /\ merged[n] \in Seq(Packet(E, S)) /\ n \in Nodes
      /\ buf \in [Edges -> Seq(Flow(E, S))] /\ merged \in [Nodes -> Seq(Packet(E, S))]
  BY EdgeEnds DEF Carried, Merge
<1>2. /\ buf' = [buf EXCEPT ![f] = Tail(@)] /\ merged' = [merged EXCEPT ![n] = Append(@, p)]
      /\ UNCHANGED <<held, pc, work, cancelled, active, handled, src>>
  BY DEF Merge, Packed, loopVars
<1>3. p \in Packet(E, S) /\ p.from = f
  BY <1>1 DEF Packed, Packet
<1> HIDE DEF p
<1>4. /\ buf'[f] = Tail(buf[f]) /\ merged'[n] = Append(merged[n], p)
      /\ \A e \in Edges : e # f => buf'[e] = buf[e]
      /\ \A m \in Nodes : m # n => merged'[m] = merged[m]
  BY <1>1, <1>2
<1>5. ASSUME NEW e \in Edges
      PROVE  EdgeInv(e)' /\ (StopTaken(e)' <=> StopTaken(e))
  <2> DEFINE b == buf[e]
             M == merged[e[2]]
             H == held[e[2]]
  <2>1. EdgeInv(e) /\ e[2] \in Nodes
    BY EdgeEnds DEF Sound
  <2>2. StopLast(e, b, M, H)
    BY <2>1 DEF EdgeInv, StopLastAt
  <2>3. /\ \A m : HasAt(e, m)' <=> Has(e, b, M, H, m)
        /\ StopLastAt(e)' /\ (Clear(e, b, M, H) => ClearAt(e)')
    <3>1. CASE e = f
      <4>1. buf'[e] = Tail(b) /\ merged'[e[2]] = Append(M, p) /\ held'[e[2]] = H
        BY <1>2, <1>4, <3>1
      <4>2. b \in Seq(Flow(E, S)) /\ b # << >> /\ M \in Seq(Packet(E, S)) /\ p = Packed(e, Head(b))
        BY <1>1, <3>1 DEF p
      <4>3. ~Clear(e, b, M, H)
        BY <4>2 DEF Clear
      <4> HIDE DEF b, M, H
      <4>4. /\ \A m : Has(e, Tail(b), Append(M, p), H, m) <=> Has(e, b, M, H, m)
            /\ StopLast(e, b, M, H) => StopLast(e, Tail(b), Append(M, p), H)
        BY <1>3, <4>2, EdgeMerge
      <4> QED
        BY <2>2, <4>1, <4>3, <4>4, PrimedEdge
    <3>2. CASE e # f /\ e[2] = n
      <4>1. buf'[e] = b /\ merged'[e[2]] = Append(M, p) /\ held'[e[2]] = H
        BY <1>2, <1>4, <3>2
      <4>2. M \in Seq(Packet(E, S)) /\ p.from # e
        BY <1>1, <1>3, <3>2
      <4> HIDE DEF b, M, H
      <4>3. /\ \A m : Has(e, b, Append(M, p), H, m) <=> Has(e, b, M, H, m)
            /\ StopLast(e, b, M, H) => StopLast(e, b, Append(M, p), H)
            /\ Clear(e, b, M, H) => Clear(e, b, Append(M, p), H)
        BY <1>3, <4>2, EdgeOther
      <4> QED
        BY <2>2, <4>1, <4>3, PrimedEdge
    <3>3. CASE e[2] # n
      <4>1. buf'[e] = b /\ merged'[e[2]] = M /\ held'[e[2]] = H
        BY <1>2, <1>4, <2>1, <3>3
      <4> HIDE DEF b, M, H
      <4> QED
        BY <2>2, <4>1, PrimedEdge
    <3> QED
      BY <3>1, <3>2, <3>3
  <2>4. (\A m : HasAt(e, m)' <=> HasAt(e, m)) /\ (ClearAt(e) => ClearAt(e)')
    BY <2>3 DEF HasAt, ClearAt
  <2>5. /\ StopPut(e)' <=> StopPut(e)
        /\ \A y : Unsent(e, y)' <=> Unsent(e, y)
        /\ Count(e[1])' = Count(e[1])
        /\ \A y : Handling(e[2], y)' <=> Handling(e[2], y)
    BY <1>2, SameViews
  <2>6. handled[e[2]] \subseteq handled'[e[2]]
    BY <1>2
  <2> QED
    BY <2>1, <2>3, <2>4, <2>5, <2>6, EdgeKeeps
<1>6. ASSUME NEW m \in Nodes, m # n
      PROVE  NodeInv(m)'
  BY <1>2, <1>4, <1>5, <1>6, NodeFrame DEF Sound, In
<1>7. NodeInv(n)'
  <2> DEFINE M == merged[n]
  <2>1. NodeInv(n) /\ In(n)' = In(n) /\ f \in In(n)
    BY <1>1 DEF Sound, In
  <2>2. Open(n)' = Open(n)
    BY <1>5 DEF Open, In
  <2>3. M \in Seq(Packet(E, S)) /\ \A k \in 1 .. Len(M) : M[k].from \in In(n)
    BY <1>1, <2>1 DEF NodeInv
  <2>4. merged'[n] = Append(M, p)
    BY <1>4
  <2> HIDE DEF M
  <2>5. \A k \in 1 .. Len(merged'[n]) : merged'[n][k].from \in In(n)
    BY <1>3, <2>1, <2>3, <2>4
  <2>6. Shape(n)' <=> Shape(n)
    BY <1>2 DEF Shape, OutputsLeft
  <2>7. Handling(n, StopMsg)' <=> Handling(n, StopMsg)
    BY <1>2 DEF Handling
  <2>8. n \notin Sources
    BY EdgeEnds
  <2> HIDE DEF n
  <2> QED
    BY <1>2, <2>1, <2>2, <2>5, <2>6, <2>7, <2>8 DEF NodeInv
<1> QED
  BY <1>5, <1>6, <1>7 DEF Sound

(* Start keeps the invariant. *)
LEMMA DrainStart ==
  ASSUME NEW E, NEW S, Carried(E, S), Sound, Fresh, Start
  PROVE  Sound'
<1>1. /\ \A n \in Nodes : pc[n] = "new" /\ pc'[n] = "loop"
      /\ \A s \in Sources : /\ src[s].pc = "new" /\ src'[s].pc = "run" /\ src'[s].n = src[s].n
                            /\ src'[s].outs = src[s].outs
      /\ UNCHANGED <<buf, merged, held, work, cancelled, active, handled>>
  BY DEF Start, Fresh, flowVars, Carried
<1>2. \A s \in Sources : src[s].outs = << >>
  BY <1>1, PipelineAssumption DEF Sound, NodeInv
<1>3. ASSUME NEW m \in Nodes
      PROVE  /\ Sending(m)' = Sending(m) /\ (Sending(m) # << >> => SentMsg(m)' = SentMsg(m))
             /\ Ended(m)' <=> Ended(m)
             /\ Count(m)' = Count(m)
             /\ \A y : Handling(m, y)' <=> Handling(m, y)
  <2>1. CASE m \in Sources
    BY <1>1, <1>2, <2>1 DEF Sending, Ended, Count, Handling
  <2>2. CASE m \notin Sources
    BY <1>1, <2>2, SameView
  <2> QED
    BY <2>1, <2>2
<1>4. ASSUME NEW e \in Edges
      PROVE  EdgeInv(e)' /\ (StopTaken(e)' <=> StopTaken(e))
  <2>1. e[1] \in Nodes /\ e[2] \in Nodes /\ EdgeInv(e)
    BY EdgeEnds DEF Sound
  <2>2. StopPut(e)' <=> StopPut(e)
    BY <1>3, <2>1 DEF StopPut, Among
  <2>3. \A y : Unsent(e, y) => Unsent(e, y)'
    <3>1. ASSUME NEW y, Unsent(e, y)
          PROVE  Unsent(e, y)'
      <4>1. Sending(e[1]) # << >>
        BY <3>1, AmongNone DEF Unsent
      <4> QED
        BY <1>3, <2>1, <3>1, <4>1 DEF Unsent, Among
    <3> QED
      BY <3>1
  <2>4. \A y : HasAt(e, y)' <=> HasAt(e, y)
    BY <1>1, PrimedEdge DEF HasAt
  <2>5. \A y \in DataMsgs(Nodes) : Kept(e, y) => Kept(e, y)'
    BY <1>1, <1>3, <2>1, <2>3, <2>4 DEF Kept
  <2> QED
    BY <1>1, <1>3, <2>1, <2>2, <2>5, EdgeFrame
<1>5. ASSUME NEW n \in Nodes
      PROVE  NodeInv(n)'
  <2>1. NodeInv(n) /\ In(n)' = In(n)
    BY DEF Sound, In
  <2>2. Open(n)' = Open(n)
    BY <1>4 DEF Open, In
  <2>3. Shape(n)' <=> Shape(n)
    BY <1>1 DEF Shape, OutputsLeft
  <2>4. n \in Sources => OutputsLeft(n, src[n].outs)'
    BY <1>1, <2>1 DEF OutputsLeft, NodeInv
  <2>5. Handling(n, StopMsg)' <=> Handling(n, StopMsg)
    BY <1>3
  <2> QED
    BY <1>1, <2>1, <2>2, <2>3, <2>4, <2>5 DEF NodeInv
<1> QED
  BY <1>4, <1>5 DEF Sound

(* A node that has counted down to zero has had the stop of every input. *)
LEMMA AllTaken ==
  ASSUME Sound, NEW n \in Nodes, n \notin Sources, active[n] = 0, NEW e \in In(n)
  PROVE  StopTaken(e) /\ ClearAt(e)
<1>1. NodeInv(n) /\ e \in Edges /\ EdgeInv(e)
  BY DEF Sound, In
<1>2. IsFiniteSet(Open(n))
  BY InFinite, FS_Subset DEF Open
<1>3. Cardinality(Open(n)) \in Nat
  BY <1>2, FS_CardinalityType
<1>4. Cardinality(Open(n)) = 0
  BY <1>1, <1>3 DEF NodeInv
<1>5. Open(n) = {}
  BY <1>2, <1>4, FS_EmptySet
<1>6. StopTaken(e)
  BY <1>5 DEF Open
<1> QED
  BY <1>1, <1>6 DEF EdgeInv

(* A node all of whose inputs have stopped has nothing more to read. *)
LEMMA Dry ==
  ASSUME NEW E, NEW S, Carried(E, S), Sound, NEW n \in Nodes,
         n \in Sources \/ active[n] = 0
  PROVE  Len(merged[n]) = 0 /\ Len(held[n]) = 0 /\ pc[n] # "wait"
<1>1. NodeInv(n)
  BY DEF Sound
<1>2. ASSUME NEW e \in In(n)
      PROVE  ClearAt(e) /\ e \in Edges /\ e[2] = n
  BY <1>2, NoInput, AllTaken DEF In
<1>3. merged[n] \in Seq(Packet(E, S)) /\ held[n] \in Seq(Packet(E, S))
      /\ (pc[n] = "wait" => Len(held[n]) = 1)
  BY DEF Carried
<1>4. \A k \in 1 .. Len(merged[n]) : FALSE
  BY <1>1, <1>2 DEF NodeInv, ClearAt, Clear, NoneFrom
<1>5. \A k \in 1 .. Len(held[n]) : FALSE
  BY <1>1, <1>2 DEF NodeInv, ClearAt, Clear, NoneFrom
<1>6. Len(merged[n]) \in Nat /\ Len(held[n]) \in Nat
  BY <1>3
<1>7. \A k \in Nat : k = 0 \/ 1 \in 1 .. k
  OBVIOUS
<1>8. Len(merged[n]) = 0 /\ Len(held[n]) = 0
  BY <1>4, <1>5, <1>6, <1>7
<1> QED
  BY <1>3, <1>8

(* A node that has something to read goes on. *)
LEMMA NotDry ==
  ASSUME NEW E, NEW S, Carried(E, S), Sound, NEW n \in Nodes,
         merged[n] # << >> \/ pc[n] = "wait"
  PROVE  n \notin Sources /\ active[n] \in Nat /\ active[n] # 0 /\ ~cancelled[n]
<1>1. merged[n] # << >> => Len(merged[n]) # 0
  BY DEF Carried
<1>2. n \notin Sources /\ active[n] # 0
  BY <1>1, Dry
<1> QED
  BY <1>2 DEF Sound, NodeInv

(* Without barriers the aligner lets every message pass. *)
LEMMA PlainDispatch ==
  ASSUME NEW E, E = {}, NEW S \in SUBSET {StopMsg}, Carried(E, S), NEW n \in Nodes,
         NEW im \in Packet(E, S), Dispatch(n, im)
  PROVE  /\ work' = [work EXCEPT ![n] = <<Handle(im.msg)>>]
         /\ im.msg \in DataMsgs(Nodes) \cup {StopMsg}
<1> DEFINE r == OnMessage(ba[n], Cardinality(In(n)), im.from, im.msg)
           all == r.toProcess \o (IF r.aligned = NoBarrier THEN << >> ELSE <<r.aligned>>)
           w == [k \in 1 .. Len(all) |-> Handle(all[k])]
<1>1. Barrier(E) = {}
  BY DEF Barrier
<1>2. im.msg \in DataMsgs(Nodes) \cup {StopMsg}
  BY <1>1 DEF Packet, Flow, Unmarked
<1>3. im.msg.kind # "barrier"
  BY <1>2 DEF DataMsgs, StopMsg
<1>4. ~ba[n].aligning
  BY <1>1 DEF Carried, Aligner
<1>5. r.toProcess = <<im.msg>> /\ r.aligned = NoBarrier
  BY <1>3, <1>4 DEF OnMessage, Holds
<1> HIDE DEF r
<1>6. all = <<im.msg>>
  BY <1>5
<1>7. work' = [work EXCEPT ![n] = w]
  BY DEF Dispatch, r
<1> HIDE DEF all
<1>8. w = <<Handle(im.msg)>>
  BY <1>6
<1> HIDE DEF w
<1> QED
  BY <1>2, <1>7, <1>8

(* The loop of node n hands a message to the handler. *)
LEMMA HandOver ==
  ASSUME Sound, NEW n \in Nodes, n \notin Sources, NEW f \in In(n), NEW im, NEW x,
         im = Packed(f, x), x \in DataMsgs(Nodes) \cup {StopMsg}, ~ClearAt(f),
         \A m \in Nodes : m # n => Untouched(m), UNCHANGED <<buf, active, handled, cancelled, src>>,
         work[n] = << >>, work'[n] = <<Handle(x)>>, held'[n] = << >>, pc'[n] = "loop",
         \A k \in 1 .. Len(merged'[n]) : merged'[n][k].from \in In(n),
         \A e \in In(n) : /\ \A y : HasAt(e, y) <=> HasAt(e, y)' \/ im = Packed(e, y)
                          /\ StopLastAt(e)' /\ (ClearAt(e) => ClearAt(e)')
                          /\ im = Packed(e, StopMsg) => ClearAt(e)' /\ ~HasAt(e, StopMsg)'
  PROVE  Sound'
<1>1. /\ \A y : Handling(n, y)' <=> y = x
      /\ \A y : ~Handling(n, y)
      /\ Sending(n) = << >> /\ Sending(n)' = << >> /\ (Ended(n)' <=> Ended(n))
      /\ Count(n)' = Count(n)
  BY DEF Handling, Handle, Sending, IsSending, Ended, Count
<1>2. ASSUME NEW e \in Edges
      PROVE  /\ e[1] \in Nodes /\ e[2] \in Nodes /\ EdgeInv(e)
             /\ StopPut(e)' <=> StopPut(e)
             /\ \A y : Unsent(e, y) => Unsent(e, y)'
             /\ Count(e[1])' = Count(e[1])
  <2>1. e[1] \in Nodes /\ e[2] \in Nodes /\ EdgeInv(e)
    BY EdgeEnds DEF Sound
  <2>2. CASE e[1] = n
    BY <1>1, <2>1, <2>2, AmongNone DEF StopPut, Unsent
  <2>3. CASE e[1] # n
    <3>1. /\ Sending(e[1])' = Sending(e[1]) /\ SentMsg(e[1])' = SentMsg(e[1])
          /\ Ended(e[1])' <=> Ended(e[1])
          /\ Count(e[1])' = Count(e[1])
      BY <2>1, <2>3, SameView DEF Untouched
    <3> QED
      BY <2>1, <3>1 DEF StopPut, Unsent, Among
  <2> QED
    BY <2>2, <2>3
<1>3. ASSUME NEW e \in Edges, e[2] # n
      PROVE  EdgeInv(e)' /\ (StopTaken(e)' <=> StopTaken(e))
  <2>1. buf'[e] = buf[e] /\ merged'[e[2]] = merged[e[2]] /\ held'[e[2]] = held[e[2]]
        /\ handled'[e[2]] = handled[e[2]]
    BY <1>2, <1>3 DEF Untouched
  <2>2. \A y : Handling(e[2], y)' <=> Handling(e[2], y)
    BY <1>2, <1>3, SameView DEF Untouched
  <2>3. \A y : HasAt(e, y)' <=> HasAt(e, y)
    BY <2>1, PrimedEdge DEF HasAt
  <2>4. \A y \in DataMsgs(Nodes) : Kept(e, y) => Kept(e, y)'
    BY <1>2, <2>1, <2>2, <2>3 DEF Kept
  <2> QED
    BY <1>2, <2>1, <2>4, EdgeFrame
<1>4. ASSUME NEW e \in Edges, e[2] = n
      PROVE  EdgeInv(e)' /\ (StopTaken(e)' <=> StopTaken(e) \/ (e = f /\ x = StopMsg))
  <2>1. e \in In(n) /\ EdgeInv(e)
    BY <1>2, <1>4 DEF In
  <2>2. \A y : im = Packed(e, y) <=> e = f /\ x = y
    BY DEF Packed
  <2>3. StopTaken(e)' <=> StopTaken(e) \/ (e = f /\ x = StopMsg)
    BY <1>2, <2>1, <2>2 DEF StopTaken, EdgeInv
  <2>4. StopTaken(e)' => ClearAt(e)'
    BY <2>1, <2>2, <2>3 DEF EdgeInv
  <2>5. HasAt(e, StopMsg)' => StopPut(e)'
    BY <1>2, <2>1 DEF EdgeInv
  <2>6. \A y : Kept(e, y) => Kept(e, y)'
    BY <1>1, <1>2, <1>4, <2>1, <2>2 DEF Kept
  <2>7. e[1] \notin Fails => \A k \in 1 .. Count(e[1])' : Kept(e, DataMsg(e[1], k))'
    BY <1>2, <2>1, <2>6 DEF EdgeInv
  <2> QED
    BY <2>1, <2>3, <2>4, <2>5, <2>7 DEF EdgeInv
<1>5. ASSUME NEW m \in Nodes, m # n
      PROVE  NodeInv(m)'
  BY <1>3, <1>5, NodeFrame DEF Sound, Untouched, In
<1>6. NodeInv(n)'
  <2>1. NodeInv(n) /\ In(n)' = In(n) /\ f \in Edges /\ f[2] = n /\ EdgeInv(f)
    BY DEF Sound, In
  <2>2. f \in Open(n)
    BY <2>1 DEF Open, EdgeInv
  <2>3. Open(n)' = IF x = StopMsg THEN Open(n) \ {f} ELSE Open(n)
    BY <1>4 DEF Open, In
  <2>4. IsFiniteSet(Open(n)) /\ Cardinality(Open(n)) \in Nat
    BY InFinite, FS_Subset, FS_CardinalityType DEF Open
  <2>5. Cardinality(Open(n) \ {f}) = Cardinality(Open(n)) - 1 /\ Cardinality(Open(n) \ {f}) \in Nat
    BY <2>2, <2>4, FS_RemoveElement, FS_CardinalityType
  <2>6. active[n] = Cardinality(Open(n)) /\ active[n] \in Nat /\ active[n] >= 1
    BY <1>1, <2>1, <2>4, <2>5 DEF NodeInv
  <2>7. active'[n] = Cardinality(Open(n))' + IF Handling(n, StopMsg)' THEN 1 ELSE 0
    <3>1. CASE x = StopMsg
      BY <1>1, <2>3, <2>5, <2>6, <3>1
    <3>2. CASE x # StopMsg
      BY <1>1, <2>3, <2>6, <3>2
    <3> QED
      BY <3>1, <3>2
  <2>8. Shape(n)'
    <3>1. active'[n] >= 1 /\ Len(work'[n]) = 1 /\ work'[n][1].op = "handle"
      BY <2>6 DEF Handle
    <3> QED
      BY <3>1 DEF Shape
  <2>9. ~cancelled'[n]
    BY <2>1, <2>6 DEF NodeInv
  <2> QED
    BY <2>1, <2>6, <2>7, <2>8, <2>9 DEF NodeInv
<1> QED
  BY <1>3, <1>4, <1>5, <1>6 DEF Sound

(* The steps of the loop at its select, and in waitForResume. *)
LEMMA DrainSelect ==
  ASSUME NEW E, E = {}, NEW S \in SUBSET {StopMsg}, Carried(E, S), Sound, ~pipeCtx, NEW n \in Nodes,
         \A k \in 1 .. Len(ctl[n]) : pc[n] # "gone" => ctl[n][k].type # "terminate",
         SelectDone(n) \/ SelectMerged(n) \/ SelectControl(n) \/ WaitControl(n)
  PROVE  Sound'
<1>0. /\ NodeInv(n) /\ In(n)' = In(n)
      /\ pc \in [Nodes -> {"new", "loop", "wait", "gone"}] /\ work \in [Nodes -> Seq(Item(E, S))]
      /\ held \in [Nodes -> Seq(Packet(E, S))] /\ merged \in [Nodes -> Seq(Packet(E, S))]
      /\ (pc[n] = "wait" => Len(held[n]) = 1)
  BY DEF Sound, Carried, In
<1>1. ASSUME ctl[n] # << >>, pc[n] # "gone"
      PROVE  Head(ctl[n]).type \in {"pause", "resume"}
  <2>1. ctl[n] \in Seq(Request(E)) /\ 1 \in 1 .. Len(ctl[n]) /\ Head(ctl[n]) = ctl[n][1]
    BY <1>1 DEF Carried
  <2>2. Head(ctl[n]) \in Request(E)
    BY <2>1
  <2> QED
    BY <1>1, <2>1, <2>2 DEF Request
<1>2. CASE SelectDone(n)
  <2>1. cancelled[n] /\ pc[n] # "wait" /\ AtSelect(n)
    BY <1>2, NotDry DEF SelectDone, CtxDone
  <2>2. /\ pc' = [pc EXCEPT ![n] = "gone"] /\ work' = work
        /\ UNCHANGED <<buf, merged, held, cancelled, active, handled, src>>
    BY <1>0, <1>2, <2>1 DEF SelectDone, Return, AtSelect, flowVars
  <2>3. \A m \in Nodes : m # n => Untouched(m)
    BY <1>0, <2>2 DEF Untouched
  <2>4. \A e \in Edges : /\ StopPut(e)' <=> StopPut(e)
                         /\ \A y : Unsent(e, y)' <=> Unsent(e, y)
                         /\ Count(e[1])' = Count(e[1])
    BY <2>2, SameViews
  <2>5. \A y : Handling(n, y)' <=> Handling(n, y)
    BY <2>2 DEF Handling
  <2>6. /\ \A e \in Edges : EdgeInv(e)'
        /\ \A m \in Nodes : m # n => NodeInv(m)'
        /\ Open(n)' = Open(n)
    BY <2>2, <2>3, <2>4, <2>5, QuietStep
  <2>7. NodeInv(n)'
    <3>1. Shape(n)' <=> Shape(n)
      BY <2>2 DEF Shape, OutputsLeft
    <3>2. OutputsLeft(n, src[n].outs)' <=> OutputsLeft(n, src[n].outs)
      BY <2>2 DEF OutputsLeft
    <3>3. pc'[n] = "gone" /\ pc[n] = "loop"
      BY <1>0, <2>1, <2>2 DEF AtSelect
    <3> QED
      BY <1>0, <2>1, <2>2, <2>5, <2>6, <3>1, <3>2, <3>3 DEF NodeInv
  <2> QED
    BY <2>6, <2>7 DEF Sound
<1>3. CASE SelectMerged(n)
  <2> DEFINE M == merged[n]
             im == Head(M)
  <2>1. /\ merged' = [merged EXCEPT ![n] = Tail(@)] /\ M # << >> /\ pc[n] = "loop" /\ work[n] = << >>
        /\ UNCHANGED <<buf, cancelled, active, handled, src>>
    BY <1>3 DEF SelectMerged, AtSelect
  <2>2. n \notin Sources /\ active[n] # 0 /\ ~cancelled[n] /\ held[n] = << >>
    BY <1>0, <2>1, NotDry DEF NodeInv
  <2>3. /\ M \in Seq(Packet(E, S)) /\ im \in Packet(E, S) /\ merged'[n] = Tail(M)
        /\ \A m \in Nodes : m # n => merged'[m] = merged[m]
    BY <1>0, <2>1
  <2>4. \A k \in 1 .. Len(M) : M[k].from \in In(n)
    BY <1>0 DEF NodeInv
  <2>5. /\ im.from \in In(n) /\ im = M[1]
        /\ \A k \in 1 .. Len(Tail(M)) : Tail(M)[k].from \in In(n)
    <3> HIDE DEF M
    <3> QED
      BY <2>1, <2>3, <2>4
  <2>6. ASSUME NEW e \in In(n)
        PROVE  /\ e \in Edges /\ e[2] = n /\ EdgeInv(e)
               /\ \A y : Has(e, buf[e], Tail(M), <<im>>, y) <=> HasAt(e, y)
               /\ StopLast(e, buf[e], Tail(M), <<im>>)
               /\ ClearAt(e) => Clear(e, buf[e], Tail(M), <<im>>)
    <3>1. e \in Edges /\ e[2] = n /\ EdgeInv(e)
      BY DEF In, Sound
    <3>2. /\ \A y : HasAt(e, y) <=> Has(e, buf[e], M, << >>, y)
          /\ StopLast(e, buf[e], M, << >>)
          /\ ClearAt(e) <=> Clear(e, buf[e], M, << >>)
      BY <2>2, <3>1 DEF HasAt, ClearAt, StopLastAt, EdgeInv
    <3> HIDE DEF M
    <3>3. /\ \A y : Has(e, buf[e], Tail(M), <<Head(M)>>, y) <=> Has(e, buf[e], M, << >>, y)
          /\ StopLast(e, buf[e], M, << >>) => StopLast(e, buf[e], Tail(M), <<Head(M)>>)
          /\ Clear(e, buf[e], M, << >>) => Clear(e, buf[e], Tail(M), <<Head(M)>>)
      BY <2>1, <2>3, EdgeTake
    <3> QED
      BY <3>1, <3>2, <3>3
  <2>7. CASE paused[n]
    <3>1. pc' = [pc EXCEPT ![n] = "wait"] /\ held' = [held EXCEPT ![n] = <<im>>] /\ work' = work
      BY <1>3, <2>7 DEF SelectMerged
    <3>2. \A m \in Nodes : m # n => Untouched(m)
      BY <1>0, <2>1, <2>3, <3>1 DEF Untouched
    <3>3. held'[n] = <<im>> /\ pc'[n] = "wait"
      BY <1>0, <3>1
    <3>4. ASSUME NEW e \in Edges
          PROVE  EdgeInv(e)' /\ (StopTaken(e)' <=> StopTaken(e))
      <4>1. EdgeInv(e) /\ e[2] \in Nodes
        BY EdgeEnds DEF Sound
      <4>2. /\ \A y : HasAt(e, y)' <=> HasAt(e, y)
            /\ StopLastAt(e)' /\ (ClearAt(e) => ClearAt(e)')
        <5>1. CASE e[2] = n
          <6>1. e \in In(n)
            BY <5>1 DEF In
          <6>2. buf'[e] = buf[e] /\ merged'[e[2]] = Tail(M) /\ held'[e[2]] = <<im>>
            BY <2>1, <2>3, <3>3, <5>1
          <6> HIDE DEF im, M
          <6> QED
            BY <2>6, <6>1, <6>2, PrimedEdge
        <5>2. CASE e[2] # n
          <6>1. buf'[e] = buf[e] /\ merged'[e[2]] = merged[e[2]] /\ held'[e[2]] = held[e[2]]
            BY <2>1, <3>2, <4>1, <5>2 DEF Untouched
          <6> QED
            BY <4>1, <6>1, PrimedEdge DEF HasAt, StopLastAt, ClearAt, EdgeInv
        <5> QED
          BY <5>1, <5>2
      <4>3. /\ StopPut(e)' <=> StopPut(e)
            /\ \A y : Unsent(e, y)' <=> Unsent(e, y)
            /\ Count(e[1])' = Count(e[1])
            /\ \A y : Handling(e[2], y)' <=> Handling(e[2], y)
        BY <2>1, <3>1, SameViews
      <4>4. handled[e[2]] \subseteq handled'[e[2]]
        BY <2>1
      <4> QED
        BY <4>1, <4>2, <4>3, <4>4, EdgeKeeps
    <3>5. \A m \in Nodes : m # n => NodeInv(m)'
      BY <3>2, <3>4, NodeFrame DEF Sound, Untouched, In
    <3>6. NodeInv(n)'
      <4>1. Open(n)' = Open(n)
        BY <3>4 DEF Open, In
      <4>2. Shape(n)' <=> Shape(n)
        BY <2>1, <3>1 DEF Shape, OutputsLeft
      <4>3. Handling(n, StopMsg)' <=> Handling(n, StopMsg)
        BY <3>1 DEF Handling
      <4>4. \A k \in 1 .. Len(held'[n]) : held'[n][k].from \in In(n)
        <5> HIDE DEF im
        <5> QED
          BY <2>5, <3>3
      <4>5. \A k \in 1 .. Len(merged'[n]) : merged'[n][k].from \in In(n)
        BY <2>3, <2>5
      <4> QED
        BY <1>0, <2>1, <2>2, <3>1, <3>3, <4>1, <4>2, <4>3, <4>4, <4>5 DEF NodeInv
    <3> QED
      BY <3>4, <3>5, <3>6 DEF Sound
  <2>8. CASE ~paused[n]
    <3>1. Dispatch(n, im) /\ UNCHANGED <<pc, held>>
      BY <1>3, <2>8 DEF SelectMerged
    <3>2. /\ work' = [work EXCEPT ![n] = <<Handle(im.msg)>>]
          /\ im.msg \in DataMsgs(Nodes) \cup {StopMsg}
      <4> HIDE DEF im
      <4> QED
        BY <2>3, <3>1, PlainDispatch
    <3>3. im = Packed(im.from, im.msg)
      <4> HIDE DEF im
      <4> QED
        BY <2>3 DEF Packet, Packed
    <3> HIDE DEF im
    <3>4. work'[n] = <<Handle(im.msg)>> /\ \A m \in Nodes : m # n => Untouched(m)
      BY <1>0, <2>1, <2>3, <3>1, <3>2 DEF Untouched
    <3>5. ASSUME NEW e \in In(n)
          PROVE  /\ \A y : HasAt(e, y) <=> HasAt(e, y)' \/ im = Packed(e, y)
                 /\ StopLastAt(e)' /\ (ClearAt(e) => ClearAt(e)')
                 /\ im = Packed(e, StopMsg) => ClearAt(e)' /\ ~HasAt(e, StopMsg)'
      <4> DEFINE T == Tail(M)
                 H == <<im>>
      <4>1. e[2] = n /\ buf'[e] = buf[e] /\ merged'[n] = T /\ held'[n] = << >>
        BY <2>1, <2>2, <2>3, <2>6, <3>1
      <4>2. T \in Seq(Packet(E, S)) /\ H \in Seq(Packet(E, S)) /\ Len(H) = 1 /\ H[1] = im
        BY <2>1, <2>3
      <4>3. /\ \A y : Has(e, buf[e], T, H, y) <=> HasAt(e, y)
            /\ StopLast(e, buf[e], T, H)
            /\ ClearAt(e) => Clear(e, buf[e], T, H)
        BY <2>6
      <4> HIDE DEF T, H
      <4>4. /\ \A y : Has(e, buf[e], T, H, y) <=> Has(e, buf[e], T, << >>, y) \/ H[1] = Packed(e, y)
            /\ StopLast(e, buf[e], T, H) => StopLast(e, buf[e], T, << >>)
            /\ Clear(e, buf[e], T, H) => Clear(e, buf[e], T, << >>)
            /\ StopLast(e, buf[e], T, H) /\ H[1] = Packed(e, StopMsg) =>
                 Clear(e, buf[e], T, << >>) /\ ~Has(e, buf[e], T, << >>, StopMsg)
        BY <4>2, EdgeDrop
      <4>5. /\ \A y : HasAt(e, y)' <=> Has(e, buf[e], T, << >>, y)
            /\ StopLastAt(e)' <=> StopLast(e, buf[e], T, << >>)
            /\ ClearAt(e)' <=> Clear(e, buf[e], T, << >>)
        BY <4>1, PrimedEdge
      <4> QED
        BY <4>2, <4>3, <4>4, <4>5
    <3>6. ~ClearAt(im.from)
      <4>1. im.from \in Edges /\ im.from[2] = n
        BY <2>5 DEF In
      <4>2. 1 \in 1 .. Len(M)
        <5> HIDE DEF M
        <5> QED
          BY <2>1, <2>3
      <4> QED
        BY <2>5, <4>1, <4>2 DEF ClearAt, Clear, NoneFrom
    <3>7. held'[n] = << >> /\ pc'[n] = "loop"
          /\ \A k \in 1 .. Len(merged'[n]) : merged'[n][k].from \in In(n)
      BY <2>1, <2>2, <2>3, <2>5, <3>1
    <3> QED
      BY <2>1, <2>2, <2>5, <3>2, <3>3, <3>4, <3>5, <3>6, <3>7, HandOver
  <2> QED
    BY <2>7, <2>8
<1>4. CASE SelectControl(n)
  <2>1. Head(ctl[n]).type \in {"pause", "resume"}
    BY <1>1, <1>4 DEF SelectControl, AtSelect
  <2>2. UNCHANGED <<buf, merged, held, pc, work, cancelled, active, handled, src>>
    BY <1>4, <2>1 DEF SelectControl, flowVars
  <2> QED
    BY <2>2, Unmoved
<1>5. CASE WaitControl(n)
  <2>1. Head(ctl[n]).type \in {"pause", "resume"} /\ pc[n] = "wait"
    BY <1>1, <1>5 DEF WaitControl
  <2>2. n \notin Sources /\ active[n] # 0 /\ ~cancelled[n] /\ work[n] = << >>
    BY <1>0, <2>1, NotDry DEF NodeInv
  <2>3. CASE Head(ctl[n]).type = "pause"
    <3>1. UNCHANGED <<buf, merged, held, pc, work, cancelled, active, handled, src>>
      BY <1>5, <2>3 DEF WaitControl, flowVars
    <3> QED
      BY <3>1, Unmoved
  <2>4. CASE Head(ctl[n]).type = "resume"
    <3> DEFINE H == held[n]
               im == H[1]
               T == merged[n]
    <3>1. /\ held' = [held EXCEPT ![n] = << >>] /\ pc' = [pc EXCEPT ![n] = "loop"]
          /\ Dispatch(n, im) /\ UNCHANGED <<buf, merged, cancelled, active, handled, src>>
      BY <1>5, <2>2, <2>4 DEF WaitControl, CtxDone, flowVars
    <3>2. H \in Seq(Packet(E, S)) /\ Len(H) = 1 /\ T \in Seq(Packet(E, S)) /\ im.from \in In(n)
      <4>1. H \in Seq(Packet(E, S)) /\ Len(H) = 1 /\ T \in Seq(Packet(E, S))
        BY <1>0, <2>1
      <4>2. \A k \in 1 .. Len(H) : H[k].from \in In(n)
        BY <1>0 DEF NodeInv
      <4> HIDE DEF H
      <4>3. 1 \in 1 .. Len(H)
        BY <4>1
      <4> QED
        BY <4>1, <4>2, <4>3
    <3>3. im \in Packet(E, S)
      <4> HIDE DEF H, T
      <4>1. \A q \in Seq(Packet(E, S)) : Len(q) = 1 => q[1] \in Packet(E, S)
        OBVIOUS
      <4> QED
        BY <3>2, <4>1
    <3>4. /\ work' = [work EXCEPT ![n] = <<Handle(im.msg)>>]
          /\ im.msg \in DataMsgs(Nodes) \cup {StopMsg}
      <4> HIDE DEF im
      <4> QED
        BY <3>1, <3>3, PlainDispatch
    <3>5. im = Packed(im.from, im.msg)
      <4> HIDE DEF im
      <4> QED
        BY <3>3 DEF Packet, Packed
    <3> HIDE DEF im
    <3>6. work'[n] = <<Handle(im.msg)>> /\ \A m \in Nodes : m # n => Untouched(m)
      BY <1>0, <3>1, <3>4 DEF Untouched
    <3>7. ASSUME NEW e \in In(n)
          PROVE  /\ \A y : HasAt(e, y) <=> HasAt(e, y)' \/ im = Packed(e, y)
                 /\ StopLastAt(e)' /\ (ClearAt(e) => ClearAt(e)')
                 /\ im = Packed(e, StopMsg) => ClearAt(e)' /\ ~HasAt(e, StopMsg)'
      <4>1. e[2] = n /\ EdgeInv(e) /\ buf'[e] = buf[e] /\ merged'[n] = T /\ held'[n] = << >>
            /\ H[1] = im
        BY <1>0, <3>1 DEF In, Sound, im
      <4>2. /\ \A y : Has(e, buf[e], T, H, y) <=> HasAt(e, y)
            /\ StopLast(e, buf[e], T, H)
            /\ ClearAt(e) => Clear(e, buf[e], T, H)
        BY <4>1 DEF HasAt, EdgeInv, StopLastAt, ClearAt
      <4> HIDE DEF T, H
      <4>3. /\ \A y : Has(e, buf[e], T, H, y) <=> Has(e, buf[e], T, << >>, y) \/ H[1] = Packed(e, y)
            /\ StopLast(e, buf[e], T, H) => StopLast(e, buf[e], T, << >>)
            /\ Clear(e, buf[e], T, H) => Clear(e, buf[e], T, << >>)
            /\ StopLast(e, buf[e], T, H) /\ H[1] = Packed(e, StopMsg) =>
                 Clear(e, buf[e], T, << >>) /\ ~Has(e, buf[e], T, << >>, StopMsg)
        BY <3>2, EdgeDrop
      <4>4. /\ \A y : HasAt(e, y)' <=> Has(e, buf[e], T, << >>, y)
            /\ StopLastAt(e)' <=> StopLast(e, buf[e], T, << >>)
            /\ ClearAt(e)' <=> Clear(e, buf[e], T, << >>)
        BY <4>1, PrimedEdge
      <4> QED
        BY <4>1, <4>2, <4>3, <4>4
    <3>8. ~ClearAt(im.from)
      <4>1. im.from \in Edges /\ im.from[2] = n
        BY <3>2 DEF In
      <4>2. 1 \in 1 .. Len(H) /\ H[1].from = im.from
        BY <3>2 DEF im
      <4> QED
        BY <4>1, <4>2 DEF ClearAt, Clear, NoneFrom
    <3>9. held'[n] = << >> /\ pc'[n] = "loop"
          /\ \A k \in 1 .. Len(merged'[n]) : merged'[n][k].from \in In(n)
      BY <1>0, <3>1 DEF NodeInv
    <3> QED
      BY <2>2, <3>1, <3>2, <3>4, <3>5, <3>6, <3>7, <3>8, <3>9, HandOver
  <2> QED
    BY <2>1, <2>3, <2>4
<1> QED
  BY <1>2, <1>3, <1>4, <1>5

(* The rest of a short list. *)
LEMMA ShortTail ==
  ASSUME NEW T, NEW w \in Seq(T)
  PROVE  /\ Len(w) = 1 => Tail(w) = << >>
         /\ Len(w) = 2 => Len(Tail(w)) = 1 /\ Tail(w)[1] = w[2]
<1>1. \A q \in Seq(T) : Len(q) = 0 => q = << >>
  OBVIOUS
<1>2. Len(w) = 1 => Tail(w) \in Seq(T) /\ Len(Tail(w)) = 0
  OBVIOUS
<1>3. Len(w) = 2 => Len(Tail(w)) = 1 /\ Tail(w)[1] = w[2]
  OBVIOUS
<1>4. Len(w) = 1 => Tail(w) = << >>
  <2> DEFINE q == Tail(w)
  <2>1. Len(w) = 1 => q \in Seq(T) /\ Len(q) = 0
    BY <1>2
  <2> HIDE DEF q
  <2>2. Len(w) = 1 => q = << >>
    BY <1>1, <2>1
  <2> QED
    BY <2>2 DEF q
<1> QED
  BY <1>3, <1>4

(* What a node with a step to do is doing. *)
LEMMA AtWork ==
  ASSUME NEW E, E = {}, NEW S \in SUBSET {StopMsg}, Carried(E, S), Sound, NEW n \in Nodes,
         pc[n] = "loop", work[n] # << >>
  PROVE  /\ n \notin Sources /\ ~cancelled[n] /\ NodeInv(n) /\ In(n)' = In(n)
         /\ work \in [Nodes -> Seq(Item(E, S))] /\ Head(work[n]) = work[n][1]
         /\ active[n] \in Nat /\ held[n] = << >>
         /\ \/ /\ active[n] >= 1 /\ Len(work[n]) = 1 /\ Tail(work[n]) = << >>
               /\ work[n][1].op = "handle" /\ work[n][1] = Handle(work[n][1].msg)
               /\ work[n][1].msg \in DataMsgs(Nodes) \cup {StopMsg}
            \/ /\ active[n] >= 1 /\ Len(work[n]) = 1 /\ Tail(work[n]) = << >>
               /\ work[n][1].op = "send" /\ work[n][1].msg \in DataMsgs(Nodes)
            \/ /\ active[n] = 0 /\ Len(work[n]) = 2
               /\ work[n][1].op = "send" /\ work[n][1].msg = StopMsg
               /\ Len(Tail(work[n])) = 1 /\ Tail(work[n])[1].op = "cancel"
            \/ /\ active[n] = 0 /\ Len(work[n]) = 1 /\ Tail(work[n]) = << >>
               /\ work[n][1].op = "cancel"
<1> DEFINE w == work[n]
<1>1. NodeInv(n) /\ In(n)' = In(n) /\ work \in [Nodes -> Seq(Item(E, S))]
  BY DEF Sound, In, Carried
<1>2. n \notin Sources /\ ~cancelled[n] /\ active[n] \in Nat /\ Shape(n) /\ held[n] = << >>
  BY <1>1 DEF NodeInv
<1>3. /\ w \in Seq(Item(E, S)) /\ Head(w) = w[1]
      /\ w[1].op = "handle" => w[1] = Handle(w[1].msg) /\ w[1].msg \in Flow(E, S)
      /\ w[1].op = "send" => w[1].msg \in Flow(E, S)
  BY WorkHead
<1>4. \A m \in Flow(E, S) : m \in DataMsgs(Nodes) \cup {StopMsg}
  BY DEF Flow, Unmarked, Barrier
<1>5. \A m \in Flow(E, S) : m.kind = "data" => m \in DataMsgs(Nodes)
  BY FlowKinds
<1>6. Len(w) = 1 => Tail(w) = << >>
  <2> HIDE DEF w
  <2> QED
    BY <1>3, ShortTail
<1>7. Len(w) = 2 => Len(Tail(w)) = 1 /\ Tail(w)[1] = w[2]
  <2> HIDE DEF w
  <2> QED
    BY <1>3, ShortTail
<1> QED
  BY <1>1, <1>2, <1>3, <1>4, <1>5, <1>6, <1>7 DEF Shape

(* The list that sends m to every output. *)
LEMMA SendAllShape ==
  ASSUME NEW n \in Nodes, NEW m
  PROVE  /\ Out(n) = << >> => SendAll(n, m) = << >>
         /\ Out(n) # << >> => /\ Len(SendAll(n, m)) = 1
                              /\ SendAll(n, m)[1].op = "send"
                              /\ SendAll(n, m)[1].outs = Out(n)
                              /\ SendAll(n, m)[1].msg = m
BY DEF SendAll

(* A data message is handled. *)
LEMMA DrainData ==
  ASSUME NEW E, E = {}, NEW S \in SUBSET {StopMsg}, Carried(E, S), Sound, errq' = {}, NEW n \in Nodes,
         HandleData(n)
  PROVE  Sound'
<1> PICK d : d = work[n][1].msg
  OBVIOUS
<1> PICK c : c = Cardinality(handled[n])
  OBVIOUS
<1> DEFINE x == DataMsg(n, c + 1)
<1>1. /\ n \notin Sources /\ ~cancelled[n] /\ NodeInv(n) /\ In(n)' = In(n) /\ pc[n] = "loop"
      /\ work \in [Nodes -> Seq(Item(E, S))] /\ active[n] \in Nat /\ active[n] >= 1
      /\ Tail(work[n]) = << >> /\ work[n] # << >> /\ held[n] = << >>
      /\ work[n][1] = Handle(d) /\ d \in DataMsgs(Nodes) /\ Head(work[n]).msg = d
  <2>1. pc[n] = "loop" /\ work[n] # << >> /\ Head(work[n]).op = "handle" /\ Head(work[n]).msg.kind = "data"
    BY DEF HandleData, Doing
  <2>2. d.kind = "data" => d # StopMsg
    BY DEF StopMsg
  <2> QED
    BY <2>1, <2>2, AtWork
<1>2. /\ handled' = [handled EXCEPT ![n] = @ \cup {d}] /\ pc' = pc
      /\ UNCHANGED <<buf, merged, held, cancelled, active, src>>
      /\ \/ work' = [work EXCEPT ![n] = SendAll(n, x) \o Tail(@)]
         \/ n \in Fails /\ work' = [work EXCEPT ![n] = Tail(@)]
  BY <1>1 DEF HandleData, Return, flowVars
<1>3. handled \in [Nodes -> SUBSET DataMsgs(Nodes)] /\ IsFiniteSet(handled[n])
  BY DEF Carried
<1>4. c \in Nat /\ handled'[n] = handled[n] \cup {d}
      /\ Cardinality(handled[n] \cup {d}) \in {c, c + 1}
  BY <1>2, <1>3, FS_CardinalityType, FS_AddElement
<1> HIDE DEF x
<1>5. /\ \A m \in Nodes : m # n => Untouched(m)
      /\ work'[n] = SendAll(n, x) \/ (n \in Fails /\ work'[n] = << >>)
  <2>1. SendAll(n, x) \o << >> = SendAll(n, x)
    BY DEF SendAll
  <2> QED
    BY <1>1, <1>2, <1>3, <2>1 DEF Untouched
<1>6. x.kind = "data" /\ x # StopMsg
  BY DEF x, DataMsg, StopMsg
<1>7. /\ work'[n] = << >>
      \/ /\ Out(n) # << >> /\ work'[n] # << >> /\ Len(work'[n]) = 1 /\ work'[n][1].op = "send"
         /\ work'[n][1].outs = Out(n) /\ work'[n][1].msg = x
  BY <1>5, SendAllShape
<1>8. /\ Sending(n) = << >> /\ ~Ended(n) /\ ~Ended(n)' /\ Count(n) = c
      /\ Count(n)' \in {c, c + 1}
      /\ work'[n] = << >> => Sending(n)' = << >>
      /\ work'[n] # << >> => Sending(n)' = Out(n) /\ SentMsg(n)' = x
      /\ \A y : Handling(n, y) => y = d
      /\ \A y : ~Handling(n, y)'
  <2>1. Sending(n) = << >>
    BY <1>1 DEF Sending, IsSending, Handle
  <2>5. ~Ended(n) /\ ~Ended(n)'
    BY <1>1, <1>2 DEF Ended
  <2>6. Count(n) = c /\ Count(n)' \in {c, c + 1}
    BY <1>1, <1>4 DEF Count
  <2>2. /\ work'[n] = << >> => Sending(n)' = << >>
        /\ work'[n] # << >> => Sending(n)' = Out(n) /\ SentMsg(n)' = x
    BY <1>1, <1>7 DEF Sending, IsSending, SentMsg
  <2>3. \A y : Handling(n, y) => y = d
    BY <1>1 DEF Handling, Handle
  <2>4. \A y : ~Handling(n, y)'
    BY <1>7 DEF Handling, Handle
  <2> QED
    BY <2>1, <2>2, <2>3, <2>4, <2>5, <2>6
<1>9. ASSUME NEW e \in Edges, e[1] = n
      PROVE  /\ StopPut(e)' <=> StopPut(e)
             /\ \A y \in DataMsgs(Nodes) : Unsent(e, y) => Unsent(e, y)'
             /\ n \notin Fails => \A k \in 1 .. Count(n)' :
                  k \in 1 .. Count(n) \/ Unsent(e, DataMsg(n, k))'
  <2>1. ~StopPut(e)' /\ ~StopPut(e) /\ \A y : ~Unsent(e, y)
    BY <1>8, <1>9, AmongNone DEF StopPut, Unsent
  <2>2. Among(e, Out(n)) /\ Out(n) # << >>
    BY <1>9, AllLeft, AmongNone
  <2>3. \A y : Unsent(e, y)' <=> Among(e, Sending(n)') /\ SentMsg(n)' = y
    BY <1>9 DEF Unsent, Among
  <2>4. n \notin Fails => Unsent(e, x)'
    BY <1>5, <1>7, <1>8, <2>2, <2>3, SendAllShape
  <2>5. \A k \in 1 .. Count(n)' : k \in 1 .. Count(n) \/ k = c + 1
    BY <1>4, <1>8
  <2> QED
    BY <2>1, <2>4, <2>5 DEF x
<1>10. /\ \A e \in Edges : EdgeInv(e)'
       /\ \A m \in Nodes : m # n => NodeInv(m)'
       /\ Open(n)' = Open(n)
  <2>1. handled[n] \subseteq handled'[n] /\ d \in handled'[n]
    BY <1>4
  <2>2. \A y \in DataMsgs(Nodes) : Handling(n, y) => Handling(n, y)' \/ y \in handled'[n]
    BY <1>8, <2>1
  <2> QED
    BY <1>2, <1>5, <1>9, <2>1, <2>2, QuietStep
<1>11. NodeInv(n)'
  <2>1. Shape(n)'
    <3>1. CASE work'[n] = << >>
      BY <3>1 DEF Shape
    <3>2. CASE work'[n] # << >>
      <4>1. OutputsLeft(n, work[n][1].outs)'
        BY <1>7, <3>2, AllLeft DEF OutputsLeft
      <4> QED
        BY <1>1, <1>2, <1>6, <1>7, <3>2, <4>1 DEF Shape
    <3> QED
      BY <3>1, <3>2
  <2>2. ~Handling(n, StopMsg)
    BY <1>1, <1>8 DEF DataMsgs, StopMsg
  <2> QED
    BY <1>1, <1>2, <1>8, <1>10, <2>1, <2>2 DEF NodeInv
<1> QED
  BY <1>10, <1>11 DEF Sound

(* A stop is handled: it is forwarded when no input is left. *)
LEMMA DrainStop ==
  ASSUME NEW E, E = {}, NEW S \in SUBSET {StopMsg}, Carried(E, S), Sound, NEW n \in Nodes,
         active \in [Nodes -> Int], HandleStop(n)
  PROVE  Sound'
<1>1. /\ n \notin Sources /\ ~cancelled[n] /\ NodeInv(n) /\ In(n)' = In(n) /\ pc[n] = "loop"
      /\ work \in [Nodes -> Seq(Item(E, S))] /\ active[n] \in Nat /\ active[n] >= 1
      /\ Tail(work[n]) = << >> /\ work[n] # << >> /\ held[n] = << >>
      /\ work[n][1] = Handle(StopMsg)
  <2>1. pc[n] = "loop" /\ work[n] # << >> /\ Head(work[n]).op = "handle" /\ Head(work[n]).msg.kind = "stop"
    BY DEF HandleStop, Doing
  <2>2. \A d \in DataMsgs(Nodes) : d.kind # "stop"
    BY DEF DataMsgs
  <2> QED
    BY <2>1, <2>2, AtWork
<1>2. /\ active' = [active EXCEPT ![n] = @ - 1]
      /\ UNCHANGED <<buf, merged, held, pc, cancelled, handled, src>>
      /\ work' = [work EXCEPT ![n] =
           (IF active[n] <= 1 THEN SendAll(n, StopMsg) \o <<StopSelf>> ELSE << >>) \o Tail(@)]
  BY DEF HandleStop, flowVars
<1>3. active'[n] = active[n] - 1
  BY <1>2
<1>4. Handling(n, StopMsg) /\ (\A y : Handling(n, y) => y = StopMsg) /\ Sending(n) = << >>
      /\ ~Ended(n)
  <2>1. Sending(n) = << >>
    BY <1>1 DEF Sending, IsSending, Handle
  <2>2. ~Ended(n)
    BY <1>1 DEF Ended
  <2> QED
    BY <1>1, <2>1, <2>2 DEF Handling, Handle
<1>5. active[n] = Cardinality(Open(n)) + 1 /\ Cardinality(Open(n)) \in Nat
  <2>1. Cardinality(Open(n)) \in Nat
    BY InFinite, FS_Subset, FS_CardinalityType DEF Open
  <2> QED
    BY <1>1, <1>4, <2>1 DEF NodeInv
<1>6. /\ \A m \in Nodes : m # n => Untouched(m)
      /\ Count(n)' = Count(n)
  BY <1>1, <1>2 DEF Untouched, Count
<1>7. CASE active[n] > 1
  <2>1. work'[n] = << >>
    <3>1. << >> \o << >> = << >>
      OBVIOUS
    <3> QED
      BY <1>1, <1>2, <1>7, <3>1
  <2>2. ~Ended(n)'
    BY <1>1, <1>3, <1>7 DEF Ended
  <2>3. \A e \in Edges : e[1] = n => ~StopPut(e)' /\ ~StopPut(e) /\ \A y : ~Unsent(e, y)
    BY <1>4, <2>2, AmongNone DEF StopPut, Unsent
  <2>4. \A y \in DataMsgs(Nodes) : ~Handling(n, y)
    BY <1>4 DEF StopMsg, DataMsgs
  <2>5. /\ \A e \in Edges : EdgeInv(e)'
        /\ \A m \in Nodes : m # n => NodeInv(m)'
        /\ Open(n)' = Open(n)
    BY <1>2, <1>6, <2>3, <2>4, QuietStep
  <2>6. Shape(n)' /\ ~Handling(n, StopMsg)'
    BY <2>1 DEF Shape, Handling
  <2>7. NodeInv(n)'
    BY <1>1, <1>2, <1>3, <1>5, <1>7, <2>1, <2>5, <2>6 DEF NodeInv
  <2> QED
    BY <2>5, <2>7 DEF Sound
<1>8. CASE active[n] <= 1
  <2> DEFINE a == SendAll(n, StopMsg)
             v == a \o <<StopSelf>>
  <2>1. active'[n] = 0 /\ Cardinality(Open(n)) = 0
    BY <1>1, <1>3, <1>5, <1>8
  <2>2. work'[n] = v
    <3>1. v \o << >> = v
      BY DEF SendAll
    <3> QED
      BY <1>1, <1>2, <1>8, <3>1
  <2>3. /\ Out(n) = << >> => Len(v) = 1 /\ v[1] = StopSelf
        /\ Out(n) # << >> => /\ Len(v) = 2 /\ v[1].op = "send" /\ v[1].outs = Out(n)
                             /\ v[1].msg = StopMsg /\ v[2] = StopSelf
    BY DEF SendAll
  <2> HIDE DEF v
  <2>4. v # << >>
    BY <2>3
  <2>5. StopSelf.op = "cancel"
    BY DEF StopSelf
  <2>6. /\ Out(n) = << >> => Sending(n)' = << >>
        /\ Out(n) # << >> => Sending(n)' = Out(n) /\ SentMsg(n)' = StopMsg
    BY <1>1, <2>2, <2>3, <2>4, <2>5 DEF Sending, IsSending, SentMsg
  <2>7. \A y : ~Handling(n, y)'
    BY <2>2, <2>3, <2>5 DEF Handling, Handle
  <2>8. ASSUME NEW e \in Edges, e[1] = n
        PROVE  ~StopPut(e)' /\ ~StopPut(e) /\ \A y : ~Unsent(e, y)
    <3>1. Among(e, Out(n)) /\ Out(n) # << >>
      BY <2>8, AllLeft, AmongNone
    <3>2. StopPut(e)' <=> Ended(n)' /\ ~Among(e, Sending(n)')
      BY <2>8 DEF StopPut, Among
    <3> QED
      BY <1>4, <2>6, <2>8, <3>1, <3>2, AmongNone DEF StopPut, Unsent
  <2>9. \A y \in DataMsgs(Nodes) : ~Handling(n, y)
    BY <1>4 DEF StopMsg, DataMsgs
  <2>10. /\ \A e \in Edges : EdgeInv(e)'
         /\ \A m \in Nodes : m # n => NodeInv(m)'
         /\ Open(n)' = Open(n)
    BY <1>2, <1>6, <2>8, <2>9, QuietStep
  <2>11. Shape(n)'
    <3>1. CASE Out(n) = << >>
      BY <2>1, <2>2, <2>3, <2>5, <3>1 DEF Shape
    <3>2. CASE Out(n) # << >>
      <4>1. OutputsLeft(n, work[n][1].outs)'
        BY <2>2, <2>3, <3>2, AllLeft DEF OutputsLeft
      <4> QED
        BY <2>1, <2>2, <2>3, <2>5, <3>2, <4>1 DEF Shape
    <3> QED
      BY <3>1, <3>2
  <2>12. NodeInv(n)'
    BY <1>1, <1>2, <2>1, <2>7, <2>10, <2>11 DEF NodeInv
  <2> QED
    BY <2>10, <2>12 DEF Sound
<1> QED
  BY <1>1, <1>7, <1>8

(* The node stops itself. *)
LEMMA DrainCancel ==
  ASSUME NEW E, E = {}, NEW S \in SUBSET {StopMsg}, Carried(E, S), Sound, NEW n \in Nodes,
         CancelSelf(n)
  PROVE  Sound'
<1>1. /\ n \notin Sources /\ NodeInv(n) /\ In(n)' = In(n) /\ pc[n] = "loop"
      /\ work \in [Nodes -> Seq(Item(E, S))] /\ active[n] = 0
      /\ Tail(work[n]) = << >> /\ work[n] # << >> /\ held[n] = << >>
      /\ work[n][1].op = "cancel"
  <2>1. pc[n] = "loop" /\ work[n] # << >> /\ Head(work[n]).op = "cancel"
    BY DEF CancelSelf, Doing
  <2> QED
    BY <2>1, AtWork
<1>2. /\ work' = [work EXCEPT ![n] = Tail(@)] /\ cancelled' = [cancelled EXCEPT ![n] = TRUE]
      /\ UNCHANGED <<buf, merged, held, pc, active, handled, src>>
  BY DEF CancelSelf, flowVars
<1>3. work'[n] = << >> /\ \A m \in Nodes : m # n => Untouched(m)
  BY <1>1, <1>2 DEF Untouched
<1>4. Sending(n) = << >> /\ Sending(n)' = << >>
  BY <1>1, <1>3 DEF Sending, IsSending
<1>5. (Ended(n)' <=> Ended(n)) /\ Count(n)' = Count(n)
  BY <1>1, <1>2 DEF Ended, Count
<1>6. ASSUME NEW y
      PROVE  ~Handling(n, y) /\ ~Handling(n, y)'
  BY <1>1, <1>3 DEF Handling, Handle
<1>7. \A e \in Edges : e[1] = n => (StopPut(e)' <=> StopPut(e)) /\ \A y : ~Unsent(e, y)
  BY <1>4, <1>5, AmongNone DEF StopPut, Unsent
<1>8. /\ \A e \in Edges : EdgeInv(e)'
      /\ \A m \in Nodes : m # n => NodeInv(m)'
      /\ Open(n)' = Open(n)
  BY <1>2, <1>3, <1>5, <1>6, <1>7, QuietStep
<1>9. NodeInv(n)'
  <2>1. Shape(n)'
    BY <1>3 DEF Shape
  <2> QED
    BY <1>1, <1>2, <1>3, <1>6, <1>8, <2>1 DEF NodeInv
<1> QED
  BY <1>8, <1>9 DEF Sound

(* A message goes to the next output. *)
LEMMA DrainSend ==
  ASSUME NEW E, E = {}, NEW S \in SUBSET {StopMsg}, Carried(E, S), Sound, NEW n \in Nodes,
         Send(n)
  PROVE  Sound'
<1> PICK x : x = work[n][1].msg
  OBVIOUS
<1> PICK o : o = work[n][1].outs
  OBVIOUS
<1> PICK f : f = Head(o)
  OBVIOUS
<1> PICK t : t = Tail(work[n])
  OBVIOUS
<1> DEFINE v == work'[n]
<1>1. Doing(n, "send") /\ pc[n] = "loop" /\ work[n] # << >> /\ work[n][1].op = "send"
      /\ work[n] \in Seq(Item(E, S))
      /\ work[n][1] \in [op : {"send"}, outs : Seq(Edges) \ {<< >>}, msg : Flow(E, S)]
      /\ Head(work[n]) = work[n][1]
  BY WorkHead DEF Send, Doing
<1>2. o \in Seq(Edges) /\ o # << >> /\ x \in Flow(E, S) /\ f = o[1] /\ f \in Edges
  BY <1>1
<1>3. /\ n \notin Sources /\ ~cancelled[n] /\ NodeInv(n) /\ In(n)' = In(n)
      /\ active[n] \in Nat /\ held[n] = << >>
      /\ \/ active[n] >= 1 /\ t = << >> /\ x \in DataMsgs(Nodes)
         \/ active[n] = 0 /\ x = StopMsg /\ Len(t) = 1 /\ t[1].op = "cancel"
  BY <1>1, AtWork
<1>4. OutputsLeft(n, o) /\ t \in Seq(Item(E, S))
  BY <1>1, <1>3 DEF NodeInv, Shape
<1>5. /\ buf' = [buf EXCEPT ![f] = Append(@, x)] /\ work' = Passed(n)
      /\ UNCHANGED <<merged, held, pc, cancelled, active, handled, src>>
  BY <1>1 DEF Send
<1>6. /\ \A m \in Nodes : m # n => work'[m] = work[m]
      /\ Len(o) = 1 => v = t
      /\ Len(o) # 1 => v = <<[op |-> "send", outs |-> Tail(o), msg |-> x]>> \o t
  BY <1>1, <1>5, PassedType
<1>7. \A m \in Nodes : m # n => Untouched(m)
  BY <1>5, <1>6 DEF Untouched
<1>8. Len(o) # 1 => /\ Len(v) = Len(t) + 1 /\ v # << >> /\ v[1].op = "send" /\ v[1].outs = Tail(o)
                    /\ v[1].msg = x /\ (Len(t) = 1 => v[2] = t[1])
  <2> DEFINE i == [op |-> "send", outs |-> Tail(o), msg |-> x]
  <2>1. i.op = "send" /\ i.outs = Tail(o) /\ i.msg = x
    OBVIOUS
  <2> HIDE DEF i, v
  <2>2. Len(o) # 1 => v = <<i>> \o t
    BY <1>6 DEF i
  <2>3. Len(<<i>> \o t) = Len(t) + 1 /\ (<<i>> \o t)[1] = i /\ (Len(t) = 1 => (<<i>> \o t)[2] = t[1])
        /\ <<i>> \o t # << >>
    BY <1>4
  <2> QED
    BY <2>1, <2>2, <2>3
<1>9. Len(o) = 1 => Tail(o) = << >>
  BY <1>2, ShortTail
<1> HIDE DEF v
<1>10. Sending(n) = o /\ SentMsg(n) = x
  BY <1>1, <1>3 DEF Sending, IsSending, SentMsg
<1>11. Sending(n)' = Tail(o) /\ (Sending(n)' # << >> => SentMsg(n)' = x)
  <2>1. Sending(n)' = (IF v # << >> /\ v[1].op = "send" THEN v[1].outs ELSE << >>)
        /\ SentMsg(n)' = v[1].msg
    BY <1>3 DEF Sending, IsSending, SentMsg, v
  <2>2. CASE Len(o) = 1
    BY <1>3, <1>6, <1>9, <2>1, <2>2
  <2>3. CASE Len(o) # 1
    BY <1>8, <2>1, <2>3
  <2> QED
    BY <2>2, <2>3
<1>12. (Ended(n)' <=> Ended(n)) /\ (Ended(n) <=> x = StopMsg) /\ Count(n)' = Count(n)
  <2>1. \A d \in DataMsgs(Nodes) : d # StopMsg
    BY DEF DataMsgs, StopMsg
  <2> QED
    BY <1>3, <1>5, <2>1 DEF Ended, Count
<1>13. \A m \in Nodes : m # n =>
         Sending(m)' = Sending(m) /\ (Sending(m) # << >> => SentMsg(m)' = SentMsg(m))
           /\ (Ended(m)' <=> Ended(m)) /\ Count(m)' = Count(m)
  BY <1>7, SameView DEF Untouched
<1>14. ASSUME NEW m \in Nodes, NEW y \in DataMsgs(Nodes), Handling(m, y)
       PROVE  Handling(m, y)'
  <2>1. m # n
    BY <1>1, <1>14 DEF Handling, Handle
  <2> QED
    BY <1>7, <1>14, <2>1, SameView DEF Untouched
<1>15. f[1] = n
  BY <1>2, <1>4 DEF OutputsLeft
<1>16. \A e \in Edges : EdgeInv(e)' /\ (StopTaken(e)' <=> StopTaken(e))
  BY <1>2, <1>4, <1>5, <1>10, <1>11, <1>12, <1>13, <1>14, <1>15, PutStep DEF Sound
<1>17. \A m \in Nodes : m # n => NodeInv(m)'
  BY <1>7, <1>16, NodeFrame DEF Sound, Untouched, In
<1>18. NodeInv(n)'
  <2>1. Open(n)' = Open(n)
    BY <1>16 DEF Open, In
  <2>2. Shape(n)'
    <3>1. CASE Len(o) = 1
      <4>1. v = t
        BY <1>6, <3>1 DEF v
      <4> QED
        BY <1>3, <1>5, <4>1 DEF Shape, v
    <3>2. CASE Len(o) # 1
      <4>1. OutputsLeft(n, Tail(o))
        <5>1. OutputsLeft(n, o) /\ o # << >>
          BY <1>2, <1>4
        <5> QED
          BY <5>1, OutputsLeftTail, Zenon
      <4>2. OutputsLeft(n, work[n][1].outs)'
        <5>1. PICK q : q = Tail(o)
          OBVIOUS
        <5>2. OutputsLeft(n, q) /\ work'[n][1].outs = q
          BY <1>8, <3>2, <4>1, <5>1 DEF v
        <5> QED
          BY <5>2 DEF OutputsLeft
      <4>3. x \in DataMsgs(Nodes) => x.kind = "data"
        BY DEF DataMsgs
      <4>4. t = << >> => Len(t) = 0
        OBVIOUS
      <4>5. CASE active[n] >= 1
        <5>2. Len(t) = 0 /\ x.kind = "data"
          BY <1>3, <4>3, <4>4, <4>5
        <5>3. Len(v) = Len(t) + 1 /\ v[1].op = "send" /\ v[1].msg = x
          BY <1>8, <3>2
        <5>4. Len(v) = 1 /\ v[1].op = "send" /\ v[1].msg.kind = "data"
          BY <5>2, <5>3
        <5>1. Len(work'[n]) = 1 /\ work'[n][1].op = "send" /\ work'[n][1].msg.kind = "data"
              /\ active'[n] >= 1
          BY <1>5, <4>5, <5>4 DEF v
        <5> QED
          BY <4>2, <5>1 DEF Shape
      <4>6. CASE active[n] = 0
        <5>1. Len(work'[n]) = 2 /\ work'[n][1].op = "send" /\ work'[n][1].msg = StopMsg
              /\ work'[n][2].op = "cancel" /\ active'[n] = 0
          BY <1>3, <1>5, <1>8, <3>2, <4>6 DEF v
        <5> QED
          BY <4>2, <5>1 DEF Shape
      <4> QED
        BY <1>3, <4>5, <4>6
    <3> QED
      BY <3>1, <3>2
  <2>3. ~Handling(n, StopMsg) /\ ~Handling(n, StopMsg)'
    <3>1. ~Handling(n, StopMsg)
      BY <1>1 DEF Handling, Handle
    <3>2. v = << >> \/ v[1].op # "handle"
      BY <1>3, <1>6, <1>8 DEF v
    <3> QED
      BY <3>1, <3>2 DEF Handling, Handle, v
  <2> QED
    BY <1>1, <1>3, <1>5, <2>1, <2>2, <2>3 DEF NodeInv
<1> QED
  BY <1>16, <1>17, <1>18 DEF Sound

(* A step of the loop of a node keeps the invariant. *)
LEMMA DrainLoop ==
  ASSUME NEW E, E = {}, NEW S \in SUBSET {StopMsg}, Carried(E, S), Sound, ~pipeCtx, errq' = {},
         active \in [Nodes -> Int], NEW n \in Nodes,
         \A k \in 1 .. Len(ctl[n]) : pc[n] # "gone" => ctl[n][k].type # "terminate", LoopStep(n)
  PROVE  Sound'
<1>1. ASSUME HandleBarrier(n) PROVE FALSE
  <2>1. pc[n] = "loop" /\ work[n] # << >> /\ Head(work[n]).op = "handle" /\ Head(work[n]).msg.kind = "barrier"
    BY <1>1 DEF HandleBarrier, Doing
  <2>2. work[n][1].msg \in DataMsgs(Nodes) \cup {StopMsg} /\ Head(work[n]) = work[n][1]
    BY <2>1, AtWork
  <2> QED
    BY <2>1, <2>2 DEF DataMsgs, StopMsg
<1>2. ASSUME SendFails(n) PROVE FALSE
  <2>1. pc[n] = "loop" /\ work[n] # << >> /\ cancelled[n]
    BY <1>2 DEF SendFails, Doing, CtxDone
  <2> QED
    BY <2>1, AtWork
<1>3. ASSUME ReportCompletion(n) PROVE FALSE
  <2>1. pc[n] = "loop" /\ work[n] # << >> /\ Head(work[n]).op = "report"
    BY <1>3 DEF ReportCompletion, Doing
  <2> QED
    BY <2>1, AtWork
<1> QED
  BY <1>1, <1>2, <1>3, DrainSelect, DrainData, DrainStop, DrainSend, DrainCancel DEF LoopStep

(* The invariant holds at the start. *)
LEMMA DrainInit == Init => DrainInv
<1> SUFFICES ASSUME Init PROVE DrainInv
  OBVIOUS
<1>1. \A n \in Nodes : Cardinality(In(n)) \in Nat
  BY InFinite, FS_CardinalityType
<1>2. \A n \in Nodes : n \notin Sources => Cardinality(In(n)) # 0
  <2>1. ASSUME NEW n \in Nodes, n \notin Sources
        PROVE  Cardinality(In(n)) # 0
    <3>1. In(n) # {}
      BY <2>1, PipelineAssumption DEF In
    <3> QED
      BY <2>1, <3>1, InFinite, FS_EmptySet
  <2> QED
    BY <2>1
<1>3. ASSUME NEW e \in Edges
      PROVE  /\ e[1] \in Nodes /\ e[2] \in Nodes
             /\ \A y : ~HasAt(e, y)
             /\ StopLastAt(e) /\ ~StopPut(e) /\ ~StopTaken(e) /\ Count(e[1]) = 0
  <2>1. e[1] \in Nodes /\ e[2] \in Nodes
    BY EdgeEnds
  <2>2. buf[e] = << >> /\ merged[e[2]] = << >> /\ held[e[2]] = << >> /\ handled[e[1]] = {}
    BY <2>1 DEF Init
  <2>3. (\A y : ~HasAt(e, y)) /\ StopLastAt(e)
    BY <2>2 DEF HasAt, Has, StopLastAt, StopLast
  <2>4. ~Ended(e[1]) /\ Count(e[1]) = 0
    <3>1. CASE e[1] \in Sources
      BY <3>1 DEF Init, Ended, Count
    <3>2. CASE e[1] \notin Sources
      BY <1>2, <2>1, <2>2, <3>2, FS_EmptySet DEF Init, Ended, Count
    <3> QED
      BY <3>1, <3>2
  <2> QED
    BY <2>1, <2>3, <2>4 DEF StopPut, StopTaken
<1>4. \A e \in Edges : EdgeInv(e)
  BY <1>3 DEF EdgeInv
<1>5. ASSUME NEW n \in Nodes
      PROVE  NodeInv(n)
  <2>1. Open(n) = In(n)
    BY <1>3 DEF Open, In
  <2>2. /\ pc[n] = "new" /\ work[n] = << >> /\ held[n] = << >> /\ merged[n] = << >>
        /\ ~cancelled[n] /\ (n \notin Sources => active[n] = Cardinality(In(n)))
        /\ (n \in Sources => src[n].outs = << >> /\ src[n].pc = "new")
    BY DEF Init
  <2>3. Shape(n) /\ ~Handling(n, StopMsg)
    BY <2>2 DEF Shape, Handling
  <2>4. n \in Sources => OutputsLeft(n, src[n].outs)
    <3>1. OutputsLeft(n, << >>)
      BY DEF OutputsLeft
    <3> QED
      BY <2>2, <3>1
  <2> QED
    BY <1>1, <2>1, <2>2, <2>3, <2>4 DEF NodeInv
<1>6. Sound
  BY <1>4, <1>5 DEF Sound
<1>7. active \in [Nodes -> Int]
  BY <1>1 DEF Init
<1> QED
  BY <1>6, <1>7 DEF Init, DrainInv, MonitorPast, TermSent

(* No node has failed, or been told to terminate, before either. *)
LEMMA CleanBefore ==
  ASSUME NEW E, NEW S, Carried(E, S), LifeInv, Fresh, DrainInv, [Next]_vars, Clean'
  PROVE  Clean
<1>1. (TermSent => TermSent') /\ (pipeCtx => pipeCtx')
  BY Stable
<1>2. ~pipeCtx /\ ~pipeCtx' /\ errq' = {}
  BY <1>1 DEF Clean
<1>3. errq = {}
  <2>1. ASSUME NEW n \in Nodes, LoopStep(n)
        PROVE  errq \subseteq errq'
    BY <2>1 DEF LoopStep, SelectDone, SelectMerged, SelectControl, WaitControl, HandleData,
                HandleStop, HandleBarrier, Send, SendFails, ReportCompletion, CancelSelf, Return,
                handleCheckpointRequest, lifeVars
  <2>2. ASSUME NEW n \in Nodes, NodeError(n)
        PROVE  FALSE
    BY <1>2, <2>2 DEF NodeError
  <2>3. ASSUME NEW c \in Calls, CallStep(c)
        PROVE  errq' = errq
    BY <2>3 DEF CallStep, Reject, PauseResume, ReadState, Stop, Terminate, SendControl,
                SendControlFails, ReturnCall
  <2>4. ASSUME NEW s \in Sources, SourceStep(s)
        PROVE  errq' = errq
    BY <2>4 DEF SourceStep, SourceEmit, SourceSend, SourceReturn, SourceDone, lifeVars
  <2> QED
    BY <1>2, <2>1, <2>2, <2>3, <2>4 DEF Next, vars, lifeVars, Start, Merge, MonitorStep, MonitorRead,
                                        MonitorDone
<1>4. ASSUME TermSent
      PROVE  MonitorPast /\ monitor.read \notin {"terminated", "error"}
  <2>1. MonitorPast' /\ monitor'.read \notin {"terminated", "error"}
    BY <1>1, <1>4 DEF Clean
  <2>2. CASE UNCHANGED monitor
    BY <2>1, <2>2 DEF MonitorPast
  <2>3. CASE Start
    BY <2>1, <2>3 DEF Start, MonitorPast
  <2>4. CASE MonitorRead
    BY <1>4, <2>1, <2>4 DEF MonitorRead, DrainInv, MonitorPast
  <2>5. CASE MonitorDone
    BY <2>1, <2>5 DEF MonitorDone, MonitorPast
  <2>6. ASSUME NEW c \in Calls, CallStep(c)
        PROVE  UNCHANGED monitor
    BY <2>6 DEF CallStep, Reject, PauseResume, ReadState, Stop, Terminate, SendControl,
                SendControlFails, ReturnCall
  <2> QED
    BY <2>2, <2>3, <2>4, <2>5, <2>6, FlowLeavesLife DEF Next, vars, lifeVars, NodeError, MonitorStep
<1> QED
  BY <1>2, <1>3, <1>4 DEF Clean

(* The last part of the invariant: what a step does while nothing fails. *)
LEMMA SoundStep ==
  ASSUME NEW E, E = {}, NEW S \in SUBSET {StopMsg}, Carried(E, S), LifeInv, Fresh, DrainInv, Clean,
         ~pipeCtx', errq' = {}, [Next]_vars
  PROVE  Sound'
<1>1. Sound /\ ~pipeCtx /\ active \in [Nodes -> Int]
  BY DEF DrainInv, Clean
<1>2. \A n \in Nodes : \A k \in 1 .. Len(ctl[n]) : pc[n] # "gone" => ctl[n][k].type # "terminate"
  BY DEF DrainInv, Clean
<1>3. CASE Start
  BY <1>1, <1>3, DrainStart
<1>4. ASSUME NEW s \in Sources, SourceStep(s)
      PROVE  Sound'
  BY <1>1, <1>4, DrainSource
<1>5. ASSUME NEW e \in Edges, Merge(e)
      PROVE  Sound'
  BY <1>1, <1>5, DrainMerge
<1>6. ASSUME NEW n \in Nodes, LoopStep(n)
      PROVE  Sound'
  <2>1. \A k \in 1 .. Len(ctl[n]) : pc[n] # "gone" => ctl[n][k].type # "terminate"
    BY <1>2
  <2> QED
    BY <1>1, <1>6, <2>1, DrainLoop
<1>7. ASSUME NEW n \in Nodes, NodeError(n)
      PROVE  Sound'
  BY <1>7 DEF NodeError
<1>8. ASSUME NEW c \in Calls, CallStep(c)
      PROVE  UNCHANGED <<buf, merged, held, pc, work, cancelled, active, handled, src>>
  BY <1>8 DEF CallStep, Reject, PauseResume, ReadState, Stop, Terminate, SendControl,
              SendControlFails, ReturnCall,
              flowVars, loopVars
<1>9. ASSUME MonitorStep \/ UNCHANGED vars
      PROVE  UNCHANGED <<buf, merged, held, pc, work, cancelled, active, handled, src>>
  BY <1>9 DEF MonitorStep, MonitorRead, MonitorDone, vars, flowVars, loopVars
<1> QED
  BY <1>1, <1>3, <1>4, <1>5, <1>6, <1>7, <1>8, <1>9, Unmoved DEF Next

(* The invariant is kept. *)
LEMMA DrainStep ==
  ASSUME NEW E, E = {}, NEW S \in SUBSET {StopMsg}, StopMsg \in S, Carried(E, S),
         LifeInv, Fresh, DrainInv, "stop" \notin Calls, "stop2" \notin Calls, [Next]_vars
  PROVE  Carried(E, S)' /\ DrainInv'
<1>0. \A c \in Calls : ~IsStop(c)
  BY DEF IsStop, Method
<1>1. Carried(E, S)'
  <2>1. \A c \in Calls : ~Stop(c)
    BY <1>0 DEF Stop
  <2>2. E \in SUBSET Nat
    OBVIOUS
  <2> QED
    BY <2>1, <2>2, CarriedStep
<1>2. (TermSent => TermSent') /\ (pipeCtx => pipeCtx')
  BY Stable
<1>3. \A n \in Nodes :
        \A k \in 1 .. Len(ctl'[n]) : ctl'[n][k].type = "terminate" => TermSent'
  BY FinalControl DEF DrainInv
<1>4. /\ cancelled' \in [Nodes -> BOOLEAN]
      /\ \A n \in Nodes :
           pc'[n] = "gone" => cancelled'[n] \/ pipeCtx' \/ TermSent' \/ errq' # {}
      /\ \A n \in Nodes : pc[n] = "gone" => pc'[n] = "gone"
  BY FinalGone DEF DrainInv
<1>5. active' \in [Nodes -> Int]
  <2>1. ASSUME NEW n \in Nodes, LoopStep(n)
        PROVE  active' = active \/ active' = [active EXCEPT ![n] = @ - 1]
    BY <2>1 DEF LoopStep, SelectDone, SelectMerged, SelectControl, WaitControl, HandleData,
                HandleStop, HandleBarrier, Send, SendFails, ReportCompletion, CancelSelf
  <2>2. ASSUME NEW c \in Calls, CallStep(c)
        PROVE  active' = active
    BY <2>2 DEF CallStep, Reject, PauseResume, ReadState, Stop, Terminate, SendControl,
                SendControlFails, ReturnCall,
                loopVars
  <2>3. ASSUME NEW s \in Sources, SourceStep(s)
        PROVE  active' = active
    BY <2>3 DEF SourceStep, SourceEmit, SourceSend, SourceReturn, SourceDone, loopVars
  <2>4. active \in [Nodes -> Int]
    BY DEF DrainInv
  <2>5. ASSUME NEW n \in Nodes, LoopStep(n)
        PROVE  active' \in [Nodes -> Int]
    BY <2>1, <2>4, <2>5
  <2> QED
    BY <2>2, <2>3, <2>4, <2>5 DEF Next, vars, loopVars, Start, Merge, NodeError, MonitorStep,
                                  MonitorRead, MonitorDone
<1>6. /\ MonitorPast' => \A n \in Nodes : pc'[n] = "gone"
      /\ TermSent' /\ ~MonitorPast' => state' \in {"terminated", "error"}
      /\ state' = "stopped" => monitor'.pc = "done" /\ monitor'.read \notin {"terminated", "error"}
  <2>0. /\ MonitorPast => \A n \in Nodes : pc[n] = "gone"
        /\ TermSent /\ ~MonitorPast => state \in {"terminated", "error"}
        /\ state = "stopped" => monitor.pc = "done" /\ monitor.read \notin {"terminated", "error"}
    BY DEF DrainInv
  <2>1. CASE UNCHANGED <<state, pipeCtx, call, epoch, monitor>>
    BY <1>4, <2>0, <2>1 DEF MonitorPast, TermSent
  <2>2. CASE Start
    BY <2>0, <2>2 DEF Start, MonitorPast, TermSent, LifeInv
  <2>3. ASSUME NEW n \in Nodes, NodeError(n)
        PROVE  state' = "error" /\ monitor' = monitor
    BY <2>3 DEF NodeError
  <2>4. ASSUME NEW c \in Calls, CallStep(c)
        PROVE  /\ monitor' = monitor
               /\ state' = "stopped" => state = "stopped"
               /\ state' = state \/ state' = "terminated" \/ state \in {"running", "paused"}
               /\ TermSent' => TermSent \/ state' = "terminated"
    <3>1. CASE Terminate(c)
      BY <3>1 DEF Terminate
    <3>2. CASE ~Terminate(c)
      <4>1. monitor' = monitor
        BY <2>4 DEF CallStep, Reject, PauseResume, ReadState, Stop, Terminate, SendControl,
                    SendControlFails, ReturnCall
      <4>2. /\ state' = "stopped" => state = "stopped"
            /\ state' = state \/ state \in {"running", "paused"}
        BY <1>0, <2>4, <3>2 DEF CallStep, Reject, PauseResume, ReadState, Stop, SendControl,
                                SendControlFails, ReturnCall
      <4>3. TermSent' => TermSent
        BY <1>0, <2>4, <3>2 DEF CallStep, Reject, PauseResume, ReadState, Stop, SendControl,
                                SendControlFails, ReturnCall,
                          TermSent, LifeInv, Method
      <4> QED
        BY <4>1, <4>2, <4>3
    <3> QED
      BY <3>1, <3>2
  <2>5. CASE MonitorRead
    BY <1>4, <2>0, <2>5 DEF MonitorRead, MonitorPast, loopVars
  <2>6. CASE MonitorDone
    BY <1>4, <2>0, <2>6 DEF MonitorDone, MonitorPast, TermSent
  <2>7. ASSUME monitor' = monitor, state' = "error"
        PROVE  /\ MonitorPast' => \A n \in Nodes : pc'[n] = "gone"
               /\ TermSent' /\ ~MonitorPast' => state' \in {"terminated", "error"}
               /\ state' # "stopped"
    BY <1>4, <2>0, <2>7 DEF MonitorPast
  <2>8. ASSUME NEW c \in Calls, CallStep(c)
        PROVE  /\ MonitorPast' => \A n \in Nodes : pc'[n] = "gone"
               /\ TermSent' /\ ~MonitorPast' => state' \in {"terminated", "error"}
               /\ state' = "stopped" => monitor'.pc = "done" /\ monitor'.read \notin {"terminated", "error"}
    BY <1>4, <2>0, <2>4, <2>8 DEF MonitorPast
  <2> QED
    BY <2>1, <2>2, <2>3, <2>5, <2>6, <2>7, <2>8, FlowLeavesLife DEF Next, vars, lifeVars, MonitorStep
<1>7. Clean' => Sound'
  <2> SUFFICES ASSUME Clean' PROVE Sound'
    OBVIOUS
  <2>1. Clean
    BY CleanBefore
  <2> QED
    BY <2>1, SoundStep DEF Clean
<1> QED
  BY <1>1, <1>3, <1>4, <1>5, <1>6, <1>7 DEF DrainInv

(* A pipeline that has come to an end by itself has handled everything. *)
LEMMA DrainEnd ==
  ASSUME DrainInv
  PROVE  Drained
<1> SUFFICES ASSUME state = "stopped", errq = {}, ~pipeCtx, NEW e \in Edges, e[1] \notin Fails
             PROVE  Produced(e[1]) \subseteq handled[e[2]]
  BY DEF Drained
<1>1. MonitorPast /\ Clean /\ Sound
  BY DEF DrainInv, MonitorPast, Clean
<1>2. e[2] \in Nodes /\ e[2] \notin Sources /\ e \in In(e[2]) /\ EdgeInv(e) /\ NodeInv(e[2])
  BY <1>1, EdgeEnds DEF In, Sound
<1>3. active[e[2]] = 0 /\ work[e[2]] = << >>
  BY <1>1, <1>2 DEF DrainInv, NodeInv
<1>4. StopTaken(e) /\ ClearAt(e)
  BY <1>1, <1>2, <1>3, AllTaken
<1>5. ASSUME NEW y
      PROVE  ~HasAt(e, y)
  <2>1. Packed(e, y).from = e
    BY DEF Packed
  <2>2. \A k \in 1 .. Len(buf[e]) : FALSE
    BY <1>4 DEF ClearAt, Clear
  <2> QED
    BY <1>4, <2>1, <2>2 DEF ClearAt, Clear, NoneFrom, HasAt, Has
<1>6. \A y : ~Unsent(e, y) /\ ~Handling(e[2], y)
  BY <1>3, <1>4 DEF Unsent, StopTaken, StopPut, Handling
<1>7. \A k \in 1 .. Count(e[1]) : DataMsg(e[1], k) \in handled[e[2]]
  BY <1>2, <1>5, <1>6 DEF EdgeInv, Kept
<1> QED
  BY <1>7 DEF Produced, Count

(* No message is lost: when a pipeline on which nobody calls Stop is        *)
(* Stopped and no node has failed, the node behind every edge has handled   *)
(* all that the node in front of it produced, for every graph, all          *)
(* capacities, and however Pause, Resume and Terminate race with it         *)
(* (buffer.go, runtime.go handleSignal and waitForResume, pipeline.go       *)
(* Start).                                                                  *)
THEOREM DrainedCorrect ==
  ASSUME "stop" \notin Calls, "stop2" \notin Calls
  PROVE  Spec => []Drained
<1>1. PICK E : E = {}
  OBVIOUS
<1>2. PICK S \in SUBSET {StopMsg} : StopMsg \in S
  OBVIOUS
<1> DEFINE Inv == LifeInv /\ Fresh /\ DrainInv /\ Carried(E, S)
<1>3. Init => Inv
  BY LifeInit, FinalInit, DrainInit, CarriedInit
<1>4. Inv /\ [Next]_vars => Inv'
  BY <1>1, <1>2, LifeStep, FreshStep, DrainStep
<1>5. Inv => Drained
  BY DrainEnd
<1> QED
  BY <1>3, <1>4, <1>5, PTL DEF Spec
=============================================================================
