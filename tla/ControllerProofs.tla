-------------------------- MODULE ControllerProofs --------------------------
(***************************************************************************)
(* Proofs about Controller, for every finite set of nodes, every set of    *)
(* epochs and every channel capacity: the persistence callback runs once   *)
(* for each complete checkpoint, and the controller implements what        *)
(* CheckpointTracking promises.                                            *)
(***************************************************************************)
EXTENDS Controller, FiniteSetTheorems, SequenceTheorems, TLAPS

Completions == [node : Nodes, epoch : Epochs]

-----------------------------------------------------------------------------
(* The inductive invariant: what the controller believes never runs ahead  *)
(* of what the nodes have done, wherever the report is on its way.         *)

(* A completion being sent is of an epoch the node has snapshotted. *)
ReportedBySender ==
  \A n \in Nodes : node[n] = "report" => reporting[n] \in snapshotted[n]

(* So is every completion that waits in the channel. *)
ReportedInChannel ==
  \A k \in 1 .. Len(completionCh) :
    completionCh[k].epoch \in snapshotted[completionCh[k].node]

(* And every node the controller has recorded for an epoch. *)
RecordedSnapshots ==
  \A e \in Epochs : \A n \in checkpoints[e].nodes : e \in snapshotted[n]

(* The stop reports are of nodes whose loop has returned. *)
StopsAreReal ==
  /\ \A k \in 1 .. Len(stoppedCh) : node[stoppedCh[k]] = "gone"
  /\ \A n \in stoppedNodes : node[n] = "gone"

(* A complete checkpoint is tracked: InitiateCheckpoint does not replace it. *)
CompleteIsTracked == \A e \in Epochs : checkpoints[e].complete => checkpoints[e].tracked

(* Quiescence has been declared only after every node has gone. *)
QuiescentIsStopped == quiescent => \A n \in Nodes : node[n] = "gone"

TrackInv ==
  /\ TypeOK
  /\ ReportedBySender /\ ReportedInChannel /\ RecordedSnapshots
  /\ CompleteIsTracked /\ StopsAreReal /\ QuiescentIsStopped
  /\ CallbackOnce

-----------------------------------------------------------------------------
(* AllReported counts: for a set of node identifiers it means all of them. *)
LEMMA AllReportedMeansAll ==
  ASSUME NEW nodes \in SUBSET Nodes, AllReported(nodes)
  PROVE  nodes = Nodes
BY ControllerAssumption, FS_Subset DEF AllReported

(* checkQuiescenceLocked counts as well. *)
LEMMA QuiescenceMeansAll ==
  ASSUME NEW stops \in SUBSET Nodes, NEW cps, checkQuiescenceLocked(stops, cps)
  PROVE  stops = Nodes /\ \E e \in Epochs : cps[e].complete
<1>1. Cardinality(stops) <= Cardinality(Nodes) /\ Cardinality(Nodes) \in Nat
      /\ Cardinality(stops) \in Nat
  BY ControllerAssumption, FS_Subset, FS_CardinalityType
<1>2. Cardinality(stops) >= Cardinality(Nodes)
  BY DEF checkQuiescenceLocked
<1>3. Cardinality(Nodes) = Cardinality(stops)
  BY <1>1, <1>2
<1> QED
  BY <1>3, ControllerAssumption, FS_Subset DEF checkQuiescenceLocked

-----------------------------------------------------------------------------
(* The initial states satisfy TrackInv. *)
LEMMA InitTrackInv == Init => TrackInv
<1> SUFFICES ASSUME Init PROVE TrackInv
  OBVIOUS
<1>1. TypeOK
  <2>1. Untracked \in CheckpointInfo
    BY DEF Untracked, CheckpointInfo
  <2>2. checkpoints \in [Epochs -> CheckpointInfo]
    BY <2>1 DEF Init
  <2>3. quiescent \in BOOLEAN /\ ctxDone \in BOOLEAN /\ done \in BOOLEAN
    BY DEF Init
  <2> QED
    BY <2>2, <2>3 DEF Init, TypeOK
<1>2. \A e \in Epochs : checkpoints[e].nodes = {} /\ checkpoints[e].complete = FALSE
  BY DEF Init, Untracked
<1>3. ReportedBySender /\ ReportedInChannel /\ StopsAreReal /\ QuiescentIsStopped
  BY DEF Init, ReportedBySender, ReportedInChannel, StopsAreReal, QuiescentIsStopped
<1>4. RecordedSnapshots /\ CompleteIsTracked
  BY <1>2 DEF RecordedSnapshots, CompleteIsTracked
<1>5. CallbackOnce
  BY <1>2 DEF Init, CallbackOnce, CompleteEpochs
<1> QED
  BY <1>1, <1>3, <1>4, <1>5 DEF TrackInv

(* TakeSnapshot keeps TrackInv. *)
LEMMA TakeSnapshotTrackInv ==
  ASSUME TrackInv, NEW n \in Nodes, NEW e \in Epochs, TakeSnapshot(n, e)
  PROVE  TrackInv'
<1> USE DEF TrackInv, TypeOK, TakeSnapshot, ctlVars
<1>1. TypeOK'
  OBVIOUS
<1>2. \A m \in Nodes : snapshotted[m] \subseteq snapshotted'[m]
  OBVIOUS
<1>3. ReportedBySender'
  BY <1>2 DEF ReportedBySender
<1>4. ReportedInChannel'
  BY <1>2 DEF ReportedInChannel
<1>5. RecordedSnapshots'
  BY <1>2 DEF RecordedSnapshots, CheckpointInfo
<1>6. StopsAreReal' /\ QuiescentIsStopped'
  BY DEF StopsAreReal, QuiescentIsStopped
<1>7. CallbackOnce' /\ CompleteIsTracked'
  <2>1. UNCHANGED <<checkpoints, callbacks>>
    OBVIOUS
  <2>2. CallbackOnce /\ CompleteIsTracked
    OBVIOUS
  <2> QED
    BY ONLY <2>1, <2>2 DEF CallbackOnce, CompleteEpochs, CompleteIsTracked
<1> QED
  BY <1>1, <1>3, <1>4, <1>5, <1>6, <1>7

(* SendCompletion keeps TrackInv. *)
LEMMA SendCompletionTrackInv ==
  ASSUME TrackInv, NEW n \in Nodes, SendCompletion(n)
  PROVE  TrackInv'
<1> DEFINE c == [node |-> n, epoch |-> reporting[n]]
<1> USE DEF TrackInv, TypeOK, SendCompletion, ctlVars
<1>1. reporting[n] \in snapshotted[n] /\ reporting[n] \in Epochs
  BY DEF ReportedBySender
<1>2. c \in Completions /\ completionCh \in Seq(Completions)
  BY <1>1 DEF Completions
<1>3. completionCh' = Append(completionCh, c)
  OBVIOUS
<1>4. completionCh' \in Seq(Completions)
  BY <1>2, <1>3
<1>5. TypeOK'
  BY <1>4 DEF Completions
<1>6. ReportedInChannel'
  <2> SUFFICES ASSUME NEW k \in 1 .. Len(completionCh')
               PROVE  completionCh'[k].epoch \in snapshotted[completionCh'[k].node]
    BY DEF ReportedInChannel
  <2> HIDE DEF c
  <2>1. completionCh'[k] = IF k = Len(completionCh) + 1 THEN c ELSE completionCh[k]
    BY <1>2, <1>3
  <2>2. k = Len(completionCh) + 1 \/ k \in 1 .. Len(completionCh)
    BY <1>2, <1>3
  <2>3. c.epoch \in snapshotted[c.node]
    BY <1>1 DEF c
  <2> QED
    BY <2>1, <2>2, <2>3, <1>2 DEF ReportedInChannel
<1>7. ReportedBySender' /\ RecordedSnapshots' /\ StopsAreReal' /\ QuiescentIsStopped'
  BY DEF ReportedBySender, RecordedSnapshots, StopsAreReal, QuiescentIsStopped
<1>8. CallbackOnce' /\ CompleteIsTracked'
  BY DEF CallbackOnce, CompleteEpochs, CompleteIsTracked
<1> QED
  BY <1>5, <1>6, <1>7, <1>8

(* LeaveLoop keeps TrackInv. *)
LEMMA LeaveLoopTrackInv ==
  ASSUME TrackInv, NEW n \in Nodes, LeaveLoop(n)
  PROVE  TrackInv'
<1> USE DEF TrackInv, TypeOK, LeaveLoop, ctlVars
<1>1. TypeOK'
  OBVIOUS
<1>2. ReportedBySender' /\ ReportedInChannel' /\ RecordedSnapshots'
  BY DEF ReportedBySender, ReportedInChannel, RecordedSnapshots
<1>3. StopsAreReal' /\ QuiescentIsStopped'
  BY DEF StopsAreReal, QuiescentIsStopped
<1>4. CallbackOnce' /\ CompleteIsTracked'
  BY DEF CallbackOnce, CompleteEpochs, CompleteIsTracked
<1> QED
  BY <1>1, <1>2, <1>3, <1>4

(* SendStopped keeps TrackInv. *)
LEMMA SendStoppedTrackInv ==
  ASSUME TrackInv, NEW n \in Nodes, SendStopped(n)
  PROVE  TrackInv'
<1> USE DEF TrackInv, TypeOK, SendStopped, ctlVars
<1>1. TypeOK'
  OBVIOUS
<1>2. ReportedBySender' /\ ReportedInChannel' /\ RecordedSnapshots'
  BY DEF ReportedBySender, ReportedInChannel, RecordedSnapshots
<1>3. \A m \in Nodes : node[m] = "gone" => node'[m] = "gone"
  OBVIOUS
<1>4. StopsAreReal'
  <2>1. \A k \in 1 .. Len(stoppedCh') :
          node'[stoppedCh'[k]] = "gone"
    <3> SUFFICES ASSUME NEW k \in 1 .. Len(stoppedCh')
                 PROVE  node'[stoppedCh'[k]] = "gone"
      OBVIOUS
    <3>1. CASE k \in 1 .. Len(stoppedCh)
      <4>1. stoppedCh'[k] = stoppedCh[k] /\ stoppedCh[k] \in Nodes
        BY <3>1
      <4> QED
        BY <3>1, <4>1, <1>3 DEF StopsAreReal
    <3>2. CASE k = Len(stoppedCh) + 1
      BY <3>2
    <3> QED
      BY <3>1, <3>2
  <2> QED
    BY <2>1, <1>3 DEF StopsAreReal
<1>5. QuiescentIsStopped'
  BY <1>3 DEF QuiescentIsStopped
<1>6. CallbackOnce' /\ CompleteIsTracked'
  BY DEF CallbackOnce, CompleteEpochs, CompleteIsTracked
<1> QED
  BY <1>1, <1>2, <1>4, <1>5, <1>6

(* The initial states satisfy iateTrackInv. *)
LEMMA InitiateTrackInv ==
  ASSUME TrackInv, NEW e \in Epochs, InitiateCheckpoint(e)
  PROVE  TrackInv'
<1> USE DEF TrackInv, TypeOK, InitiateCheckpoint, nodeVars
<1>1. InProgress \in CheckpointInfo /\ InProgress.nodes = {} /\ ~InProgress.complete
  BY DEF InProgress, CheckpointInfo
<1>2. TypeOK'
  BY <1>1
<1>3. \A f \in Epochs : checkpoints'[f] = IF f = e THEN InProgress ELSE checkpoints[f]
  OBVIOUS
<1>4. ~checkpoints[e].complete
  BY DEF CompleteIsTracked
<1>5. CompleteEpochs' = CompleteEpochs
  BY <1>1, <1>3, <1>4 DEF CompleteEpochs
<1>6. CallbackOnce'
  BY <1>5 DEF CallbackOnce
<1>7. RecordedSnapshots' /\ CompleteIsTracked'
  BY <1>1, <1>3 DEF RecordedSnapshots, CompleteIsTracked
<1>8. ReportedBySender' /\ ReportedInChannel' /\ StopsAreReal' /\ QuiescentIsStopped'
  BY DEF ReportedBySender, ReportedInChannel, StopsAreReal, QuiescentIsStopped
<1> QED
  BY <1>2, <1>6, <1>7, <1>8

(* What handleCompletion does to an epoch that is not complete yet. *)
LEMMA RecvCompletionTrackInv ==
  ASSUME TrackInv, RecvCompletion
  PROVE  /\ TrackInv'
         /\ \/ UNCHANGED <<CompleteEpochs, quiescent>>
            \/ \E e \in Epochs : /\ \A n \in Nodes : e \in snapshotted[n]
                                 /\ CompleteEpochs' = CompleteEpochs \cup {e}
                                 /\ quiescent' \in {quiescent, TRUE}
<1> DEFINE c == Head(completionCh)
           e == c.epoch
           nodes == checkpoints[e].nodes \cup {c.node}
           entry == [tracked |-> TRUE, complete |-> AllReported(nodes), nodes |-> nodes]
<1>1. completionCh \in Seq(Completions) /\ completionCh # << >>
  BY DEF TrackInv, TypeOK, RecvCompletion, Completions
<1>2. c \in Completions /\ c = completionCh[1] /\ completionCh' = Tail(completionCh)
      /\ completionCh' \in Seq(Completions)
      /\ \A k \in 1 .. Len(completionCh') : completionCh'[k] = completionCh[k + 1]
                                            /\ k + 1 \in 1 .. Len(completionCh)
  BY <1>1 DEF RecvCompletion
<1>3. e \in Epochs /\ c.node \in Nodes /\ e \in snapshotted[c.node]
  BY <1>1, <1>2 DEF TrackInv, ReportedInChannel, Completions
<1>4. handleCompletion(c) /\ UNCHANGED <<stoppedNodes, stoppedCh, ctxDone, done, nodeVars>>
  BY DEF RecvCompletion
<1>5. UNCHANGED <<node, reporting, snapshotted>>
  BY <1>4 DEF nodeVars
<1>6. ReportedInChannel'
  BY <1>2, <1>5 DEF TrackInv, ReportedInChannel
<1>7. ReportedBySender' /\ StopsAreReal'
  BY <1>4, <1>5 DEF TrackInv, ReportedBySender, StopsAreReal
<1>8. nodes \in SUBSET Nodes /\ \A n \in nodes : e \in snapshotted[n]
  BY <1>3 DEF TrackInv, TypeOK, CheckpointInfo, RecordedSnapshots
<1> HIDE DEF c
<1>9. CASE checkpoints[e].complete
  <2>1. UNCHANGED <<checkpoints, callbacks, quiescent>>
    BY <1>4, <1>9 DEF handleCompletion
  <2>2. TypeOK'
    BY <1>2, <1>4, <1>5, <2>1 DEF TrackInv, TypeOK, Completions
  <2>3. RecordedSnapshots' /\ CompleteIsTracked' /\ QuiescentIsStopped'
        /\ CallbackOnce' /\ UNCHANGED CompleteEpochs
    BY <1>5, <2>1 DEF TrackInv, RecordedSnapshots, CompleteIsTracked, QuiescentIsStopped,
                      CallbackOnce, CompleteEpochs
  <2> QED
    BY <1>6, <1>7, <2>1, <2>2, <2>3 DEF TrackInv
<1>10. CASE ~checkpoints[e].complete
  <2>1. /\ checkpoints' = [checkpoints EXCEPT ![e] = entry]
        /\ callbacks' = IF AllReported(nodes) THEN Append(callbacks, e) ELSE callbacks
        /\ quiescent' = (quiescent \/ (AllReported(nodes)
                                         /\ checkQuiescenceLocked(stoppedNodes, checkpoints')))
    BY <1>4, <1>10 DEF handleCompletion
  <2>2. AllReported(nodes) \in BOOLEAN
    BY DEF AllReported
  <2>3. entry \in CheckpointInfo
    BY <1>8, <2>2 DEF CheckpointInfo
  <2>4. checkpoints' \in [Epochs -> CheckpointInfo]
    BY <1>3, <2>1, <2>3 DEF TrackInv, TypeOK
  <2>5. \A f \in Epochs : checkpoints'[f] = IF f = e THEN entry ELSE checkpoints[f]
    BY <1>3, <2>1 DEF TrackInv, TypeOK
  <2>6. quiescent' \in BOOLEAN /\ quiescent' \in {quiescent, TRUE}
    BY <2>1, Zenon DEF TrackInv, TypeOK
  <2>7. callbacks' \in Seq(Epochs)
    BY <1>3, <2>1 DEF TrackInv, TypeOK
  <2>8. TypeOK'
    BY <1>2, <1>4, <1>5, <2>4, <2>6, <2>7 DEF TrackInv, TypeOK, Completions
  <2>9. entry.nodes = nodes /\ entry.tracked /\ (entry.complete <=> AllReported(nodes))
    OBVIOUS
  <2> HIDE DEF entry, nodes, e
  <2>10. RecordedSnapshots' /\ CompleteIsTracked'
    BY <1>5, <1>8, <2>5, <2>9 DEF TrackInv, RecordedSnapshots, CompleteIsTracked
  <2>11. QuiescentIsStopped'
    <3>1. CASE quiescent
      BY <1>5, <3>1 DEF TrackInv, QuiescentIsStopped
    <3>2. CASE ~quiescent /\ quiescent'
      <4>1. stoppedNodes = Nodes
        BY <2>1, <3>2, QuiescenceMeansAll DEF TrackInv, TypeOK
      <4> QED
        BY <1>5, <4>1 DEF TrackInv, StopsAreReal, QuiescentIsStopped
    <3> QED
      BY <3>1, <3>2 DEF QuiescentIsStopped
  <2>12. CASE AllReported(nodes)
    <3>1. \A n \in Nodes : e \in snapshotted[n]
      BY <1>8, <2>12, AllReportedMeansAll
    <3>2. CompleteEpochs' = CompleteEpochs \cup {e} /\ e \notin CompleteEpochs
      BY <1>3, <1>10, <2>5, <2>9, <2>12 DEF CompleteEpochs
    <3>3. callbacks' = Append(callbacks, e) /\ callbacks \in Seq(Epochs)
      BY <2>1, <2>12 DEF TrackInv, TypeOK
    <3>4. Len(callbacks') = Len(callbacks) + 1 /\ callbacks'[Len(callbacks) + 1] = e
          /\ \A k \in 1 .. Len(callbacks) : callbacks'[k] = callbacks[k]
          /\ Len(callbacks) \in Nat
      BY <1>3, <3>3
    <3>5. CallbackOnce'
      BY <3>2, <3>4 DEF TrackInv, CallbackOnce
    <3> QED
      BY <1>3, <1>6, <1>7, <2>6, <2>8, <2>10, <2>11, <3>1, <3>2, <3>5 DEF TrackInv
  <2>13. CASE ~AllReported(nodes)
    <3>1. CompleteEpochs' = CompleteEpochs
      BY <1>3, <1>10, <2>5, <2>9, <2>13 DEF CompleteEpochs
    <3>2. callbacks' = callbacks /\ quiescent' = quiescent
      BY <2>1, <2>13 DEF TrackInv, TypeOK
    <3>3. CallbackOnce'
      BY <3>1, <3>2 DEF TrackInv, CallbackOnce
    <3> QED
      BY <1>6, <1>7, <2>8, <2>10, <2>11, <3>1, <3>2, <3>3 DEF TrackInv
  <2> QED
    BY <2>12, <2>13
<1> QED
  BY <1>9, <1>10

(* RecvStopped keeps TrackInv. *)
LEMMA RecvStoppedTrackInv ==
  ASSUME TrackInv, RecvStopped
  PROVE  /\ TrackInv'
         /\ \/ quiescent' = quiescent
            \/ /\ quiescent' = TRUE
               /\ \A n \in Nodes : node[n] = "gone"
               /\ CompleteEpochs # {}
<1>1. stoppedCh \in Seq(Nodes) /\ stoppedCh # << >>
  BY DEF TrackInv, TypeOK, RecvStopped
<1>2. /\ Head(stoppedCh) \in Nodes /\ Head(stoppedCh) = stoppedCh[1]
      /\ stoppedCh' = Tail(stoppedCh) /\ stoppedCh' \in Seq(Nodes)
      /\ \A k \in 1 .. Len(stoppedCh') : stoppedCh'[k] = stoppedCh[k + 1]
                                         /\ k + 1 \in 1 .. Len(stoppedCh)
  BY <1>1 DEF RecvStopped
<1>3. UNCHANGED <<checkpoints, callbacks, completionCh, ctxDone, done, node, reporting,
                  snapshotted>>
  BY DEF RecvStopped, nodeVars
<1>4. stoppedNodes' = stoppedNodes \cup {Head(stoppedCh)}
      /\ quiescent' = (quiescent \/ checkQuiescenceLocked(stoppedNodes', checkpoints))
  BY DEF RecvStopped, handleNodeStopped
<1>5. stoppedNodes' \in SUBSET Nodes
  BY <1>2, <1>4 DEF TrackInv, TypeOK
<1>6. quiescent' \in BOOLEAN
  BY <1>4, Zenon DEF TrackInv, TypeOK
<1>7. TypeOK'
  BY <1>2, <1>3, <1>5, <1>6 DEF TrackInv, TypeOK
<1>8. StopsAreReal'
  BY <1>1, <1>2, <1>3, <1>4 DEF TrackInv, StopsAreReal
<1>9. ReportedBySender' /\ ReportedInChannel' /\ RecordedSnapshots' /\ CompleteIsTracked'
  BY <1>3 DEF TrackInv, ReportedBySender, ReportedInChannel, RecordedSnapshots,
              CompleteIsTracked
<1>10. CallbackOnce'
  BY <1>3 DEF TrackInv, CallbackOnce, CompleteEpochs
<1>11. CASE quiescent' = quiescent
  BY <1>3, <1>7, <1>8, <1>9, <1>10, <1>11 DEF TrackInv, QuiescentIsStopped
<1>12. CASE quiescent' # quiescent
  <2>1. quiescent' = TRUE /\ checkQuiescenceLocked(stoppedNodes', checkpoints)
    BY <1>4, <1>6, <1>12, Zenon DEF TrackInv, TypeOK
  <2>2. stoppedNodes' = Nodes /\ CompleteEpochs # {}
    BY <1>5, <2>1, QuiescenceMeansAll DEF CompleteEpochs
  <2>3. \A n \in Nodes : node[n] = "gone"
    BY <1>3, <1>8, <2>2 DEF StopsAreReal
  <2>4. QuiescentIsStopped'
    BY <1>3, <2>3 DEF QuiescentIsStopped
  <2> QED
    BY <1>7, <1>8, <1>9, <1>10, <2>1, <2>2, <2>3, <2>4 DEF TrackInv
<1> QED
  BY <1>11, <1>12

(* A step of the context keeps TrackInv. *)
LEMMA ContextTrackInv ==
  ASSUME TrackInv, Stop \/ CancelPipeline \/ Exit \/ UNCHANGED vars
  PROVE  TrackInv' /\ UNCHANGED <<snapshotted, Stopped, CompleteEpochs, quiescent>>
<1>1. ctxDone' \in BOOLEAN /\ done' \in BOOLEAN
  BY DEF TrackInv, TypeOK, Stop, CancelPipeline, Exit, vars
<1>2. UNCHANGED <<checkpoints, stoppedNodes, quiescent, callbacks, completionCh, stoppedCh,
                  node, reporting, snapshotted>>
  BY DEF Stop, CancelPipeline, Exit, vars, ctlVars, nodeVars
<1>3. TypeOK'
  BY <1>1, <1>2 DEF TrackInv, TypeOK
<1>4. CallbackOnce' /\ UNCHANGED <<Stopped, CompleteEpochs>>
  BY <1>2 DEF TrackInv, CallbackOnce, CompleteEpochs, Stopped
<1>5. ReportedBySender' /\ ReportedInChannel' /\ RecordedSnapshots' /\ CompleteIsTracked'
      /\ StopsAreReal' /\ QuiescentIsStopped'
  BY <1>2 DEF TrackInv, ReportedBySender, ReportedInChannel, RecordedSnapshots,
              CompleteIsTracked, StopsAreReal, QuiescentIsStopped
<1> QED
  BY <1>2, <1>3, <1>4, <1>5 DEF TrackInv

-----------------------------------------------------------------------------
(* Every reachable state satisfies the inductive invariant. *)
THEOREM SpecTrackInv == Spec => []TrackInv
<1>1. TrackInv /\ [Next]_vars => TrackInv'
  <2> SUFFICES ASSUME TrackInv, [Next]_vars PROVE TrackInv'
    OBVIOUS
  <2>1. ASSUME NEW n \in Nodes, NodeStep(n)
        PROVE  TrackInv'
    BY <2>1, TakeSnapshotTrackInv, SendCompletionTrackInv, LeaveLoopTrackInv,
       SendStoppedTrackInv DEF NodeStep
  <2>2. ASSUME NEW e \in Epochs, InitiateCheckpoint(e)
        PROVE  TrackInv'
    BY <2>2, InitiateTrackInv
  <2>3. CASE RecvCompletion
    BY <2>3, RecvCompletionTrackInv
  <2>4. CASE RecvStopped
    BY <2>4, RecvStoppedTrackInv
  <2>5. CASE Stop \/ CancelPipeline \/ Exit \/ UNCHANGED vars
    BY <2>5, ContextTrackInv
  <2> QED
    BY <2>1, <2>2, <2>3, <2>4, <2>5 DEF Next
<1> QED
  BY <1>1, InitTrackInv, PTL DEF Spec

(* The types of the controller's fields and of the nodes' state. *)
THEOREM ControllerTypeOK == Spec => []TypeOK
<1>1. TrackInv => TypeOK
  BY DEF TrackInv
<1> QED
  BY <1>1, SpecTrackInv, PTL

(* handleCompletion hands a checkpoint to the persistence callback exactly  *)
(* once, in the step that completes it, for every order and number of       *)
(* reports.                                                                 *)
THEOREM CallbackExactlyOnce == Spec => []CallbackOnce
<1>1. TrackInv => CallbackOnce
  BY DEF TrackInv
<1> QED
  BY <1>1, SpecTrackInv, PTL

-----------------------------------------------------------------------------
(* The initial states and the steps of the controller, mapped. *)
LEMMA InitRefines == Init => Abstract!Init
BY DEF Init, Abstract!Init, Stopped, CompleteEpochs, Untracked

(* Every step of the controller is a step of the abstract tracking, or stutters. *)
LEMMA StepRefines ==
  ASSUME TrackInv, [Next]_vars
  PROVE  [Abstract!Next]_(Abstract!vars)
<1> USE DEF Abstract!vars
<1>1. ASSUME NEW n \in Nodes, NEW e \in Epochs, TakeSnapshot(n, e)
      PROVE  Abstract!Snapshot(n, e)
  BY <1>1 DEF TakeSnapshot, Abstract!Snapshot, TrackInv, TypeOK, Stopped, CompleteEpochs,
              ctlVars
<1>2. ASSUME NEW n \in Nodes, SendStopped(n)
      PROVE  Abstract!StopNode(n)
  <2>1. Stopped' = Stopped \cup {n}
    BY <1>2 DEF SendStopped, TrackInv, TypeOK, Stopped
  <2> QED
    BY <1>2, <2>1 DEF SendStopped, Abstract!StopNode, CompleteEpochs, ctlVars
<1>3. ASSUME NEW n \in Nodes, SendCompletion(n) \/ LeaveLoop(n)
      PROVE  UNCHANGED Abstract!vars
  <2>1. Stopped' = Stopped
    BY <1>3 DEF SendCompletion, LeaveLoop, TrackInv, TypeOK, Stopped
  <2> QED
    BY <1>3, <2>1 DEF SendCompletion, LeaveLoop, CompleteEpochs, ctlVars
<1>4. ASSUME NEW e \in Epochs, InitiateCheckpoint(e)
      PROVE  UNCHANGED Abstract!vars
  <2>1. \A f \in Epochs : checkpoints'[f] = IF f = e THEN InProgress ELSE checkpoints[f]
    BY <1>4 DEF InitiateCheckpoint, TrackInv, TypeOK
  <2>2. ~checkpoints[e].complete /\ ~InProgress.complete
    BY <1>4 DEF InitiateCheckpoint, TrackInv, CompleteIsTracked, InProgress
  <2>3. CompleteEpochs' = CompleteEpochs
    BY <2>1, <2>2 DEF CompleteEpochs
  <2> QED
    BY <1>4, <2>3 DEF InitiateCheckpoint, Stopped, nodeVars
<1>5. ASSUME RecvCompletion
      PROVE  (\E e \in Epochs : Abstract!Complete(e)) \/ UNCHANGED Abstract!vars
  <2>1. UNCHANGED <<snapshotted, Stopped>>
    BY <1>5 DEF RecvCompletion, nodeVars, Stopped
  <2>2. quiescent' => Stopped = Nodes
    <3>1. QuiescentIsStopped'
      BY <1>5, RecvCompletionTrackInv DEF TrackInv
    <3> QED
      BY <3>1, <2>1 DEF QuiescentIsStopped, Stopped
  <2> QED
    BY <1>5, <2>1, <2>2, RecvCompletionTrackInv DEF Abstract!Complete
<1>6. ASSUME RecvStopped
      PROVE  Abstract!Quiesce \/ UNCHANGED Abstract!vars
  <2>1. UNCHANGED <<snapshotted, Stopped, CompleteEpochs>>
    BY <1>6 DEF RecvStopped, nodeVars, Stopped, CompleteEpochs
  <2> QED
    BY <1>6, <2>1, RecvStoppedTrackInv DEF Abstract!Quiesce, Stopped
<1>7. ASSUME Stop \/ CancelPipeline \/ Exit \/ UNCHANGED vars
      PROVE  UNCHANGED Abstract!vars
  BY <1>7, ContextTrackInv
<1> QED
  BY <1>1, <1>2, <1>3, <1>4, <1>5, <1>6, <1>7 DEF Next, NodeStep, Abstract!Next

(* The controller implements CheckpointTracking: although it learns of      *)
(* snapshots and stops late, out of order and in duplicate, an epoch is     *)
(* complete only when every node has snapshotted it, and quiescence is      *)
(* declared only when every node has stopped.                               *)
THEOREM ControllerImplementsTracking == Spec => ImplementsTracking
<1>1. TrackInv /\ [Next]_vars => [Abstract!Next]_(Abstract!vars)
  BY StepRefines
<1> QED
  BY <1>1, InitRefines, SpecTrackInv, PTL DEF Spec, ImplementsTracking, Abstract!Spec
=============================================================================
