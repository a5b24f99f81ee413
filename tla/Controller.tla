----------------------------- MODULE Controller -----------------------------
(***************************************************************************)
(* The checkpoint controller (controller.go) and the reports it receives   *)
(* from the node runtimes: NodeCompletion after a snapshot and NodeStopped *)
(* when a node's loop returns.  Both are blocking sends that no context    *)
(* interrupts (runtime.go), so a node waits in "report" or "exit" until    *)
(* there is room in the channel, whether or not the controller still runs. *)
(***************************************************************************)
EXTENDS Naturals, Sequences, FiniteSets

CONSTANTS
  Nodes,      \* nodeIDs
  Epochs,     \* bound: the checkpoint epochs
  External,   \* the epochs whose barriers are injected without InitiateCheckpoint
  Cap,        \* capacity of both channels, 64 in NewController
  Duplicates, \* may a node report an epoch more than once?
  Cancels     \* may the pipeline's context be cancelled (Terminate, node error)?

ASSUME ControllerAssumption ==
  /\ IsFiniteSet(Nodes) /\ Nodes # {}
  /\ Epochs \subseteq Nat \ {0}
  /\ External \subseteq Epochs
  /\ Cap \in Nat \ {0}
  /\ Duplicates \in BOOLEAN /\ Cancels \in BOOLEAN

VARIABLES
  checkpoints,   \* per epoch: tracked, status, CompletedNodes; NodeStates has the same keys
  stoppedNodes,  \* the nodes that have reported stopping
  quiescent,
  completionCh, stoppedCh,
  ctxDone,       \* the controller's context is done
  done,          \* run has returned
  callbacks,     \* history: the epochs passed to onCheckpointComplete, in order
  node,          \* per node: where its loop is
  reporting,     \* per node: the epoch of the completion being sent
  snapshotted    \* history: the epochs each node has snapshotted

ctlVars == <<checkpoints, stoppedNodes, quiescent, callbacks>>
nodeVars == <<node, reporting, snapshotted>>
vars == <<ctlVars, completionCh, stoppedCh, ctxDone, done, nodeVars>>

Untracked == [tracked |-> FALSE, complete |-> FALSE, nodes |-> {}]
InProgress == [tracked |-> TRUE, complete |-> FALSE, nodes |-> {}]

Init ==
  /\ checkpoints = [e \in Epochs |-> Untracked]
  /\ stoppedNodes = {}
  /\ quiescent = FALSE
  /\ completionCh = << >>
  /\ stoppedCh = << >>
  /\ ctxDone = FALSE
  /\ done = FALSE
  /\ callbacks = << >>
  /\ node = [n \in Nodes |-> "run"]
  /\ reporting = [n \in Nodes |-> 0]
  /\ snapshotted = [n \in Nodes |-> {}]

-----------------------------------------------------------------------------
(* The nodes. *)

(* A barrier or a checkpoint request makes the node snapshot; its epoch was *)
(* initiated, or its barrier comes from outside.  The aligner does not       *)
(* compare epochs, so a node may report one twice.                          *)
TakeSnapshot(n, e) ==
  /\ node[n] = "run"
  /\ e \in External \/ checkpoints[e].tracked
  /\ Duplicates \/ e \notin snapshotted[n]
  /\ node' = [node EXCEPT ![n] = "report"]
  /\ reporting' = [reporting EXCEPT ![n] = e]
  /\ snapshotted' = [snapshotted EXCEPT ![n] = @ \cup {e}]
  /\ UNCHANGED <<ctlVars, completionCh, stoppedCh, ctxDone, done>>

SendCompletion(n) ==
  /\ node[n] = "report"
  /\ Len(completionCh) < Cap
  /\ completionCh' = Append(completionCh, [node |-> n, epoch |-> reporting[n]])
  /\ node' = [node EXCEPT ![n] = "run"]
  /\ UNCHANGED <<ctlVars, stoppedCh, ctxDone, done, reporting, snapshotted>>

(* The loop returns: stop, ThenStop, cancellation or an error. *)
LeaveLoop(n) ==
  /\ node[n] = "run"
  /\ node' = [node EXCEPT ![n] = "exit"]
  /\ UNCHANGED <<ctlVars, completionCh, stoppedCh, ctxDone, done, reporting, snapshotted>>

SendStopped(n) ==
  /\ node[n] = "exit"
  /\ Len(stoppedCh) < Cap
  /\ stoppedCh' = Append(stoppedCh, n)
  /\ node' = [node EXCEPT ![n] = "gone"]
  /\ UNCHANGED <<ctlVars, completionCh, ctxDone, done, reporting, snapshotted>>

-----------------------------------------------------------------------------
(* The controller. *)

(* The entry of the epoch is replaced.  The code does not look whether there *)
(* is one: that the epoch is new ("begins tracking a new checkpoint epoch") *)
(* is up to the caller.                                                     *)
InitiateCheckpoint(e) ==
  /\ e \notin External
  /\ ~checkpoints[e].tracked
  /\ checkpoints' = [checkpoints EXCEPT ![e] = InProgress]
  /\ UNCHANGED <<stoppedNodes, quiescent, callbacks, completionCh, stoppedCh, ctxDone,
                 done, nodeVars>>

checkQuiescenceLocked(stops, cps) ==
  /\ Cardinality(stops) >= Cardinality(Nodes)
  /\ \E e \in Epochs : cps[e].complete

(* Mutant of AllReported: the last report is not waited for. *)
AllButOneReported(nodes) == Cardinality(nodes) + 1 >= Cardinality(Nodes)

AllReported(nodes) == Cardinality(nodes) = Cardinality(Nodes)

(* Mutant of handleCompletion: a duplicate completes the epoch again. *)
CompletesAgain(c) ==
  LET nodes == checkpoints[c.epoch].nodes \cup {c.node}
  IN  /\ checkpoints' = [checkpoints EXCEPT ![c.epoch] =
           [tracked |-> TRUE, complete |-> AllReported(nodes), nodes |-> nodes]]
      /\ callbacks' = IF AllReported(nodes) THEN Append(callbacks, c.epoch) ELSE callbacks
      /\ quiescent' = (quiescent \/ (AllReported(nodes)
                                       /\ checkQuiescenceLocked(stoppedNodes, checkpoints')))

(* Mutant of handleCompletion: reports of an unknown epoch are dropped. *)
DropsUnknown(c) ==
  IF ~checkpoints[c.epoch].tracked \/ checkpoints[c.epoch].complete
  THEN UNCHANGED <<checkpoints, callbacks, quiescent>>
  ELSE CompletesAgain(c)

handleCompletion(c) ==
  LET nodes == checkpoints[c.epoch].nodes \cup {c.node}
  IN  IF checkpoints[c.epoch].complete
      THEN UNCHANGED <<checkpoints, callbacks, quiescent>>
      ELSE /\ checkpoints' = [checkpoints EXCEPT ![c.epoch] =
                [tracked |-> TRUE, complete |-> AllReported(nodes), nodes |-> nodes]]
           /\ callbacks' = IF AllReported(nodes) THEN Append(callbacks, c.epoch) ELSE callbacks
           /\ quiescent' = (quiescent \/ (AllReported(nodes)
                                            /\ checkQuiescenceLocked(stoppedNodes, checkpoints')))

RecvCompletion ==
  /\ ~done
  /\ completionCh # << >>
  /\ completionCh' = Tail(completionCh)
  /\ handleCompletion(Head(completionCh))
  /\ UNCHANGED <<stoppedNodes, stoppedCh, ctxDone, done, nodeVars>>

handleNodeStopped(n) ==
  /\ stoppedNodes' = stoppedNodes \cup {n}
  /\ quiescent' = (quiescent \/ checkQuiescenceLocked(stoppedNodes', checkpoints))

RecvStopped ==
  /\ ~done
  /\ stoppedCh # << >>
  /\ stoppedCh' = Tail(stoppedCh)
  /\ handleNodeStopped(Head(stoppedCh))
  /\ UNCHANGED <<checkpoints, callbacks, completionCh, ctxDone, done, nodeVars>>

(* The monitor calls controller.Stop when every runtime has returned. *)
Stop ==
  /\ \A n \in Nodes : node[n] = "gone"
  /\ ~ctxDone
  /\ ctxDone' = TRUE
  /\ UNCHANGED <<ctlVars, completionCh, stoppedCh, done, nodeVars>>

(* The pipeline's context, the parent of the controller's, is cancelled. *)
CancelPipeline ==
  /\ Cancels
  /\ ~ctxDone
  /\ ctxDone' = TRUE
  /\ UNCHANGED <<ctlVars, completionCh, stoppedCh, done, nodeVars>>

(* run returns; whatever is still in the channels is never read. *)
Exit ==
  /\ ctxDone
  /\ ~done
  /\ done' = TRUE
  /\ UNCHANGED <<ctlVars, completionCh, stoppedCh, ctxDone, nodeVars>>

NodeStep(n) == (\E e \in Epochs : TakeSnapshot(n, e)) \/ SendCompletion(n) \/ LeaveLoop(n)
                 \/ SendStopped(n)

Next ==
  \/ \E n \in Nodes : NodeStep(n)
  \/ \E e \in Epochs : InitiateCheckpoint(e)
  \/ RecvCompletion \/ RecvStopped \/ Stop \/ CancelPipeline \/ Exit

Spec == Init /\ [][Next]_vars

(* The controller's goroutine keeps running: each ready case of its select  *)
(* is chosen eventually.  A node whose context is cancelled leaves its loop,*)
(* and a blocked send proceeds when there is room again and again: Go       *)
(* serves the senders that wait for a channel in turn.                      *)
Fairness ==
  /\ WF_vars(RecvCompletion) /\ WF_vars(RecvStopped) /\ WF_vars(Exit)
  /\ \A n \in Nodes : /\ SF_vars(SendCompletion(n)) /\ SF_vars(SendStopped(n))
                      /\ WF_vars(ctxDone /\ LeaveLoop(n))

FairSpec == Spec /\ Fairness

-----------------------------------------------------------------------------
CheckpointInfo == [tracked : BOOLEAN, complete : BOOLEAN, nodes : SUBSET Nodes]

(* The types of the controller's fields and of the nodes' state. *)
TypeOK ==
  /\ checkpoints \in [Epochs -> CheckpointInfo]
  /\ stoppedNodes \subseteq Nodes
  /\ quiescent \in BOOLEAN /\ ctxDone \in BOOLEAN /\ done \in BOOLEAN
  /\ completionCh \in Seq([node : Nodes, epoch : Epochs])
  /\ stoppedCh \in Seq(Nodes)
  /\ callbacks \in Seq(Epochs)
  /\ node \in [Nodes -> {"run", "report", "exit", "gone"}]
  /\ reporting \in [Nodes -> Epochs \cup {0}]
  /\ snapshotted \in [Nodes -> SUBSET Epochs]

CompleteEpochs == {e \in Epochs : checkpoints[e].complete}
Stopped == {n \in Nodes : node[n] = "gone"}

(* A checkpoint is handed to the persistence callback exactly once, in the  *)
(* step that completes it, however often and in whatever order nodes report *)
(* (handleCompletion).                                                      *)
CallbackOnce ==
  /\ {callbacks[k] : k \in 1 .. Len(callbacks)} = CompleteEpochs
  /\ \A j, k \in 1 .. Len(callbacks) : callbacks[j] = callbacks[k] => j = k

Abstract == INSTANCE CheckpointTracking
              WITH stopped <- Stopped, complete <- CompleteEpochs

(* The controller implements its promise although it learns of snapshots    *)
(* and stops late, out of order and in duplicate, through two channels.     *)
ImplementsTracking == Abstract!Spec

(* An epoch that every node has snapshotted is completed while the          *)
(* controller runs.                                                         *)
EventuallyComplete ==
  \A e \in Epochs : (\A n \in Nodes : e \in snapshotted[n]) ~> (checkpoints[e].complete \/ ctxDone)

(* Once the pipeline is cancelled "all goroutines exit" (pipeline.go): each *)
(* node gets rid of its stop report.                                        *)
NodesExit == ctxDone ~> \A n \in Nodes : node[n] = "gone"

(* "Nodes will finish processing in-flight data, complete the final         *)
(* checkpoint, and then exit" (pipeline.go): an epoch every node has        *)
(* snapshotted is completed.                                                *)
FinalCheckpointCompletes ==
  \A e \in Epochs : (\A n \in Nodes : e \in snapshotted[n]) ~> checkpoints[e].complete
=============================================================================
