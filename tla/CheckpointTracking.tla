------------------------- MODULE CheckpointTracking -------------------------
(***************************************************************************)
(* What the checkpoint controller promises (the comments of controller.go):*)
(* an epoch is complete only when every node has snapshotted it, the graph *)
(* is quiescent only when every node has stopped and some epoch is         *)
(* complete, and neither verdict is ever taken back.                       *)
(***************************************************************************)
CONSTANTS Nodes, Epochs

VARIABLES
  snapshotted,  \* the epochs each node has snapshotted
  stopped,      \* the nodes whose loop has returned
  complete,     \* the epochs declared complete
  quiescent     \* quiescence has been declared

vars == <<snapshotted, stopped, complete, quiescent>>

Init ==
  /\ snapshotted = [n \in Nodes |-> {}]
  /\ stopped = {}
  /\ complete = {}
  /\ quiescent = FALSE

Snapshot(n, e) ==
  /\ n \notin stopped
  /\ snapshotted' = [snapshotted EXCEPT ![n] = @ \cup {e}]
  /\ UNCHANGED <<stopped, complete, quiescent>>

StopNode(n) ==
  /\ stopped' = stopped \cup {n}
  /\ UNCHANGED <<snapshotted, complete, quiescent>>

(* Quiescence may be declared in the step that completes an epoch. *)
Complete(e) ==
  /\ \A n \in Nodes : e \in snapshotted[n]
  /\ complete' = complete \cup {e}
  /\ quiescent' \in {quiescent, TRUE}
  /\ quiescent' => stopped = Nodes
  /\ UNCHANGED <<snapshotted, stopped>>

Quiesce ==
  /\ stopped = Nodes
  /\ complete # {}
  /\ quiescent' = TRUE
  /\ UNCHANGED <<snapshotted, stopped, complete>>

Next ==
  \/ \E n \in Nodes : StopNode(n) \/ \E e \in Epochs : Snapshot(n, e)
  \/ \E e \in Epochs : Complete(e)
  \/ Quiesce

Spec == Init /\ [][Next]_vars
=============================================================================
