--------------------------- MODULE BarrierAligner ---------------------------
(***************************************************************************)
(* The barrier aligner of a node (barrier_aligner.go) as operators on its  *)
(* state, a record with the fields of the Go struct.  currentEpoch is the  *)
(* epoch of currentBarrier and is written but never read by the code.      *)
(***************************************************************************)
EXTENDS Messages, Sequences, FiniteSets

NoBarrier == [kind |-> "none"]

AlignerState(I) ==
  [aligning : BOOLEAN, currentEpoch : Nat, received : SUBSET I,
   buffered : Seq(DataMsgs(I) \cup {StopMsg}),
   currentBarrier : BarrierMsgs \cup {NoBarrier}]

NewBarrierAligner ==
  [aligning |-> FALSE, currentEpoch |-> 0, received |-> {},
   buffered |-> << >>, currentBarrier |-> NoBarrier]

(* Mutant of StartAlignment: every barrier starts over. *)
AlwaysRestarts(ba, barrier) ==
  [aligning |-> TRUE, currentEpoch |-> barrier.epoch, received |-> {},
   buffered |-> << >>, currentBarrier |-> barrier]

(* The first barrier of an alignment resets what the aligner remembers. *)
StartAlignment(ba, barrier) ==
  IF ba.aligning
  THEN ba
  ELSE [aligning |-> TRUE, currentEpoch |-> barrier.epoch, received |-> {},
        buffered |-> << >>, currentBarrier |-> barrier]

(* Mutant of onBarrier: the last input is not waited for. *)
AlignsOneShort(ba, numInputs, i, barrier) ==
  LET joined == [StartAlignment(ba, barrier) EXCEPT !.received = @ \cup {i}]
  IN  IF Cardinality(joined.received) >= numInputs - 1
      THEN [ba |-> NewBarrierAligner, toProcess |-> joined.buffered,
            aligned |-> joined.currentBarrier]
      ELSE [ba |-> joined, toProcess |-> << >>, aligned |-> NoBarrier]

(* Mutant of onBarrier: the barrier is buffered with the data behind it. *)
BuffersBarrier(ba, numInputs, i, barrier) ==
  LET joined == [StartAlignment(ba, barrier) EXCEPT !.received = @ \cup {i},
                                                    !.buffered = Append(@, barrier)]
  IN  IF Cardinality(joined.received) = numInputs
      THEN [ba |-> NewBarrierAligner, toProcess |-> joined.buffered,
            aligned |-> joined.currentBarrier]
      ELSE [ba |-> joined, toProcess |-> << >>, aligned |-> NoBarrier]

(* Mutant of onBarrier: the buffer is released but not emptied. *)
KeepsBuffer(ba, numInputs, i, barrier) ==
  LET joined == [StartAlignment(ba, barrier) EXCEPT !.received = @ \cup {i}]
  IN  IF Cardinality(joined.received) = numInputs
      THEN [ba |-> [joined EXCEPT !.aligning = FALSE], toProcess |-> joined.buffered,
            aligned |-> joined.currentBarrier]
      ELSE [ba |-> joined, toProcess |-> << >>, aligned |-> NoBarrier]

(* The three results of onBarrier: the new state, the messages released and *)
(* the aligned barrier (none while some input is missing).  The epoch of a  *)
(* barrier that joins a running alignment is not looked at.                 *)
onBarrier(ba, numInputs, i, barrier) ==
  LET started == StartAlignment(ba, barrier)
      joined == [started EXCEPT !.received = @ \cup {i}]
  IN  IF numInputs <= 1
      THEN [ba |-> ba, toProcess |-> << >>, aligned |-> barrier]
      ELSE IF Cardinality(joined.received) = numInputs
           THEN [ba |-> NewBarrierAligner, toProcess |-> joined.buffered,
                 aligned |-> joined.currentBarrier]
           ELSE [ba |-> joined, toProcess |-> << >>, aligned |-> NoBarrier]

(* A message of an input whose barrier has arrived waits in buffered. *)
Holds(ba, i) == ba.aligning /\ i \in ba.received

(* Mutant of OnMessage: a message that has to wait is dropped. *)
DropsHeld(ba, numInputs, i, msg) ==
  IF msg.kind = "barrier"
  THEN onBarrier(ba, numInputs, i, msg)
  ELSE [ba |-> ba, toProcess |-> IF Holds(ba, i) THEN << >> ELSE <<msg>>, aligned |-> NoBarrier]

OnMessage(ba, numInputs, i, msg) ==
  IF msg.kind = "barrier"
  THEN onBarrier(ba, numInputs, i, msg)
  ELSE IF Holds(ba, i)
       THEN [ba |-> [ba EXCEPT !.buffered = Append(@, msg)],
             toProcess |-> << >>, aligned |-> NoBarrier]
       ELSE [ba |-> ba, toProcess |-> <<msg>>, aligned |-> NoBarrier]
=============================================================================
