-------------------------- MODULE WatermarkHolder ---------------------------
(***************************************************************************)
(* The watermark holder of a node (watermark.go) as operators on its       *)
(* state.  Times are natural numbers and 0 is Go's zero time.  Update      *)
(* returns the new state and the watermark to emit, or NoWatermark.        *)
(***************************************************************************)
EXTENDS Messages

NoWatermark == [kind |-> "none"]

HolderState(I) ==
  [perInput : [I -> [time : Nat, idle : BOOLEAN, received : BOOLEAN]],
   current : Nat]

NewWatermarkHolder(I) ==
  [perInput |-> [i \in I |-> [time |-> 0, idle |-> FALSE, received |-> FALSE]],
   current |-> 0]

Received(perInput) == {i \in DOMAIN perInput : perInput[i].received}
NonIdle(perInput) == {i \in Received(perInput) : ~perInput[i].idle}

(* The smallest non-idle event time; the largest one when all are idle. *)
MinTime(perInput) ==
  CHOOSE t \in {perInput[i].time : i \in NonIdle(perInput)} :
    \A i \in NonIdle(perInput) : t <= perInput[i].time

MaxTime(perInput) ==
  CHOOSE t \in {perInput[i].time : i \in Received(perInput)} :
    \A i \in Received(perInput) : t >= perInput[i].time

(* Mutant of OutputTime: the fastest input decides. *)
FastestInput(perInput) == MaxTime(perInput)

OutputTime(perInput) ==
  IF NonIdle(perInput) = {} THEN MaxTime(perInput) ELSE MinTime(perInput)

(* Mutant of tryAdvance: the output follows the inputs back. *)
FollowsBack(wh) ==
  LET t == OutputTime(wh.perInput)
      allIdle == NonIdle(wh.perInput) = {}
  IN  IF t # wh.current
      THEN [wh |-> [perInput |-> wh.perInput, current |-> t],
            advanced |-> WatermarkMsg(t, allIdle)]
      ELSE [wh |-> wh, advanced |-> NoWatermark]

(* The output only ever moves forward. *)
tryAdvance(wh) ==
  LET t == OutputTime(wh.perInput)
      allIdle == NonIdle(wh.perInput) = {}
  IN  IF t > wh.current
      THEN [wh |-> [perInput |-> wh.perInput, current |-> t],
            advanced |-> WatermarkMsg(t, allIdle)]
      ELSE [wh |-> wh, advanced |-> NoWatermark]

(* No output before every input has reported once. *)
AllReceived(perInput) == Received(perInput) = DOMAIN perInput

Update(wh, i, wm) ==
  LET report == [time |-> wm.time, idle |-> wm.idle, received |-> TRUE]
      updated == [perInput |-> [wh.perInput EXCEPT ![i] = report],
                  current |-> wh.current]
  IN  IF AllReceived(updated.perInput)
      THEN tryAdvance(updated)
      ELSE [wh |-> updated, advanced |-> NoWatermark]
=============================================================================
