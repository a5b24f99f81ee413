---------------------------- MODULE MCNodeTimers ----------------------------
(* The operators and environments in which module NodeTimers is checked. *)
EXTENDS NodeTimers

Setup(kd, reqs, l, ks, d) == [kind |-> kd, requests |-> reqs, lives |-> l, keys |-> ks, data |-> d]

AllSetups ==
  {Setup("sleep", {}, 2, {"a"}, 2), Setup("sleep", {"pause", "resume"}, 1, {"a"}, 2),
   Setup("debounce", {}, 1, {"a", "b"}, 3), Setup("dedup", {}, 1, {"a", "b"}, 3),
   Setup("tick", {"pause", "terminate"}, 1, {"a"}, 1)}

(* A Sleep that is restored; one that is paused and resumed. *)
RestoredSleep == {Setup("sleep", {}, 2, {"a"}, 2)}
PausedSleep == {Setup("sleep", {"pause", "resume"}, 1, {"a"}, 2)}
=============================================================================
