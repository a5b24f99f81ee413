---------------------------- MODULE MCWorkerPool ----------------------------
(* The operators and error strategies with which WorkerPool is checked. *)
EXTENDS WorkerPool

Setup(p, s) == [pool |-> p, strategy |-> s]

AllSetups ==
  {Setup("plain", "deadletter"), Setup("plain", "fail"), Setup("engine", "skip"),
   Setup("engine", "deadletter"), Setup("engine", "fail"), Setup("nodes", "deadletter")}

EngineSkip == {Setup("engine", "skip")}
EngineFail == {Setup("engine", "fail")}
NodesSkip == {Setup("nodes", "skip")}
PlainDeadLetter == {Setup("plain", "deadletter")}
=============================================================================
