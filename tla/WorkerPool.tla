----------------------------- MODULE WorkerPool -----------------------------
(***************************************************************************)
(* A node whose operator may run on a pool of goroutines, and what becomes *)
(* of its errors: ConcurrentOperator (concurrent.go), nodes.Concurrent     *)
(* (nodes.go), the error handler (errors.go), the dead-letter runtime and  *)
(* the monitor that ends it (pipeline.go).                                 *)
(*                                                                         *)
(* The node has one input, which brings data and signals in any order: the *)
(* goroutine of a source emits past its barrier, its runtime sends a       *)
(* barrier past its stop, and the workers of a node in front may emit past *)
(* either.  A stop and a ThenStop barrier only cancel the node's context;  *)
(* what else waits in merged may still be taken by the select.  The        *)
(* operator inside may, for each message, emit, return an error or call    *)
(* EmitError.  Sends to the output do not block here; once the context is  *)
(* done they may fail.  The dead-letter buffer stands for the buffer and   *)
(* the merged channel behind it.                                           *)
(***************************************************************************)
EXTENDS Naturals, Sequences, FiniteSets

CONSTANTS
  Setups,    \* what is run: the kind of operator and the error strategy
  Size,      \* number of workers (sem)
  DLCap,     \* capacity of the dead-letter buffer
  Signals,   \* the signals of the input, each at most once
  MaxData    \* bound: data messages

ASSUME WorkerPoolAssumption ==
  /\ Setups \subseteq [pool : {"plain", "engine", "nodes"}, strategy : {"skip", "deadletter", "fail"}]
  /\ Signals \subseteq {"watermark", "barrier", "thenStop", "stop"}
  /\ Size \in Nat \ {0} /\ DLCap \in Nat \ {0} /\ MaxData \in Nat

VARIABLES
  setup,      \* the member of Setups that is run
  pc,         \* the loop: "select", "acquire", "deadletter", "wait", "drain", "forward", "gone"
  cur,        \* the message it handles
  workers,    \* data messages in the hands of goroutines of the pool
  lastErr,    \* << >> or the error that the pool keeps and its message
  cancelled,  \* the node's own context was cancelled
  pipeCtx,    \* the pipeline's context is done
  nodeErr,    \* nr.err: "none", "canceled" or "error"
  out,        \* what the node sent: data, or a signal with the data taken before it
  routed,     \* error handler calls: the message, and the one whose error it is
  dlbuf,      \* the dead-letter buffer
  dl,         \* the dead-letter runtime: "loop" or "gone"
  dlStop,     \* its own context was cancelled
  delivered,  \* dead letters its sink has handled
  monitor,    \* "wait", "stopping", "waiting", "done"
  taken,      \* history: data messages taken from the input
  signals,    \* history: signals taken from the input
  failed,     \* history: messages for which the operator returned an error
  broken      \* history: what went wrong at the dead-letter side, "sink" or "timeout"

loopVars == <<pc, cur, cancelled, nodeErr>>
poolVars == <<workers, lastErr>>
deadVars == <<dlbuf, dl, dlStop, delivered, monitor, broken>>
vars == <<setup, loopVars, poolVars, pipeCtx, out, routed, deadVars, taken, signals, failed>>

CtxDone == pipeCtx \/ cancelled
Pooled == setup.pool # "plain"

Init ==
  /\ setup \in Setups
  /\ pc = "select" /\ cur = << >>
  /\ workers = {} /\ lastErr = << >>
  /\ cancelled = FALSE /\ pipeCtx = FALSE /\ nodeErr = "none"
  /\ out = << >> /\ routed = {}
  /\ dlbuf = << >> /\ dlStop = FALSE /\ delivered = {}
  /\ dl = IF setup.strategy = "deadletter" THEN "loop" ELSE "gone"
  /\ monitor = "wait"
  /\ taken = 0 /\ signals = {} /\ failed = {} /\ broken = {}

-----------------------------------------------------------------------------
(* Errors. *)

(* run returns. *)
Return(err) == pc' = "gone" /\ nodeErr' = err

(* makeErrorHandler: the error is counted; the message is skipped or goes   *)
(* to the dead-letter buffer ...                                            *)
Route(n, cause) ==
  /\ routed' = routed \cup {[msg |-> n, cause |-> cause]}
  /\ pc' = IF setup.strategy = "deadletter" THEN "deadletter" ELSE "select"
  /\ UNCHANGED nodeErr

(* ... or the error is given back and ends the loop. *)
onError(n, cause, err) ==
  IF setup.strategy = "fail"
  THEN routed' = routed \cup {[msg |-> n, cause |-> cause]} /\ Return(err)
  ELSE Route(n, cause)

(* The send to the dead-letter buffer, under no context. *)
SendDeadLetter ==
  /\ pc = "deadletter"
  /\ Len(dlbuf) < DLCap
  /\ dlbuf' = Append(dlbuf, cur[1].n)
  /\ pc' = "select"
  /\ UNCHANGED <<setup, cur, cancelled, nodeErr, poolVars, pipeCtx, out, routed, dl, dlStop,
                 delivered, monitor, broken, taken, signals, failed>>

(* The error of a send under a context that is done, or of the operator. *)
Errs == IF CtxDone THEN {"error", "canceled"} ELSE {"error"}

-----------------------------------------------------------------------------
(* The loop at its select. *)

(* The ctx.Done case, or merged closed by the mergers, which keeps nr.err. *)
SelectDone ==
  /\ pc = "select"
  /\ CtxDone
  /\ pc' = "gone"
  /\ nodeErr' \in {"canceled", nodeErr}
  /\ UNCHANGED <<setup, cur, cancelled, poolVars, pipeCtx, out, routed, deadVars, taken,
                 signals, failed>>

(* ProcessMessage of a plain operator; the result of the handler is dropped *)
(* when it calls EmitError.                                                 *)
ProcessPlain(n) ==
  /\ ~Pooled
  /\ \/ /\ out' = Append(out, [type |-> "data", n |-> n])
        /\ pc' = "select"
        /\ UNCHANGED <<nodeErr, routed, failed>>
     \/ /\ \E err \in Errs : onError(n, n, err)
        /\ failed' = failed \cup {n}
        /\ UNCHANGED out
     \/ Route(n, n) /\ UNCHANGED <<out, failed>>

(* ProcessMessage of a pool: an error of an earlier message is the result   *)
(* for this one; otherwise it needs a worker.                               *)
ProcessPooled(n) ==
  /\ Pooled
  /\ \/ /\ lastErr # << >>
        /\ onError(n, lastErr[1].msg, lastErr[1].err)
     \/ /\ lastErr = << >>
        /\ pc' = "acquire"
        /\ UNCHANGED <<nodeErr, routed>>
  /\ UNCHANGED <<out, failed>>

SelectData ==
  /\ pc = "select"
  /\ taken < MaxData
  /\ taken' = taken + 1
  /\ cur' = <<[type |-> "data", n |-> taken + 1]>>
  /\ ProcessPlain(taken + 1) \/ ProcessPooled(taken + 1)
  /\ UNCHANGED <<setup, cancelled, poolVars, pipeCtx, deadVars, signals>>

(* A signal is taken, each kind once.  All but a stop that nothing has to   *)
(* drain wait for the workers.                                              *)
SelectSignal ==
  /\ pc = "select"
  /\ \E s \in Signals \ signals :
       /\ signals' = signals \cup {s}
       /\ cur' = <<[type |-> s, n |-> taken]>>
       /\ pc' = IF s # "stop" THEN "wait"
                ELSE IF setup.pool = "engine" THEN "drain" ELSE "forward"
  /\ UNCHANGED <<setup, cancelled, nodeErr, poolVars, pipeCtx, out, routed, deadVars, taken, failed>>

-----------------------------------------------------------------------------
(* The pool. *)

(* A slot is free: the message is given to a goroutine. *)
Acquire ==
  /\ pc = "acquire"
  /\ Cardinality(workers) < Size
  /\ workers' = workers \cup {cur[1].n}
  /\ pc' = "select"
  /\ UNCHANGED <<setup, cur, cancelled, nodeErr, lastErr, pipeCtx, out, routed, deadVars, taken,
                 signals, failed>>

(* The context is done while the pool is full, or while it is not. *)
AcquireFails ==
  /\ pc = "acquire"
  /\ CtxDone
  /\ onError(cur[1].n, cur[1].n, "canceled")
  /\ UNCHANGED <<setup, cur, cancelled, poolVars, pipeCtx, out, deadVars, taken, signals, failed>>

WorkerEmits(w) ==
  /\ w \in workers
  /\ workers' = workers \ {w}
  /\ out' = Append(out, [type |-> "data", n |-> w])
  /\ UNCHANGED <<setup, loopVars, lastErr, pipeCtx, routed, deadVars, taken, signals, failed>>

(* The error of a worker is kept, if it is the first. *)
WorkerFails(w) ==
  /\ w \in workers
  /\ workers' = workers \ {w}
  /\ failed' = failed \cup {w}
  /\ \E err \in Errs :
       lastErr' = IF lastErr = << >> THEN <<[msg |-> w, err |-> err]>> ELSE lastErr
  /\ UNCHANGED <<setup, loopVars, pipeCtx, out, routed, deadVars, taken, signals>>

(* EmitError: the error handler is called by the worker, its result is      *)
(* dropped.                                                                 *)
WorkerEmitsError(w) ==
  /\ w \in workers
  /\ workers' = workers \ {w}
  /\ routed' = routed \cup {[msg |-> w, cause |-> w]}
  /\ IF setup.strategy = "deadletter"
     THEN Len(dlbuf) < DLCap /\ dlbuf' = Append(dlbuf, w)
     ELSE UNCHANGED dlbuf
  /\ UNCHANGED <<setup, loopVars, lastErr, pipeCtx, out, dl, dlStop, delivered, monitor, broken,
                 taken, signals, failed>>

(* Mutant of WaitAll: the workers are not waited for. *)
WaitsForNone ==
  /\ pc = "wait"
  /\ IF lastErr = << >>
     THEN pc' = "forward" /\ UNCHANGED <<nodeErr, lastErr>>
     ELSE Return(lastErr[1].err) /\ lastErr' = << >>
  /\ UNCHANGED <<setup, cur, cancelled, workers, pipeCtx, out, routed, deadVars, taken, signals,
                 failed>>

(* Mutant of WaitAll: the error is not looked at. *)
KeepsErrorToItself ==
  /\ pc = "wait"
  /\ workers = {}
  /\ pc' = "forward"
  /\ UNCHANGED <<setup, cur, cancelled, nodeErr, poolVars, pipeCtx, out, routed, deadVars, taken,
                 signals, failed>>

(* HandleWatermark and HandleCheckpoint: all workers are waited for, under  *)
(* no context, and an error they left ends the loop whatever the strategy,  *)
(* as does an error of the operator's own handler.                          *)
WaitAll ==
  /\ pc = "wait"
  /\ workers = {}
  /\ \/ lastErr = << >> /\ pc' = "forward" /\ UNCHANGED nodeErr
     \/ lastErr = << >> /\ Return("error")
     \/ lastErr # << >> /\ Return(lastErr[1].err)
  /\ lastErr' = << >>
  /\ UNCHANGED <<setup, cur, cancelled, workers, pipeCtx, out, routed, deadVars, taken, signals,
                 failed>>

(* Mutant of DrainAll: only the error is looked at. *)
DrainsNone ==
  /\ pc = "drain"
  /\ pc' = "forward"
  /\ lastErr' = << >>
  /\ nodeErr' = IF lastErr = << >> THEN nodeErr ELSE lastErr[1].err
  /\ UNCHANGED <<setup, cur, cancelled, workers, pipeCtx, out, routed, deadVars, taken, signals,
                 failed>>

(* drainIfDrainable: Drain returns when the workers have, or the context is *)
(* done; its error is kept in nr.err and the stop goes on.                  *)
DrainAll ==
  /\ pc = "drain"
  /\ pc' = "forward"
  /\ \/ /\ workers = {}
        /\ lastErr' = << >>
        /\ nodeErr' = IF lastErr = << >> THEN nodeErr ELSE lastErr[1].err
     \/ /\ CtxDone
        /\ nodeErr' = "canceled"
        /\ UNCHANGED lastErr
  /\ UNCHANGED <<setup, cur, cancelled, workers, pipeCtx, out, routed, deadVars, taken, signals,
                 failed>>

(* Mutant of Forward: the node does not stop itself. *)
ForwardOnly ==
  /\ pc = "forward"
  /\ \/ /\ out' = Append(out, cur[1])
        /\ pc' = "select"
        /\ UNCHANGED nodeErr
     \/ /\ CtxDone
        /\ Return("canceled")
        /\ UNCHANGED out
  /\ UNCHANGED <<setup, cur, cancelled, poolVars, pipeCtx, routed, deadVars, taken, signals, failed>>

(* The signal is sent on; a stop and a ThenStop barrier stop the node. *)
Forward ==
  /\ pc = "forward"
  /\ \/ /\ out' = Append(out, cur[1])
        /\ cancelled' = (cancelled \/ cur[1].type \in {"stop", "thenStop"})
        /\ pc' = "select"
        /\ UNCHANGED nodeErr
     \/ /\ CtxDone
        /\ Return("canceled")
        /\ UNCHANGED <<out, cancelled>>
  /\ UNCHANGED <<setup, cur, poolVars, pipeCtx, routed, deadVars, taken, signals, failed>>

-----------------------------------------------------------------------------
(* The rest of the pipeline. *)

(* The errs goroutine cancels the pipeline. *)
NodeError ==
  /\ pc = "gone" /\ nodeErr = "error" /\ ~pipeCtx
  /\ pipeCtx' = TRUE
  /\ UNCHANGED <<setup, loopVars, poolVars, out, routed, deadVars, taken, signals, failed>>

(* The application cancels it. *)
Cancel ==
  /\ ~pipeCtx /\ monitor # "done"
  /\ pipeCtx' = TRUE
  /\ UNCHANGED <<setup, loopVars, poolVars, out, routed, deadVars, taken, signals, failed>>

(* The dead-letter runtime handles a letter; an error of its sink ends it,  *)
(* as it has no error handler.                                              *)
DLHandle ==
  /\ dl = "loop"
  /\ dlbuf # << >> /\ Head(dlbuf) # 0
  /\ dlbuf' = Tail(dlbuf)
  /\ \/ delivered' = delivered \cup {Head(dlbuf)} /\ UNCHANGED <<dl, broken>>
     \/ dl' = "gone" /\ broken' = broken \cup {"sink"} /\ UNCHANGED delivered
  /\ UNCHANGED <<setup, loopVars, poolVars, pipeCtx, out, routed, dlStop, monitor, taken, signals,
                 failed>>

(* The stop (0) stops it. *)
DLHandleStop ==
  /\ dl = "loop"
  /\ dlbuf # << >> /\ Head(dlbuf) = 0
  /\ dlbuf' = Tail(dlbuf)
  /\ dlStop' = TRUE
  /\ UNCHANGED <<setup, loopVars, poolVars, pipeCtx, out, routed, dl, delivered, monitor, broken,
                 taken, signals, failed>>

DLDone ==
  /\ dl = "loop"
  /\ pipeCtx \/ dlStop
  /\ dl' = "gone"
  /\ UNCHANGED <<setup, loopVars, poolVars, pipeCtx, out, routed, dlbuf, dlStop, delivered,
                 monitor, broken, taken, signals, failed>>

(* The node has returned: the monitor turns to the dead letters, if any. *)
MonitorNodes ==
  /\ monitor = "wait"
  /\ pc = "gone"
  /\ monitor' = IF setup.strategy = "deadletter" THEN "stopping" ELSE "done"
  /\ UNCHANGED <<setup, loopVars, poolVars, pipeCtx, out, routed, dlbuf, dl, dlStop, delivered,
                 broken, taken, signals, failed>>

(* Mutant of MonitorSendStop: the dead-letter runtime is stopped at once. *)
MonitorStops ==
  /\ monitor = "stopping"
  /\ dlStop' = TRUE
  /\ monitor' = "waiting"
  /\ UNCHANGED <<setup, loopVars, poolVars, pipeCtx, out, routed, dlbuf, dl, delivered, broken,
                 taken, signals, failed>>

(* It sends a stop, under no context, ... *)
MonitorSendStop ==
  /\ monitor = "stopping"
  /\ Len(dlbuf) < DLCap
  /\ dlbuf' = Append(dlbuf, 0)
  /\ monitor' = "waiting"
  /\ UNCHANGED <<setup, loopVars, poolVars, pipeCtx, out, routed, dl, dlStop, delivered, broken,
                 taken, signals, failed>>

(* ... and waits for the runtime, or ten seconds, whichever is first. *)
MonitorDone ==
  /\ monitor = "waiting"
  /\ monitor' = "done"
  /\ \/ dl = "gone" /\ UNCHANGED <<dlStop, broken>>
     \/ dlStop' = TRUE /\ broken' = broken \cup {"timeout"}
  /\ UNCHANGED <<setup, loopVars, poolVars, pipeCtx, out, routed, dlbuf, dl, delivered, taken,
                 signals, failed>>

-----------------------------------------------------------------------------
LoopStep ==
  \/ SendDeadLetter \/ SelectDone \/ Acquire \/ AcquireFails \/ WaitAll \/ DrainAll \/ Forward

WorkerStep(w) == WorkerEmits(w) \/ WorkerFails(w) \/ WorkerEmitsError(w)

DeadLetterStep == DLHandle \/ DLHandleStop \/ DLDone

MonitorStep == NodeError \/ MonitorNodes \/ MonitorSendStop \/ MonitorDone

Next ==
  \/ LoopStep \/ SelectData \/ SelectSignal
  \/ \E w \in 1 .. MaxData : WorkerStep(w)
  \/ DeadLetterStep \/ MonitorStep \/ Cancel

Spec == Init /\ [][Next]_vars

(* The goroutines go on while they can: user code returns in the end.  The  *)
(* messages are bounded, so every behaviour ends and this is the same as    *)
(* fairness of each goroutine.  Input and cancellation need not come.       *)
FairSpec ==
  Spec /\ WF_vars(LoopStep \/ (\E w \in 1 .. MaxData : WorkerStep(w)) \/ DeadLetterStep \/ MonitorStep)

-----------------------------------------------------------------------------
Ended == signals \cap {"stop", "thenStop"} # {}
Sent(t) == {out[k].n : k \in {j \in 1 .. Len(out) : out[j].type = t}}
Routed == {r.msg : r \in routed}

(* The fields keep their types, no more workers run than the pool has slots *)
(* for, and the dead-letter buffer keeps its capacity.                      *)
TypeOK ==
  /\ pc \in {"select", "acquire", "deadletter", "wait", "drain", "forward", "gone"}
  /\ nodeErr \in {"none", "canceled", "error"}
  /\ Cardinality(workers) <= Size /\ workers \subseteq 1 .. taken
  /\ lastErr \in Seq([msg : 1 .. taken, err : {"canceled", "error"}]) /\ Len(lastErr) <= 1
  /\ {cancelled, pipeCtx, dlStop} \subseteq BOOLEAN
  /\ dlbuf \in Seq(0 .. MaxData) /\ Len(dlbuf) <= DLCap
  /\ delivered \subseteq Routed
  /\ dl \in {"loop", "gone"} /\ monitor \in {"wait", "stopping", "waiting", "done"}

(* The workers are waited for when a watermark or a barrier is handled, and *)
(* when a stop is, unless a ThenStop barrier has cancelled the node before. *)
Behind(j, type) == \E i \in 1 .. j - 1 : out[i].type = type

(* No message overtakes a signal: when a watermark or a barrier is sent on, *)
(* every message taken before it has been emitted or has failed, however    *)
(* the workers run; so has every one before a stop, if the pool is the      *)
(* engine's own and the context was not done before: by the pipeline, or by *)
(* a ThenStop barrier in front.                                             *)
SignalsBehindData ==
  \A j, k \in 1 .. Len(out) :
    /\ out[j].type # "data" /\ j < k
    /\ out[j].type = "stop" => setup.pool = "engine" /\ ~pipeCtx /\ ~Behind(j, "thenStop")
    => out[k].n > out[j].n \/ out[k].type # "data"

(* A barrier or a watermark is sent on only over messages that a pool has   *)
(* processed: once a worker has failed, no checkpoint that includes its     *)
(* message is completed (drainError), whatever the error strategy.  Behind  *)
(* a stop this is not so: Drain has cleared the error.                      *)
CheckpointCovers ==
  Pooled => \A j \in 1 .. Len(out) :
              /\ out[j].type \in {"watermark", "barrier", "thenStop"}
              /\ setup.pool = "engine" => ~Behind(j, "stop")
              => (1 .. out[j].n) \subseteq Sent("data") \cup Routed

(* Messages taken after the node has sent on a stop or a ThenStop barrier.  *)
(* Nobody waits for their workers.                                          *)
Late ==
  {n \in 1 .. taken : \E j \in 1 .. Len(out) :
                         out[j].type \in {"stop", "thenStop"} /\ out[j].n < n}

(* Every message is accounted for: when a node has come to its stop without *)
(* a cancellation, each one it took before it had sent the stop on was      *)
(* emitted, or the operator failed for it, or it went to the error handler. *)
NoneForgotten ==
  pc = "gone" /\ Ended /\ ~pipeCtx /\ setup.pool # "nodes"
    => (1 .. taken) \ Late \subseteq Sent("data") \cup Routed \cup failed

(* When Wait returns, the dead-letter sink has had every message that was   *)
(* routed to it: the monitor's stop is behind them.  Excepted are a sink    *)
(* that failed, the timeout, a cancellation and workers nobody waits for.   *)
DeadLettersDelivered ==
  monitor = "done" /\ setup.strategy = "deadletter" /\ broken = {} /\ ~pipeCtx
    /\ setup.pool # "nodes" => Routed \ Late \subseteq delivered

(* The dead-letter runtime is gone and its buffer is full. *)
Jammed == dl = "gone" /\ Len(dlbuf) = DLCap

(* The pipeline comes to its end after a stop or a cancellation, whatever   *)
(* workers, errors and dead letters are under way, unless the dead-letter   *)
(* side is jammed.                                                          *)
Ends == (Ended \/ pipeCtx) ~> (monitor = "done" \/ Jammed)

(* "Best-effort send to dead-letter buffer.  If the buffer is full or       *)
(* context is cancelled, log and continue" (errors.go).                     *)
EndsAnyway == (Ended \/ pipeCtx) ~> monitor = "done"

(* "OriginalMsg is the message that caused the error" (errors.go). *)
OriginalCaused == \A r \in routed : r.msg = r.cause

(* The stop is behind the results of nodes.Concurrent too: a stop of the    *)
(* node means that it emits no more of what it had taken.                   *)
StopBehindData ==
  \A j, k \in 1 .. Len(out) :
    out[j].type = "stop" /\ ~pipeCtx /\ j < k => out[k].n > out[j].n \/ out[k].type # "data"

(* "ErrorStrategyFailPipeline stops the pipeline on the first error"        *)
(* (errors.go): when a node is gone, an error of its operator is nr.err.    *)
FailureIsSeen ==
  pc = "gone" /\ setup.strategy = "fail" /\ failed # {} /\ ~pipeCtx => nodeErr = "error"
=============================================================================
