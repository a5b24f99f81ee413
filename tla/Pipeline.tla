------------------------------ MODULE Pipeline ------------------------------
(***************************************************************************)
(* A running pipeline (pipeline.go, runtime.go, buffer.go): the bounded    *)
(* buffers on the edges of the graph, the goroutines of every node, the    *)
(* source goroutines, the lifecycle calls of the application and the       *)
(* monitor that ends it all.                                               *)
(*                                                                         *)
(* A handler that sends to several outputs blocks on each of them, so the  *)
(* loop of node n is modelled by the list work[n] of the steps it has      *)
(* still to do: handle a message, send to the remaining outputs, report a  *)
(* completion, cancel its own context.  The loop is at its select when     *)
(* work[n] is empty.                                                       *)
(*                                                                         *)
(* What the controller makes of the reports is the subject of module       *)
(* Controller.  Its channels hold 64 reports and the graphs here are       *)
(* smaller, so the sends to it do not block.  No timers, ticks or dead     *)
(* letters.                                                                *)
(*                                                                         *)
(* Two error paths are left out.  HandleBarrier takes its snapshot: that   *)
(* HandleCheckpoint may fail is in modules NodeRuntime and WorkerPool.  A  *)
(* node that ends because a context is done ends with context.Canceled:    *)
(* the context given to Start has no deadline of its own.                  *)
(***************************************************************************)
EXTENDS BarrierAligner

CONSTANTS
  Nodes,      \* the nodes of the graph
  Sources,    \* those that are sources
  Outputs,    \* per node: its outgoing edges <<from, to>> in order; each is a buffer
  BufCap,     \* capacity of a buffer, with the place in the hand of its merger
  MergedCap,  \* capacity of a node's merged channel
  MaxData,    \* bound: data messages per source
  Calls,      \* the lifecycle calls the application makes, once each
  Serial,     \* the calls that overlap with no other one
  Expires,    \* the calls whose context may expire while they are made
  Fails,      \* nodes whose operator may fail
  Strategies  \* the error strategies it may be configured with

Out(n) == Outputs[n]
Edges == UNION {{Out(n)[k] : k \in 1 .. Len(Out(n))} : n \in Nodes}

ASSUME PipelineAssumption ==
  /\ IsFiniteSet(Nodes) /\ Nodes # {}
  /\ Sources \subseteq Nodes /\ Fails \subseteq Nodes \ Sources
  /\ Outputs \in [Nodes -> Seq(Nodes \X (Nodes \ Sources))]
  /\ \A n \in Nodes : \A j, k \in 1 .. Len(Out(n)) :
       Out(n)[k][1] = n /\ (Out(n)[j] = Out(n)[k] => j = k)
  /\ \A n \in Nodes \ Sources : \E e \in Edges : e[2] = n
  /\ BufCap \in Nat \ {0} /\ MergedCap \in Nat \ {0} /\ MaxData \in Nat
  /\ Calls \subseteq {"pause", "pause2", "resume", "stop", "stop2", "terminate"}
  /\ Serial \subseteq Calls /\ Expires \subseteq Calls
  /\ Strategies \subseteq {"skip", "fail"} /\ Strategies # {}

VARIABLES
  strategy,   \* the error strategy, for all nodes
  state,      \* p.state
  pipeCtx,    \* the pipeline's context is done
  buf,        \* per edge: the buffer
  merged,     \* per node: the merged channel
  ctl,        \* per node: the control channel
  cancelled,  \* per node: the runtime's own context was cancelled
  pc,         \* per node: "loop", "wait" (waitForResume) or "gone"
  work,       \* per node: the steps the loop has still to do
  held,       \* per node: the message waitForResume stands in front of
  ba,         \* per node: the aligner
  active,     \* per node: activeInputs
  paused,     \* per node
  src,        \* per source: its goroutine
  call,       \* per lifecycle call
  epoch,      \* p.stopEpoch
  reports,    \* completions sent to the controller, <<node, epoch>>
  errq,       \* nodes whose error the errs goroutine has not seen yet
  monitor,    \* "wait", "deciding" (with the state it read) or "done"
  handled,    \* history, per node: the data messages handled
  snaps       \* history: snapshots <<node, epoch, data handled by then>>

flowVars == <<buf, merged>>
loopVars == <<cancelled, pc, work, held, ba, active, paused, handled, snaps>>
lifeVars == <<state, pipeCtx, call, epoch, errq, monitor>>
vars == <<flowVars, loopVars, lifeVars, ctl, src, reports, strategy>>

In(n) == {e \in Edges : e[2] = n}
CtxDone(n) == pipeCtx \/ cancelled[n]

(* Steps of a handler. *)
Handle(msg) == [op |-> "handle", msg |-> msg]
SendAll(n, msg) ==
  IF Out(n) = << >> THEN << >> ELSE <<[op |-> "send", outs |-> Out(n), msg |-> msg]>>
Report(e) == [op |-> "report", epoch |-> e]
StopSelf == [op |-> "cancel"]

Init ==
  /\ strategy \in Strategies
  /\ state = "initializing"
  /\ pipeCtx = FALSE
  /\ buf = [e \in Edges |-> << >>]
  /\ merged = [n \in Nodes |-> << >>]
  /\ ctl = [n \in Nodes |-> << >>]
  /\ cancelled = [n \in Nodes |-> FALSE]
  /\ pc = [n \in Nodes |-> "new"]
  /\ work = [n \in Nodes |-> << >>]
  /\ held = [n \in Nodes |-> << >>]
  /\ ba = [n \in Nodes |-> NewBarrierAligner]
  /\ active = [n \in Nodes |-> IF n \in Sources THEN 1 ELSE Cardinality(In(n))]
  /\ paused = [n \in Nodes |-> FALSE]
  /\ src = [s \in Sources |-> [pc |-> "new", n |-> 0, outs |-> << >>]]
  /\ call = [c \in Calls |-> [pc |-> "idle", to |-> {}, arg |-> "none"]]
  /\ epoch = 0
  /\ reports = {}
  /\ errq = {}
  /\ monitor = [pc |-> "new", read |-> "none"]
  /\ handled = [n \in Nodes |-> {}]
  /\ snaps = {}

-----------------------------------------------------------------------------
(* Pipeline.Start launches every runtime with its mergers, the source       *)
(* goroutines and the monitor.                                              *)
Start ==
  /\ state = "initializing"
  /\ state' = "running"
  /\ pc' = [n \in Nodes |-> "loop"]
  /\ src' = [s \in Sources |-> [src[s] EXCEPT !.pc = "run"]]
  /\ monitor' = [monitor EXCEPT !.pc = "wait"]
  /\ UNCHANGED <<flowVars, cancelled, work, held, ba, active, paused, handled, snaps,
                 pipeCtx, call, epoch, errq, ctl, reports, strategy>>

-----------------------------------------------------------------------------
(* The source goroutine: Source.Run emits to every output in turn, under    *)
(* the pipeline's context; then stop goes to every output under no context  *)
(* and the source's runtime is stopped.                                     *)

SourceEmit(s) ==
  /\ src[s].pc = "run" /\ src[s].outs = << >>
  /\ src[s].n < MaxData
  /\ src' = [src EXCEPT ![s].n = @ + 1, ![s].outs = Out(s)]
  /\ UNCHANGED <<flowVars, loopVars, lifeVars, ctl, reports, strategy>>

SourceSend(s) ==
  /\ src[s].pc \in {"run", "stop"} /\ src[s].outs # << >>
  /\ LET e == Head(src[s].outs)
     IN  /\ Len(buf[e]) < BufCap
         /\ buf' = [buf EXCEPT ![e] = Append(@, IF src[s].pc = "run" THEN DataMsg(s, src[s].n)
                                                                    ELSE StopMsg)]
         /\ src' = [src EXCEPT ![s].outs = Tail(@)]
  /\ UNCHANGED <<merged, loopVars, lifeVars, ctl, reports, strategy>>

(* Run returns when the source has no more data, or when a send or the      *)
(* source itself notices that the context is cancelled.                     *)
SourceReturn(s) ==
  /\ src[s].pc = "run"
  /\ src[s].outs = << >> \/ pipeCtx
  /\ src' = [src EXCEPT ![s].pc = "stop", ![s].outs = Out(s)]
  /\ UNCHANGED <<flowVars, loopVars, lifeVars, ctl, reports, strategy>>

SourceDone(s) ==
  /\ src[s].pc = "stop" /\ src[s].outs = << >>
  /\ src' = [src EXCEPT ![s].pc = "done"]
  /\ cancelled' = [cancelled EXCEPT ![s] = TRUE]
  /\ UNCHANGED <<flowVars, pc, work, held, ba, active, paused, handled, snaps, lifeVars,
                 ctl, reports, strategy>>

-----------------------------------------------------------------------------
(* Mutant of Merge: a message that finds merged full is dropped. *)
MergeDrops(e) ==
  /\ pc[e[2]] # "new"
  /\ buf[e] # << >>
  /\ buf' = [buf EXCEPT ![e] = Tail(@)]
  /\ merged' = IF Len(merged[e[2]]) < MergedCap
               THEN [merged EXCEPT ![e[2]] = Append(@, [from |-> e, msg |-> Head(buf[e])])]
               ELSE merged
  /\ UNCHANGED <<loopVars, lifeVars, ctl, src, reports, strategy>>

(* The merger of an edge: Recv, then the send on merged.  The message in    *)
(* its hand counts as still in the buffer.  A merger whose context is done  *)
(* may still take a message; it need not.                                   *)
Merge(e) ==
  /\ pc[e[2]] # "new"
  /\ buf[e] # << >>
  /\ Len(merged[e[2]]) < MergedCap
  /\ buf' = [buf EXCEPT ![e] = Tail(@)]
  /\ merged' = [merged EXCEPT ![e[2]] = Append(@, [from |-> e, msg |-> Head(buf[e])])]
  /\ UNCHANGED <<loopVars, lifeVars, ctl, src, reports, strategy>>

-----------------------------------------------------------------------------
(* The loop of node n at its select. *)

AtSelect(n) == pc[n] = "loop" /\ work[n] = << >>

(* run returns; an error other than Canceled goes to the errs goroutine. *)
Return(n, failed) ==
  /\ pc' = [pc EXCEPT ![n] = "gone"]
  /\ work' = [work EXCEPT ![n] = << >>]
  /\ errq' = IF failed THEN errq \cup {n} ELSE errq

(* The ctx.Done case, or merged closed by the mergers. *)
SelectDone(n) ==
  /\ AtSelect(n) \/ pc[n] = "wait"
  /\ CtxDone(n)
  /\ Return(n, FALSE)
  /\ UNCHANGED <<flowVars, cancelled, held, ba, active, paused, handled, snaps, state,
                 pipeCtx, call, epoch, monitor, ctl, src, reports, strategy>>

(* handleIndexedMessage: what the aligner releases, then the aligned barrier. *)
Dispatch(n, im) ==
  LET r == OnMessage(ba[n], Cardinality(In(n)), im.from, im.msg)
      all == r.toProcess \o (IF r.aligned = NoBarrier THEN << >> ELSE <<r.aligned>>)
  IN  /\ ba' = [ba EXCEPT ![n] = r.ba]
      /\ work' = [work EXCEPT ![n] = [k \in 1 .. Len(all) |-> Handle(all[k])]]

(* The merged case; a paused node takes the message and waits with it. *)
SelectMerged(n) ==
  /\ AtSelect(n)
  /\ merged[n] # << >>
  /\ merged' = [merged EXCEPT ![n] = Tail(@)]
  /\ IF paused[n]
     THEN /\ pc' = [pc EXCEPT ![n] = "wait"]
          /\ held' = [held EXCEPT ![n] = <<Head(merged[n])>>]
          /\ UNCHANGED <<ba, work>>
     ELSE /\ Dispatch(n, Head(merged[n]))
          /\ UNCHANGED <<pc, held>>
  /\ UNCHANGED <<buf, cancelled, active, paused, handled, snaps, lifeVars, ctl, src,
                 reports, strategy>>

(* Mutant of handleCheckpointRequest: the source does not report. *)
SourceForgetsReport(n, req) ==
  /\ work' = [work EXCEPT ![n] = SendAll(n, BarrierMsg(req.epoch, TRUE)) \o <<StopSelf>>]
  /\ snaps' = snaps \cup {<<n, req.epoch, handled[n]>>}
  /\ UNCHANGED <<pc, paused, errq>>

(* handleControl on a checkpoint request: a source snapshots, sends the     *)
(* barrier, reports, and stops itself if told so.                           *)
handleCheckpointRequest(n, req) ==
  /\ work' = [work EXCEPT ![n] =
       SendAll(n, BarrierMsg(req.epoch, TRUE)) \o <<Report(req.epoch), StopSelf>>]
  /\ snaps' = snaps \cup {<<n, req.epoch, handled[n]>>}
  /\ UNCHANGED <<pc, paused, errq>>

SelectControl(n) ==
  /\ AtSelect(n)
  /\ ctl[n] # << >>
  /\ ctl' = [ctl EXCEPT ![n] = Tail(@)]
  /\ LET req == Head(ctl[n])
     IN  \/ /\ req.type = "checkpoint"
            /\ handleCheckpointRequest(n, req)
         \/ /\ req.type \in {"pause", "resume"}
            /\ paused' = [paused EXCEPT ![n] = req.type = "pause"]
            /\ UNCHANGED <<pc, work, errq, snaps>>
         \/ /\ req.type = "terminate"
            /\ Return(n, FALSE)
            /\ UNCHANGED <<paused, snaps>>
  /\ UNCHANGED <<flowVars, cancelled, held, ba, active, handled, state, pipeCtx, call,
                 epoch, monitor, src, reports, strategy>>

(* Mutant of WaitControl: a waiting node does not look at its control channel. *)
WaitsForContext(n) == FALSE /\ UNCHANGED vars

(* waitForResume: only resume and terminate count, the rest is dropped.     *)
(* When the loop goes on it first looks at the context.                     *)
WaitControl(n) ==
  /\ pc[n] = "wait"
  /\ ctl[n] # << >>
  /\ ctl' = [ctl EXCEPT ![n] = Tail(@)]
  /\ LET req == Head(ctl[n])
     IN  \/ /\ req.type = "resume"
            /\ paused' = [paused EXCEPT ![n] = FALSE]
            /\ held' = [held EXCEPT ![n] = << >>]
            /\ IF CtxDone(n)
               THEN Return(n, FALSE) /\ UNCHANGED ba
               ELSE /\ pc' = [pc EXCEPT ![n] = "loop"]
                    /\ Dispatch(n, held[n][1])
                    /\ UNCHANGED errq
            /\ UNCHANGED cancelled
         \/ /\ req.type = "terminate"
            /\ cancelled' = [cancelled EXCEPT ![n] = TRUE]
            /\ Return(n, FALSE)
            /\ UNCHANGED <<paused, held, ba>>
         \/ /\ req.type \in {"pause", "checkpoint"}
            /\ UNCHANGED <<paused, held, ba, pc, work, errq, cancelled>>
  /\ UNCHANGED <<flowVars, active, handled, snaps, state, pipeCtx, call, epoch,
                 monitor, src, reports, strategy>>

-----------------------------------------------------------------------------
(* The loop of node n inside a handler. *)

Doing(n, op) == pc[n] = "loop" /\ work[n] # << >> /\ Head(work[n]).op = op

(* ProcessMessage: the operator emits a message for each one it receives,   *)
(* or fails.  Its error skips the message, which counts as handled, or ends *)
(* the loop.                                                                *)
HandleData(n) ==
  /\ Doing(n, "handle") /\ Head(work[n]).msg.kind = "data"
  /\ \/ /\ handled' = [handled EXCEPT ![n] = @ \cup {Head(work[n]).msg}]
        /\ \/ work' = [work EXCEPT ![n] =
                SendAll(n, DataMsg(n, Cardinality(handled[n]) + 1)) \o Tail(@)]
           \/ n \in Fails /\ strategy = "skip" /\ work' = [work EXCEPT ![n] = Tail(@)]
        /\ UNCHANGED <<pc, errq>>
     \/ /\ n \in Fails /\ strategy = "fail"
        /\ Return(n, TRUE)
        /\ UNCHANGED handled
  /\ UNCHANGED <<flowVars, cancelled, held, ba, active, paused, snaps, state, pipeCtx, call,
                 epoch, monitor, ctl, src, reports, strategy>>

(* Mutant of HandleStop: the first stop is enough. *)
HandleFirstStop(n) ==
  /\ Doing(n, "handle") /\ Head(work[n]).msg.kind = "stop"
  /\ active' = [active EXCEPT ![n] = @ - 1]
  /\ work' = [work EXCEPT ![n] = SendAll(n, StopMsg) \o <<StopSelf>> \o Tail(@)]
  /\ UNCHANGED <<flowVars, cancelled, pc, held, ba, paused, handled, snaps, lifeVars, ctl,
                 src, reports, strategy>>

(* Mutant of HandleStop: the last stop is not forwarded. *)
SwallowsStop(n) ==
  /\ Doing(n, "handle") /\ Head(work[n]).msg.kind = "stop"
  /\ active' = [active EXCEPT ![n] = @ - 1]
  /\ work' = [work EXCEPT ![n] = (IF active[n] <= 1 THEN <<StopSelf>> ELSE << >>) \o Tail(@)]
  /\ UNCHANGED <<flowVars, cancelled, pc, held, ba, paused, handled, snaps, lifeVars, ctl,
                 src, reports, strategy>>

(* handleSignal on stop: the last one is forwarded and stops the node. *)
HandleStop(n) ==
  /\ Doing(n, "handle") /\ Head(work[n]).msg.kind = "stop"
  /\ active' = [active EXCEPT ![n] = @ - 1]
  /\ work' = [work EXCEPT ![n] =
       (IF active[n] <= 1 THEN SendAll(n, StopMsg) \o <<StopSelf>> ELSE << >>) \o Tail(@)]
  /\ UNCHANGED <<flowVars, cancelled, pc, held, ba, paused, handled, snaps, lifeVars, ctl,
                 src, reports, strategy>>

(* Mutant of HandleBarrier: ThenStop is not looked at. *)
IgnoresThenStop(n) ==
  /\ Doing(n, "handle") /\ Head(work[n]).msg.kind = "barrier"
  /\ LET barrier == Head(work[n]).msg
     IN  /\ snaps' = snaps \cup {<<n, barrier.epoch, handled[n]>>}
         /\ work' = [work EXCEPT ![n] =
              SendAll(n, barrier) \o <<Report(barrier.epoch)>> \o Tail(@)]
  /\ UNCHANGED <<flowVars, cancelled, pc, held, ba, active, paused, handled, lifeVars, ctl,
                 src, reports, strategy>>

(* handleAlignedBarrier: snapshot, forward, report, stop if told so. *)
HandleBarrier(n) ==
  /\ Doing(n, "handle") /\ Head(work[n]).msg.kind = "barrier"
  /\ LET barrier == Head(work[n]).msg
     IN  /\ snaps' = snaps \cup {<<n, barrier.epoch, handled[n]>>}
         /\ work' = [work EXCEPT ![n] =
              SendAll(n, barrier) \o <<Report(barrier.epoch)>>
                \o (IF barrier.thenStop THEN <<StopSelf>> ELSE << >>) \o Tail(@)]
  /\ UNCHANGED <<flowVars, cancelled, pc, held, ba, active, paused, handled, lifeVars, ctl,
                 src, reports, strategy>>

(* Buffer.Send to the next output. *)
Passed(n) ==
  LET now == Head(work[n])
      next == [op |-> "send", outs |-> Tail(now.outs), msg |-> now.msg]
  IN  [work EXCEPT ![n] = (IF Len(now.outs) = 1 THEN << >> ELSE <<next>>) \o Tail(work[n])]

Send(n) ==
  /\ Doing(n, "send")
  /\ LET e == Head(Head(work[n]).outs)
     IN  /\ Len(buf[e]) < BufCap
         /\ buf' = [buf EXCEPT ![e] = Append(@, Head(work[n]).msg)]
  /\ work' = Passed(n)
  /\ UNCHANGED <<merged, cancelled, pc, held, ba, active, paused, handled, snaps, lifeVars,
                 ctl, src, reports, strategy>>

(* Buffer.Send notices that the context is done.  A source's runtime goes   *)
(* on with the next output; an operator's error is skipped, or under        *)
(* FailPipeline returned; an error on a forwarded signal ends the loop.     *)
SendFails(n) ==
  /\ Doing(n, "send") /\ CtxDone(n)
  /\ \/ /\ n \in Sources
        /\ work' = Passed(n)
        /\ UNCHANGED <<pc, errq>>
     \/ /\ n \notin Sources /\ Head(work[n]).msg.kind = "data" /\ strategy = "skip"
        /\ work' = [work EXCEPT ![n] = Tail(@)]
        /\ UNCHANGED <<pc, errq>>
     \/ /\ n \notin Sources /\ (Head(work[n]).msg.kind # "data" \/ strategy = "fail")
        /\ Return(n, FALSE)
  /\ UNCHANGED <<flowVars, cancelled, held, ba, active, paused, handled, snaps, state,
                 pipeCtx, call, epoch, monitor, ctl, src, reports, strategy>>

ReportCompletion(n) ==
  /\ Doing(n, "report")
  /\ reports' = reports \cup {<<n, Head(work[n]).epoch>>}
  /\ work' = [work EXCEPT ![n] = Tail(@)]
  /\ UNCHANGED <<flowVars, cancelled, pc, held, ba, active, paused, handled, snaps, lifeVars,
                 ctl, src, strategy>>

(* nr.Stop, as the last step of a handler. *)
CancelSelf(n) ==
  /\ Doing(n, "cancel")
  /\ cancelled' = [cancelled EXCEPT ![n] = TRUE]
  /\ work' = [work EXCEPT ![n] = Tail(@)]
  /\ UNCHANGED <<flowVars, pc, held, ba, active, paused, handled, snaps, lifeVars, ctl, src,
                 reports, strategy>>

-----------------------------------------------------------------------------
(* The lifecycle calls, each on a goroutine of the application. *)

(* The method called; Pause and Stop may be called twice. *)
Method(c) == IF c = "stop2" THEN "stop" ELSE IF c = "pause2" THEN "pause" ELSE c
IsStop(c) == Method(c) = "stop"

Returned(c) == call[c].pc \in {"ok", "rejected", "expired"}
MayCall(c) ==
  /\ call[c].pc = "idle" /\ state # "initializing"
  /\ \A d \in Calls : call[d].pc = "idle" \/ Returned(d) \/ {c, d} \cap Serial = {}
  /\ \A d \in Calls \ {c} : d = Method(c) => call[d].pc # "idle"

(* The call returns an error because of the state it finds. *)
Reject(c) ==
  /\ MayCall(c)
  /\ CASE Method(c) = "pause" -> state # "running"
       [] Method(c) = "resume" -> state # "paused"
       [] OTHER -> state \notin {"running", "paused"}
  /\ call' = [call EXCEPT ![c].pc = "rejected"]
  /\ UNCHANGED <<flowVars, loopVars, state, pipeCtx, epoch, errq, monitor, ctl, src,
                 reports, strategy>>

(* Mutant of PauseResume: the state is stored, whatever it was. *)
PauseStores(c) ==
  /\ MayCall(c)
  /\ Method(c) \in {"pause", "resume"}
  /\ state' = IF Method(c) = "pause" THEN "paused" ELSE "running"
  /\ call' = [call EXCEPT ![c] = [pc |-> "send", to |-> Nodes, arg |-> "none"]]
  /\ UNCHANGED <<flowVars, loopVars, pipeCtx, epoch, errq, monitor, ctl, src,
                 reports, strategy>>

(* Pause and Resume move the state with one compare-and-swap. *)
PauseResume(c) ==
  /\ MayCall(c)
  /\ \/ Method(c) = "pause" /\ state = "running" /\ state' = "paused"
     \/ Method(c) = "resume" /\ state = "paused" /\ state' = "running"
  /\ call' = [call EXCEPT ![c] = [pc |-> "send", to |-> Nodes, arg |-> "none"]]
  /\ UNCHANGED <<flowVars, loopVars, pipeCtx, epoch, errq, monitor, ctl, src,
                 reports, strategy>>

(* Stop and Terminate read the state first and act on it later. *)
ReadState(c) ==
  /\ MayCall(c)
  /\ Method(c) \in {"stop", "terminate"}
  /\ state \in {"running", "paused"}
  /\ call' = [call EXCEPT ![c].pc = "read", ![c].arg = state]
  /\ UNCHANGED <<flowVars, loopVars, state, pipeCtx, epoch, errq, monitor, ctl, src,
                 reports, strategy>>

(* Mutant of Stop: the state is stored, whatever it is by now. *)
StoresStopping(c) ==
  /\ IsStop(c) /\ call[c].pc = "read"
  /\ state' = "stopping"
  /\ epoch' = epoch + 1
  /\ call' = [call EXCEPT ![c] = [pc |-> "send", to |-> Sources, arg |-> epoch + 1]]
  /\ UNCHANGED <<flowVars, loopVars, pipeCtx, errq, monitor, ctl, src,
                 reports, strategy>>

(* Stop: the result of the compare-and-swap is ignored. *)
Stop(c) ==
  /\ IsStop(c) /\ call[c].pc = "read"
  /\ state' = IF state = call[c].arg THEN "stopping" ELSE state
  /\ epoch' = epoch + 1
  /\ call' = [call EXCEPT ![c] = [pc |-> "send", to |-> Sources, arg |-> epoch + 1]]
  /\ UNCHANGED <<flowVars, loopVars, pipeCtx, errq, monitor, ctl, src,
                 reports, strategy>>

Terminate(c) ==
  /\ c = "terminate" /\ call[c].pc = "read"
  /\ state' = "terminated"
  /\ call' = [call EXCEPT ![c] = [pc |-> "send", to |-> Nodes, arg |-> "none"]]
  /\ UNCHANGED <<flowVars, loopVars, pipeCtx, epoch, errq, monitor, ctl, src,
                 reports, strategy>>

(* The builder lists the runtimes of sources, operators and sinks in turn,  *)
(* each kind in the order of a map.                                         *)
Rank(n) == IF n \in Sources THEN 0 ELSE IF Out(n) # << >> THEN 1 ELSE 2

IsNext(c, n) == \A m \in call[c].to : Rank(n) <= Rank(m)

(* SendControl to one runtime after the other; at most five calls never     *)
(* fill the sixteen places of a control channel.                            *)
SendControl(c) ==
  /\ call[c].pc = "send"
  /\ \E n \in call[c].to :
       /\ IsNext(c, n)
       /\ ctl' = [ctl EXCEPT ![n] = Append(@,
            IF IsStop(c) THEN [type |-> "checkpoint", epoch |-> call[c].arg]
                         ELSE [type |-> Method(c)])]
       /\ call' = [call EXCEPT ![c].to = @ \ {n}]
  /\ UNCHANGED <<flowVars, loopVars, state, pipeCtx, epoch, errq, monitor, src,
                 reports, strategy>>

(* The caller's context is done, and SendControl returns its error.         *)
(* Terminate goes on with the next runtime; Pause, Resume and Stop return   *)
(* at once: the state stays as they have set it, and the runtimes left in   *)
(* "to" are not told.                                                       *)
SendControlFails(c) ==
  /\ call[c].pc = "send" /\ c \in Expires
  /\ \E n \in call[c].to :
       /\ IsNext(c, n)
       /\ \/ c = "terminate" /\ call' = [call EXCEPT ![c].to = @ \ {n}]
          \/ c # "terminate" /\ call' = [call EXCEPT ![c].pc = "expired"]
  /\ UNCHANGED <<flowVars, loopVars, state, pipeCtx, epoch, errq, monitor, ctl, src,
                 reports, strategy>>

(* Mutant of ReturnCall: Terminate forgets to cancel the context. *)
ReturnOnly(c) ==
  /\ call[c].pc = "send" /\ call[c].to = {}
  /\ call' = [call EXCEPT ![c].pc = "ok"]
  /\ UNCHANGED <<flowVars, loopVars, state, pipeCtx, epoch, errq, monitor, ctl,
                 src, reports, strategy>>

(* The call returns; Terminate cancels the pipeline's context first. *)
ReturnCall(c) ==
  /\ call[c].pc = "send" /\ call[c].to = {}
  /\ call' = [call EXCEPT ![c].pc = "ok"]
  /\ pipeCtx' = (pipeCtx \/ c = "terminate")
  /\ UNCHANGED <<flowVars, loopVars, state, epoch, errq, monitor, ctl, src,
                 reports, strategy>>

-----------------------------------------------------------------------------
(* The errs goroutine and the monitor. *)

(* Mutant of NodeError: the context is not cancelled. *)
StoresErrorOnly(n) ==
  /\ n \in errq
  /\ errq' = errq \ {n}
  /\ state' = "error"
  /\ UNCHANGED <<flowVars, loopVars, pipeCtx, call, epoch, monitor, ctl, src, reports,
                 strategy>>

(* An error that is not Canceled fails the pipeline, whenever this          *)
(* goroutine gets to it.                                                    *)
NodeError(n) ==
  /\ n \in errq
  /\ errq' = errq \ {n}
  /\ state' = "error"
  /\ pipeCtx' = TRUE
  /\ UNCHANGED <<flowVars, loopVars, call, epoch, monitor, ctl, src, reports, strategy>>

(* Every runtime has returned: the monitor stops the controller, reads the  *)
(* state ...                                                                *)
MonitorRead ==
  /\ monitor.pc = "wait"
  /\ \A n \in Nodes : pc[n] = "gone"
  /\ monitor' = [pc |-> "deciding", read |-> state]
  /\ UNCHANGED <<flowVars, loopVars, state, pipeCtx, call, epoch, errq, ctl, src,
                 reports, strategy>>

(* ... and store Stopped unless it was a terminal one; close done. *)
MonitorDone ==
  /\ monitor.pc = "deciding"
  /\ monitor' = [monitor EXCEPT !.pc = "done"]
  /\ state' = IF monitor.read \in {"error", "terminated"} THEN state ELSE "stopped"
  /\ UNCHANGED <<flowVars, loopVars, pipeCtx, call, epoch, errq, ctl, src,
                 reports, strategy>>

-----------------------------------------------------------------------------
LoopStep(n) ==
  \/ SelectDone(n) \/ SelectMerged(n) \/ SelectControl(n) \/ WaitControl(n)
  \/ HandleData(n) \/ HandleStop(n) \/ HandleBarrier(n)
  \/ Send(n) \/ SendFails(n) \/ ReportCompletion(n) \/ CancelSelf(n)

SourceStep(s) == SourceEmit(s) \/ SourceSend(s) \/ SourceReturn(s) \/ SourceDone(s)

CallStep(c) ==
  \/ Reject(c) \/ PauseResume(c) \/ ReadState(c) \/ Stop(c) \/ Terminate(c)
  \/ SendControl(c) \/ SendControlFails(c) \/ ReturnCall(c)

MonitorStep == MonitorRead \/ MonitorDone

Next ==
  \/ Start
  \/ \E s \in Sources : SourceStep(s)
  \/ \E e \in Edges : Merge(e)
  \/ \E n \in Nodes : LoopStep(n) \/ NodeError(n)
  \/ \E c \in Calls : CallStep(c)
  \/ MonitorStep

Spec == Init /\ [][Next]_vars

(* What a goroutine of the pipeline, or a call once made, does by itself.   *)
(* Nothing forces the application to start the pipeline or to call, and     *)
(* nothing forces a source to produce or to return, except that it heeds    *)
(* the cancelled context; a merger may leave when its context is done.      *)
Proceed ==
  \/ \E s \in Sources : SourceSend(s) \/ SourceDone(s) \/ (pipeCtx /\ SourceReturn(s))
  \/ \E e \in Edges : ~CtxDone(e[2]) /\ Merge(e)
  \/ \E n \in Nodes : LoopStep(n) \/ NodeError(n)
  \/ \E c \in Calls : call[c].pc # "idle" /\ CallStep(c)
  \/ MonitorStep

(* The Go scheduler runs every goroutine that can go on.  With the bounds   *)
(* of the model every behaviour ends, so this is the same as asking it of   *)
(* each goroutine by itself: no goroutine may stop while it can proceed.    *)
FairSpec == Spec /\ WF_vars(Proceed)

(* Moreover the sources are finite: each one returns unless it is blocked   *)
(* in Emit.                                                                 *)
FiniteSpec == Spec /\ WF_vars(Proceed \/ \E s \in Sources : SourceReturn(s))

-----------------------------------------------------------------------------
States == {"initializing", "running", "paused", "stopping", "stopped", "terminated", "error"}
EpochBound == Cardinality({c \in Calls : IsStop(c)})
Barriers == {BarrierMsg(k, TRUE) : k \in 1 .. EpochBound}
Msgs == DataMsgs(Nodes) \cup Barriers \cup {StopMsg}
Requests == {[type |-> t] : t \in {"pause", "resume", "terminate"}}
              \cup {[type |-> "checkpoint", epoch |-> k] : k \in 1 .. EpochBound}

(* Every buffer, channel and field holds what its type allows, and no       *)
(* buffer or merged channel more than its capacity.                         *)
TypeOK ==
  /\ strategy \in Strategies /\ state \in States /\ pipeCtx \in BOOLEAN
  /\ \A e \in Edges : buf[e] \in Seq(Msgs) /\ Len(buf[e]) <= BufCap
  /\ \A n \in Nodes :
       /\ merged[n] \in Seq([from : In(n), msg : Msgs]) /\ Len(merged[n]) <= MergedCap
       /\ ctl[n] \in Seq(Requests)
       /\ pc[n] \in {"new", "loop", "wait", "gone"}
       /\ held[n] \in Seq([from : In(n), msg : Msgs]) /\ Len(held[n]) <= 1
       /\ active[n] \in 0 .. Cardinality(Nodes)
       /\ cancelled[n] \in BOOLEAN /\ paused[n] \in BOOLEAN
       /\ handled[n] \subseteq DataMsgs(Nodes)
  /\ \A s \in Sources : src[s].pc \in {"new", "run", "stop", "done"} /\ src[s].n \in 0 .. MaxData
  /\ epoch \in 0 .. EpochBound
  /\ reports \subseteq Nodes \X (1 .. EpochBound)
  /\ errq \subseteq Fails

(* What node n has put on its outputs. *)
Produced(n) == {DataMsg(n, k) : k \in 1 .. IF n \in Sources THEN src[n].n ELSE Cardinality(handled[n])}

(* When the sources end by themselves, no message is lost on the way: once  *)
(* the pipeline is Stopped though no node failed, the node behind every     *)
(* edge has handled all that the node in front of it produced (stop signals *)
(* follow the data and the last one stops a node: handleSignal,             *)
(* Pipeline.Start).                                                         *)
Drained ==
  state = "stopped" /\ errq = {} /\ ~pipeCtx =>
    \A e \in Edges : e[1] \notin Fails => Produced(e[1]) \subseteq handled[e[2]]

(* All nodes that snapshot an epoch have handled the same data: in a chain, *)
(* where every node has one input and one output, the barrier of a Stop     *)
(* cuts the stream at one place.  It does not where a source branches, its  *)
(* runtime and its goroutine sending to the outputs side by side, nor when  *)
(* Terminate comes in between.                                              *)
OneCut ==
  \A a, b \in snaps :
    a[2] = b[2] /\ {a[1], b[1]} \cap Sources = {} => {m.n : m \in a[3]} = {m.n : m \in b[3]}

(* Terminate is under way or has been made. *)
Terminating == "terminate" \in Calls /\ call["terminate"].pc \notin {"idle", "rejected"}

(* The final checkpoint of Stop is taken: when the pipeline is done though  *)
(* no source has returned, no node has failed and nobody cancelled or       *)
(* terminated it, some epoch has been reported by every node.               *)
FinalCheckpointTaken ==
  (/\ monitor.pc = "done" /\ ~pipeCtx /\ errq = {} /\ ~Terminating
   /\ \A s \in Sources : src[s].pc = "run")
    => \E k \in 1 .. epoch : \A n \in Nodes : <<n, k>> \in reports

LegalMoves ==
  {<<"initializing", "running">>, <<"running", "paused">>, <<"paused", "running">>,
   <<"running", "stopping">>, <<"paused", "stopping">>,
   <<"running", "stopped">>, <<"paused", "stopped">>, <<"stopping", "stopped">>}

(* The lifecycle states follow one another as the diagram of the            *)
(* architecture says, however Pause, Resume and two calls of Stop race with *)
(* each other and with the monitor; a pipeline whose sources end is Stopped *)
(* without passing through Stopping.  Terminate stores its state without    *)
(* looking again and may do so over any other (TerminalIsFinal).            *)
LifecycleMoves ==
  [][state # state' => <<state, state'>> \in LegalMoves \/ Terminating]_<<state, call>>

(* PipelineStopped, PipelineTerminated and PipelineError are terminal.      *)
TerminalIsFinal == [][state' # state => state \notin {"stopped", "terminated", "error"}]_state

(* Wait returns once all the sources have ended, unless the pipeline is     *)
(* paused: no backpressure, order of the stops at a merge or earlier pause  *)
(* keeps a node from its end.  Excepted is a Resume whose context expired:  *)
(* it leaves the pipeline Running with nodes that are still paused.         *)
SourcesEndThenDone ==
  (state = "running") ~> \/ monitor.pc = "done" \/ state = "paused"
                         \/ \E c \in Calls : Method(c) = "resume" /\ call[c].pc = "expired"

(* An accepted Stop leads to the end of the pipeline, unless its context    *)
(* expired before all sources were told.                                    *)
StopCompletes ==
  \A c \in Calls : IsStop(c) /\ call[c].pc = "read" ~> monitor.pc = "done" \/ call[c].pc = "expired"

(* An accepted Terminate ends the pipeline whatever is blocked or paused at *)
(* the time: cancelling the context wakes everyone.                         *)
TerminateCompletes == \A c \in Calls : c = "terminate" /\ call[c].pc = "read" ~> monitor.pc = "done"

(* A node that fails ends the pipeline: whoever is blocked on a buffer that *)
(* it reads no more, paused or waiting for input is woken, though no source *)
(* returns by itself (the errs goroutine of Pipeline.Start).                *)
FailureCompletes == (errq # {}) ~> (monitor.pc = "done")

(* Node n is held up in a handler by a full buffer. *)
Blocked(n) == Doing(n, "send") /\ Len(buf[Head(Head(work[n]).outs)]) = BufCap

(* The Pause or Resume that set the state expired before it came to node n. *)
Untold(n) ==
  \E c \in Calls : /\ call[c].pc = "expired" /\ n \in call[c].to
                   /\ Method(c) = IF state = "paused" THEN "pause" ELSE "resume"

(* When all calls have returned, every node comes to be, and remains,       *)
(* paused if and only if the pipeline is Paused: "nodes are alive but not   *)
(* processing" (pipeline.go), and after Resume they process again.  A node  *)
(* held up by a paused one may see the request only later, and one that the *)
(* call did not come to before its context expired does not see it at all.  *)
PauseTakesHold ==
  (\A c \in Calls : Returned(c) /\ Method(c) \in {"pause", "resume"})
    ~> [](\A n \in Nodes :
            \/ pc[n] = "gone"
            \/ paused[n] = (state = "paused")
            \/ state = "paused" /\ Blocked(n)
            \/ Untold(n))

(* "All goroutines have exited after a graceful stop": those of the sources *)
(* too.                                                                     *)
SourcesExit == (state = "stopped") ~> \A s \in Sources : src[s].pc = "done"
=============================================================================
