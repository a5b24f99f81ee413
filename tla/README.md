# TLA+ model of go-stream-processor

The engine (`internal/engine`) runs a graph of nodes: sources emit data,
operators transform it, sinks consume it. Every node has a goroutine, every edge
is a bounded buffer, and checkpoints, watermarks and the end of the stream travel
as signals in the same buffers. This project models that engine in TLA+, checks it
with TLC on small instances and proves part of it with TLAPS for all instances.

## 1. The system

| component | state | operations | talks to |
|---|---|---|---|
| messages (`message.go`, `control.go`) | none | constructors, `IsData`, `IsSignal` | everything |
| buffer (`buffer.go`) | a Go channel, counters | `Send`, `Recv`, both under a context | runtimes, sources, dead letters |
| barrier aligner (`barrier_aligner.go`) | the barrier being aligned, the inputs that delivered it, the messages set aside | `OnMessage` | its runtime |
| watermark holder (`watermark.go`) | last report per input, the watermark forwarded | `Update` | its runtime |
| node runtime (`runtime.go`) | merged channel, control channel, paused flag, stops still awaited, error | the run loop, one merger goroutine per input, `SendControl`, `Stop`, `Wait` | buffers, controller, operator |
| operators and sources (`operator.go`) | user state | `ProcessMessage`, `HandleCheckpoint`, `HandleWatermark`, `RunSource` | collector, timers |
| controller (`controller.go`) | tracked epochs, stopped nodes, quiescence | `InitiateCheckpoint`, its goroutine, `Stop` | runtimes (two channels of 64), persistence callback |
| pipeline (`pipeline.go`) | lifecycle state, context, stop epoch | `Start`, `Stop`, `Pause`, `Resume`, `Terminate`, `Wait`, the source goroutines, the errs goroutine, the monitor | runtimes (control messages), controller |
| checkpoint manager and backend | files, states collected | `CollectState`, `SaveCheckpoint`, `RestoreNodes`, `LatestEpoch`, cleanup | file system |
| graph and builder (`graph.go`, `builder.go`) | nodes, edges | `Validate`, `Build` | all of the above |
| errors and dead letters (`errors.go`) | counters, dead-letter buffer | the three strategies, `EmitError` | pipeline, dead-letter runtime |
| timers (`timer.go`), debounce and dedup (`hysteresis.go`) | sorted list of timers, messages held back, seen keys | register, fire, snapshot, restore | runtime, operators |
| concurrent operators (`concurrent.go`, `nodes.Concurrent`) | worker slots, the first error of a worker | `ProcessMessage`, waiting for the workers, `Drain` | runtime |
| state store (`state_store.go`) | a map | get, put, binary snapshot | operators |

What is hard to test here:

* a merge node receives barriers, data, stops and watermarks of its inputs in any
  order, and sets some of them aside;
* a source's data is emitted by one goroutine and its barrier by another;
* handlers block on full buffers, and only a context frees them, while the reports
  to the controller and a source's stop are sent under no context;
* lifecycle calls read the state, act later and tell the nodes later still, and race
  with one another and with the monitor that ends the pipeline; the context of a call
  may expire half-way, with the state changed and some nodes not told;
* the controller learns of snapshots and stops late, in duplicate, through two
  channels, and may return with reports unread;
* files are written one node at a time and a process may die in between;
* timers outlive the messages they were set for, fire late, are popped together, and
  come back after a restore under names that are given out again;
* the workers of a pool emit and fail while the loop handles a signal, and an error
  surfaces in the call for another message, if at all;
* dead letters pass through a buffer, a runtime and a timeout of their own, under no
  context;
* the search for cycles runs in the random order of a Go map.

`PROJECT.json` lists each hazard at its line with the properties aimed at it.

What makes the components correct: the aligner loses, doubles and swaps nothing
and aligns one epoch at a time; a snapshot covers what precedes its barriers; a
watermark never moves back nor overtakes an input; stop is forwarded last; a
checkpoint is complete only when all nodes have taken it, and is persisted once;
`Stop`, `Terminate`, an error and the end of the sources each lead to the end of
the pipeline; the lifecycle state only moves as documented; a saved checkpoint
stays on disk; Sleep, Debounce and Deduplicate keep their windows exactly and hold
nothing for ever; no result of a worker overtakes a signal and no error of one is
passed over by a checkpoint; a dead letter arrives before `Wait` returns; and `Build`
accepts exactly the graphs in which every node lies between a source and a sink and
there is no cycle.

## 2. The modules

`Messages` - the four kinds of messages. The engine never looks at keys and
values: a data message is its input (or source) and its position.

`BarrierAligner`, `WatermarkHolder` - the two pure components, as operators on a
record with the fields of the Go struct. `onBarrier` returns the three results of
the Go method: new state, released messages, aligned barrier.

`NodeRuntime` - the loop of one non-source node. A `Receive...` action is the
`merged` case of the select followed by the aligner or the watermark holder;
`todo` is what `handleIndexedMessage` has still to handle (the released messages,
then the aligned barrier), and one action handles each of them, successfully or
not. `Cancel` may happen between any two steps. The inputs are the environment; it
is constrained as an upstream node constrains it: data, the barriers of the epochs
in order, watermarks that keep their promise, one stop. A barrier may follow a
stop, because a source's runtime answers a checkpoint request even when the
source's goroutine has already sent stop. `Overlap` says whether an input may
deliver the barrier of the next epoch while this one is being aligned.

`Controller` - the controller and the reports of the nodes, with the two bounded
channels. `CheckpointTracking` is the abstract specification: what "complete" and
"quiescent" promise in terms of what the nodes really did, with no channel and no
controller. `Controller!ImplementsTracking` is the refinement.

`Pipeline` - all nodes of a graph together: buffers with backpressure, the merger
of every edge, the loop of every node, the source goroutines, the five lifecycle
calls, the errs goroutine and the monitor. A handler that sends to several outputs
may block on each, so the loop of a node is a list `work[n]` of steps still to do.
`pc[n]` is `wait` inside `waitForResume`. It extends `BarrierAligner`, so merges
align as in the code. The constant `Outputs` gives each node its output edges in the order
in which a handler sends to them; two nodes are joined by one edge at most (parallel edges
are the business of `GraphBuilder`). The calls in `Expires` are made with a context that
may end at any time: `SendControl` then returns its error, `Terminate` goes on with the
next node, and `Pause`, `Resume` and `Stop` return at once. `MCPipeline` has the graphs: a pair, a chain, a branch, a
branch that meets again (diamond) and a merge of two sources. An operator emits one
message of its own for each one it handles.

`CheckpointStore` - the persistence callback, file by file, with failing operations
and a process that ends or dies and is started again on the same directory.

`TimerOperators` - the timer manager and the three operators that rest on it, as
operators on a record: what `ProcessMessage` and `HandleTimer` do to the operator's
state, what they emit and which timer they register; and what a checkpoint holds of
them. `NodeTimers` is the loop that fires the timers: `Top` is the part of `run` above
the select, `SelectTimer` and `SelectTick` its two cases that `NodeRuntime` leaves
out, `FireTimer` handles the popped timers one by one. A clock, the pause requests,
the cancellation, and a program that restores the timers of a checkpoint are the
environment. `MCNodeTimers` says which operator runs in which environment.

`WorkerPool` - a node with a plain operator, the engine's `ConcurrentOperator` or
`nodes.Concurrent`, the error handler of each strategy, the dead-letter runtime and
the monitor that ends it. The two pools differ in one point: `nodes.Concurrent` has
no `Drain`. A worker is the number of the message in its hands. Data and signals come in
any order, and a stop or a ThenStop barrier only cancels the node's context: the select
may still take data and signals behind it before it takes the `ctx.Done` case. What the
properties say of such late messages, whose workers nobody waits for, is stated in them.

`GraphBuilder` - the calls of the builder in any order, wrong ones included,
`Validate` with its depth-first search step by step, and the wiring of buffers, ports
and the dead-letter sink. `MCGraphBuilder` has the bounds. `Emit`, `EmitToPort` and
`Router` are what the wiring means for a message.

`EngineLemmas`, `NodeRuntimeProofs`, `ControllerProofs`, `CheckpointStoreProofs`,
`NodeTimersProofs`, `WorkerPoolProofs`, `GraphBuilderProofs`, `PipelineProofs` - the proofs
(section 5).

`PROJECT.json` maps every definition to its lines. A definition called "Mutant of X"
is X with one plausible slip of the programmer; putting it in X's place must violate
the property it is listed with.

### What the abstraction leaves out of a modelled component

* The place in a merger's hand (received from the buffer, not yet on `merged`) is
  counted as a place of the buffer: `BufCap` is the capacity plus one.
* Every error of a handler is one outcome, "the handler fails"; texts and counters
  are left out. In `Pipeline` the error strategies are `skip` and `fail`; the
  dead-letter strategy is in `WorkerPool`.
* In `NodeTimers` and `WorkerPool` sends to the outputs do not block (blocking is
  the subject of `Pipeline`), but may fail once the context is done. The node has one
  input; alignment is the subject of `NodeRuntime`.
* A timer name is the counter in it: a node has one operator and so one prefix. The
  clock of `NodeTimers` stands for Go's monotonic clock; a length-prefixed encoding is
  the tuple of its fields, times included (they are kept to the nanosecond).
* In `WorkerPool` the dead-letter buffer and the merged channel behind it are one
  buffer, and the error handler's counters are the set of its calls.
* In `GraphBuilder` the application calls nothing but `Build` once `Build` has
  succeeded, and nothing once it has failed. `SetCheckpointManager` is left out: what
  it installs is `CheckpointStore`.
* In `Pipeline` a barrier is always snapshotted: the error return of `HandleCheckpoint`
  (`runtime.go` 389-392) is in `NodeRuntime` and `WorkerPool`. A loop that ends because a
  context is done ends with `context.Canceled`: the context given to `Start` has no
  deadline of its own, whose `DeadlineExceeded` the errs goroutine would take for the
  failure of a node (`pipeline.go` 147).
* `Pipeline.Start` is one step: lifecycle calls made before `Start` has returned
  are not covered.
* In `Pipeline` the reports to the controller never block: there are fewer nodes
  than the 64 places. What happens when they do is the business of `Controller`.
* `InitiateCheckpoint` is called with new epochs only, as its comment asks; the code
  does not check it.
* Times are natural numbers, 0 is Go's zero time; epochs are natural numbers (a
  `uint64` that is incremented once per `Stop` cannot overflow).

## 3. The runs

| run | instance | what it shows |
|---|---|---|
| `node_align` | 2 inputs, 2 data each, 2 epochs, the second with ThenStop | in every order of arrival, with failing handlers and cancellation: nothing lost, doubled or reordered (`NoneLost`, `InputOrder`), each snapshot covers its cut, is of one epoch and is not forgotten (`SnapshotCovers`, `SnapshotAligned`, `BarrierNotLost`), stop is last (`StopIsLast`) |
| `node_watermark` | 2 inputs, times up to 2, idleness | `WatermarkMonotone`, `WatermarkIsPromised` |
| `node_cut` | 2 inputs, 1 epoch | *violated*: `SnapshotConsistent` |
| `controller_reports` | 2 nodes, 2 epochs (one injected without `InitiateCheckpoint`), channels of 2, duplicates, cancellation | `ImplementsTracking`, `CallbackOnce`, `EventuallyComplete` |
| `chain_stop` | source, operator, sink that may skip messages; `BufCap` 1; one `Stop`, whose context may expire | the pipeline ends unless the context expired (`StopCompletes`), every node took the checkpoint (`FinalCheckpointTaken`) of the same data (`OneCut`, a property of chains), the state never moves back though the source may end at the same time (`LifecycleMoves`) |
| `lifecycle` | source, operator, sink that may fail the pipeline; `BufCap` 1, 1 data; `Pause`, then `Terminate`, whose context may expire, while the source produces or ends | `TerminateCompletes`, `FailureCompletes`: everyone blocked, waiting or paused is woken |
| `diamond_end` | a source feeds an operator and the sink, the operator feeds the sink; `BufCap` 1, 1 data; `Pause`, `Resume` in turn, the `Resume` may expire | `Wait` returns unless the `Resume` expired (`SourcesEndThenDone`), nothing was lost (`Drained`), every node that was told is paused exactly when the state says so (`PauseTakesHold`), the state never moves back though the monitor ends the pipeline at the same time (`LifecycleMoves`) |
| `merge_stop` | two sources and a sink; one `Stop` | *violated*: `StopCompletes` |
| `store_life` | 2 nodes, 4 epochs, 2 lives, `KeepCount` 2, faults | `SurvivesFirstCrash`, `CleanupKeeps` |
| `node_timers` | Sleep (restored once, or paused and resumed), Debounce and Deduplicate with two keys and three messages, a ticker that is paused and terminated; window 2 | order and delay of Sleep (`SleepFifo`), no message of Debounce before a quiet window (`DebounceQuiet`), Deduplicate neither lets a duplicate through nor drops a fresh message (`DedupExact`), every message held back has its timer (`PendingHasTimer`) and leaves (`EveryMessageLeaves`), a cancelled loop returns (`CancelTakesHold`) |
| `worker_pool` | plain operator and both pools with the three strategies; 2 workers, 3 data, a ThenStop barrier and a stop in any order; dead-letter buffer of 1 | no result behind a signal that followed its message (`SignalsBehindData`), no checkpoint over a failed worker (`CheckpointCovers`), every message emitted, failed or routed (`NoneForgotten`), letters delivered (`DeadLettersDelivered`), each but for messages taken behind a stop; the end comes (`Ends`) |
| `graph_build` | all graphs of 3 nodes and 3 edges; source, 2 operators, sink and 4 edges; 2 nodes with ports, sizes, error configurations | the search is right in every order (`CyclesAreFound`) and returns (`BuildReturns`), every node lies between source and sink (`AllReached`), messages go to the edges of their port (`WiredAsConnected`) |

`TypeOK` says more than types in `NodeRuntime` (what the aligner may buffer), `NodeTimers`
(timers are sorted, pending is a map), and is an invariant of their runs, and in
`GraphBuilder` (the gray nodes are the stack, the stack is a path), where it is proved
(section 5). In the other modules it only documents the variables; it holds on the
instances of their runs too. `CHECK_DEADLOCK` is off
everywhere because a pipeline that has ended, and a model that has used up its
bounds, stops.

### What the two violations show

* **node_cut.** `handleIndexedMessage` handles the messages the aligner set aside
  *before* it takes the snapshot. They follow the barrier, so after a restore the
  source replays them and the node counts them twice. The document promises that the
  buffering makes the snapshot "globally consistent".
* **merge_stop.** One of two merged sources ends by itself, then `Stop` sends a
  barrier through the other one. The merge starts an alignment that waits for the
  source that has ended, and sets aside the stop that would end it.

### Further configurations

These are not part of the list of runs; each one ends with a counterexample that
explains why a property is not claimed.

| cfg (module) | property | what the trace shows |
|---|---|---|
| `NodeOverlap` (NodeRuntime) | `SnapshotCovers` | a barrier of a second epoch joins a running alignment: the aligner does not compare epochs |
| `NodeLate` (NodeRuntime) | `WatermarkBehindData` | a watermark passes the aligner while an earlier event waits in it |
| `ControllerFinal` (Controller) | `FinalCheckpointCompletes` | the monitor stops the controller as soon as all runtimes have returned; its select may choose the cancelled context while the completions of the final checkpoint are still in its channel, and the checkpoint is never persisted (`pipeline.go` 193: nodes "complete the final checkpoint, and then exit") |
| `ControllerFull` (Controller) | `NodesExit` | with more nodes than places in the stop channel a node blocks in its report once the controller has returned |
| `PausedStop` (MCPipeline) | `StopCompletes` | `Stop` of a paused pipeline: a node waits for a `Resume` that Stopping rejects |
| `PauseRace` (MCPipeline) | `PauseTakesHold` | `Pause` and `Resume` at once: the state changes in one order, a node is told in the other and stays paused |
| `SourceLeak` (MCPipeline) | `SourcesExit` | after a graceful stop a source's goroutine is blocked on a buffer nobody reads |
| `Terminal` (MCPipeline) | `TerminalIsFinal` | the errs goroutine and the monitor overwrite each other's terminal state: a pipeline whose node failed may end as Stopped |
| `BranchCut` (MCPipeline) | `OneCut` | the barrier comes between the sends of one message to two outputs: two sinks snapshot different data |
| `TerminateCut` (MCPipeline) | `OneCut` | `Terminate` overtakes a `Stop`: a send that fails because the context is done is skipped like a failed message, and the barrier behind it still completes the checkpoint, which then lacks that message downstream |
| `StoreTorn` (CheckpointStore) | `LatestIsWhole` | `Save` makes the directory of an epoch with the first state; after a failed save or a crash `LatestEpoch` names a checkpoint with states of some nodes only (`checkpoint_manager.go` 109) |
| `StoreAgain` (CheckpointStore) | `LastSavedSurvives` | the next life numbers its epochs from 1 and tears the checkpoint it should retain |
| `TimerSpin` (MCNodeTimers) | `ResumeTakesHold` | a paused node whose timer has expired goes round above the select for ever and never reads the `Resume` in its control channel |
| `TimerRestore` (MCNodeTimers) | `SleepDelays` | a restored timer "sleep-1" releases the first message of the new life, which got the same name, before its delay (`timer.go` 210) |
| `SleepStop` (MCNodeTimers) | `StopDrains` | a graceful stop leaves the messages Sleep holds back behind |
| `PoolSkip` (MCWorkerPool) | `OriginalCaused` | under SkipAndLog a pool keeps its first error and returns it for every later message, none of which caused it (`errors.go` 39: "OriginalMsg is the message that caused the error"); they are all skipped until the next signal |
| `PoolFail` (MCWorkerPool) | `FailureIsSeen` | the error of `Drain` in `nr.err` is replaced by `context.Canceled` at the next select: under FailPipeline the pipeline ends as if nothing had failed |
| `PoolStop` (MCWorkerPool) | `StopBehindData` | `nodes.Concurrent` is not `Drainable`: its workers emit after the stop |
| `DeadLetterJam` (MCWorkerPool) | `EndsAnyway` | the dead-letter sink fails, its runtime returns, its buffer fills, and the next send under the background context blocks for ever (`errors.go` 113: "If the buffer is full or context is cancelled, log and continue") |
| `BuildGaps` (MCGraphBuilder, with `-continue`) | `OwnBuffers` | a second `Build` gives the adapters new outputs: the nodes of the first pipeline emit into the buffers of the second |
| | `OnePort` | a route to a port that is not connected goes to all outputs (`operator.go` 419: "exactly one port") |
| | `DeadLetterHasBuffer` | the dead-letter strategy without a sink builds a handler that sends to a nil buffer |

One more, `PauseHold` (MCPipeline), passes: it checks `PauseTakesHold` on a chain with two
messages when both the `Pause` and the `Resume` may expire.

### A context that expires

What a call that returns the error of its context leaves behind is an exception in the
properties about it, since the code repairs none of it:

* `Stop` leaves the state Stopping with sources that were not told (`controller.go`
  184-186); a second `Stop` and a `Terminate` are refused in that state, so only sources
  that end, a node that fails or the context given to `Start` can end the pipeline.
  `StopCompletes` excepts it.
* `Resume` leaves the state Running with nodes still paused (`pipeline.go` 238-240), and
  `Wait` does not return when the sources end. `SourcesEndThenDone` excepts it.
* `Pause` leaves the state Paused with nodes still running (`pipeline.go` 222-224).
  `PauseTakesHold` excepts the nodes that a `Pause` or `Resume` did not come to.
* `Terminate` cancels the pipeline's context whatever the sends returned:
  `TerminateCompletes`, `FailureCompletes` and the safety properties need no exception.

### Bounds

`MaxData`, `MaxEpoch`, `MaxWM`, `MaxLife`, `Epochs` and `Calls` bound the inputs.
Two inputs are the smallest merge, and two data messages on each side of a barrier
let one be in front of it, one set aside behind it, and a third still to come. Two
epochs let the second alignment meet what the first left behind. A buffer of one
place makes every send a potential block; larger buffers only add states in which
fewer steps are blocked. A channel of two places with two nodes and duplicates fills
up. Four epochs with `KeepCount` 2 let a failed checkpoint and a cleanup follow each
other twice. Three messages of two keys let Debounce replace a message and leave
another alone, and Deduplicate see a key before, at and after the end of its window;
past `MaxTime` the clock goes on to the last timer, so nothing is held back by the
bound. Two workers and three messages fill the pool and leave one for behind a stop; a
ThenStop barrier and a stop are the two signals that cancel the node, and either may come
first. Graphs of three nodes and three
edges have every kind of loop and parallel edge; the diamond and the cycle behind a
source need the fourth node. `lifecycle` makes do with one message, since its questions
are about calls, blocked sends and cancellation: with buffers of one place a message and
the stop behind it block a node. Each property is violated by a mutant under exactly
these bounds, so the case it is about does happen in them. The bounds do not matter to the properties
that are proved (section 5): all safety properties but `OneCut`.

### Fairness

* `Pipeline!FairSpec`: weak fairness of `Proceed`, everything a goroutine of the
  engine, or a call once made, does without outside help. The Go scheduler runs a
  goroutine that can go on. With the bounds every behaviour is finite, so fairness of
  the disjunction is the same as fairness of each goroutine: none may stop while it
  can proceed. `Proceed` leaves out what nobody guarantees: that the application
  starts the pipeline or calls, that a source produces or returns (unless its context
  is cancelled), and that a merger whose context is done still passes a message on.
* `Pipeline!FiniteSpec` adds that sources return, for the questions about sources
  that end by themselves and about `Stop` in general.
* `Controller!Fairness`: weak fairness of each case of the select, which Go chooses
  at random among the ready ones; strong fairness of the sends of the nodes, since Go
  serves the senders that wait for a channel in turn; a node whose context is
  cancelled leaves its loop.
* `NodeTimers!FairSpec`: the loop takes the steps it can and time goes on until the
  last timer. No message, request or cancellation need come. Where the loop spins it
  has no step: `Top` is not enabled while it may only go round.
* `WorkerPool!FairSpec`: loop, workers, dead-letter runtime and monitor go on while
  they can, which assumes that the user's operators return. The stream need not end. After
  a stop the loop may take more messages, but not for ever: the select chooses at random
  among its ready cases, of which `ctx.Done` is one (in the model the messages run out).
* `GraphBuilder!FairSpec`: a `Build` that was called goes on; nobody need call it.

## 4. From the code to the actions

| code | action |
|---|---|
| `Pipeline.Start` | `Start` |
| the goroutine of a source (`pipeline.go` 111-128, `runtimeCollector.Emit`) | `SourceEmit`, `SourceSend`, `SourceReturn`, `SourceDone` |
| a merger goroutine | `Merge` |
| the select in `run` | `SelectDone`, `SelectMerged`, `SelectControl`; inside `waitForResume`: `WaitControl` |
| `handleMessage`, `handleSignal`, `handleAlignedBarrier` | `HandleData`, `HandleStop`, `HandleBarrier`, then `Send`, `SendFails`, `ReportCompletion`, `CancelSelf` |
| `Pause`, `Resume` | `PauseResume` (one compare-and-swap), `SendControl` or `SendControlFails` per node, `ReturnCall` |
| `Stop`, `Terminate` | `ReadState`, later `Stop` / `Terminate`, `SendControl` or `SendControlFails` per node, `ReturnCall` (which cancels the context for `Terminate`); `Reject` for a call in the wrong state |
| the errs goroutine, the monitor | `NodeError`; `MonitorRead`, `MonitorDone` |
| `Controller.run` | `RecvCompletion`, `RecvStopped`, `Exit` |
| `run` above the select, its timer and tick cases, `fireExpiredTimers` | `Top`, `SelectTimer`, `SelectTick`, `FireTimer` |
| `ConcurrentOperator`: `ProcessMessage`, its goroutine, `HandleWatermark` and `HandleCheckpoint`, `Drain` | `SelectData` and `Acquire`, `WorkerEmits`/`WorkerFails`/`WorkerEmitsError`, `WaitAll`, `DrainAll` |
| `makeErrorHandler`; the dead-letter runtime; the monitor after `wg.Wait` | `onError`, `SendDeadLetter`; `DLHandle`, `DLHandleStop`, `DLDone`; `MonitorSendStop`, `MonitorDone` |
| the builder; `Validate`; `detectCycles`; the rest of `Build` | `AddNode`, `Connect`, `SetBufferSize`, `SetErrorConfig`, `Build`; `Structure`; `DfsRoot`, `DfsEdge`, `DfsReturn`; `Wire` |
| the callback of `Build` | `CheckpointComplete`, `Save` per node, `SaveFails`, `Delete`, `DeleteFails` |

## 5. The proofs

`NodeRuntimeProofs` proves, for every number of inputs, every bound and with
overlapping epochs allowed (assumption `NodeRuntimeAssumption` only):

* `TypeCorrect`: `Spec => []TypeOK`.
* `WatermarkMonotoneCorrect`: the forwarded watermark never moves back.
* `WatermarkCorrect`: `Spec => []WatermarkIsPromised`. The invariant itself says
  nothing of the holder's inside, so it is strengthened to `WatermarkInv`: what the
  holder remembers of an input that was never idle is at most the last time that
  input promised, a promise is at most one past the data delivered, and the output
  is at most what is remembered of each such input once all have reported. The step
  that needs an argument is `tryAdvance`: the minimum over the active inputs is below
  each of them, and when none is active every input has been idle.
* `InputOrderCorrect`: `Spec => []InputOrder`. Everything delivered is in `Held`, the
  concatenation of what is handled, released and set aside. The strengthening
  `OrderInv` says when a message may be appended in the middle: while an input is not
  held back by the aligner, nothing of it is in the buffer, and the loop receives only
  when nothing is left to handle. The release of the buffer then only moves the border
  between its parts.

Its second half is about the alignment, again for every number of inputs and every bound:

* `NoneLostCorrect`: `Spec => []NoneLost`. The strengthening `KeptInv` follows a message
  through the node: each one delivered is handled, is in `todo`, or is buffered in the
  aligner, until the loop has returned.
* `StopIsLastCorrect`: `Spec => []StopIsLast`. The node counts stops and does not ask
  whose they are, so `StopInv` counts too: the stops pending in `todo` and in the buffer
  are the inputs that have stopped less those already counted (`StopCounted`), and
  pending data of an input that has stopped has a pending stop behind it (`StopBehind`).
  When the last stop is counted none is pending, so no data is either.
* `SnapshotCoversCorrect`, `SnapshotAlignedCorrect`, `BarrierNotLostCorrect`: the
  properties of snapshots, under the assumption `~Overlap` that an input delivers the
  barrier of the next epoch only when this epoch has arrived everywhere. The code needs
  it: the aligner compares no epochs, and `NodeOverlap.cfg` has the counterexample without.
  `Stop` is the engine's only source of barriers, so the assumption is met where one `Stop`
  is called; two that race may both be accepted, with an epoch each. `AlignInv` ties the aligner's `received` to the number of
  barriers each input has delivered (`Phase`), says that an aligned barrier is the last
  thing to handle and newer than all snapshots (`LastBarrier`), and that an epoch that
  is complete at the inputs is snapshotted or in `todo` (`EpochKept`).

`ControllerProofs`, for every finite set of nodes, every set of epochs and every
capacity (`ControllerAssumption`): `CallbackExactlyOnce` (`CallbackOnce`) and
`ControllerImplementsTracking`, the refinement `Spec => Abstract!Spec`. The invariant
`TrackInv` says that what the controller believes is true of the nodes at every place a
report can be: with its sender, in a channel, recorded. `CheckpointTracking` demands
that *all* nodes have the snapshot where the code compares two numbers; the step
between them is lemma `AllReportedMeansAll`.

`CheckpointStoreProofs`, for every set of nodes, every `KeepCount`, any number of epochs
and lives and with failing file operations (`CheckpointStoreAssumption`):
`FirstCrashSurvived` (`SurvivesFirstCrash`) and the action property
`CleanupLeavesKeepCount` (`CleanupKeeps`). `StoreInv` adds that in the first life no
directory is ahead of the epoch counter, so that the newest epochs, which a cleanup
spares, include the last whole one, and that the epoch being written is a new one.

`NodeTimersProofs`, for every window, any number of messages and lives, every order of
requests (`NodeTimersAssumption`). Lemma `StepCases` reduces the actions to
five: nothing happens to the operator, timers are popped, one fires, a restart, a data
message. The base is `NodeTimersInvariant`; on it rest

* `NodeTimersTypeOK` (`TypeOK`: the list stays sorted though `Restore` does not sort,
  because what a checkpoint holds is sorted);
* `PendingTimerCorrect` (`PendingHasTimer`), in all lives: a timer that fires under a
  name given out twice takes the pending message with it;
* `SleepCorrect` (`SleepFifo`): the timers popped and those in the list are together
  exactly those of the last messages in their order, so that `Register`, which inserts
  behind equal times, always inserts at the end;
* `DebounceCorrect` (`DebounceQuiet`): what is pending is the last message of its key and
  every timer, stale ones included, is due a window after its own message;
* `DedupCorrect` (`DedupExact`): a key is seen because of a message that was emitted
  (`SeenForCause`) and as long as its window lasts (`Remembered`).

The last three are about the first life: `TimerRestore.cfg` shows why.

`WorkerPoolProofs`, for every pool size, dead-letter capacity and number of messages, all
setups and every order of data and signals, behind a stop too (`WorkerPoolAssumption`):
`SignalsFollowData` (`SignalsBehindData`), `CheckpointsCoverProcessed` (`CheckpointCovers`),
`NoMessageForgotten` (`NoneForgotten`) and `AllLettersDelivered` (`DeadLettersDelivered`).
The invariant has five parts on top of the types: each signal taken was sent on or is in
hand, and the node's own context is cancelled only behind its end (`Passing`); when no
worker is left, or only those of late messages (`Quiet`); workers hold only messages taken after the signals already
sent (`Order`); every message taken is with a worker, emitted, routed or failed, and not
only failed while no error is kept and none was cleared (`Accounted`); the monitor's stop is behind
the letters of messages that are not late (`LettersBehindStop`). The exceptions are those
of the code: `Drain` returns at once when a ThenStop barrier in front has cancelled the
context, it clears the error a barrier behind the stop would look for, and the loop
returns without waiting for a worker it started behind a stop.

The library's induction theorems are not usable with the installed provers. Where an
argument is inductive (a finite family has a largest member) it is made with a least
counterexample: lemma `LeastNat` of `EngineLemmas`, from the well-foundedness of `<`.

`GraphBuilderProofs` proves, for every finite set of ids and all limits (assumption
`GraphBuilderAssumption`), and so for graphs of any size and shape:

* `TypeCorrect`, `Exploration` (`BlackIsExplored`), `CycleDetection`
  (`CyclesAreFound`), `Reachability` (`AllReached`), `StickyError` (`ErrorSticks`).
* The inductive invariant `Inv` says of a search under way that the gray nodes are
  those on the stack, each once; that the stack is a path; that the edges a call has
  looked at lead to black nodes, but for the last, which leads to the next call; that
  black nodes have black neighbours; and that every set of black nodes has a member
  that no edge leads from into the set. A gray neighbour then closes a cycle along the
  stack, and when all nodes are black the last part is `Acyclic`.
* `Wiring` (`WiredAsConnected`). The list of buffers of a set of edges is defined by rank;
  that every place of the list has an edge is the library's fact that an injection between
  finite sets of one size is onto (lemma `RankOfEdges`).
* Acyclicity is stated with sets ("every non-empty set of nodes has a member without a
  successor in it") and not with paths, which would need an induction over their
  length. The same form serves `Reachability`: the complement of a closed set that
  contains all sources would be a set in which every node has a predecessor, and a
  finite one of those has a cycle.

`PipelineProofs`, for every graph (finite, of any shape, cycles included), all capacities,
any number of messages, both error strategies and any set of calls whose contexts expire
(`PipelineAssumption`):

* `MovesOrFails`: whatever calls, failures, ends of sources and the monitor race, each change
  of the lifecycle state is one of the diagram, follows a `Terminate`, or stems from the
  failure of a node. `LifecycleMovesCorrect` (`LifecycleMoves`) when no node can fail: the
  errs goroutine stores `Error` over any state (`Terminal.cfg`). `LifeInv` says that a call
  that is about to act has read a state in which it is accepted.
* `FinalCheckpointCorrect` (`FinalCheckpointTaken`) when `Stop` is called by one caller at
  most. `Carried` is the type of everything that travels: buffers, merged and held messages,
  aligners, requests and the steps of handlers carry only barriers of the epoch that `Stop`
  opened, and no stop until a source has returned. So what cancels a node is the last step
  of an aligned barrier, which has reported before (`Guarded`), and a node that is gone has
  reported the epoch or has been failed or terminated (`FinalInv`). Two racing `Stop`s may
  both be accepted; with two sources each then takes the epoch of a different caller and no
  epoch is reported by all, so the hypothesis is needed.
* `DrainedCorrect` (`Drained`) when `Stop` is not called: a source that has its barrier goes
  on producing for nodes that have left. Until a failure or a termination every node and
  every edge is `Sound`. On an edge the stop is the last message, wherever it is (buffer,
  merged channel, held back in `waitForResume`), and is there only when the node in front
  has ended; behind a stop that was taken the edge is clear; and each message produced is
  handled, in the handler, on the edge, or still to be sent on it (`EdgeInv`). In a node the
  stops still awaited are the open inputs, the one being handled included, and a node is
  cancelled only when none is left (`NodeInv`). When the monitor has seen all nodes gone,
  all inputs are clear, so all that was produced has been handled.

Checked by TLC only: the liveness properties (fairness and ENABLED are beyond the prover)
and `OneCut`. The latter needs its invariant in a stronger form than `EdgeInv`: along an
edge the messages, the barrier included, in their order.

## 6. Not modelled

* The state store: a map behind a mutex with a length-prefixed encoding, used by one
  node at a time. Nothing in it interleaves, and what its encoding does with every
  input is a matter of induction over data.
* The public API (type aliases and constructors), the wrappers of the `nodes` package
  other than `Concurrent` and `Router` (an operator that emits, drops or fails is in
  the models), the example and the test harness.
* `OnStart` and `OnClose`: the engine never calls them, though `operator.go` says that
  it does. `RestoreTimerState` is called by tests and applications only; `NodeTimers`
  models an application that does.
* The controller's mutex: the callbacks run with it held (`controller.go` 276), so one that
  asked the controller anything would block; those that `Build` installs do not.
* `SetCheckpointManager` as a call of the builder; lifecycle calls before `Start` has
  returned; `Buffer.Close`, which the engine never calls; metrics and logging.

## 7. Plan

Done, in this order: messages, aligner, watermark holder and node runtime; the
controller and its abstract specification; the pipeline with its lifecycle; the
checkpoint store; the first proofs about the node; timers and the operators on them; the
worker pool with errors and dead letters; the builder, and the proofs about it; the
proofs about alignment, controller, store, timers and worker pool; those about the
pipeline and the wiring.

The next theorem is `OneCut` for a chain of any length and one `Stop`: along an
edge, what the receiver has handled, holds and has still in the buffer is in order what the
sender has sent, the barrier at its place. Two hypotheses beyond those of the run are known
to be needed: with two `Stop`s, sends that fail after the first barrier has cancelled their
node are skipped and the second barrier passes; with `Terminate` see `TerminateCut.cfg`.
