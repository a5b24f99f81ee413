----------------------------- MODULE NodeRuntime -----------------------------
(***************************************************************************)
(* The processing loop of one non-source node (runtime.go) with its        *)
(* barrier aligner and its watermark holder.                               *)
(*                                                                         *)
(* One iteration of the loop receives a message (Receive...) and then runs *)
(* handleIndexedMessage on it.  That handler is a loop of its own over the *)
(* messages the aligner releases, so it is modelled step by step: todo is  *)
(* what it has still to handle, the aligned barrier last, and the loop     *)
(* receives again only when todo is empty.  The context may be cancelled   *)
(* between any two steps.                                                  *)
(*                                                                         *)
(* The inputs are the environment.  An upstream node sends data, at most   *)
(* one barrier per epoch and in the order of the epochs, watermarks that   *)
(* keep their promise, and one stop.  A barrier may follow a stop: the     *)
(* source's runtime may still answer a checkpoint request after the        *)
(* source's goroutine has sent stop.                                       *)
(***************************************************************************)
EXTENDS BarrierAligner, WatermarkHolder, Integers

CONSTANTS
  NumInputs,   \* len(cfg.Inputs), at least one: a source has no such loop
  MaxData,     \* bound: data messages per input
  MaxEpoch,    \* bound: checkpoint epochs
  StopEpochs,  \* the epochs whose barrier says ThenStop
  MaxWM,       \* bound: event time of a watermark
  Overlap      \* may an epoch start before the previous one is aligned here?

ASSUME NodeRuntimeAssumption ==
  /\ NumInputs \in Nat \ {0}
  /\ MaxData \in Nat /\ MaxEpoch \in Nat /\ MaxWM \in Nat
  /\ StopEpochs \subseteq 1 .. MaxEpoch
  /\ Overlap \in BOOLEAN

Inputs == 1 .. NumInputs

VARIABLES
  ba,            \* nr.aligner
  wh,            \* nr.watermarks
  activeInputs,  \* nr.activeInputs
  cancelled,     \* the runtime's context is done
  exited,        \* run has returned
  todo,          \* what handleIndexedMessage has still to handle
  handled,       \* history: what the node has handled, in order
  snaps,         \* history: the snapshots taken, in order
  stopAt,        \* history: Len(handled) when stop was forwarded, 0 before
  sent,          \* environment: data messages delivered per input
  cut,           \* environment: cut[i][e] is sent[i] when i delivered barrier e
  stopSent,      \* environment: inputs that delivered stop
  promise,       \* environment: last watermark time per input
  everIdle       \* environment: inputs that have been declared idle

nodeVars == <<ba, wh, activeInputs, cancelled, exited, todo, handled, snaps, stopAt>>
envVars == <<sent, cut, stopSent, promise, everIdle>>
vars == <<nodeVars, envVars>>

Init ==
  /\ ba = NewBarrierAligner
  /\ wh = NewWatermarkHolder(Inputs)
  /\ activeInputs = NumInputs
  /\ cancelled = FALSE
  /\ exited = FALSE
  /\ todo = << >>
  /\ handled = << >>
  /\ snaps = << >>
  /\ stopAt = 0
  /\ sent = [i \in Inputs |-> 0]
  /\ cut = [i \in Inputs |-> << >>]
  /\ stopSent = {}
  /\ promise = [i \in Inputs |-> 0]
  /\ everIdle = {}

-----------------------------------------------------------------------------
(* handleIndexedMessage up to its loop: what the aligner releases, then the *)
(* aligned barrier.                                                         *)
Dispatch(i, msg) ==
  LET r == OnMessage(ba, NumInputs, i, msg)
  IN  /\ ba' = r.ba
      /\ todo' = r.toProcess \o (IF r.aligned = NoBarrier THEN << >> ELSE <<r.aligned>>)
      /\ UNCHANGED <<wh, activeInputs, cancelled, exited, handled, snaps, stopAt>>

(* The run loop is at its select. *)
AtSelect == ~exited /\ todo = << >>

ReceiveData(i) ==
  /\ AtSelect
  /\ i \notin stopSent
  /\ sent[i] < MaxData
  /\ sent' = [sent EXCEPT ![i] = @ + 1]
  /\ Dispatch(i, DataMsg(i, sent[i] + 1))
  /\ UNCHANGED <<cut, stopSent, promise, everIdle>>

ReceiveBarrier(i) ==
  LET epoch == Len(cut[i]) + 1
  IN  /\ AtSelect
      /\ epoch <= MaxEpoch
      /\ Overlap \/ \A j \in Inputs : Len(cut[j]) >= Len(cut[i])
      /\ cut' = [cut EXCEPT ![i] = Append(@, sent[i])]
      /\ Dispatch(i, BarrierMsg(epoch, epoch \in StopEpochs))
      /\ UNCHANGED <<sent, stopSent, promise, everIdle>>

ReceiveStop(i) ==
  /\ AtSelect
  /\ i \notin stopSent
  /\ stopSent' = stopSent \cup {i}
  /\ Dispatch(i, StopMsg)
  /\ UNCHANGED <<sent, cut, promise, everIdle>>

(* handleIndexedWatermark: the holder is updated before, and whatever the   *)
(* state of, the aligner.  An idle signal makes no promise.                 *)
ReceiveWatermark(i) ==
  /\ AtSelect
  /\ i \notin stopSent
  /\ \E time \in 0 .. MaxWM, idle \in BOOLEAN :
       /\ idle \/ (promise[i] < time /\ time <= sent[i] + 1)
       /\ LET r == Update(wh, i, WatermarkMsg(time, idle))
          IN  /\ wh' = r.wh
              /\ todo' = IF r.advanced = NoWatermark THEN << >> ELSE <<r.advanced>>
       /\ promise' = [promise EXCEPT ![i] = IF idle THEN @ ELSE time]
       /\ everIdle' = IF idle THEN everIdle \cup {i} ELSE everIdle
  /\ UNCHANGED <<ba, activeInputs, cancelled, exited, handled, snaps, stopAt,
                 sent, cut, stopSent>>

-----------------------------------------------------------------------------
(* The run loop takes the next message of todo. *)
Handling(kind) == ~exited /\ todo # << >> /\ Head(todo).kind = kind

Consume ==
  /\ todo' = Tail(todo)
  /\ handled' = Append(handled, Head(todo))

(* A handler returns an error: run returns and the rest of todo is dropped. *)
Fail ==
  /\ exited' = TRUE
  /\ todo' = << >>
  /\ UNCHANGED <<ba, wh, activeInputs, cancelled, handled, snaps, stopAt, envVars>>

(* handleMessage on data.  The operator may fail; the error handler then    *)
(* either counts the message as handled or returns the error.               *)
ProcessMessage ==
  /\ Handling("data")
  /\ \/ /\ Consume
        /\ UNCHANGED <<ba, wh, activeInputs, cancelled, exited, snaps, stopAt, envVars>>
     \/ Fail

(* Mutant of handleStop: the first stop shuts the node down. *)
StopsAtOnce ==
  /\ Handling("stop")
  /\ Consume
  /\ activeInputs' = activeInputs - 1
  /\ stopAt' = Len(handled) + 1
  /\ cancelled' = TRUE
  /\ UNCHANGED <<ba, wh, exited, snaps, envVars>>

(* The stop case of handleSignal: the last input's stop is forwarded, then  *)
(* nr.Stop cancels the context.  A send may fail once it is cancelled; run  *)
(* then returns and activeInputs is not looked at again.                    *)
handleStop ==
  /\ Handling("stop")
  /\ \/ /\ Consume
        /\ activeInputs' = activeInputs - 1
        /\ IF activeInputs <= 1
           THEN stopAt' = Len(handled) + 1 /\ cancelled' = TRUE
           ELSE UNCHANGED <<stopAt, cancelled>>
        /\ UNCHANGED <<ba, wh, exited, snaps, envVars>>
     \/ cancelled /\ activeInputs <= 1 /\ Fail

(* HandleCheckpoint, whose snapshot holds what was handled so far. *)
Snapshot(barrier) ==
  snaps' = Append(snaps, [epoch |-> barrier.epoch, at |-> Len(handled),
                          seen |-> [i \in Inputs |-> Len(cut[i])]])

(* HandleCheckpoint may fail; the snapshot is taken before the barrier is   *)
(* forwarded, and the send may fail once the context is cancelled.          *)
handleAlignedBarrier ==
  /\ Handling("barrier")
  /\ \/ /\ Consume
        /\ Snapshot(Head(todo))
        /\ cancelled' = (cancelled \/ Head(todo).thenStop)
        /\ UNCHANGED <<ba, wh, activeInputs, exited, stopAt, envVars>>
     \/ Fail
     \/ /\ cancelled
        /\ Snapshot(Head(todo))
        /\ exited' = TRUE
        /\ todo' = << >>
        /\ UNCHANGED <<ba, wh, activeInputs, cancelled, handled, stopAt, envVars>>

(* The node's HandleWatermark, which may fail, then the sends. *)
HandleWatermark ==
  /\ Handling("watermark")
  /\ \/ /\ Consume
        /\ UNCHANGED <<ba, wh, activeInputs, cancelled, exited, snaps, stopAt, envVars>>
     \/ Fail

-----------------------------------------------------------------------------
(* The parent context, or Stop on the runtime. *)
Cancel ==
  /\ ~cancelled
  /\ cancelled' = TRUE
  /\ UNCHANGED <<ba, wh, activeInputs, exited, todo, handled, snaps, stopAt, envVars>>

(* The ctx.Done case of the loop, or merged closed by the mergers. *)
Exit ==
  /\ AtSelect
  /\ cancelled
  /\ exited' = TRUE
  /\ UNCHANGED <<ba, wh, activeInputs, cancelled, todo, handled, snaps, stopAt, envVars>>

Next ==
  \/ \E i \in Inputs : ReceiveData(i) \/ ReceiveBarrier(i) \/ ReceiveStop(i)
                         \/ ReceiveWatermark(i)
  \/ ProcessMessage \/ handleStop \/ handleAlignedBarrier \/ HandleWatermark
  \/ Cancel \/ Exit

Spec == Init /\ [][Next]_vars
-----------------------------------------------------------------------------
Snap == [epoch : Nat, at : Nat, seen : [Inputs -> Nat]]

(* The types of the runtime's fields and of the environment's history. *)
TypeOK ==
  /\ ba \in AlignerState(Inputs)
  /\ wh \in HolderState(Inputs)
  /\ activeInputs \in Int
  /\ cancelled \in BOOLEAN /\ exited \in BOOLEAN
  /\ todo \in Seq(Message(Inputs))
  /\ handled \in Seq(Message(Inputs))
  /\ snaps \in Seq(Snap)
  /\ stopAt \in Nat
  /\ sent \in [Inputs -> Nat]
  /\ cut \in [Inputs -> Seq(Nat)]
  /\ stopSent \subseteq Inputs
  /\ promise \in [Inputs -> Nat]
  /\ everIdle \subseteq Inputs

(* Everything delivered to the node, in the order it is or will be handled. *)
Held == handled \o todo \o ba.buffered

(* The aligner's buffering and release never swap two data messages of one *)
(* input, never duplicate one and never invent one: on each input the data *)
(* handled, released or buffered has growing positions, none past the last *)
(* one delivered (OnMessage, handleIndexedMessage).                        *)
InputOrder ==
  /\ \A j, k \in 1 .. Len(Held) :
       /\ j < k
       /\ Held[j].kind = "data" /\ Held[k].kind = "data"
       /\ Held[j].in = Held[k].in
       => Held[j].n < Held[k].n
  /\ \A j \in 1 .. Len(Held) : Held[j].kind = "data" => Held[j].n <= sent[Held[j].in]

(* Until the loop returns, no data message is lost: each one delivered is   *)
(* handled, about to be handled, or waiting in the aligner.                 *)
NoneLost ==
  ~exited =>
    \A i \in Inputs : \A n \in 1 .. sent[i] :
      \E k \in 1 .. Len(Held) : Held[k] = DataMsg(i, n)

(* A snapshot holds every data message that precedes the barrier of its     *)
(* epoch, on every input: on no input is it taken too early.                *)
SnapshotCovers ==
  \A s \in 1 .. Len(snaps) : \A i \in Inputs :
    /\ snaps[s].epoch <= Len(cut[i])
    /\ \A n \in 1 .. cut[i][snaps[s].epoch] :
         \E k \in 1 .. snaps[s].at : handled[k] = DataMsg(i, n)

(* The node snapshots epoch e only when every input has delivered the       *)
(* barrier of e, none of them a later one, and each epoch at most once.     *)
SnapshotAligned ==
  /\ \A s \in 1 .. Len(snaps) : \A i \in Inputs : snaps[s].seen[i] = snaps[s].epoch
  /\ \A s, t \in 1 .. Len(snaps) : s # t => snaps[s].epoch # snaps[t].epoch

(* An epoch whose barrier has arrived on every input is not forgotten: when *)
(* the loop is back at its select, the node has taken that snapshot.        *)
BarrierNotLost ==
  AtSelect =>
    \A e \in 1 .. MaxEpoch :
      (\A i \in Inputs : e <= Len(cut[i])) =>
        \E s \in 1 .. Len(snaps) : snaps[s].epoch = e

(* Stop is forwarded only behind everything else: by then every input has   *)
(* stopped, each of its data messages was handled before, and no data is    *)
(* handled after, also when stops and data were buffered by the aligner.    *)
StopIsLast ==
  stopAt > 0 =>
    /\ stopSent = Inputs
    /\ \A i \in Inputs : \A n \in 1 .. sent[i] :
         \E k \in 1 .. stopAt : handled[k] = DataMsg(i, n)
    /\ \A k \in stopAt + 1 .. Len(handled) : handled[k].kind # "data"

(* The watermark a node forwards never moves back, whatever the inputs and  *)
(* whichever of them turn idle or active again (tryAdvance).                *)
WatermarkMonotone == [][wh'.current >= wh.current]_vars

(* A merge node forwards a watermark only when no input can still deliver   *)
(* an earlier event.  Inputs that were declared idle are left out: the      *)
(* holder ignores them while they are idle (watermark.go).                  *)
WatermarkIsPromised ==
  \A i \in Inputs \ everIdle : wh.current <= sent[i] + 1

(* A snapshot holds no data that follows its barrier on some input:         *)
(* "ensuring the snapshot is globally consistent" (docs/architecture.md).   *)
SnapshotConsistent ==
  \A s \in 1 .. Len(snaps) : \A k \in 1 .. snaps[s].at :
    handled[k].kind = "data" => handled[k].n <= cut[handled[k].in][snaps[s].epoch]

(* A watermark tells the node that "All events with timestamps strictly     *)
(* less than this value are guaranteed to have been processed" (message.go):*)
(* none of them is waiting in the aligner.                                  *)
WatermarkBehindData ==
  everIdle = {} =>
    \A k \in 1 .. Len(ba.buffered) :
      ba.buffered[k].kind = "data" => ba.buffered[k].n >= wh.current
=============================================================================
