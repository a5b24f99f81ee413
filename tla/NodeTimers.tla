----------------------------- MODULE NodeTimers -----------------------------
(***************************************************************************)
(* The run loop of a node whose operator uses timers or ticks (runtime.go  *)
(* 190-327), with one input, its control channel and a clock.              *)
(*                                                                         *)
(* Each round of the loop begins at "top", where expired timers are fired  *)
(* at once, and then stands at "select".  Timers that were popped together *)
(* are handled one by one ("fire"); a paused node that has received a      *)
(* message stands in waitForResume ("wait").  The input, the requests and  *)
(* the cancellation are the environment.  A checkpointed node may be       *)
(* started again by a program that restores the timers of the checkpoint.  *)
(* Sends to the outputs do not block here; once the context is done they   *)
(* may fail.                                                               *)
(***************************************************************************)
EXTENDS TimerOperators, FiniteSets

CONSTANTS
  Setups,    \* what is run: an operator, the requests made to its node (once each),
             \* the lives of the program, the keys and the number of data messages per life
  Window,    \* delay of Sleep, window of Debounce and Deduplicate
  MaxTime,   \* bound: the clock, but for the timers that are set
  MaxData    \* bound: data messages per life, whatever the setup

ASSUME NodeTimersAssumption ==
  /\ Setups \subseteq [kind : {"sleep", "debounce", "dedup", "tick"},
                      requests : SUBSET {"pause", "resume", "terminate"}, lives : Nat \ {0},
                      keys : SUBSET {"a", "b"}, data : 0 .. MaxData]
  /\ Window \in Nat \ {0} /\ MaxTime \in Nat /\ MaxData \in Nat

VARIABLES
  setup,      \* the member of Setups that is run
  now,        \* the clock
  tm,         \* the timer manager
  op,         \* the operator's state
  pc,         \* "top", "select", "fire", "wait" or "gone"
  wake,       \* when nextTimer goes off, 0 if there is none
  tick,       \* the ticker's channel holds a tick
  due,        \* popped timers still to handle
  held,       \* the message waitForResume stands in front of
  paused,     \* nr.paused
  ctl,        \* the control channel
  cancelled,  \* the context is done
  made,       \* environment: requests made
  ended,      \* environment: the input has delivered stop or a ThenStop barrier
  arrived,    \* history of this life: data messages handled, with their time
  emitted,    \* history of this life: what was emitted, with the time
  saved,      \* the last checkpoint, or << >>
  life        \* which life of the program

loopVars == <<pc, wake, due, held, paused, cancelled>>
opVars == <<tm, op, arrived, emitted>>
vars == <<setup, now, opVars, loopVars, tick, ctl, made, ended, saved, life>>

kind == setup.kind

Init ==
  /\ setup \in Setups
  /\ now = 1
  /\ tm = newTimerManager /\ op = NewOperator
  /\ pc = "top" /\ wake = 0 /\ tick = FALSE
  /\ due = << >> /\ held = << >>
  /\ paused = FALSE /\ ctl = << >> /\ cancelled = FALSE
  /\ made = {} /\ ended = FALSE
  /\ arrived = << >> /\ emitted = << >>
  /\ saved = << >> /\ life = 1

-----------------------------------------------------------------------------
(* What is emitted, with the time. *)
Stamp(msgs) == [k \in 1 .. Len(msgs) |-> [n |-> msgs[k].n, at |-> now]]

(* Mutant of Top: the loop goes to its select without a timer. *)
TopSetsNoTimer ==
  /\ pc = "top"
  /\ ~Expired(tm, now)
  /\ pc' = "select"
  /\ UNCHANGED <<setup, now, opVars, wake, due, held, paused, cancelled, tick, ctl, made, ended,
                 saved, life>>

(* The top of the loop: an expired timer is fired at once, unless the node  *)
(* is paused, and in that case the loop begins again.  Otherwise nextTimer  *)
(* is set for the first timer.                                              *)
Top ==
  /\ pc = "top"
  /\ IF Expired(tm, now)
     THEN /\ ~paused
          /\ pc' = "fire"
          /\ due' = PopExpired(tm, now).expired
          /\ tm' = PopExpired(tm, now).timers
          /\ UNCHANGED wake
     ELSE /\ pc' = "select"
          /\ wake' = IF tm = << >> THEN 0 ELSE tm[1].at
          /\ UNCHANGED <<tm, due>>
  /\ UNCHANGED <<setup, now, op, arrived, emitted, held, paused, cancelled, tick, ctl, made, ended,
                 saved, life>>

(* fireExpiredTimers: an error of one timer drops the ones popped with it. *)
FireTimer ==
  /\ pc = "fire"
  /\ IF due = << >>
     THEN pc' = "top" /\ UNCHANGED <<op, emitted, due>>
     ELSE LET r == HandleTimer(kind, op, Head(due))
          IN  /\ op' = r.op
              /\ \/ /\ emitted' = emitted \o Stamp(r.emit)
                    /\ due' = Tail(due)
                    /\ UNCHANGED pc
                 \/ /\ cancelled /\ r.emit # << >>
                    /\ pc' = "gone" /\ due' = << >>
                    /\ UNCHANGED emitted
  /\ UNCHANGED <<setup, now, tm, arrived, wake, held, paused, cancelled, tick, ctl, made, ended,
                 saved, life>>

(* Mutant of SelectDone: waitForResume does not look at the context. *)
WaitIgnoresContext ==
  /\ pc = "select"
  /\ cancelled
  /\ pc' = "gone"
  /\ UNCHANGED <<setup, now, opVars, wake, due, held, paused, cancelled, tick, ctl, made, ended,
                 saved, life>>

(* The ctx.Done case. *)
SelectDone ==
  /\ pc \in {"select", "wait"}
  /\ cancelled
  /\ pc' = "gone"
  /\ UNCHANGED <<setup, now, opVars, wake, due, held, paused, cancelled, tick, ctl, made, ended,
                 saved, life>>

(* The controlCh case. *)
SelectControl ==
  /\ pc = "select"
  /\ ctl # << >>
  /\ ctl' = Tail(ctl)
  /\ \/ /\ Head(ctl) = "terminate"
        /\ pc' = "gone"
        /\ UNCHANGED paused
     \/ /\ Head(ctl) \in {"pause", "resume"}
        /\ paused' = (Head(ctl) = "pause")
        /\ pc' = "top"
  /\ UNCHANGED <<setup, now, opVars, wake, due, held, cancelled, tick, made, ended, saved, life>>

(* The timerCh case. *)
SelectTimer ==
  /\ pc = "select"
  /\ wake # 0 /\ wake <= now
  /\ IF paused
     THEN pc' = "top" /\ UNCHANGED <<due, tm>>
     ELSE /\ pc' = "fire"
          /\ due' = PopExpired(tm, now).expired
          /\ tm' = PopExpired(tm, now).timers
  /\ UNCHANGED <<setup, now, op, arrived, emitted, wake, held, paused, cancelled, tick, ctl,
                 made, ended, saved, life>>

(* The tickCh case: the operator's HandleTick does something of its own, or *)
(* fails, which ends the loop.                                              *)
SelectTick ==
  /\ pc = "select"
  /\ tick
  /\ tick' = FALSE
  /\ \/ paused /\ pc' = "top" /\ UNCHANGED emitted
     \/ ~paused /\ pc' = "top" /\ emitted' = Append(emitted, [n |-> 0, at |-> now])
     \/ ~paused /\ pc' = "gone" /\ UNCHANGED emitted
  /\ UNCHANGED <<setup, now, tm, op, arrived, wake, due, held, paused, cancelled, ctl, made, ended,
                 saved, life>>

-----------------------------------------------------------------------------
(* What the node does with a message once it handles it. *)

(* ProcessMessage registers its timer, then emits.  A failed send is the    *)
(* operator's error: skipped, or the end of the loop.                       *)
HandleData(key) ==
  LET msg == [n |-> Len(arrived) + 1, key |-> key]
      r == ProcessMessage(kind, op, msg, now, Window)
  IN  /\ op' = r.op
      /\ tm' = IF r.timers = {} THEN tm
               ELSE Register(tm, r.op.counter, CHOOSE at \in r.timers : TRUE)
      /\ arrived' = Append(arrived, [key |-> key, at |-> now])
      /\ \/ pc' = "top" /\ emitted' = emitted \o Stamp(r.emit)
         \/ cancelled /\ r.emit # << >> /\ pc' \in {"top", "gone"} /\ UNCHANGED emitted
      /\ UNCHANGED <<cancelled, saved>>

(* handleAlignedBarrier: the snapshot is taken and, when the barrier has    *)
(* been sent on, reported.                                                  *)
HandleBarrier(thenStop) ==
  /\ \/ /\ saved' = <<HandleCheckpoint(kind, op, tm)>>
        /\ cancelled' = (cancelled \/ thenStop)
        /\ pc' = "top"
     \/ cancelled /\ pc' = "gone" /\ UNCHANGED <<saved, cancelled>>
  /\ UNCHANGED opVars

(* handleSignal: the only input has stopped; the timers are left behind. *)
HandleStop ==
  /\ \/ cancelled' = TRUE /\ pc' = "top"
     \/ cancelled /\ pc' = "gone" /\ UNCHANGED cancelled
  /\ UNCHANGED <<opVars, saved>>

Handle(msg) ==
  CASE msg.type = "data" -> HandleData(msg.key)
    [] msg.type = "barrier" -> HandleBarrier(msg.thenStop)
    [] msg.type = "stop" -> HandleStop

(* The messages of the input: data, a checkpoint if there is a life after   *)
(* this one, and a stop.                                                    *)
Incoming ==
  IF ended THEN {}
  ELSE (IF Len(arrived) < setup.data THEN [type : {"data"}, key : setup.keys] ELSE {})
         \cup (IF saved = << >> /\ life < setup.lives
               THEN [type : {"barrier"}, thenStop : BOOLEAN] ELSE {})
         \cup {[type |-> "stop"]}

(* The merged case; a paused node takes the message and waits with it. *)
SelectMerged ==
  /\ pc = "select"
  /\ \E msg \in Incoming :
       /\ ended' = (msg.type = "stop" \/ (msg.type = "barrier" /\ msg.thenStop))
       /\ IF paused
          THEN /\ pc' = "wait" /\ held' = <<msg>>
               /\ UNCHANGED <<opVars, cancelled, saved>>
          ELSE Handle(msg) /\ UNCHANGED held
  /\ UNCHANGED <<setup, now, wake, due, paused, tick, ctl, made, life>>

(* waitForResume: resume handles the message that is held, if the context   *)
(* is not done; terminate cancels it; anything else is dropped.             *)
WaitControl ==
  /\ pc = "wait"
  /\ ctl # << >>
  /\ ctl' = Tail(ctl)
  /\ \/ /\ Head(ctl) = "resume"
        /\ paused' = FALSE
        /\ held' = << >>
        /\ IF cancelled THEN pc' = "gone" /\ UNCHANGED <<opVars, cancelled, saved>>
                        ELSE Handle(held[1])
     \/ /\ Head(ctl) = "terminate"
        /\ cancelled' = TRUE
        /\ pc' = "gone"
        /\ UNCHANGED <<opVars, held, paused, saved>>
  /\ UNCHANGED <<setup, now, wake, due, tick, made, ended, life>>

-----------------------------------------------------------------------------
(* The environment. *)

(* Past MaxTime the clock only goes on to the next timer. *)
Advance ==
  /\ now < MaxTime \/ (tm # << >> /\ ~Expired(tm, now))
  /\ now' = now + 1
  /\ tick' = (tick \/ kind = "tick")
  /\ UNCHANGED <<setup, opVars, loopVars, ctl, made, ended, saved, life>>

(* SendControl, each request once; Resume is accepted after Pause only. *)
SendControl ==
  /\ \E req \in setup.requests \ made :
       /\ req = "resume" => "pause" \in made
       /\ made' = made \cup {req}
       /\ ctl' = Append(ctl, req)
  /\ UNCHANGED <<setup, now, opVars, loopVars, tick, ended, saved, life>>

(* The pipeline's context is cancelled. *)
Cancel ==
  /\ ~cancelled
  /\ cancelled' = TRUE
  /\ UNCHANGED <<setup, now, opVars, pc, wake, due, held, paused, tick, ctl, made, ended,
                 saved, life>>

(* The program dies or ends, and its next life restores the timers. *)
Restart ==
  /\ saved # << >>
  /\ life < setup.lives
  /\ life' = life + 1
  /\ tm' = RestoreTimerState(saved[1]).timers
  /\ op' = RestoreTimerState(saved[1]).op
  /\ pc' = "top" /\ wake' = 0 /\ tick' = FALSE
  /\ due' = << >> /\ held' = << >>
  /\ paused' = FALSE /\ ctl' = << >> /\ cancelled' = FALSE /\ ended' = FALSE
  /\ arrived' = << >> /\ emitted' = << >>
  /\ UNCHANGED <<setup, now, made, saved>>

LoopStep ==
  \/ Top \/ FireTimer
  \/ SelectDone \/ SelectControl \/ SelectTimer \/ SelectTick \/ WaitControl

Next ==
  \/ LoopStep \/ SelectMerged
  \/ Advance \/ SendControl \/ Cancel \/ Restart

Spec == Init /\ [][Next]_vars

(* The loop takes every step that it can and time goes on.  Requests,       *)
(* messages and the clock are bounded, so fairness of the disjunction means *)
(* that neither stops while it can proceed.                                 *)
FairSpec == Spec /\ WF_vars(LoopStep \/ Advance)

-----------------------------------------------------------------------------
Timers == [name : 1 .. setup.data, at : Nat]

(* The loop and the operator keep their types: timers are sorted, pending   *)
(* is a map (of names, and for Debounce of keys too).                       *)
TypeOK ==
  /\ now \in Nat /\ wake \in Nat /\ life \in 1 .. setup.lives
  /\ pc \in {"top", "select", "fire", "wait", "gone"}
  /\ {tick, paused, cancelled, ended} \subseteq BOOLEAN
  /\ tm \in Seq(Timers) /\ due \in Seq(Timers)
  /\ \A j, k \in 1 .. Len(tm) : j < k => tm[j].at <= tm[k].at
  /\ op.counter \in 0 .. setup.data
  /\ \A p, q \in op.pending :
       p.name = q.name \/ (kind = "debounce" /\ p.msg.key = q.msg.key) => p = q
  /\ \A s, t \in op.seen : s.key = t.key => s = t
  /\ (pc = "wait") => Len(held) = 1

(* Sleep re-emits the messages in the order they came, none before its      *)
(* delay has passed: timers with the same fire time are kept in the order   *)
(* they were registered in (Register, PopExpired).                          *)
SleepFifo ==
  kind = "sleep" /\ life = 1 =>
    \A k \in 1 .. Len(emitted) :
      emitted[k].n = k /\ emitted[k].at >= arrived[k].at + Window

(* Debounce emits a message only after a window without a new message of    *)
(* its key, though the timers of replaced messages still fire.              *)
DebounceQuiet ==
  kind = "debounce" /\ life = 1 =>
    \A k \in 1 .. Len(emitted) :
      LET m == arrived[emitted[k].n]
      IN  /\ emitted[k].at >= m.at + Window
          /\ \A j \in emitted[k].n + 1 .. Len(arrived) :
               arrived[j].key = m.key => arrived[j].at >= m.at + Window

WasEmitted(n) == \E k \in 1 .. Len(emitted) : emitted[k].n = n

(* Deduplicate emits a message exactly when no message of its key was       *)
(* emitted in the window before it: the timers that clean up never remove a *)
(* key too early, and a late one does not make it drop too much.            *)
DedupExact ==
  kind = "dedup" /\ life = 1 /\ ~cancelled =>
    \A j \in 1 .. Len(arrived) :
      WasEmitted(j) <=> \A i \in 1 .. j - 1 :
        WasEmitted(i) /\ arrived[i].key = arrived[j].key => arrived[j].at >= arrived[i].at + Window

(* A message that Sleep or Debounce holds back has a timer of its own that  *)
(* is still to fire at its time, also after a restore, when the names of    *)
(* restored timers are given out again.                                     *)
PendingHasTimer ==
  pc # "gone" =>
    \A p \in op.pending :
      \E k \in 1 .. Len(due \o tm) :
        (due \o tm)[k] = [name |-> p.name, at |-> arrived[p.msg.n].at + Window]

(* The loop is held up at its top: a timer has expired and may not fire. *)
Spinning == pc = "top" /\ paused /\ Expired(tm, now)

Waiting(n) == \E p \in op.pending : p.msg.n = n

(* What Sleep or Debounce holds back leaves the operator in the end, unless *)
(* the loop returns or the node stays paused.                               *)
EveryMessageLeaves ==
  \A n \in 1 .. MaxData : Waiting(n) ~> (~Waiting(n) \/ pc = "gone" \/ []paused)

(* A loop whose context is done returns, at its select or while it waits    *)
(* for a resume, unless it spins at its top for ever.                       *)
CancelTakesHold == cancelled ~> (~cancelled \/ pc = "gone" \/ []Spinning)

(* Terminate and Resume take effect on a paused node ("Paused: Goroutines   *)
(* alive but not reading from input buffers", docs/architecture.md).        *)
ResumeTakesHold == ("resume" \in made) ~> (~paused \/ pc = "gone")

(* A restored Sleep keeps the delay of the messages it receives: "Each      *)
(* incoming message is buffered and re-emitted after the delay expires"     *)
(* (timer.go).                                                              *)
SleepDelays ==
  kind = "sleep" =>
    \A k \in 1 .. Len(emitted) : emitted[k].at >= arrived[emitted[k].n].at + Window

(* A node that has stopped gracefully has handed on what it held: "graceful *)
(* drain" (README.md).                                                      *)
StopDrains == pc = "gone" /\ ended /\ made = {} => op.pending = {}
=============================================================================
