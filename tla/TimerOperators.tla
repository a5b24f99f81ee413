--------------------------- MODULE TimerOperators ---------------------------
(***************************************************************************)
(* The timers of a node (timer.go) and the operators that rest on them:    *)
(* Sleep (timer.go), Debounce and Deduplicate (hysteresis.go).             *)
(*                                                                         *)
(* A timer name is "sleep-", "debounce-" or "dedup-expire-" and a counter; *)
(* a node has one operator, so the counter is the name.  The maps of the   *)
(* operators are sets of records with one record per key.                  *)
(***************************************************************************)
EXTENDS Naturals, Sequences

-----------------------------------------------------------------------------
(* timerManager: a sequence of timers sorted by the time they fire at. *)

newTimerManager == << >>

(* sort.Search: where the timers after time t begin. *)
UpTo(tm, t) ==
  CHOOSE idx \in 0 .. Len(tm) : /\ idx > 0 => tm[idx].at <= t
                                /\ idx < Len(tm) => tm[idx + 1].at > t

(* Mutant of Register: the search stops at the first timer that is not before. *)
RegisterInFront(tm, name, at) ==
  LET idx == Len(SelectSeq(tm, LAMBDA e : e.at < at))
  IN  SubSeq(tm, 1, idx) \o <<[name |-> name, at |-> at]>> \o SubSeq(tm, idx + 1, Len(tm))

Register(tm, name, at) ==
  LET idx == UpTo(tm, at)
  IN  SubSeq(tm, 1, idx) \o <<[name |-> name, at |-> at]>> \o SubSeq(tm, idx + 1, Len(tm))

(* Mutant of PopExpired: one timer too many is removed. *)
PopsOneMore(tm, now) ==
  LET idx == UpTo(tm, now)
  IN  [expired |-> SubSeq(tm, 1, idx), timers |-> SubSeq(tm, idx + 2, Len(tm))]

PopExpired(tm, now) ==
  LET idx == UpTo(tm, now)
  IN  [expired |-> SubSeq(tm, 1, idx), timers |-> SubSeq(tm, idx + 1, Len(tm))]

(* Peek and time.Until: is the next timer due? *)
Expired(tm, now) == tm # << >> /\ tm[1].at <= now

-----------------------------------------------------------------------------
(* The operators.  ProcessMessage and HandleTimer give the new state of the *)
(* operator, the messages emitted and the times of the timers registered    *)
(* under the name op.counter of the new state.                              *)

NewOperator == [counter |-> 0, pending |-> {}, seen |-> {}]

Result(op, emit, timers) == [op |-> op, emit |-> emit, timers |-> timers]

SleepProcess(op, msg, now, delay) ==
  Result([op EXCEPT !.counter = @ + 1,
                    !.pending = @ \cup {[name |-> op.counter + 1, msg |-> msg]}],
         << >>, {now + delay})

(* Mutant of DebounceProcess: the new message is dropped while one waits. *)
DebounceKeepsFirst(op, msg, now, window) ==
  IF \E p \in op.pending : p.msg.key = msg.key
  THEN Result(op, << >>, {})
  ELSE Result([op EXCEPT !.counter = @ + 1,
                         !.pending = @ \cup {[name |-> op.counter + 1, msg |-> msg]}],
              << >>, {now + window})

(* Mutant of DebounceProcess: the entry of the key is not replaced. *)
DebounceKeepsBoth(op, msg, now, window) ==
  Result([op EXCEPT !.counter = @ + 1,
                    !.pending = @ \cup {[name |-> op.counter + 1, msg |-> msg]}],
         << >>, {now + window})

(* The entry of the key is replaced; the timer of the old one stays. *)
DebounceProcess(op, msg, now, window) ==
  Result([op EXCEPT !.counter = @ + 1,
                    !.pending = {p \in @ : p.msg.key # msg.key}
                                  \cup {[name |-> op.counter + 1, msg |-> msg]}],
         << >>, {now + window})

(* Sleep and Debounce emit what waits under the name of the timer, if it    *)
(* still does.                                                              *)
PendingTimer(op, timer) ==
  LET found == {p \in op.pending : p.name = timer.name}
  IN  IF found = {}
      THEN Result(op, << >>, {})
      ELSE Result([op EXCEPT !.pending = @ \ found], <<(CHOOSE p \in found : TRUE).msg>>, {})

(* A key that was seen and has not expired makes the message a duplicate. *)
DedupProcess(op, msg, now, window) ==
  IF \E s \in op.seen : s.key = msg.key /\ s.at > now
  THEN Result(op, << >>, {})
  ELSE Result([op EXCEPT !.counter = @ + 1,
                         !.seen = {s \in @ : s.key # msg.key}
                                    \cup {[key |-> msg.key, at |-> now + window]}],
              <<msg>>, {now + window})

(* Mutant of DedupTimer: every key is forgotten when a timer fires. *)
DedupForgetsAll(op, timer) == Result([op EXCEPT !.seen = {}], << >>, {})

(* Keys that have expired by the time of the timer are forgotten. *)
DedupTimer(op, timer) ==
  Result([op EXCEPT !.seen = {s \in @ : s.at > timer.at}], << >>, {})

(* An operator without timers, with a ticker: it passes messages on. *)
TickProcess(op, msg, now, window) == Result(op, <<msg>>, {})

ProcessMessage(kind, op, msg, now, window) ==
  CASE kind = "sleep" -> SleepProcess(op, msg, now, window)
    [] kind = "debounce" -> DebounceProcess(op, msg, now, window)
    [] kind = "dedup" -> DedupProcess(op, msg, now, window)
    [] kind = "tick" -> TickProcess(op, msg, now, window)

HandleTimer(kind, op, timer) ==
  IF kind = "dedup" THEN DedupTimer(op, timer) ELSE PendingTimer(op, timer)

-----------------------------------------------------------------------------
(* Checkpoints.  A length-prefixed encoding is the tuple of its fields. *)

(* What an operator puts into one: its counter and the names or keys it     *)
(* holds, never the messages.  Sleep writes nothing while nothing is        *)
(* pending, and its counter is lost with it.                                *)
SleepState(op) ==
  IF op.pending = {} THEN << >> ELSE <<op.counter, {p.name : p \in op.pending}>>

DebounceState(op) == <<op.counter, {<<p.msg.key, p.name>> : p \in op.pending}>>

DedupState(op) == <<op.counter, {<<s.key, s.at>> : s \in op.seen}>>

OpState(kind, op) ==
  CASE kind = "sleep" -> SleepState(op)
    [] kind = "debounce" -> DebounceState(op)
    [] kind = "dedup" -> DedupState(op)
    [] kind = "tick" -> << >>

(* Name and fire time of every timer, in their order, ... *)
Snapshot(tm) == [k \in 1 .. Len(tm) |-> <<tm[k].name, tm[k].at>>]

(* ... which Restore keeps: it does not sort. *)
Restore(data) == [k \in 1 .. Len(data) |-> [name |-> data[k][1], at |-> data[k][2]]]

encodeTimerCheckpoint(opState, timerState) == <<timerState, opState>>

decodeTimerCheckpoint(data) == [opState |-> data[2], timerState |-> data[1]]

(* The state of the node: the timers, if it has a timer manager, and the    *)
(* operator's own state.                                                    *)
HandleCheckpoint(kind, op, tm) ==
  IF kind = "tick" THEN OpState(kind, op)
  ELSE encodeTimerCheckpoint(OpState(kind, op), Snapshot(tm))

(* The timers are put back and the operator's state is handed to the        *)
(* caller, who can do nothing with it: no operator here has a method that   *)
(* takes it, and a new one starts empty.                                    *)
RestoreTimerState(data) ==
  [timers |-> IF data = << >> THEN newTimerManager
              ELSE Restore(decodeTimerCheckpoint(data).timerState),
   op |-> NewOperator]
=============================================================================
