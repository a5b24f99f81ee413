-------------------------- MODULE WorkerPoolProofs --------------------------
(***************************************************************************)
(* Proofs about WorkerPool, for every set of operators and strategies,     *)
(* every pool size, every dead-letter capacity and any number of messages. *)
(***************************************************************************)
EXTENDS WorkerPool, FiniteSetTheorems, SequenceTheorems, TLAPS

SignalKinds == {"watermark", "barrier", "thenStop", "stop"}
OutMsgs == [type : SignalKinds \cup {"data"}, n : Nat]
KeptErrors(t) == [msg : 1 .. t, err : {"canceled", "error"}]
Calls(t) == [msg : 1 .. t, cause : 1 .. t]

-----------------------------------------------------------------------------
(* The inductive invariant, in the order in which its parts are proved. *)

(* Types of the fields that TypeOK leaves out; whatever is in the           *)
(* dead-letter buffer went through the error handler.                       *)
Fields ==
  /\ setup \in Setups
  /\ taken \in 0 .. MaxData
  /\ out \in Seq(OutMsgs)
  /\ routed \subseteq Calls(taken)
  /\ failed \subseteq 1 .. taken
  /\ signals \subseteq SignalKinds
  /\ \A k \in 1 .. Len(dlbuf) : dlbuf[k] # 0 => dlbuf[k] \in Routed

(* What the loop handles, by where it is. *)
LoopState ==
  /\ pc \in {"acquire", "deadletter"} => cur = <<[type |-> "data", n |-> taken]>> /\ taken # 0
  /\ pc = "deadletter" => setup.strategy = "deadletter" /\ taken \in Routed
  /\ pc = "acquire" => Pooled
  /\ pc = "drain" => setup.pool = "engine"
  /\ pc \in {"wait", "drain", "forward"} =>
       \E s \in signals : /\ cur = <<[type |-> s, n |-> taken]>>
                          /\ IF s = "stop" THEN pc # "wait" ELSE pc # "drain"

Shape == TypeOK /\ Fields /\ LoopState

(* A message of this type has been sent on. *)
Has(t) == \E j \in 1 .. Len(out) : out[j].type = t
HasEnd == Has("stop") \/ Has("thenStop")

(* The signal of this type is being handled. *)
InHand(t) == pc \in {"wait", "drain", "forward"} /\ cur[1].type = t

(* A signal that was taken has been sent on, or is being handled, while the *)
(* loop goes on; each counts the messages taken before it.  The node's own  *)
(* context is cancelled only behind its end.                                *)
Passing ==
  /\ \A t \in SignalKinds : Has(t) => t \in signals /\ ~InHand(t)
  /\ \A t \in signals : pc = "gone" \/ Has(t) \/ InHand(t)
  /\ \A j \in 1 .. Len(out) :
       out[j].type # "data" => out[j].n <= taken /\ (pc = "acquire" => out[j].n < taken)
  /\ cancelled => HasEnd

(* When no worker is left: always for a plain operator, when a watermark or *)
(* a barrier is about to be sent on, and when a stop is that Drain has      *)
(* waited for.  Behind the end of the node only workers of late messages    *)
(* are left, unless the pipeline is cancelled or the pool is the one of     *)
(* nodes.Concurrent.                                                        *)
Quiet ==
  /\ ~Pooled => workers = {} /\ lastErr = << >>
  /\ pc = "forward" /\ cur[1].type # "stop" => workers = {} /\ lastErr = << >>
  /\ ~pipeCtx /\ setup.pool # "nodes" =>
       /\ pc = "forward" /\ ~HasEnd => workers = {}
       /\ HasEnd => workers \subseteq Late
       /\ pc = "gone" /\ (Ended \/ setup.strategy # "fail") => workers \subseteq Late

(* The signals behind which SignalsBehindData puts the data. *)
Clear(j) ==
  /\ out[j].type # "data"
  /\ out[j].type = "stop" => setup.pool = "engine" /\ ~pipeCtx /\ ~Behind(j, "thenStop")

(* What is still with a worker, or to be given to one, was taken after      *)
(* those signals.                                                           *)
Order ==
  /\ SignalsBehindData
  /\ \A j \in 1 .. Len(out) : Clear(j) => \A w \in workers : w > out[j].n

(* Messages that a worker has or will have. *)
Waiting == workers \cup {m \in {taken} : pc = "acquire"}

(* Drain may have cleared the error of a worker. *)
Cleared == setup.pool = "engine" /\ "stop" \in signals

(* Every message taken is somewhere; as long as no worker has failed, it is *)
(* not only among the failed ones.                                          *)
Accounted ==
  /\ 1 .. taken \subseteq Waiting \cup Sent("data") \cup Routed \cup failed
  /\ Pooled /\ lastErr = << >> /\ ~Cleared /\ pc # "gone"
       => 1 .. taken \subseteq Waiting \cup Sent("data") \cup Routed
  /\ CheckpointCovers

(* The letters in the buffer, and the one being sent to it. *)
Letters == {dlbuf[k] : k \in 1 .. Len(dlbuf)} \ {0}
Pending == {m \in {taken} : pc = "deadletter"}

(* The dead letters on their way, and the monitor's stop: behind it there   *)
(* are only letters of late messages.                                       *)
LettersBehindStop ==
  setup.strategy = "deadletter" =>
    /\ broken = {} => Routed \subseteq delivered \cup Letters \cup Pending
    /\ monitor # "wait" => pc = "gone"
    /\ ~pipeCtx /\ setup.pool # "nodes" =>
         /\ \A k \in 1 .. Len(dlbuf) :
              dlbuf[k] = 0 => /\ \A l \in k + 1 .. Len(dlbuf) : dlbuf[l] \in Late
                              /\ monitor \in {"waiting", "done"}
         /\ broken = {} => /\ dlStop => /\ \A k \in 1 .. Len(dlbuf) : dlbuf[k] \in Late
                                        /\ monitor \in {"waiting", "done"}
                           /\ dl = "gone" => dlStop
                           /\ monitor = "done" => dl = "gone"

-----------------------------------------------------------------------------
(* The fields of a setup. *)
LEMMA SetupFields ==
  ASSUME Fields
  PROVE  /\ setup.pool \in {"plain", "engine", "nodes"}
         /\ setup.strategy \in {"skip", "deadletter", "fail"}
BY WorkerPoolAssumption DEF Fields

(* What the error handler does with a message. *)
LEMMA OnErrorCases ==
  ASSUME Fields, NEW n, NEW cause, NEW err, onError(n, cause, err) \/ Route(n, cause)
  PROVE  /\ routed' = routed \cup {[msg |-> n, cause |-> cause]}
         /\ \/ pc' = "gone" /\ nodeErr' = err /\ setup.strategy = "fail"
            \/ pc' = "deadletter" /\ nodeErr' = nodeErr /\ setup.strategy = "deadletter"
            \/ pc' = "select" /\ nodeErr' = nodeErr /\ setup.strategy # "deadletter"
BY SetupFields DEF onError, Route, Return

(* The three outcomes of taking a data message. *)
DataEmitted ==
  /\ ~Pooled
  /\ out' = Append(out, [type |-> "data", n |-> taken + 1])
  /\ pc' = "select"
  /\ UNCHANGED <<nodeErr, routed, failed>>

DataRouted ==
  \E cause \in 1 .. taken + 1 :
    /\ routed' = routed \cup {[msg |-> taken + 1, cause |-> cause]}
    /\ \/ pc' = "gone" /\ nodeErr' \in {"canceled", "error"} /\ setup.strategy = "fail"
       \/ pc' = "deadletter" /\ nodeErr' = nodeErr /\ setup.strategy = "deadletter"
       \/ pc' = "select" /\ nodeErr' = nodeErr /\ setup.strategy # "deadletter"
    /\ failed' \in {failed, failed \cup {taken + 1}}
    /\ UNCHANGED out

DataToPool ==
  /\ Pooled /\ lastErr = << >>
  /\ pc' = "acquire"
  /\ UNCHANGED <<nodeErr, routed, out, failed>>

(* What selectData may do with the message it takes. *)
LEMMA SelectDataCases ==
  ASSUME Shape, SelectData
  PROVE  /\ pc = "select" /\ taken < MaxData
         /\ taken' = taken + 1
         /\ cur' = <<[type |-> "data", n |-> taken + 1]>>
         /\ UNCHANGED <<setup, cancelled, workers, lastErr, pipeCtx, deadVars, signals>>
         /\ DataEmitted \/ DataRouted \/ DataToPool
<1>1. /\ pc = "select" /\ taken < MaxData
      /\ taken' = taken + 1
      /\ cur' = <<[type |-> "data", n |-> taken + 1]>>
      /\ UNCHANGED <<setup, cancelled, workers, lastErr, pipeCtx, deadVars, signals>>
  BY DEF SelectData, poolVars
<1>2. taken \in Nat /\ taken + 1 \in 1 .. taken + 1
  BY DEF Shape, Fields
<1>3. CASE ProcessPlain(taken + 1)
  <2>1. ASSUME NEW err \in Errs, onError(taken + 1, taken + 1, err),
               failed' = failed \cup {taken + 1}, UNCHANGED out
        PROVE  DataRouted
    <3>1. err \in {"canceled", "error"}
      BY DEF Errs
    <3> QED
      BY <1>2, <2>1, <3>1, OnErrorCases DEF DataRouted, Shape
  <2>2. ASSUME Route(taken + 1, taken + 1), UNCHANGED <<out, failed>>
        PROVE  DataRouted
    BY <1>2, <2>2, SetupFields DEF DataRouted, Shape, Route
  <2> QED
    BY <1>1, <1>3, <2>1, <2>2 DEF ProcessPlain, DataEmitted
<1>4. CASE ProcessPooled(taken + 1)
  <2>1. ASSUME lastErr # << >>, onError(taken + 1, lastErr[1].msg, lastErr[1].err),
               UNCHANGED <<out, failed>>
        PROVE  DataRouted
    <3>1. lastErr[1] \in KeptErrors(taken)
      <4> HIDE DEF KeptErrors
      <4>1. lastErr \in Seq(KeptErrors(taken))
        BY DEF Shape, TypeOK, KeptErrors
      <4> QED
        BY <2>1, <4>1
    <3>2. lastErr[1].err \in {"canceled", "error"} /\ lastErr[1].msg \in 1 .. taken + 1
      BY <1>2, <3>1 DEF KeptErrors
    <3> QED
      BY <2>1, <3>2, OnErrorCases DEF DataRouted, Shape
  <2>2. Pooled /\ UNCHANGED <<out, failed>>
    BY <1>4 DEF ProcessPooled
  <2>3. \/ lastErr # << >> /\ onError(taken + 1, lastErr[1].msg, lastErr[1].err)
        \/ lastErr = << >> /\ pc' = "acquire" /\ UNCHANGED <<nodeErr, routed>>
    BY <1>4 DEF ProcessPooled
  <2>4. CASE lastErr # << >>
    BY <1>1, <2>1, <2>2, <2>3, <2>4
  <2>5. CASE lastErr = << >>
    BY <1>1, <2>2, <2>3, <2>5 DEF DataToPool
  <2> QED
    BY <2>4, <2>5
<1> QED
  BY <1>1, <1>3, <1>4 DEF SelectData

(* AcquireFails gives the message to the error handler. *)
LEMMA AcquireFailsCases ==
  ASSUME Shape, AcquireFails
  PROVE  /\ pc = "acquire" /\ CtxDone
         /\ routed' = routed \cup {[msg |-> taken, cause |-> taken]}
         /\ \/ pc' = "gone" /\ nodeErr' = "canceled" /\ setup.strategy = "fail"
            \/ pc' = "deadletter" /\ nodeErr' = nodeErr /\ setup.strategy = "deadletter"
            \/ pc' = "select" /\ nodeErr' = nodeErr /\ setup.strategy # "deadletter"
         /\ UNCHANGED <<setup, cur, cancelled, workers, lastErr, pipeCtx, out, deadVars, taken,
                        signals, failed>>
<1>1. pc = "acquire" /\ CtxDone /\ onError(cur[1].n, cur[1].n, "canceled")
      /\ UNCHANGED <<setup, cur, cancelled, workers, lastErr, pipeCtx, out, deadVars, taken,
                     signals, failed>>
  BY DEF AcquireFails, poolVars
<1>2. cur[1].n = taken
  BY <1>1 DEF Shape, LoopState
<1> QED
  BY <1>1, <1>2, OnErrorCases DEF Shape

-----------------------------------------------------------------------------
(* Shape is preserved, one lemma for each part of the pipeline. *)

(* The initial states satisfy Shape. *)
LEMMA InitShape == Init => Shape
<1> SUFFICES ASSUME Init PROVE Shape
  OBVIOUS
<1>1. TypeOK
  <2>1. {cancelled, pipeCtx, dlStop} \subseteq BOOLEAN
    BY DEF Init
  <2>2. Cardinality(workers) <= Size /\ workers \subseteq 1 .. taken
    BY FS_EmptySet, WorkerPoolAssumption DEF Init
  <2>3. dlbuf \in Seq(0 .. MaxData) /\ Len(dlbuf) <= DLCap
        /\ lastErr \in Seq([msg : 1 .. taken, err : {"canceled", "error"}]) /\ Len(lastErr) <= 1
    BY WorkerPoolAssumption DEF Init
  <2> QED
    BY <2>1, <2>2, <2>3 DEF Init, TypeOK, Routed
<1>2. Fields
  BY WorkerPoolAssumption DEF Init, Fields
<1>3. LoopState
  BY DEF Init, LoopState
<1> QED
  BY <1>1, <1>2, <1>3 DEF Shape

(* More calls of the error handler, more messages taken. *)
LEMMA RoutedGrows ==
  ASSUME NEW n, NEW cause, routed' = routed \cup {[msg |-> n, cause |-> cause]}
  PROVE  Routed' = Routed \cup {n}
<1>1. \A x : x \in Routed' <=> (\E r \in routed' : x = r.msg)
  BY DEF Routed
<1>2. \A x : x \in Routed <=> (\E r \in routed : x = r.msg)
  BY DEF Routed
<1>3. [msg |-> n, cause |-> cause].msg = n
  OBVIOUS
<1> QED
  BY <1>1, <1>2, <1>3

(* SelectData keeps Shape. *)
LEMMA SelectDataShape ==
  ASSUME Shape, SelectData
  PROVE  Shape'
<1>1. /\ pc = "select" /\ taken < MaxData
      /\ taken' = taken + 1
      /\ cur' = <<[type |-> "data", n |-> taken + 1]>>
      /\ UNCHANGED <<setup, cancelled, workers, lastErr, pipeCtx, deadVars, signals>>
      /\ DataEmitted \/ DataRouted \/ DataToPool
  BY SelectDataCases
<1>2. taken \in Nat /\ taken' \in 0 .. MaxData /\ MaxData \in Nat
      /\ 1 .. taken \subseteq 1 .. taken' /\ taken + 1 \in 1 .. taken'
  BY <1>1, WorkerPoolAssumption DEF Shape, Fields
<1>3. /\ pc' \in {"select", "acquire", "deadletter", "gone"}
      /\ nodeErr' \in {"none", "canceled", "error"}
      /\ pc' = "deadletter" => setup.strategy = "deadletter"
      /\ pc' = "acquire" => Pooled
  BY <1>1 DEF DataEmitted, DataRouted, DataToPool, Shape, TypeOK
<1>4. routed' \subseteq Calls(taken') /\ Routed \subseteq Routed'
  <2>1. Calls(taken) \subseteq Calls(taken')
    BY <1>2 DEF Calls
  <2>2. CASE routed' = routed
    BY <2>1, <2>2 DEF Shape, Fields, Routed
  <2>3. CASE DataRouted
    <3>1. PICK cause \in 1 .. taken + 1 :
            routed' = routed \cup {[msg |-> taken + 1, cause |-> cause]}
      BY <2>3 DEF DataRouted
    <3>2. [msg |-> taken + 1, cause |-> cause] \in Calls(taken')
      BY <1>1, <1>2 DEF Calls
    <3> QED
      BY <2>1, <3>1, <3>2, RoutedGrows DEF Shape, Fields
  <2> QED
    BY <1>1, <2>2, <2>3 DEF DataEmitted, DataToPool
<1>5. out' \in Seq(OutMsgs)
  <2>1. out \in Seq(OutMsgs)
    BY DEF Shape, Fields
  <2>2. [type |-> "data", n |-> taken + 1] \in OutMsgs
    BY <1>2 DEF OutMsgs
  <2> HIDE DEF OutMsgs
  <2>3. CASE DataEmitted
    BY <2>1, <2>2, <2>3 DEF DataEmitted
  <2> QED
    BY <1>1, <2>1, <2>3 DEF DataRouted, DataToPool
<1>6. failed' \subseteq 1 .. taken'
  BY <1>1, <1>2 DEF DataEmitted, DataRouted, DataToPool, Shape, Fields
<1>7. lastErr' \in Seq(KeptErrors(taken'))
  <2>1. lastErr \in Seq(KeptErrors(taken))
    BY DEF Shape, TypeOK, KeptErrors
  <2>2. KeptErrors(taken) \subseteq KeptErrors(taken')
    BY <1>2 DEF KeptErrors
  <2> HIDE DEF KeptErrors
  <2> QED
    BY <1>1, <2>1, <2>2
<1>8. TypeOK'
  <2>1. UNCHANGED <<workers, lastErr, cancelled, pipeCtx, dlbuf, dl, dlStop, delivered, monitor>>
    BY <1>1 DEF deadVars
  <2> QED
    BY <1>2, <1>3, <1>4, <1>7, <2>1 DEF Shape, TypeOK, KeptErrors
<1>9. Fields'
  BY <1>1, <1>2, <1>4, <1>5, <1>6 DEF Shape, Fields, deadVars
<1>10. LoopState'
  <2>1. pc' = "deadletter" => taken' \in Routed'
    BY <1>1, RoutedGrows DEF DataEmitted, DataRouted, DataToPool
  <2> QED
    BY <1>1, <1>2, <1>3, <2>1 DEF Shape, LoopState, Pooled
<1> QED
  BY <1>8, <1>9, <1>10 DEF Shape

(* SelectSignal keeps Shape. *)
LEMMA SelectSignalShape ==
  ASSUME Shape, SelectSignal
  PROVE  Shape'
<1>1. PICK s \in Signals \ signals :
        /\ signals' = signals \cup {s}
        /\ cur' = <<[type |-> s, n |-> taken]>>
        /\ pc' = IF s # "stop" THEN "wait"
                 ELSE IF setup.pool = "engine" THEN "drain" ELSE "forward"
  BY DEF SelectSignal
<1>2. UNCHANGED <<setup, cancelled, nodeErr, workers, lastErr, pipeCtx, out, routed, dlbuf, dl,
                  dlStop, delivered, monitor, taken, failed>>
  BY DEF SelectSignal, poolVars, deadVars
<1>3. TypeOK'
  BY <1>1, <1>2 DEF Shape, TypeOK, Routed
<1>4. Fields'
  BY <1>1, <1>2, WorkerPoolAssumption DEF Shape, Fields, Routed, SignalKinds
<1>5. LoopState'
  <2>1. pc' \in {"wait", "drain", "forward"} /\ (pc' = "drain" => setup.pool = "engine")
        /\ (IF s = "stop" THEN pc' # "wait" ELSE pc' # "drain")
    BY <1>1
  <2> QED
    BY <1>1, <1>2, <2>1 DEF LoopState
<1> QED
  BY <1>3, <1>4, <1>5 DEF Shape

(* SendDeadLetter keeps Shape. *)
LEMMA SendDeadLetterShape ==
  ASSUME Shape, SendDeadLetter
  PROVE  /\ Shape'
         /\ dlbuf' = Append(dlbuf, taken) /\ taken \in 1 .. MaxData
<1>1. cur[1].n = taken /\ taken \in 1 .. MaxData /\ taken \in Routed
  BY DEF SendDeadLetter, Shape, LoopState, Fields
<1>2. dlbuf' = Append(dlbuf, taken) /\ pc' = "select" /\ Len(dlbuf) < DLCap
      /\ UNCHANGED <<setup, cur, cancelled, nodeErr, workers, lastErr, pipeCtx, out, routed, dl,
                     dlStop, delivered, monitor, taken, signals, failed>>
  BY <1>1 DEF SendDeadLetter, poolVars
<1>3. dlbuf \in Seq(0 .. MaxData)
  BY DEF Shape, TypeOK
<1>4. /\ dlbuf' \in Seq(0 .. MaxData) /\ Len(dlbuf') <= DLCap
      /\ \A k \in 1 .. Len(dlbuf') : \/ k \in 1 .. Len(dlbuf) /\ dlbuf'[k] = dlbuf[k]
                                     \/ dlbuf'[k] = taken
  BY <1>1, <1>2, <1>3, WorkerPoolAssumption
<1>5. TypeOK'
  BY <1>2, <1>4 DEF Shape, TypeOK, Routed
<1>6. Fields'
  BY <1>1, <1>2, <1>4 DEF Shape, Fields, Routed
<1>7. LoopState'
  BY <1>2 DEF Shape, LoopState
<1> QED
  BY <1>1, <1>2, <1>5, <1>6, <1>7 DEF Shape

(* Acquire keeps Shape. *)
LEMMA AcquireShape ==
  ASSUME Shape, Acquire
  PROVE  Shape' /\ workers' = workers \cup {taken} /\ taken \in 1 .. taken
<1>1. cur[1].n = taken /\ taken \in 1 .. taken
  BY DEF Acquire, Shape, LoopState, Fields
<1>2. workers' = workers \cup {taken} /\ pc' = "select" /\ Cardinality(workers) < Size
      /\ UNCHANGED <<setup, cur, cancelled, nodeErr, lastErr, pipeCtx, out, routed, dlbuf, dl,
                     dlStop, delivered, monitor, taken, signals, failed>>
  BY <1>1 DEF Acquire, deadVars
<1>3. IsFiniteSet(workers) /\ Cardinality(workers) \in Nat
  <2>1. IsFiniteSet(1 .. taken)
    BY FS_Interval DEF Shape, Fields
  <2> QED
    BY <2>1, FS_Subset, FS_CardinalityType DEF Shape, TypeOK
<1>4. Cardinality(workers') <= Size
  BY <1>2, <1>3, FS_AddElement, WorkerPoolAssumption
<1>5. TypeOK'
  BY <1>1, <1>2, <1>4 DEF Shape, TypeOK, Routed
<1>6. Fields' /\ LoopState'
  BY <1>2 DEF Shape, Fields, LoopState, Routed, Pooled
<1> QED
  BY <1>1, <1>2, <1>5, <1>6 DEF Shape

(* AcquireFails keeps Shape. *)
LEMMA AcquireFailsShape ==
  ASSUME Shape, AcquireFails
  PROVE  Shape'
<1>1. /\ pc = "acquire"
      /\ routed' = routed \cup {[msg |-> taken, cause |-> taken]}
      /\ \/ pc' = "gone" /\ nodeErr' = "canceled" /\ setup.strategy = "fail"
         \/ pc' = "deadletter" /\ nodeErr' = nodeErr /\ setup.strategy = "deadletter"
         \/ pc' = "select" /\ nodeErr' = nodeErr /\ setup.strategy # "deadletter"
      /\ UNCHANGED <<setup, cur, cancelled, workers, lastErr, pipeCtx, out, dlbuf, dl, dlStop,
                     delivered, monitor, taken, signals, failed>>
  BY AcquireFailsCases DEF deadVars
<1>2. Routed' = Routed \cup {taken}
  BY <1>1, RoutedGrows
<1>3. taken \in 1 .. taken
  BY <1>1 DEF Shape, LoopState, Fields
<1>4. routed' \subseteq Calls(taken)
  BY <1>1, <1>3 DEF Shape, Fields, Calls
<1>5. TypeOK'
  BY <1>1, <1>2 DEF Shape, TypeOK
<1>6. Fields'
  BY <1>1, <1>2, <1>4 DEF Shape, Fields
<1>7. LoopState'
  BY <1>1, <1>2 DEF Shape, LoopState
<1> QED
  BY <1>5, <1>6, <1>7 DEF Shape

(* The kept error is one of the two kinds. *)
LEMMA KeptError ==
  ASSUME Shape, lastErr # << >>
  PROVE  lastErr[1].err \in {"canceled", "error"} /\ lastErr[1].msg \in 1 .. taken
<1>1. lastErr \in Seq(KeptErrors(taken))
  BY DEF Shape, TypeOK, KeptErrors
<1>2. lastErr[1] \in KeptErrors(taken)
  <2> HIDE DEF KeptErrors
  <2> QED
    BY <1>1
<1> QED
  BY <1>2 DEF KeptErrors

(* WaitDrain keeps Shape. *)
LEMMA WaitDrainShape ==
  ASSUME Shape, WaitAll \/ DrainAll \/ SelectDone
  PROVE  Shape'
<1>1. UNCHANGED <<setup, cur, cancelled, workers, pipeCtx, out, routed, dlbuf, dl, dlStop,
                  delivered, monitor, taken, signals, failed>>
  BY DEF WaitAll, DrainAll, SelectDone, deadVars, poolVars
<1>2. lastErr' = << >> \/ lastErr' = lastErr
  BY DEF WaitAll, DrainAll, SelectDone, poolVars
<1>3. nodeErr' \in {"none", "canceled", "error"}
  BY KeptError DEF WaitAll, DrainAll, SelectDone, Return, Shape, TypeOK
<1>4. pc' = "gone" \/ (pc' = "forward" /\ pc \in {"wait", "drain"})
  BY DEF WaitAll, DrainAll, SelectDone, Return
<1>5. lastErr' \in Seq(KeptErrors(taken)) /\ Len(lastErr') <= 1
  <2>1. lastErr \in Seq(KeptErrors(taken)) /\ Len(lastErr) <= 1
    BY DEF Shape, TypeOK, KeptErrors
  <2>2. << >> \in Seq(KeptErrors(taken)) /\ Len(<< >>) = 0
    OBVIOUS
  <2>3. CASE lastErr' = << >>
    BY <2>2, <2>3
  <2> QED
    BY <1>2, <2>1, <2>3
<1>6. TypeOK'
  BY <1>1, <1>3, <1>4, <1>5 DEF Shape, TypeOK, Routed, KeptErrors
<1>7. Fields'
  BY <1>1 DEF Shape, Fields, Routed
<1>8. LoopState'
  BY <1>1, <1>4 DEF Shape, LoopState
<1> QED
  BY <1>6, <1>7, <1>8 DEF Shape

(* Forward sends a signal with the number of messages taken before it, and  *)
(* behind a stop or a ThenStop barrier the node is cancelled.               *)
LEMMA ForwardShape ==
  ASSUME Shape, Forward
  PROVE  /\ Shape'
         /\ \/ /\ \E s \in signals \cap SignalKinds :
                    /\ cur[1].type = s
                    /\ out' = Append(out, [type |-> s, n |-> taken])
                    /\ [type |-> s, n |-> taken] \in OutMsgs
                    /\ cancelled' => cancelled \/ s \in {"stop", "thenStop"}
               /\ pc' = "select"
            \/ out' = out /\ pc' = "gone" /\ cancelled' = cancelled /\ CtxDone
<1>1. pc = "forward" /\ UNCHANGED <<setup, cur, workers, lastErr, pipeCtx, routed, dlbuf, dl,
                                    dlStop, delivered, monitor, taken, signals, failed>>
  BY DEF Forward, poolVars, deadVars
<1>2. PICK s \in signals : cur = <<[type |-> s, n |-> taken]>>
  BY <1>1 DEF Shape, LoopState
<1>3. s \in SignalKinds /\ taken \in Nat
  BY DEF Shape, Fields
<1>4. cur[1] = [type |-> s, n |-> taken] /\ cur[1].type = s /\ cur[1] \in OutMsgs
  BY <1>2, <1>3 DEF OutMsgs
<1>5. CASE /\ out' = Append(out, cur[1])
           /\ cancelled' = (cancelled \/ cur[1].type \in {"stop", "thenStop"})
           /\ pc' = "select" /\ nodeErr' = nodeErr
  <2>1. out' \in Seq(OutMsgs)
    <3> HIDE DEF OutMsgs
    <3> QED
      BY <1>4, <1>5 DEF Shape, Fields
  <2>2. cancelled' \in BOOLEAN /\ (cancelled' => cancelled \/ s \in {"stop", "thenStop"})
    BY <1>4, <1>5
  <2>3. TypeOK'
    BY <1>1, <1>5, <2>2 DEF Shape, TypeOK, Routed
  <2>4. Fields'
    BY <1>1, <2>1 DEF Shape, Fields, Routed
  <2>5. LoopState'
    BY <1>1, <1>5 DEF LoopState
  <2> QED
    BY <1>2, <1>3, <1>4, <1>5, <2>2, <2>3, <2>4, <2>5 DEF Shape
<1>6. CASE CtxDone /\ Return("canceled") /\ UNCHANGED <<out, cancelled>>
  <2>1. TypeOK'
    BY <1>1, <1>6 DEF Shape, TypeOK, Routed, Return
  <2>2. Fields' /\ LoopState'
    BY <1>1, <1>6 DEF Shape, Fields, LoopState, Routed, Return
  <2> QED
    BY <1>6, <2>1, <2>2 DEF Shape, Return
<1> QED
  BY <1>5, <1>6 DEF Forward

(* A step of a worker keeps Shape. *)
LEMMA WorkerShape ==
  ASSUME Shape, NEW w \in 1 .. MaxData, WorkerStep(w)
  PROVE  Shape'
<1>1. /\ w \in workers /\ workers' = workers \ {w}
      /\ UNCHANGED <<setup, pc, cur, cancelled, nodeErr, pipeCtx, dl, dlStop, delivered, monitor,
                     taken, signals>>
  BY DEF WorkerStep, WorkerEmits, WorkerFails, WorkerEmitsError, loopVars, deadVars
<1>2. w \in 1 .. taken /\ taken \in Nat
  BY <1>1 DEF Shape, TypeOK, Fields
<1>3. Cardinality(workers') <= Size /\ workers' \subseteq 1 .. taken
  <2>1. IsFiniteSet(1 .. taken)
    BY <1>2, FS_Interval
  <2>2. IsFiniteSet(workers) /\ workers' \in SUBSET workers
    BY <1>1, <2>1, FS_Subset DEF Shape, TypeOK
  <2>3. /\ Cardinality(workers') \in Nat /\ Cardinality(workers) \in Nat
        /\ Cardinality(workers') <= Cardinality(workers)
    BY <2>2, FS_Subset, FS_CardinalityType
  <2> QED
    BY <2>2, <2>3, WorkerPoolAssumption DEF Shape, TypeOK
<1>4. out' \in Seq(OutMsgs)
  <2>1. [type |-> "data", n |-> w] \in OutMsgs
    BY <1>2 DEF OutMsgs
  <2>2. out' = out \/ out' = Append(out, [type |-> "data", n |-> w])
    BY DEF WorkerStep, WorkerEmits, WorkerFails, WorkerEmitsError
  <2>3. out \in Seq(OutMsgs)
    BY DEF Shape, Fields
  <2> HIDE DEF OutMsgs
  <2> QED
    BY <2>1, <2>2, <2>3
<1>5. /\ lastErr' \in Seq(KeptErrors(taken)) /\ Len(lastErr') <= 1
      /\ failed' \subseteq 1 .. taken
  <2>1. lastErr \in Seq(KeptErrors(taken)) /\ Len(lastErr) <= 1
    BY DEF Shape, TypeOK, KeptErrors
  <2>2. CASE WorkerFails(w)
    <3>1. PICK err \in Errs :
            lastErr' = IF lastErr = << >> THEN <<[msg |-> w, err |-> err]>> ELSE lastErr
      BY <2>2 DEF WorkerFails
    <3>2. [msg |-> w, err |-> err] \in KeptErrors(taken)
      BY <1>2 DEF Errs, KeptErrors
    <3>3. failed' = failed \cup {w}
      BY <2>2 DEF WorkerFails
    <3> HIDE DEF KeptErrors
    <3>4. <<[msg |-> w, err |-> err]>> \in Seq(KeptErrors(taken))
      BY <3>2
    <3>5. lastErr' \in Seq(KeptErrors(taken)) /\ Len(lastErr') <= 1
      BY <2>1, <3>1, <3>4
    <3> QED
      BY <1>2, <3>3, <3>5 DEF Shape, Fields
  <2>3. CASE WorkerEmits(w) \/ WorkerEmitsError(w)
    BY <2>1, <2>3 DEF WorkerEmits, WorkerEmitsError, Shape, Fields
  <2> QED
    BY <2>2, <2>3 DEF WorkerStep
<1>6. routed' \subseteq Calls(taken) /\ Routed \subseteq Routed'
      /\ (WorkerEmitsError(w) => w \in Routed')
  <2>1. CASE WorkerEmitsError(w)
    <3>1. routed' = routed \cup {[msg |-> w, cause |-> w]}
      BY <2>1 DEF WorkerEmitsError
    <3>2. [msg |-> w, cause |-> w] \in Calls(taken)
      BY <1>2 DEF Calls
    <3> QED
      BY <3>1, <3>2, RoutedGrows DEF Shape, Fields
  <2>2. CASE ~WorkerEmitsError(w)
    BY <2>2 DEF WorkerStep, WorkerEmits, WorkerFails, Shape, Fields, Routed
  <2> QED
    BY <2>1, <2>2
<1>7. /\ dlbuf' \in Seq(0 .. MaxData) /\ Len(dlbuf') <= DLCap
      /\ \A k \in 1 .. Len(dlbuf') : dlbuf'[k] # 0 => dlbuf'[k] \in Routed'
  <2>1. dlbuf \in Seq(0 .. MaxData) /\ Len(dlbuf) <= DLCap
        /\ \A k \in 1 .. Len(dlbuf) : dlbuf[k] # 0 => dlbuf[k] \in Routed'
    BY <1>6 DEF Shape, TypeOK, Fields
  <2>2. CASE dlbuf' = dlbuf
    BY <2>1, <2>2
  <2>3. CASE WorkerEmitsError(w) /\ dlbuf' # dlbuf
    <3>1. dlbuf' = Append(dlbuf, w) /\ Len(dlbuf) < DLCap /\ w \in Routed'
      BY <1>6, <2>3 DEF WorkerEmitsError
    <3> QED
      BY <2>1, <3>1, WorkerPoolAssumption
  <2> QED
    BY <2>2, <2>3 DEF WorkerStep, WorkerEmits, WorkerFails, deadVars
<1>8. TypeOK'
  BY <1>1, <1>3, <1>5, <1>6, <1>7 DEF Shape, TypeOK, KeptErrors
<1>9. Fields'
  BY <1>1, <1>4, <1>5, <1>6, <1>7 DEF Shape, Fields
<1>10. LoopState'
  BY <1>1, <1>6 DEF Shape, LoopState, Pooled
<1> QED
  BY <1>8, <1>9, <1>10 DEF Shape

(* Each of the remaining actions keeps Shape. *)
LEMMA RestShape ==
  ASSUME Shape, DeadLetterStep \/ MonitorStep \/ Cancel \/ UNCHANGED vars
  PROVE  Shape'
<1>1. UNCHANGED <<setup, pc, cur, cancelled, nodeErr, workers, lastErr, out, routed, taken, signals,
                  failed>>
  BY DEF DeadLetterStep, DLHandle, DLHandleStop, DLDone, MonitorStep, NodeError, MonitorNodes,
         MonitorSendStop, MonitorDone, Cancel, vars, loopVars, poolVars
<1>2. pipeCtx' \in BOOLEAN /\ dlStop' \in BOOLEAN
  BY DEF DeadLetterStep, DLHandle, DLHandleStop, DLDone, MonitorStep, NodeError, MonitorNodes,
         MonitorSendStop, MonitorDone, Cancel, vars, deadVars, Shape, TypeOK
<1>3. dl' \in {"loop", "gone"} /\ monitor' \in {"wait", "stopping", "waiting", "done"}
  BY DEF DeadLetterStep, DLHandle, DLHandleStop, DLDone, MonitorStep, NodeError, MonitorNodes,
         MonitorSendStop, MonitorDone, Cancel, vars, deadVars, Shape, TypeOK
<1>4. /\ dlbuf' \in Seq(0 .. MaxData) /\ Len(dlbuf') <= DLCap
      /\ \A k \in 1 .. Len(dlbuf') : dlbuf'[k] # 0 => dlbuf'[k] \in Routed
      /\ delivered' \subseteq Routed
  <2>1. dlbuf \in Seq(0 .. MaxData) /\ Len(dlbuf) <= DLCap /\ delivered \subseteq Routed
        /\ \A k \in 1 .. Len(dlbuf) : dlbuf[k] # 0 => dlbuf[k] \in Routed
    BY DEF Shape, TypeOK, Fields
  <2>2. CASE DLHandle \/ DLHandleStop
    <3>1. dlbuf # << >> /\ dlbuf' = Tail(dlbuf)
      BY <2>2 DEF DLHandle, DLHandleStop
    <3>2. Head(dlbuf) = dlbuf[1] /\ 1 \in 1 .. Len(dlbuf) /\ Len(dlbuf') = Len(dlbuf) - 1
          /\ \A k \in 1 .. Len(dlbuf') : dlbuf'[k] = dlbuf[k + 1] /\ k + 1 \in 1 .. Len(dlbuf)
      BY <2>1, <3>1
    <3>3. delivered' \subseteq Routed
      BY <2>1, <2>2, <3>2 DEF DLHandle, DLHandleStop
    <3> QED
      BY <2>1, <3>1, <3>2, <3>3, WorkerPoolAssumption
  <2>3. CASE MonitorSendStop
    <3>1. dlbuf' = Append(dlbuf, 0) /\ Len(dlbuf) < DLCap /\ delivered' = delivered
      BY <2>3 DEF MonitorSendStop
    <3> QED
      BY <2>1, <3>1, WorkerPoolAssumption
  <2>4. CASE DLDone \/ NodeError \/ MonitorNodes \/ MonitorDone \/ Cancel \/ UNCHANGED vars
    <3>1. UNCHANGED <<dlbuf, delivered>>
      BY <2>4 DEF DLDone, NodeError, MonitorNodes, MonitorDone, Cancel, vars, deadVars
    <3> QED
      BY <2>1, <3>1
  <2> QED
    BY <2>2, <2>3, <2>4 DEF DeadLetterStep, MonitorStep
<1>5. TypeOK'
  BY <1>1, <1>2, <1>3, <1>4 DEF Shape, TypeOK, Routed
<1>6. Fields' /\ LoopState'
  BY <1>1, <1>4 DEF Shape, Fields, LoopState, Routed, Pooled
<1> QED
  BY <1>5, <1>6 DEF Shape

(* Every step keeps Shape. *)
LEMMA NextShape == Shape /\ [Next]_vars => Shape'
BY SelectDataShape, SelectSignalShape, SendDeadLetterShape, AcquireShape, AcquireFailsShape,
   WaitDrainShape, ForwardShape, WorkerShape, RestShape DEF Next, LoopStep

(* The fields keep their types, no more workers run than the pool has slots *)
(* for, and the dead-letter buffer keeps its capacity: ConcurrentOperator's *)
(* semaphore and the bounded buffer, for every size of both.                *)
THEOREM WorkerPoolTypeOK == Spec => []TypeOK
<1>1. Shape => TypeOK
  BY DEF Shape
<1> QED
  BY <1>1, InitShape, NextShape, PTL DEF Spec

-----------------------------------------------------------------------------
(* The signals that have been passed on. *)

(* What a step sends, if anything. *)
LEMMA OutGrows ==
  ASSUME out \in Seq(OutMsgs), NEW m \in OutMsgs, out' = Append(out, m)
  PROVE  /\ Len(out) \in Nat /\ Len(out') = Len(out) + 1
         /\ out'[Len(out) + 1] = m
         /\ \A j \in 1 .. Len(out) : out'[j] = out[j]
         /\ \A j \in 1 .. Len(out) : out[j] \in OutMsgs
<1> HIDE DEF OutMsgs
<1> QED
  OBVIOUS

(* A type has been sent if it was before or is now. *)
LEMMA HasAppend ==
  ASSUME out \in Seq(OutMsgs), NEW m \in OutMsgs, out' = Append(out, m), NEW t
  PROVE  Has(t)' <=> Has(t) \/ m.type = t
<1>1. /\ Len(out) \in Nat /\ Len(out') = Len(out) + 1
      /\ out'[Len(out) + 1] = m
      /\ \A j \in 1 .. Len(out) : out'[j] = out[j]
  BY OutGrows
<1>2. 1 .. Len(out') = 1 .. Len(out) \cup {Len(out) + 1}
  BY <1>1
<1> QED
  BY <1>1, <1>2 DEF Has

(* The messages sent have their types. *)
LEMMA OutTypes ==
  ASSUME Shape
  PROVE  \A j \in 1 .. Len(out) : out[j] \in OutMsgs /\ out[j].n \in Nat
<1>1. out \in Seq(OutMsgs)
  BY DEF Shape, Fields
<1>2. \A j \in 1 .. Len(out) : out[j] \in OutMsgs
  <2> HIDE DEF OutMsgs
  <2> QED
    BY <1>1
<1> QED
  BY <1>2 DEF OutMsgs

(* The step sends nothing, or a data message. *)
NoSignalSent == out' = out \/ \E x \in Nat : out' = Append(out, [type |-> "data", n |-> x])

(* Such a step adds no signal to what was sent. *)
LEMMA SignalsSame ==
  ASSUME Shape, NoSignalSent
  PROVE  /\ \A t \in SignalKinds : Has(t)' <=> Has(t)
         /\ HasEnd' <=> HasEnd
         /\ \A j \in 1 .. Len(out) : j \in 1 .. Len(out') /\ out'[j] = out[j]
         /\ \A j \in 1 .. Len(out') :
              out'[j].type # "data" => j \in 1 .. Len(out) /\ out'[j] = out[j]
<1>1. CASE out' = out
  BY <1>1 DEF Has, HasEnd
<1>2. ASSUME NEW x \in Nat, out' = Append(out, [type |-> "data", n |-> x])
      PROVE  /\ \A t \in SignalKinds : Has(t)' <=> Has(t)
             /\ \A j \in 1 .. Len(out) : j \in 1 .. Len(out') /\ out'[j] = out[j]
             /\ \A j \in 1 .. Len(out') :
                  out'[j].type # "data" => j \in 1 .. Len(out) /\ out'[j] = out[j]
  <2> DEFINE m == [type |-> "data", n |-> x]
  <2>1. m \in OutMsgs /\ m.type = "data" /\ out \in Seq(OutMsgs)
    BY DEF OutMsgs, Shape, Fields
  <2>2. out' = Append(out, m)
    BY <1>2
  <2> HIDE DEF m
  <2>3. /\ Len(out) \in Nat /\ Len(out') = Len(out) + 1
        /\ out'[Len(out) + 1] = m
        /\ \A j \in 1 .. Len(out) : out'[j] = out[j]
    BY <2>1, <2>2, OutGrows
  <2>4. \A t \in SignalKinds : Has(t)' <=> Has(t)
    <3> TAKE t \in SignalKinds
    <3>1. t # "data"
      BY DEF SignalKinds
    <3> QED
      BY <2>1, <2>2, <3>1, HasAppend
  <2>5. \A j \in 1 .. Len(out') : j \in 1 .. Len(out) \/ j = Len(out) + 1
    BY <2>3
  <2>6. \A j \in 1 .. Len(out) : j \in 1 .. Len(out')
    BY <2>3
  <2> QED
    BY <2>1, <2>3, <2>4, <2>5, <2>6
<1>3. {"stop", "thenStop"} \subseteq SignalKinds
  BY DEF SignalKinds
<1> QED
  BY <1>1, <1>2, <1>3 DEF NoSignalSent, HasEnd

(* Nothing that was late ceases to be so. *)
LEMMA LateGrows ==
  ASSUME Shape, taken' \in {taken, taken + 1},
         \A j \in 1 .. Len(out) : j \in 1 .. Len(out') /\ out'[j] = out[j]
  PROVE  Late \subseteq Late'
<1>1. 1 .. taken \subseteq 1 .. taken'
  BY DEF Shape, Fields
<1> QED
  BY <1>1 DEF Late

(* A step that passes no signal on keeps Passing. *)
LEMMA PassingKept ==
  ASSUME Shape, Passing, NoSignalSent, UNCHANGED <<signals, cancelled>>,
         \A t \in SignalKinds : InHand(t)' => InHand(t),
         \A t \in SignalKinds : InHand(t) => InHand(t)' \/ pc' = "gone",
         pc = "gone" => pc' = "gone",
         \/ taken' = taken /\ (pc' = "acquire" => pc = "acquire")
         \/ taken' = taken + 1
  PROVE  Passing'
<1>1. /\ \A t \in SignalKinds : Has(t)' <=> Has(t)
      /\ HasEnd' <=> HasEnd
      /\ \A j \in 1 .. Len(out') :
           out'[j].type # "data" => j \in 1 .. Len(out) /\ out'[j] = out[j]
  BY SignalsSame
<1>2. signals \subseteq SignalKinds /\ taken \in Nat
  BY DEF Shape, Fields
<1>3. \A t \in SignalKinds : Has(t)' => t \in signals' /\ ~InHand(t)'
  BY <1>1 DEF Passing
<1>4. \A t \in signals' : pc' = "gone" \/ Has(t)' \/ InHand(t)'
  BY <1>1, <1>2 DEF Passing
<1>5. \A j \in 1 .. Len(out') :
        out'[j].type # "data" => out'[j].n <= taken' /\ (pc' = "acquire" => out'[j].n < taken')
  <2> SUFFICES ASSUME NEW j \in 1 .. Len(out), out[j].type # "data"
               PROVE  out[j].n <= taken' /\ (pc' = "acquire" => out[j].n < taken')
    BY <1>1
  <2>1. out[j].n \in Nat
    BY OutTypes
  <2>2. out[j].n <= taken /\ (pc = "acquire" => out[j].n < taken)
    BY DEF Passing
  <2> QED
    BY <1>2, <2>1, <2>2
<1>6. cancelled' => HasEnd'
  BY <1>1 DEF Passing
<1> QED
  BY <1>3, <1>4, <1>5, <1>6 DEF Passing

(* The initial states satisfy Passing. *)
LEMMA InitPassing == Init => Passing
BY DEF Init, Passing, Has, InHand

(* A signal is taken. *)
LEMMA SelectSignalPassing ==
  ASSUME Shape, Passing, SelectSignal
  PROVE  Passing'
<1>1. PICK s \in Signals \ signals :
        /\ pc = "select" /\ signals' = signals \cup {s}
        /\ cur' = <<[type |-> s, n |-> taken]>>
        /\ pc' \in {"wait", "drain", "forward"}
        /\ UNCHANGED <<cancelled, out, taken>>
  BY DEF SelectSignal
<1>2. \A t \in SignalKinds : (InHand(t)' <=> t = s) /\ ~InHand(t)
  BY <1>1 DEF InHand
<1>3. \A t \in SignalKinds : Has(t)' <=> Has(t)
  BY <1>1 DEF Has
<1>4. HasEnd' <=> HasEnd
  BY <1>1 DEF Has, HasEnd
<1>5. signals \subseteq SignalKinds /\ s \in SignalKinds
  BY WorkerPoolAssumption DEF Shape, Fields, SignalKinds
<1>6. \A t \in SignalKinds : Has(t)' => t \in signals' /\ ~InHand(t)'
  BY <1>1, <1>2, <1>3 DEF Passing
<1>7. \A t \in signals' : pc' = "gone" \/ Has(t)' \/ InHand(t)'
  BY <1>1, <1>2, <1>3, <1>5 DEF Passing
<1> QED
  BY <1>1, <1>4, <1>6, <1>7 DEF Passing

(* A signal is passed on. *)
LEMMA ForwardPassing ==
  ASSUME Shape, Passing, Forward
  PROVE  Passing'
<1>1. pc = "forward" /\ UNCHANGED <<cur, taken, signals>>
  BY DEF Forward
<1>2. CASE out' = out /\ pc' = "gone" /\ cancelled' = cancelled
  BY <1>1, <1>2, PassingKept DEF NoSignalSent, InHand
<1>3. CASE /\ \E s \in signals \cap SignalKinds :
                /\ cur[1].type = s
                /\ out' = Append(out, [type |-> s, n |-> taken])
                /\ [type |-> s, n |-> taken] \in OutMsgs
                /\ cancelled' => cancelled \/ s \in {"stop", "thenStop"}
           /\ pc' = "select"
  <2>1. PICK s \in signals \cap SignalKinds :
          /\ cur[1].type = s
          /\ out' = Append(out, [type |-> s, n |-> taken])
          /\ [type |-> s, n |-> taken] \in OutMsgs
          /\ cancelled' => cancelled \/ s \in {"stop", "thenStop"}
    BY <1>3
  <2> DEFINE m == [type |-> s, n |-> taken]
  <2>2. m \in OutMsgs /\ m.type = s /\ m.n = taken /\ out \in Seq(OutMsgs) /\ taken \in Nat
        /\ out' = Append(out, m) /\ signals \subseteq SignalKinds
    BY <2>1 DEF Shape, Fields
  <2> HIDE DEF m
  <2>3. \A t : Has(t)' <=> Has(t) \/ t = s
    BY <2>2, HasAppend
  <2>4. \A t \in SignalKinds : ~InHand(t)' /\ (InHand(t) <=> t = s)
    BY <1>1, <1>3, <2>1 DEF InHand
  <2>5. \A t \in SignalKinds : Has(t)' => t \in signals' /\ ~InHand(t)'
    BY <1>1, <2>1, <2>3, <2>4 DEF Passing
  <2>6. \A t \in signals' : pc' = "gone" \/ Has(t)' \/ InHand(t)'
    BY <1>1, <2>2, <2>3, <2>4 DEF Passing
  <2>7. \A j \in 1 .. Len(out') :
          out'[j].type # "data" => out'[j].n <= taken' /\ (pc' = "acquire" => out'[j].n < taken')
    <3>1. /\ Len(out) \in Nat /\ Len(out') = Len(out) + 1
          /\ out'[Len(out) + 1] = m
          /\ \A j \in 1 .. Len(out) : out'[j] = out[j]
      BY <2>2, OutGrows
    <3>2. \A j \in 1 .. Len(out) : out[j].type # "data" => out[j].n <= taken
      BY DEF Passing
    <3>3. taken <= taken
      BY <2>2
    <3>4. \A j \in 1 .. Len(out') : j \in 1 .. Len(out) \/ j = Len(out) + 1
      BY <3>1
    <3> QED
      BY <1>1, <1>3, <2>2, <3>1, <3>2, <3>3, <3>4
  <2>8. cancelled' => HasEnd'
    BY <2>1, <2>3 DEF Passing, HasEnd
  <2> QED
    BY <2>5, <2>6, <2>7, <2>8 DEF Passing
<1> QED
  BY <1>2, <1>3, ForwardShape

(* A step of a worker passes no signal on and leaves the loop alone. *)
LEMMA WorkerPassing ==
  ASSUME Shape, Passing, NEW w \in 1 .. MaxData, WorkerStep(w)
  PROVE  Passing' /\ NoSignalSent
<1>1. UNCHANGED <<pc, cur, cancelled, signals, taken>>
  BY DEF WorkerStep, WorkerEmits, WorkerFails, WorkerEmitsError, loopVars
<1>2. out' = out \/ out' = Append(out, [type |-> "data", n |-> w])
  BY DEF WorkerStep, WorkerEmits, WorkerFails, WorkerEmitsError
<1>3. NoSignalSent
  BY <1>2 DEF NoSignalSent
<1>4. \A t \in SignalKinds : InHand(t)' <=> InHand(t)
  BY <1>1 DEF InHand
<1> QED
  BY <1>1, <1>3, <1>4, PassingKept

(* Every step keeps Passing. *)
LEMMA NextPassing == Shape /\ Passing /\ [Next]_vars => Passing'
<1> SUFFICES ASSUME Shape, Passing, [Next]_vars PROVE Passing'
  OBVIOUS
<1>1. CASE SelectData
  <2>1. /\ pc = "select" /\ taken' = taken + 1 /\ UNCHANGED <<cancelled, signals>>
        /\ DataEmitted \/ DataRouted \/ DataToPool
    BY <1>1, SelectDataCases
  <2>2. taken + 1 \in Nat
    BY DEF Shape, Fields
  <2>3. NoSignalSent /\ pc' \in {"select", "acquire", "deadletter", "gone"}
    BY <2>1, <2>2 DEF DataEmitted, DataRouted, DataToPool, NoSignalSent
  <2>4. \A t \in SignalKinds : ~InHand(t)' /\ ~InHand(t)
    BY <2>1, <2>3 DEF InHand
  <2> QED
    BY <2>1, <2>3, <2>4, PassingKept
<1>2. CASE SelectSignal
  BY <1>2, SelectSignalPassing
<1>3. CASE SendDeadLetter \/ Acquire \/ AcquireFails \/ SelectDone
  <2>1. /\ pc \notin {"wait", "drain", "forward", "gone"}
        /\ pc' \in {"select", "deadletter", "gone"}
        /\ UNCHANGED <<cancelled, signals, out, taken>>
    BY <1>3, AcquireFailsCases DEF SendDeadLetter, Acquire, SelectDone
  <2>2. \A t \in SignalKinds : ~InHand(t)' /\ ~InHand(t)
    BY <2>1 DEF InHand
  <2> QED
    BY <2>1, <2>2, PassingKept DEF NoSignalSent
<1>4. CASE WaitAll \/ DrainAll
  <2>1. /\ pc \in {"wait", "drain"} /\ pc' \in {"forward", "gone"}
        /\ UNCHANGED <<cur, cancelled, signals, out, taken>>
    BY <1>4 DEF WaitAll, DrainAll, Return
  <2>2. \A t \in SignalKinds : (InHand(t)' => InHand(t)) /\ (InHand(t) => InHand(t)' \/ pc' = "gone")
    BY <2>1 DEF InHand
  <2> QED
    BY <2>1, <2>2, PassingKept DEF NoSignalSent
<1>5. CASE Forward
  BY <1>5, ForwardPassing
<1>6. ASSUME NEW w \in 1 .. MaxData, WorkerStep(w)
      PROVE  Passing'
  BY <1>6, WorkerPassing
<1>7. CASE DeadLetterStep \/ MonitorStep \/ Cancel \/ UNCHANGED vars
  <2>1. UNCHANGED <<pc, cur, cancelled, signals, out, taken>>
    BY <1>7 DEF DeadLetterStep, DLHandle, DLHandleStop, DLDone, MonitorStep, NodeError,
                MonitorNodes, MonitorSendStop, MonitorDone, Cancel, vars, loopVars
  <2>2. \A t \in SignalKinds : InHand(t)' <=> InHand(t)
    BY <2>1 DEF InHand
  <2> QED
    BY <2>1, <2>2, PassingKept DEF NoSignalSent
<1> QED
  BY <1>1, <1>2, <1>3, <1>4, <1>5, <1>6, <1>7 DEF Next, LoopStep

-----------------------------------------------------------------------------
(* When the workers are gone. *)

(* What was late is late after every step, and what is sent stays. *)
LEMMA NextLate ==
  ASSUME Shape, [Next]_vars
  PROVE  Late \subseteq Late'
<1> DEFINE Kept == \A j \in 1 .. Len(out) : j \in 1 .. Len(out') /\ out'[j] = out[j]
<1>1. CASE SelectData
  <2>1. taken' = taken + 1 /\ (DataEmitted \/ DataRouted \/ DataToPool) /\ taken + 1 \in Nat
    BY <1>1, SelectDataCases DEF Shape, Fields
  <2>2. NoSignalSent
    BY <2>1 DEF DataEmitted, DataRouted, DataToPool, NoSignalSent
  <2>3. Kept
    BY <2>2, SignalsSame
  <2> QED
    BY <2>1, <2>3, LateGrows
<1>2. CASE Forward
  <2>1. taken' = taken
    BY <1>2 DEF Forward
  <2>2. Kept
    <3>1. CASE out' = out
      BY <3>1
    <3>2. CASE \E s \in signals \cap SignalKinds :
                 /\ out' = Append(out, [type |-> s, n |-> taken])
                 /\ [type |-> s, n |-> taken] \in OutMsgs
      <4>1. PICK m \in OutMsgs : out' = Append(out, m)
        BY <3>2
      <4>2. out \in Seq(OutMsgs)
        BY DEF Shape, Fields
      <4>3. Len(out) \in Nat /\ Len(out') = Len(out) + 1 /\ \A j \in 1 .. Len(out) : out'[j] = out[j]
        BY <4>1, <4>2, OutGrows
      <4> QED
        BY <4>3
    <3> QED
      BY <1>2, <3>1, <3>2, ForwardShape
  <2> QED
    BY <2>1, <2>2, LateGrows
<1>3. ASSUME NEW w \in 1 .. MaxData, WorkerStep(w)
      PROVE  Late \subseteq Late'
  <2>1. taken' = taken /\ (out' = out \/ out' = Append(out, [type |-> "data", n |-> w]))
    BY <1>3 DEF WorkerStep, WorkerEmits, WorkerFails, WorkerEmitsError
  <2>2. NoSignalSent
    BY <2>1 DEF NoSignalSent
  <2> QED
    BY <2>1, <2>2, SignalsSame, LateGrows
<1>4. CASE UNCHANGED <<out, taken>>
  BY <1>4 DEF Late
<1> QED
  BY <1>1, <1>2, <1>3, <1>4
  DEF Next, LoopStep, SendDeadLetter, SelectDone, Acquire, AcquireFails, WaitAll, DrainAll,
      SelectSignal, DeadLetterStep, DLHandle, DLHandleStop, DLDone, MonitorStep, NodeError,
      MonitorNodes, MonitorSendStop, MonitorDone, Cancel, vars

(* The node has passed on its end when the loop goes on behind it. *)
LEMMA EndPassed ==
  ASSUME Shape, Passing, pc \notin {"wait", "drain", "forward", "gone"}, Ended
  PROVE  HasEnd
<1>1. PICK t \in signals : t \in {"stop", "thenStop"}
  BY DEF Ended
<1>2. Has(t)
  BY <1>1 DEF Passing, InHand
<1> QED
  BY <1>1, <1>2 DEF HasEnd

(* The initial states satisfy Quiet. *)
LEMMA InitQuiet == Init => Quiet
BY DEF Init, Quiet

(* A step that starts no worker and passes no signal on. *)
LEMMA QuietKept ==
  ASSUME Shape, Quiet, [Next]_vars, HasEnd' <=> HasEnd, setup' = setup, workers' \subseteq workers,
         pipeCtx => pipeCtx', lastErr' \in {lastErr, << >>},
         pc' = "forward" => pc = "forward" /\ cur' = cur,
         pc' = "gone" => \/ pc = "gone" /\ signals' = signals
                         \/ pipeCtx \/ HasEnd
                         \/ ~Ended' /\ setup.strategy = "fail"
  PROVE  Quiet'
<1>1. Late \subseteq Late'
  BY NextLate
<1>2. Pooled' = Pooled /\ (signals' = signals => Ended' = Ended)
  BY DEF Pooled, Ended
<1>3. (~Pooled => workers = {} /\ lastErr = << >>)'
  BY <1>2 DEF Quiet
<1>4. (pc = "forward" /\ cur[1].type # "stop" => workers = {} /\ lastErr = << >>)'
  BY DEF Quiet
<1>5. ASSUME ~pipeCtx', setup.pool # "nodes"
      PROVE  (/\ pc = "forward" /\ ~HasEnd => workers = {}
              /\ HasEnd => workers \subseteq Late
              /\ pc = "gone" /\ (Ended \/ setup.strategy # "fail") => workers \subseteq Late)'
  BY <1>1, <1>2, <1>5 DEF Quiet
<1> QED
  BY <1>3, <1>4, <1>5 DEF Quiet

(* A signal is passed on, or its send fails. *)
LEMMA ForwardQuiet ==
  ASSUME Shape, Passing, Quiet, Forward
  PROVE  Quiet'
<1>1. pc = "forward" /\ UNCHANGED <<setup, workers, lastErr, pipeCtx, signals>>
  BY DEF Forward, poolVars
<1>2. pc' = "select" \/ (pc' = "gone" /\ out' = out /\ (pipeCtx \/ cancelled))
  BY DEF Forward, Return, CtxDone
<1>3. Late \subseteq Late' /\ Pooled' = Pooled
  BY <1>1, NextLate DEF Next, LoopStep, Pooled
<1>4. ASSUME ~pipeCtx, setup.pool # "nodes"
      PROVE  workers \subseteq Late'
  <2>1. ~HasEnd => workers = {}
    BY <1>1, <1>4 DEF Quiet
  <2>2. HasEnd => workers \subseteq Late
    BY <1>4 DEF Quiet
  <2> QED
    BY <1>3, <2>1, <2>2
<1>5. (~Pooled => workers = {} /\ lastErr = << >>)'
  BY <1>1, <1>3 DEF Quiet
<1> QED
  BY <1>1, <1>2, <1>4, <1>5 DEF Quiet

(* A message is given to a worker: behind the end of the node it is late. *)
LEMMA AcquireQuiet ==
  ASSUME Shape, Passing, Quiet, Acquire
  PROVE  Quiet'
<1>1. workers' = workers \cup {taken} /\ pc = "acquire" /\ pc' = "select"
      /\ UNCHANGED <<setup, out, pipeCtx, taken, lastErr>>
  BY AcquireShape DEF Acquire
<1>2. Pooled /\ taken \in 1 .. taken
  BY <1>1 DEF Shape, LoopState, Fields
<1>3. HasEnd => taken \in Late
  <2> SUFFICES ASSUME HasEnd PROVE taken \in Late
    OBVIOUS
  <2>1. PICK j \in 1 .. Len(out) : out[j].type \in {"stop", "thenStop"}
    BY DEF HasEnd, Has
  <2>2. out[j].n < taken
    BY <1>1, <2>1 DEF Passing
  <2> QED
    BY <1>2, <2>1, <2>2 DEF Late
<1>4. Late' = Late /\ HasEnd' = HasEnd /\ Pooled' = Pooled
  BY <1>1 DEF Late, HasEnd, Has, Pooled
<1> QED
  BY <1>1, <1>2, <1>3, <1>4 DEF Quiet

(* Every step keeps Quiet. *)
LEMMA NextQuiet == Shape /\ Passing /\ Quiet /\ [Next]_vars => Quiet'
<1> SUFFICES ASSUME Shape, Passing, Quiet, [Next]_vars PROVE Quiet'
  OBVIOUS
<1>1. CASE SelectData
  <2>1. /\ pc' \in {"select", "acquire", "deadletter", "gone"} /\ pc = "select"
        /\ pc' = "gone" => setup.strategy = "fail"
        /\ UNCHANGED <<setup, workers, lastErr, pipeCtx, signals>>
        /\ DataEmitted \/ DataRouted \/ DataToPool
    BY <1>1, SelectDataCases DEF DataEmitted, DataRouted, DataToPool
  <2>2. taken + 1 \in Nat
    BY DEF Shape, Fields
  <2>3. NoSignalSent
    BY <2>1, <2>2 DEF DataEmitted, DataRouted, DataToPool, NoSignalSent
  <2>4. HasEnd' <=> HasEnd
    BY <2>3, SignalsSame
  <2>5. HasEnd \/ ~Ended'
    BY <2>1, EndPassed DEF Ended
  <2> QED
    BY <2>1, <2>4, <2>5, QuietKept
<1>2. CASE SelectSignal
  <2>1. PICK s \in Signals :
          /\ cur' = <<[type |-> s, n |-> taken]>>
          /\ pc' = IF s # "stop" THEN "wait"
                   ELSE IF setup.pool = "engine" THEN "drain" ELSE "forward"
    BY <1>2 DEF SelectSignal
  <2>2. pc' = "forward" => cur'[1].type = "stop" /\ setup.pool # "engine"
    BY <2>1
  <2>3. pc' \in {"wait", "drain", "forward"}
    BY <2>1
  <2>4. UNCHANGED <<setup, workers, lastErr, pipeCtx, out, taken>>
    BY <1>2 DEF SelectSignal, poolVars
  <2>5. setup.pool \in {"plain", "engine", "nodes"}
    BY SetupFields DEF Shape
  <2>6. Late' = Late /\ HasEnd' = HasEnd /\ Pooled' = Pooled
    BY <2>4 DEF Late, HasEnd, Has, Pooled
  <2> QED
    BY <2>2, <2>3, <2>4, <2>5, <2>6 DEF Quiet, Pooled
<1>3. CASE Acquire
  BY <1>3, AcquireQuiet
<1>4. CASE SendDeadLetter \/ AcquireFails \/ SelectDone
  <2>1. /\ UNCHANGED <<setup, workers, lastErr, pipeCtx, out>>
        /\ pc' \in {"select", "deadletter", "gone"}
        /\ pc' = "gone" => pipeCtx \/ cancelled
    BY <1>4, AcquireFailsCases DEF SendDeadLetter, SelectDone, poolVars, CtxDone
  <2>2. HasEnd' = HasEnd /\ (cancelled => HasEnd)
    BY <2>1 DEF HasEnd, Has, Passing
  <2> QED
    BY <2>1, <2>2, QuietKept
<1>5. CASE WaitAll
  <2>1. workers' = {} /\ lastErr' = << >>
    BY <1>5 DEF WaitAll
  <2> QED
    BY <2>1 DEF Quiet
<1>6. CASE DrainAll
  <2>1. pc' = "forward" /\ UNCHANGED <<setup, cur, workers, pipeCtx, out, taken>>
        /\ (workers = {} \/ pipeCtx \/ cancelled) /\ (lastErr' = << >> \/ lastErr' = lastErr)
    BY <1>6 DEF DrainAll, CtxDone
  <2>2. cur[1].type = "stop"
    BY <1>6 DEF DrainAll, Shape, LoopState
  <2>3. Late' = Late /\ HasEnd' = HasEnd /\ Pooled' = Pooled /\ (cancelled => HasEnd)
    BY <2>1 DEF Late, HasEnd, Has, Pooled, Passing
  <2> QED
    BY <2>1, <2>2, <2>3 DEF Quiet
<1>7. CASE Forward
  BY <1>7, ForwardQuiet
<1>8. ASSUME NEW w \in 1 .. MaxData, WorkerStep(w)
      PROVE  Quiet'
  <2>1. /\ w \in workers /\ workers' = workers \ {w}
        /\ UNCHANGED <<setup, pc, cur, pipeCtx, signals>>
    BY <1>8 DEF WorkerStep, WorkerEmits, WorkerFails, WorkerEmitsError, loopVars
  <2>2. HasEnd' <=> HasEnd
    BY <1>8, WorkerPassing, SignalsSame
  <2>3. Late \subseteq Late' /\ Pooled' = Pooled /\ Ended' = Ended
    BY <2>1, NextLate DEF Pooled, Ended
  <2> QED
    BY <2>1, <2>2, <2>3 DEF Quiet
<1>9. CASE DeadLetterStep \/ MonitorStep \/ Cancel \/ UNCHANGED vars
  <2>1. UNCHANGED <<setup, pc, cur, workers, lastErr, signals, out>>
    BY <1>9 DEF DeadLetterStep, DLHandle, DLHandleStop, DLDone, MonitorStep, NodeError,
                MonitorNodes, MonitorSendStop, MonitorDone, Cancel, vars, loopVars, poolVars
  <2>2. pipeCtx => pipeCtx'
    BY <1>9 DEF DeadLetterStep, DLHandle, DLHandleStop, DLDone, MonitorStep, NodeError,
                MonitorNodes, MonitorSendStop, MonitorDone, Cancel, vars
  <2>3. HasEnd' = HasEnd
    BY <2>1 DEF HasEnd, Has
  <2> QED
    BY <2>1, <2>2, <2>3, QuietKept
<1> QED
  BY <1>1, <1>2, <1>3, <1>4, <1>5, <1>6, <1>7, <1>8, <1>9 DEF Next, LoopStep

-----------------------------------------------------------------------------
(* Data behind signals. *)

(* What is in front of a message that was sent does not change. *)
LEMMA BehindSame ==
  ASSUME NEW j \in 1 .. Len(out), Len(out) \in Nat, setup' = setup, pipeCtx => pipeCtx',
         \A i \in 1 .. Len(out) : out'[i] = out[i]
  PROVE  /\ \A t : Behind(j, t)' <=> Behind(j, t)
         /\ Clear(j)' => Clear(j)
<1>1. \A i \in 1 .. j - 1 : i \in 1 .. Len(out)
  OBVIOUS
<1>2. \A t : Behind(j, t)' <=> Behind(j, t)
  BY <1>1 DEF Behind
<1> QED
  BY <1>2 DEF Clear

(* A step that sends nothing, starts no worker and cancels nothing but the  *)
(* pipeline keeps the order.                                                *)
LEMMA OrderKept ==
  ASSUME Shape, Order, UNCHANGED <<setup, out>>, workers' \subseteq workers, pipeCtx => pipeCtx'
  PROVE  Order'
<1>1. \A j \in 1 .. Len(out) : Clear(j)' => Clear(j)
  BY DEF Clear, Behind
<1>2. SignalsBehindData'
  BY <1>1 DEF Order, SignalsBehindData, Clear
<1>3. \A j \in 1 .. Len(out') : Clear(j)' => \A w \in workers' : w > out'[j].n
  BY <1>1 DEF Order
<1> QED
  BY <1>2, <1>3 DEF Order

(* Data is sent that was taken after every signal that it must follow. *)
LEMMA OrderAppendData ==
  ASSUME Shape, Order, NEW x \in Nat, out' = Append(out, [type |-> "data", n |-> x]),
         \A j \in 1 .. Len(out) : Clear(j) => x > out[j].n,
         UNCHANGED <<setup, pipeCtx>>, workers' \subseteq workers
  PROVE  Order'
<1> DEFINE m == [type |-> "data", n |-> x]
<1>1. m \in OutMsgs /\ m.type = "data" /\ m.n = x
  BY DEF OutMsgs
<1>2. out \in Seq(OutMsgs)
  BY DEF Shape, Fields
<1> HIDE DEF m
<1>3. /\ Len(out) \in Nat /\ Len(out') = Len(out) + 1
      /\ out'[Len(out) + 1] = m
      /\ \A j \in 1 .. Len(out) : out'[j] = out[j]
  BY <1>1, <1>2, OutGrows DEF m
<1>4. \A j \in 1 .. Len(out') : Clear(j)' => j \in 1 .. Len(out) /\ Clear(j)
  <2> SUFFICES ASSUME NEW j \in 1 .. Len(out'), Clear(j)'
               PROVE  j \in 1 .. Len(out) /\ Clear(j)
    OBVIOUS
  <2>1. j \in 1 .. Len(out)
    BY <1>1, <1>3 DEF Clear
  <2> QED
    BY <1>3, <2>1, BehindSame
<1>5. SignalsBehindData'
  <2> SUFFICES ASSUME NEW j \in 1 .. Len(out'), NEW k \in 1 .. Len(out'), Clear(j)', j < k
               PROVE  out'[k].n > out'[j].n \/ out'[k].type # "data"
    BY DEF SignalsBehindData, Clear
  <2>1. j \in 1 .. Len(out) /\ Clear(j)
    BY <1>4
  <2>2. CASE k = Len(out) + 1
    BY <1>1, <1>3, <2>1, <2>2
  <2>3. CASE k \in 1 .. Len(out)
    BY <1>3, <2>1, <2>3 DEF Order, SignalsBehindData, Clear
  <2> QED
    BY <1>3, <2>2, <2>3
<1>6. \A j \in 1 .. Len(out') : Clear(j)' => \A w \in workers' : w > out'[j].n
  BY <1>3, <1>4 DEF Order
<1> QED
  BY <1>5, <1>6 DEF Order

(* The initial states satisfy Order. *)
LEMMA InitOrder == Init => Order
BY DEF Init, Order, SignalsBehindData

(* SelectData keeps Order. *)
LEMMA SelectDataOrder ==
  ASSUME Shape, Passing, Order, SelectData
  PROVE  Order'
<1>1. /\ UNCHANGED <<setup, workers, pipeCtx>>
      /\ DataEmitted \/ DataRouted \/ DataToPool
  BY SelectDataCases
<1>2. CASE DataEmitted
  <2>1. \A j \in 1 .. Len(out) : Clear(j) => taken + 1 > out[j].n
    <3> SUFFICES ASSUME NEW j \in 1 .. Len(out), Clear(j) PROVE taken + 1 > out[j].n
      OBVIOUS
    <3>1. out[j].n \in Nat /\ taken \in Nat
      BY OutTypes DEF Shape, Fields
    <3>2. out[j].n <= taken
      BY DEF Passing, Clear
    <3> QED
      BY <3>1, <3>2
  <2>2. out' = Append(out, [type |-> "data", n |-> taken + 1])
    BY <1>2 DEF DataEmitted
  <2>3. taken + 1 \in Nat
    BY DEF Shape, Fields
  <2> QED
    BY <1>1, <2>1, <2>2, <2>3, OrderAppendData
<1>3. CASE out' = out
  BY <1>1, <1>3, OrderKept
<1> QED
  BY <1>1, <1>2, <1>3 DEF DataRouted, DataToPool

(* A signal is sent when no worker is left that it should wait for. *)
LEMMA ForwardOrder ==
  ASSUME Shape, Passing, Quiet, Order, Forward
  PROVE  Order'
<1>1. pc = "forward" /\ UNCHANGED <<setup, workers, pipeCtx, taken>>
  BY DEF Forward, poolVars
<1>2. CASE out' = out
  BY <1>1, <1>2, OrderKept
<1>3. CASE out' # out
  <2>1. PICK s \in signals \cap SignalKinds :
          /\ cur[1].type = s
          /\ out' = Append(out, [type |-> s, n |-> taken])
          /\ [type |-> s, n |-> taken] \in OutMsgs
    BY <1>3, ForwardShape
  <2> DEFINE m == [type |-> s, n |-> taken]
  <2>2. out \in Seq(OutMsgs) /\ taken \in Nat /\ m.type = s /\ m.n = taken /\ s # "data"
    BY DEF Shape, Fields, SignalKinds
  <2>3. m \in OutMsgs /\ out' = Append(out, m)
    BY <2>1
  <2> HIDE DEF m
  <2>4. /\ Len(out) \in Nat /\ Len(out') = Len(out) + 1
        /\ out'[Len(out) + 1] = m
        /\ \A j \in 1 .. Len(out) : out'[j] = out[j]
    BY <2>2, <2>3, OutGrows
  <2>5. \A j \in 1 .. Len(out) : Clear(j)' => Clear(j)
    BY <1>1, <2>4, BehindSame
  <2>6. SignalsBehindData'
    <3> SUFFICES ASSUME NEW j \in 1 .. Len(out'), NEW k \in 1 .. Len(out'), Clear(j)', j < k
                 PROVE  out'[k].n > out'[j].n \/ out'[k].type # "data"
      BY DEF SignalsBehindData, Clear
    <3>1. CASE k = Len(out) + 1
      BY <2>2, <2>4, <3>1
    <3>2. CASE k \in 1 .. Len(out)
      <4>1. j \in 1 .. Len(out) /\ Clear(j)
        BY <2>4, <2>5, <3>2
      <4> QED
        BY <2>4, <3>2, <4>1 DEF Order, SignalsBehindData, Clear
    <3> QED
      BY <2>4, <3>1, <3>2
  <2>7. \A j \in 1 .. Len(out') : Clear(j)' => \A w \in workers' : w > out'[j].n
    <3> SUFFICES ASSUME NEW j \in 1 .. Len(out'), Clear(j)'
                 PROVE  \A w \in workers : w > out'[j].n
      BY <1>1
    <3>1. CASE j \in 1 .. Len(out)
      BY <2>4, <2>5, <3>1 DEF Order
    <3>2. CASE j = Len(out) + 1
      <4>1. CASE s # "stop"
        BY <1>1, <2>1, <4>1 DEF Quiet
      <4>2. CASE s = "stop"
        <5>1. setup.pool = "engine" /\ ~pipeCtx /\ ~Behind(j, "thenStop")'
          BY <1>1, <2>2, <2>4, <3>2, <4>2 DEF Clear
        <5>2. \A i \in 1 .. Len(out) : i \in 1 .. j - 1
          BY <2>4, <3>2
        <5>3. ~Has("thenStop")
          BY <2>4, <5>1, <5>2 DEF Has, Behind
        <5>4. ~Has("stop")
          BY <1>1, <2>1, <4>2 DEF Passing, InHand
        <5>5. workers = {}
          BY <1>1, <5>1, <5>3, <5>4 DEF Quiet, HasEnd
        <5> QED
          BY <5>5
      <4> QED
        BY <4>1, <4>2
    <3> QED
      BY <2>4, <3>1, <3>2
  <2> QED
    BY <2>6, <2>7 DEF Order
<1> QED
  BY <1>2, <1>3

(* Every step keeps Order. *)
LEMMA NextOrder == Shape /\ Passing /\ Quiet /\ Order /\ [Next]_vars => Order'
<1> SUFFICES ASSUME Shape, Passing, Quiet, Order, [Next]_vars PROVE Order'
  OBVIOUS
<1>1. CASE SelectData
  BY <1>1, SelectDataOrder
<1>2. CASE Forward
  BY <1>2, ForwardOrder
<1>3. CASE Acquire
  <2>1. workers' = workers \cup {taken} /\ pc = "acquire"
        /\ UNCHANGED <<setup, out, pipeCtx>>
    BY <1>3, AcquireShape DEF Acquire
  <2>2. SignalsBehindData'
    BY <2>1 DEF Order, SignalsBehindData, Behind
  <2>3. \A j \in 1 .. Len(out) : Clear(j) => taken > out[j].n
    <3> SUFFICES ASSUME NEW j \in 1 .. Len(out), Clear(j) PROVE taken > out[j].n
      OBVIOUS
    <3>1. out[j].n \in Nat /\ taken \in Nat
      BY OutTypes DEF Shape, Fields
    <3>2. out[j].n < taken
      BY <2>1 DEF Passing, Clear
    <3> QED
      BY <3>1, <3>2
  <2>4. \A j \in 1 .. Len(out) : Clear(j)' <=> Clear(j)
    BY <2>1 DEF Clear, Behind
  <2>5. \A j \in 1 .. Len(out') : Clear(j)' => \A w \in workers' : w > out'[j].n
    BY <2>1, <2>3, <2>4 DEF Order
  <2> QED
    BY <2>2, <2>5 DEF Order
<1>4. ASSUME NEW w \in 1 .. MaxData, WorkerStep(w)
      PROVE  Order'
  <2>1. /\ w \in workers /\ workers' = workers \ {w}
        /\ UNCHANGED <<setup, pipeCtx>>
    BY <1>4 DEF WorkerStep, WorkerEmits, WorkerFails, WorkerEmitsError
  <2>2. CASE out' = out
    BY <2>1, <2>2, OrderKept
  <2>3. CASE out' = Append(out, [type |-> "data", n |-> w])
    <3>1. w \in Nat
      OBVIOUS
    <3>2. \A j \in 1 .. Len(out) : Clear(j) => w > out[j].n
      BY <2>1 DEF Order
    <3> QED
      BY <2>1, <2>3, <3>1, <3>2, OrderAppendData
  <2> QED
    BY <1>4, <2>2, <2>3 DEF WorkerStep, WorkerEmits, WorkerFails, WorkerEmitsError
<1>5. CASE SelectSignal \/ SendDeadLetter \/ AcquireFails \/ WaitAll \/ DrainAll \/ SelectDone
  <2>1. UNCHANGED <<setup, out, workers, pipeCtx>>
    BY <1>5, AcquireFailsCases DEF SelectSignal, SendDeadLetter, WaitAll, DrainAll, SelectDone,
       poolVars
  <2> QED
    BY <2>1, OrderKept
<1>6. CASE DeadLetterStep \/ MonitorStep \/ Cancel \/ UNCHANGED vars
  <2>1. UNCHANGED <<setup, out, workers>> /\ (pipeCtx => pipeCtx')
    BY <1>6 DEF DeadLetterStep, DLHandle, DLHandleStop, DLDone, MonitorStep, NodeError,
                MonitorNodes, MonitorSendStop, MonitorDone, Cancel, vars, poolVars
  <2> QED
    BY <2>1, OrderKept
<1> QED
  BY <1>1, <1>2, <1>3, <1>4, <1>5, <1>6 DEF Next, LoopStep

(* No message overtakes a signal, for every pool size, every schedule of    *)
(* the workers and every order of data and signals on the input             *)
(* (HandleWatermark, HandleCheckpoint and Drain of the pool).  A stop has   *)
(* waited for the workers unless a ThenStop barrier had cancelled the node. *)
THEOREM SignalsFollowData == Spec => []SignalsBehindData
<1>1. Order => SignalsBehindData
  BY DEF Order
<1> QED
  BY <1>1, InitShape, NextShape, InitPassing, NextPassing, InitQuiet, NextQuiet, InitOrder,
     NextOrder, PTL DEF Spec

-----------------------------------------------------------------------------
(* Every message is somewhere. *)

(* What has been sent on is only added to. *)
LEMMA SentGrows ==
  ASSUME out \in Seq(OutMsgs), NEW m \in OutMsgs, out' = Append(out, m)
  PROVE  Sent("data")' = Sent("data") \cup {x \in {m.n} : m.type = "data"}
<1>1. /\ Len(out) \in Nat /\ Len(out') = Len(out) + 1
      /\ out'[Len(out) + 1] = m
      /\ \A j \in 1 .. Len(out) : out'[j] = out[j]
  BY OutGrows
<1>2. \A x : x \in Sent("data") <=> \E j \in 1 .. Len(out) : out[j].type = "data" /\ x = out[j].n
  BY DEF Sent
<1>3. \A x : x \in Sent("data")' <=> \E j \in 1 .. Len(out') : out'[j].type = "data" /\ x = out'[j].n
  BY DEF Sent
<1>4. Sent("data") \subseteq Sent("data")'
  <2> SUFFICES ASSUME NEW x \in Sent("data") PROVE x \in Sent("data")'
    OBVIOUS
  <2>1. PICK j \in 1 .. Len(out) : out[j].type = "data" /\ x = out[j].n
    BY <1>2
  <2>2. j \in 1 .. Len(out') /\ out'[j] = out[j]
    BY <1>1
  <2> QED
    BY <1>3, <2>1, <2>2
<1>5. m.type = "data" => m.n \in Sent("data")'
  <2>1. Len(out) + 1 \in 1 .. Len(out')
    BY <1>1
  <2> QED
    BY <1>1, <1>3, <2>1
<1>6. ASSUME NEW x \in Sent("data")', x \notin Sent("data")
      PROVE  m.type = "data" /\ x = m.n
  <2>1. PICK j \in 1 .. Len(out') : out'[j].type = "data" /\ x = out'[j].n
    BY <1>3
  <2>2. j \notin 1 .. Len(out)
    BY <1>1, <1>2, <1>6, <2>1
  <2>3. j = Len(out) + 1
    BY <1>1, <2>2
  <2> QED
    BY <1>1, <2>1, <2>3
<1> QED
  BY <1>4, <1>5, <1>6

(* The initial states satisfy Accounted. *)
LEMMA InitAccounted == Init => Accounted
<1> SUFFICES ASSUME Init PROVE Accounted
  OBVIOUS
<1>1. 1 .. taken = {} /\ Len(out) = 0
  BY DEF Init
<1>2. CheckpointCovers
  BY <1>1 DEF CheckpointCovers
<1> QED
  BY <1>1, <1>2 DEF Accounted

(* A step that sends no signal, takes no message, and loses none from sight.*)
LEMMA AccountedKept ==
  ASSUME Accounted,
         UNCHANGED <<setup, out, taken>>,
         Routed \subseteq Routed', failed \subseteq failed',
         Waiting \subseteq Waiting' \cup Routed' \cup failed',
         \/ lastErr' # << >>
         \/ Cleared'
         \/ pc' = "gone"
         \/ /\ lastErr = << >> /\ ~Cleared /\ pc # "gone"
            /\ Waiting \subseteq Waiting' \cup Routed'
  PROVE  Accounted'
<1>1. Sent("data")' = Sent("data") /\ Pooled' = Pooled
  BY DEF Sent, Pooled
<1>2. 1 .. taken' \subseteq (Waiting \cup Sent("data") \cup Routed \cup failed)'
  BY <1>1 DEF Accounted
<1>3. (Pooled /\ lastErr = << >> /\ ~Cleared /\ pc # "gone")'
        => 1 .. taken' \subseteq (Waiting \cup Sent("data") \cup Routed)'
  BY <1>1 DEF Accounted
<1>4. CheckpointCovers'
  BY <1>1 DEF Accounted, CheckpointCovers, Behind
<1> QED
  BY <1>2, <1>3, <1>4 DEF Accounted

(* The coverage of signals sent before is not lost. *)
LEMMA CoversKept ==
  ASSUME Shape, CheckpointCovers, setup' = setup, Routed \subseteq Routed', pipeCtx' = pipeCtx,
         NEW x \in Nat, out' = Append(out, [type |-> "data", n |-> x])
  PROVE  /\ CheckpointCovers'
         /\ Sent("data")' = Sent("data") \cup {x}
<1> DEFINE m == [type |-> "data", n |-> x]
<1>1. m \in OutMsgs /\ m.type = "data" /\ m.n = x /\ out \in Seq(OutMsgs)
  BY DEF OutMsgs, Shape, Fields
<1>2. out' = Append(out, m)
  OBVIOUS
<1> HIDE DEF m
<1>3. Sent("data")' = Sent("data") \cup {x}
  BY <1>1, <1>2, SentGrows
<1>4. /\ Len(out) \in Nat /\ Len(out') = Len(out) + 1
      /\ out'[Len(out) + 1] = m
      /\ \A j \in 1 .. Len(out) : out'[j] = out[j]
  BY <1>1, <1>2, OutGrows
<1>5. CheckpointCovers'
  <2> SUFFICES ASSUME Pooled, NEW j \in 1 .. Len(out'),
                      out'[j].type \in {"watermark", "barrier", "thenStop"},
                      setup.pool = "engine" => ~Behind(j, "stop")'
               PROVE  1 .. out'[j].n \subseteq Sent("data")' \cup Routed'
    BY DEF CheckpointCovers, Pooled
  <2>1. j \in 1 .. Len(out) /\ out'[j] = out[j]
    BY <1>1, <1>4
  <2>2. Behind(j, "stop")' <=> Behind(j, "stop")
    BY <1>4, <2>1, BehindSame
  <2> QED
    BY <1>3, <2>1, <2>2 DEF CheckpointCovers
<1> QED
  BY <1>3, <1>5

(* SelectData keeps Accounted. *)
LEMMA SelectDataAccounted ==
  ASSUME Shape, Accounted, SelectData
  PROVE  Accounted'
<1>1. /\ taken' = taken + 1 /\ pc = "select"
      /\ UNCHANGED <<setup, workers, lastErr, signals, pipeCtx>>
      /\ DataEmitted \/ DataRouted \/ DataToPool
  BY SelectDataCases
<1>2. taken \in Nat /\ 1 .. taken' = 1 .. taken \cup {taken + 1}
  BY <1>1 DEF Shape, Fields
<1>3. Waiting = workers /\ Pooled' = Pooled /\ Cleared' = Cleared
  BY <1>1 DEF Waiting, Pooled, Cleared
<1>4. CASE DataEmitted
  <2>1. ~Pooled /\ out' = Append(out, [type |-> "data", n |-> taken + 1]) /\ pc' = "select"
        /\ UNCHANGED <<routed, failed>>
    BY <1>4 DEF DataEmitted
  <2>2. Routed' = Routed /\ Waiting' = workers
    BY <1>1, <2>1 DEF Routed, Waiting
  <2>3. CheckpointCovers' /\ Sent("data")' = Sent("data") \cup {taken + 1}
    <3>1. taken + 1 \in Nat
      BY <1>2
    <3> QED
      BY <1>1, <2>1, <2>2, <3>1, CoversKept DEF Accounted
  <2>4. 1 .. taken' \subseteq (Waiting \cup Sent("data") \cup Routed \cup failed)'
    BY <1>2, <1>3, <2>1, <2>2, <2>3 DEF Accounted
  <2> QED
    BY <1>3, <2>1, <2>3, <2>4 DEF Accounted
<1>5. CASE DataRouted \/ DataToPool
  <2>1. out' = out /\ Sent("data")' = Sent("data") /\ failed \subseteq failed'
    BY <1>5 DEF DataRouted, DataToPool, Sent
  <2>2. /\ Routed \subseteq Routed' /\ Waiting \subseteq Waiting'
        /\ taken + 1 \in Waiting' \cup Routed'
    <3>1. CASE DataRouted
      <4>1. PICK cause : routed' = routed \cup {[msg |-> taken + 1, cause |-> cause]}
        BY <3>1 DEF DataRouted
      <4> QED
        BY <1>1, <1>3, <4>1, RoutedGrows DEF Waiting
    <3>2. CASE DataToPool
      BY <1>1, <1>3, <3>2 DEF DataToPool, Routed, Waiting
    <3> QED
      BY <1>5, <3>1, <3>2
  <2>3. 1 .. taken' \subseteq (Waiting \cup Sent("data") \cup Routed \cup failed)'
    BY <1>2, <2>1, <2>2 DEF Accounted
  <2>4. (Pooled /\ lastErr = << >> /\ ~Cleared /\ pc # "gone")'
          => 1 .. taken' \subseteq (Waiting \cup Sent("data") \cup Routed)'
    BY <1>1, <1>2, <1>3, <2>1, <2>2 DEF Accounted
  <2>5. CheckpointCovers'
    BY <1>1, <1>3, <2>1, <2>2 DEF Accounted, CheckpointCovers, Behind
  <2> QED
    BY <2>3, <2>4, <2>5 DEF Accounted
<1> QED
  BY <1>1, <1>4, <1>5

(* A step of a worker keeps Accounted. *)
LEMMA WorkerAccounted ==
  ASSUME Shape, Accounted, NEW w \in 1 .. MaxData, WorkerStep(w)
  PROVE  Accounted'
<1>1. /\ w \in workers /\ workers' = workers \ {w}
      /\ UNCHANGED <<setup, pc, taken, signals, pipeCtx>>
  BY DEF WorkerStep, WorkerEmits, WorkerFails, WorkerEmitsError, loopVars
<1>2. Waiting \subseteq Waiting' \cup {w} /\ Pooled' = Pooled /\ Cleared' = Cleared
  BY <1>1 DEF Waiting, Pooled, Cleared
<1>3. CASE WorkerEmits(w)
  <2>1. out' = Append(out, [type |-> "data", n |-> w]) /\ UNCHANGED <<routed, failed, lastErr>>
    BY <1>3 DEF WorkerEmits
  <2>2. Routed' = Routed /\ w \in Nat
    BY <2>1 DEF Routed
  <2>3. CheckpointCovers' /\ Sent("data")' = Sent("data") \cup {w}
    BY <1>1, <2>1, <2>2, CoversKept DEF Accounted
  <2>4. 1 .. taken' \subseteq (Waiting \cup Sent("data") \cup Routed \cup failed)'
    BY <1>1, <1>2, <2>1, <2>2, <2>3 DEF Accounted
  <2>5. (Pooled /\ lastErr = << >> /\ ~Cleared /\ pc # "gone")'
          => 1 .. taken' \subseteq (Waiting \cup Sent("data") \cup Routed)'
    BY <1>1, <1>2, <2>1, <2>2, <2>3 DEF Accounted
  <2> QED
    BY <2>3, <2>4, <2>5 DEF Accounted
<1>4. CASE WorkerFails(w)
  <2>1. /\ failed' = failed \cup {w} /\ UNCHANGED <<out, routed>>
        /\ lastErr' # << >>
    BY <1>4 DEF WorkerFails
  <2>2. Routed' = Routed
    BY <2>1 DEF Routed
  <2> QED
    BY <1>1, <1>2, <2>1, <2>2, AccountedKept
<1>5. CASE WorkerEmitsError(w)
  <2>1. /\ routed' = routed \cup {[msg |-> w, cause |-> w]} /\ UNCHANGED <<out, failed, lastErr>>
    BY <1>5 DEF WorkerEmitsError
  <2>2. Routed' = Routed \cup {w}
    BY <2>1, RoutedGrows
  <2> QED
    BY <1>1, <1>2, <2>1, <2>2, AccountedKept
<1> QED
  BY <1>3, <1>4, <1>5 DEF WorkerStep

(* A watermark or a barrier is sent when nothing is left in the pool. *)
LEMMA ForwardAccounted ==
  ASSUME Shape, Passing, Quiet, Accounted, Forward
  PROVE  Accounted'
<1>1. pc = "forward"
      /\ UNCHANGED <<setup, workers, lastErr, taken, routed, failed, signals, pipeCtx>>
  BY DEF Forward, poolVars
<1>2. Routed' = Routed /\ Waiting = workers /\ Pooled' = Pooled /\ Cleared' = Cleared
  BY <1>1 DEF Routed, Waiting, Pooled, Cleared
<1>3. CASE out' = out
  <2>1. Waiting' = workers
    BY <1>1, ForwardShape DEF Waiting
  <2> QED
    BY <1>1, <1>2, <1>3, <2>1, AccountedKept
<1>4. CASE out' # out
  <2>1. PICK s \in signals \cap SignalKinds :
          /\ cur[1].type = s
          /\ out' = Append(out, [type |-> s, n |-> taken])
          /\ [type |-> s, n |-> taken] \in OutMsgs
    BY <1>4, ForwardShape
  <2>2. pc' = "select"
    BY <1>4, ForwardShape
  <2> DEFINE m == [type |-> s, n |-> taken]
  <2>3. out \in Seq(OutMsgs) /\ m.type = s /\ m.n = taken /\ s # "data"
    BY DEF Shape, Fields, SignalKinds
  <2>4. m \in OutMsgs /\ out' = Append(out, m)
    BY <2>1
  <2> HIDE DEF m
  <2>5. /\ Len(out) \in Nat /\ Len(out') = Len(out) + 1
        /\ out'[Len(out) + 1] = m
        /\ \A j \in 1 .. Len(out) : out'[j] = out[j]
    BY <2>3, <2>4, OutGrows
  <2>6. Sent("data")' = Sent("data")
    BY <2>3, <2>4, SentGrows
  <2>7. Waiting' = workers
    BY <1>1, <2>2 DEF Waiting
  <2>8. 1 .. taken' \subseteq (Waiting \cup Sent("data") \cup Routed \cup failed)'
    BY <1>1, <1>2, <2>6, <2>7 DEF Accounted
  <2>9. (Pooled /\ lastErr = << >> /\ ~Cleared /\ pc # "gone")'
          => 1 .. taken' \subseteq (Waiting \cup Sent("data") \cup Routed)'
    BY <1>1, <1>2, <2>6, <2>7 DEF Accounted
  <2>10. CheckpointCovers'
    <3> SUFFICES ASSUME Pooled, NEW j \in 1 .. Len(out'),
                        out'[j].type \in {"watermark", "barrier", "thenStop"},
                        setup.pool = "engine" => ~Behind(j, "stop")'
                 PROVE  1 .. out'[j].n \subseteq Sent("data") \cup Routed
      BY <1>1, <1>2, <2>6 DEF CheckpointCovers
    <3>1. CASE j \in 1 .. Len(out)
      <4>1. Behind(j, "stop")' <=> Behind(j, "stop")
        BY <1>1, <2>5, <3>1, BehindSame
      <4> QED
        BY <2>5, <3>1, <4>1 DEF Accounted, CheckpointCovers
    <3>2. CASE j = Len(out) + 1
      <4>1. s # "stop" /\ out'[j].n = taken
        BY <2>1, <2>3, <2>5, <3>2
      <4>2. workers = {} /\ lastErr = << >>
        BY <1>1, <2>1, <4>1 DEF Quiet
      <4>3. ~Cleared
        <5> SUFFICES ASSUME setup.pool = "engine", "stop" \in signals PROVE FALSE
          BY DEF Cleared
        <5>1. Has("stop")
          BY <1>1, <2>1, <4>1 DEF Passing, InHand
        <5>2. \A i \in 1 .. Len(out) : i \in 1 .. j - 1
          BY <2>5, <3>2
        <5> QED
          BY <2>5, <5>1, <5>2 DEF Has, Behind
      <4> QED
        BY <1>1, <1>2, <4>1, <4>2, <4>3 DEF Accounted
    <3> QED
      BY <2>5, <3>1, <3>2
  <2> QED
    BY <2>8, <2>9, <2>10 DEF Accounted
<1> QED
  BY <1>3, <1>4

(* Every step keeps Accounted. *)
LEMMA NextAccounted == Shape /\ Passing /\ Quiet /\ Accounted /\ [Next]_vars => Accounted'
<1> SUFFICES ASSUME Shape, Passing, Quiet, Accounted, [Next]_vars PROVE Accounted'
  OBVIOUS
<1>1. CASE SelectData
  BY <1>1, SelectDataAccounted
<1>2. CASE Forward
  BY <1>2, ForwardAccounted
<1>3. CASE Acquire
  <2>1. workers' = workers \cup {taken} /\ pc = "acquire" /\ pc' = "select"
        /\ UNCHANGED <<setup, out, taken, routed, failed, lastErr, signals>>
    BY <1>3, AcquireShape DEF Acquire
  <2>2. Waiting \subseteq Waiting' /\ Routed' = Routed /\ Cleared' = Cleared
    BY <2>1 DEF Waiting, Routed, Cleared
  <2> QED
    BY <2>1, <2>2, AccountedKept
<1>4. CASE AcquireFails
  <2>1. /\ pc = "acquire" /\ routed' = routed \cup {[msg |-> taken, cause |-> taken]}
        /\ UNCHANGED <<setup, workers, lastErr, out, taken, signals, failed>>
    BY <1>4, AcquireFailsCases
  <2>2. Routed' = Routed \cup {taken} /\ Cleared' = Cleared
    BY <2>1, RoutedGrows DEF Cleared
  <2>3. Waiting \subseteq Waiting' \cup Routed'
    BY <2>1, <2>2 DEF Waiting
  <2> QED
    BY <2>1, <2>2, <2>3, AccountedKept
<1>5. ASSUME NEW w \in 1 .. MaxData, WorkerStep(w)
      PROVE  Accounted'
  BY <1>5, WorkerAccounted
<1>6. CASE SelectSignal
  <2>1. pc = "select" /\ pc' # "acquire"
        /\ UNCHANGED <<setup, out, taken, workers, lastErr, routed, failed>>
    BY <1>6 DEF SelectSignal, poolVars
  <2>2. PICK s \in Signals : signals' = signals \cup {s}
    BY <1>6 DEF SelectSignal
  <2>3. Waiting = Waiting' /\ Routed' = Routed /\ (Cleared => Cleared')
    BY <2>1, <2>2 DEF Waiting, Routed, Cleared
  <2> QED
    BY <2>1, <2>2, <2>3, AccountedKept
<1>7. CASE WaitAll \/ DrainAll \/ SelectDone \/ SendDeadLetter
  <2>1. pc # "acquire" /\ pc' # "acquire" /\ pc # "gone"
        /\ UNCHANGED <<setup, out, taken, workers, routed, failed, signals>>
    BY <1>7 DEF WaitAll, DrainAll, SelectDone, SendDeadLetter, Return, poolVars
  <2>2. Waiting' = Waiting /\ Routed' = Routed /\ Cleared' = Cleared
    BY <2>1 DEF Waiting, Routed, Cleared
  <2>3. lastErr = << >> \/ lastErr' # << >> \/ pc' = "gone" \/ Cleared
    BY <1>7 DEF WaitAll, DrainAll, SelectDone, SendDeadLetter, Return, poolVars, Shape, LoopState,
                Cleared
  <2> QED
    BY <2>1, <2>2, <2>3, AccountedKept
<1>8. CASE DeadLetterStep \/ MonitorStep \/ Cancel \/ UNCHANGED vars
  <2>1. UNCHANGED <<setup, out, taken, workers, lastErr, routed, failed, signals, pc>>
    BY <1>8 DEF DeadLetterStep, DLHandle, DLHandleStop, DLDone, MonitorStep, NodeError,
                MonitorNodes, MonitorSendStop, MonitorDone, Cancel, vars, loopVars, poolVars
  <2>2. Waiting' = Waiting /\ Routed' = Routed /\ Cleared' = Cleared
    BY <2>1 DEF Waiting, Routed, Cleared
  <2> QED
    BY <2>1, <2>2, AccountedKept
<1> QED
  BY <1>1, <1>2, <1>3, <1>4, <1>5, <1>6, <1>7, <1>8 DEF Next, LoopStep

(* Once a worker has failed, no watermark or barrier is sent on that covers *)
(* its message, whatever the error strategy: what a completed checkpoint    *)
(* includes was emitted or went to the error handler.  Excepted is what     *)
(* follows a stop, whose Drain clears the error.                            *)
THEOREM CheckpointsCoverProcessed == Spec => []CheckpointCovers
<1>1. Accounted => CheckpointCovers
  BY DEF Accounted
<1> QED
  BY <1>1, InitShape, NextShape, InitPassing, NextPassing, InitQuiet, NextQuiet, InitAccounted,
     NextAccounted, PTL DEF Spec

(* A node that has come to its stop without a cancellation has emitted,     *)
(* failed for or handed to the error handler each message it took before it *)
(* sent the stop on, whatever the workers did last.                         *)
THEOREM NoMessageForgotten == Spec => []NoneForgotten
<1>1. Quiet /\ Accounted => NoneForgotten
  BY DEF Quiet, Accounted, NoneForgotten, Waiting
<1> QED
  BY <1>1, InitShape, NextShape, InitPassing, NextPassing, InitQuiet, NextQuiet, InitAccounted,
     NextAccounted, PTL DEF Spec

-----------------------------------------------------------------------------
(* The dead letters. *)

(* A step that leaves the dead-letter side alone and sends no letter. *)
LEMMA LettersKept ==
  ASSUME LettersBehindStop, Late \subseteq Late',
         UNCHANGED <<setup, dlbuf, dl, dlStop, delivered, monitor, broken>>,
         pipeCtx => pipeCtx', Routed' \subseteq Routed \cup Pending', Pending \subseteq Pending',
         pc = "gone" => pc' = "gone"
  PROVE  LettersBehindStop'
<1>1. Letters' = Letters
  BY DEF Letters
<1> QED
  BY <1>1 DEF LettersBehindStop, Pending

(* What is in the buffer after a letter is appended or handled. *)
LEMMA LettersAppend ==
  ASSUME dlbuf \in Seq(0 .. MaxData), NEW x \in 0 .. MaxData, dlbuf' = Append(dlbuf, x)
  PROVE  /\ Letters' = Letters \cup ({x} \ {0})
         /\ Len(dlbuf) \in Nat /\ Len(dlbuf') = Len(dlbuf) + 1 /\ dlbuf'[Len(dlbuf) + 1] = x
         /\ \A k \in 1 .. Len(dlbuf) : dlbuf'[k] = dlbuf[k]
<1>1. /\ Len(dlbuf) \in Nat /\ Len(dlbuf') = Len(dlbuf) + 1 /\ dlbuf'[Len(dlbuf) + 1] = x
      /\ \A k \in 1 .. Len(dlbuf) : dlbuf'[k] = dlbuf[k]
  OBVIOUS
<1>2. {dlbuf'[k] : k \in 1 .. Len(dlbuf')} = {dlbuf[k] : k \in 1 .. Len(dlbuf)} \cup {x}
  BY <1>1
<1> QED
  BY <1>1, <1>2 DEF Letters

(* Taking the first message of the dead-letter buffer. *)
LEMMA LettersTail ==
  ASSUME dlbuf \in Seq(0 .. MaxData), dlbuf # << >>, dlbuf' = Tail(dlbuf)
  PROVE  /\ Letters \subseteq Letters' \cup {Head(dlbuf)} /\ Head(dlbuf) = dlbuf[1]
         /\ Len(dlbuf) \in Nat \ {0} /\ Len(dlbuf') = Len(dlbuf) - 1
         /\ \A k \in 1 .. Len(dlbuf') : dlbuf'[k] = dlbuf[k + 1] /\ k + 1 \in 1 .. Len(dlbuf)
<1>1. /\ Head(dlbuf) = dlbuf[1]
      /\ Len(dlbuf) \in Nat \ {0} /\ Len(dlbuf') = Len(dlbuf) - 1
      /\ \A k \in 1 .. Len(dlbuf') : dlbuf'[k] = dlbuf[k + 1] /\ k + 1 \in 1 .. Len(dlbuf)
  OBVIOUS
<1>2. ASSUME NEW k \in 1 .. Len(dlbuf), k # 1
      PROVE  \E l \in 1 .. Len(dlbuf') : dlbuf'[l] = dlbuf[k]
  <2>1. k - 1 \in 1 .. Len(dlbuf') /\ (k - 1) + 1 = k
    BY <1>1, <1>2
  <2> QED
    BY <1>1, <2>1
<1> QED
  BY <1>1, <1>2 DEF Letters

(* The initial states satisfy Letters. *)
LEMMA InitLetters == Init => LettersBehindStop
BY DEF Init, LettersBehindStop, Routed

(* The node gives a letter to the buffer: the monitor has not sent its      *)
(* stop, or the letter is one of a late message.                            *)
LEMMA LetterSent ==
  ASSUME Shape, Quiet, LettersBehindStop, NEW x \in 1 .. MaxData, dlbuf' = Append(dlbuf, x),
         UNCHANGED <<setup, dl, dlStop, delivered, monitor, broken, pipeCtx>>,
         Routed' \subseteq Routed \cup {x}, Pending \subseteq Pending' \cup {x},
         Late \subseteq Late',
         pc = "gone" => pc' = "gone" /\ x \in workers, setup.strategy = "deadletter"
  PROVE  LettersBehindStop'
<1>1. dlbuf \in Seq(0 .. MaxData) /\ x \in 0 .. MaxData /\ x # 0
  BY DEF Shape, TypeOK
<1>2. /\ Letters' = Letters \cup ({x} \ {0})
      /\ Len(dlbuf) \in Nat /\ Len(dlbuf') = Len(dlbuf) + 1 /\ dlbuf'[Len(dlbuf) + 1] = x
      /\ \A k \in 1 .. Len(dlbuf) : dlbuf'[k] = dlbuf[k]
  BY <1>1, LettersAppend
<1>3. broken' = {} => Routed' \subseteq (delivered \cup Letters \cup Pending)'
  BY <1>1, <1>2 DEF LettersBehindStop, Pending
<1>4. ~pipeCtx /\ setup.pool # "nodes" /\ monitor # "wait" => x \in Late'
  BY DEF Quiet, LettersBehindStop
<1>5. monitor' # "wait" => pc' = "gone"
  BY DEF LettersBehindStop
<1>6. ASSUME ~pipeCtx', setup'.pool # "nodes"
      PROVE  /\ \A k \in 1 .. Len(dlbuf') :
                  dlbuf'[k] = 0 => /\ \A l \in k + 1 .. Len(dlbuf') : dlbuf'[l] \in Late'
                                   /\ monitor' \in {"waiting", "done"}
             /\ broken' = {} => /\ dlStop' => /\ \A k \in 1 .. Len(dlbuf') : dlbuf'[k] \in Late'
                                              /\ monitor' \in {"waiting", "done"}
                                /\ dl' = "gone" => dlStop'
                                /\ monitor' = "done" => dl' = "gone"
  <2>1. ~pipeCtx /\ setup.pool # "nodes"
    BY <1>6
  <2>2. \A k \in 1 .. Len(dlbuf') : k \in 1 .. Len(dlbuf) \/ k = Len(dlbuf) + 1
    BY <1>2
  <2>3. ASSUME NEW k \in 1 .. Len(dlbuf'), dlbuf'[k] = 0
        PROVE  /\ \A l \in k + 1 .. Len(dlbuf') : dlbuf'[l] \in Late'
               /\ monitor' \in {"waiting", "done"}
    <3>1. k \in 1 .. Len(dlbuf) /\ dlbuf[k] = 0
      BY <1>1, <1>2, <2>2, <2>3
    <3>2. /\ \A l \in k + 1 .. Len(dlbuf) : dlbuf[l] \in Late
          /\ monitor \in {"waiting", "done"}
      BY <2>1, <3>1 DEF LettersBehindStop
    <3>3. x \in Late'
      BY <1>4, <2>1, <3>2
    <3>4. \A l \in k + 1 .. Len(dlbuf') :
            l \in 1 .. Len(dlbuf') /\ (l # Len(dlbuf) + 1 => l \in k + 1 .. Len(dlbuf))
      BY <1>2
    <3> QED
      BY <1>2, <2>2, <3>2, <3>3, <3>4
  <2>4. ASSUME broken = {}, dlStop
        PROVE  /\ \A k \in 1 .. Len(dlbuf') : dlbuf'[k] \in Late'
               /\ monitor \in {"waiting", "done"}
    <3>1. /\ \A k \in 1 .. Len(dlbuf) : dlbuf[k] \in Late
          /\ monitor \in {"waiting", "done"}
      BY <2>1, <2>4 DEF LettersBehindStop
    <3>2. x \in Late'
      BY <1>4, <2>1, <3>1
    <3> QED
      BY <1>2, <2>2, <3>1, <3>2
  <2>5. broken = {} => /\ dl = "gone" => dlStop
                       /\ monitor = "done" => dl = "gone"
    BY <2>1 DEF LettersBehindStop
  <2> QED
    BY <2>3, <2>4, <2>5
<1> QED
  BY <1>3, <1>5, <1>6 DEF LettersBehindStop, Pending

(* DLHandle keeps LettersBehindStop. *)
LEMMA DLHandleLetters ==
  ASSUME Shape, LettersBehindStop, DLHandle \/ DLHandleStop
  PROVE  LettersBehindStop'
<1> SUFFICES ASSUME setup.strategy = "deadletter" PROVE LettersBehindStop'
  BY DEF LettersBehindStop, DLHandle, DLHandleStop
<1>1. /\ dlbuf \in Seq(0 .. MaxData) /\ dlbuf # << >> /\ dlbuf' = Tail(dlbuf) /\ dl = "loop"
      /\ UNCHANGED <<setup, pc, taken, out, pipeCtx, routed, monitor>>
  BY DEF DLHandle, DLHandleStop, Shape, TypeOK, loopVars
<1>2. /\ Letters \subseteq Letters' \cup {Head(dlbuf)} /\ Head(dlbuf) = dlbuf[1]
      /\ Len(dlbuf) \in Nat \ {0} /\ Len(dlbuf') = Len(dlbuf) - 1
      /\ \A k \in 1 .. Len(dlbuf') : dlbuf'[k] = dlbuf[k + 1] /\ k + 1 \in 1 .. Len(dlbuf)
  BY <1>1, LettersTail
<1>3. Routed' = Routed /\ Pending' = Pending /\ 0 \notin Letters /\ Late' = Late
  BY <1>1 DEF Routed, Pending, Letters, Late
<1>4. broken' = {} => Routed' \subseteq (delivered \cup Letters \cup Pending)'
  <2>1. CASE DLHandle
    BY <1>2, <1>3, <2>1 DEF LettersBehindStop, DLHandle, Pending
  <2>2. CASE DLHandleStop
    BY <1>2, <1>3, <2>2 DEF LettersBehindStop, DLHandleStop, Pending
  <2> QED
    BY <2>1, <2>2
<1>5. monitor' # "wait" => pc' = "gone"
  BY <1>1 DEF LettersBehindStop
<1>6. ASSUME ~pipeCtx', setup'.pool # "nodes"
      PROVE  /\ \A k \in 1 .. Len(dlbuf') :
                  dlbuf'[k] = 0 => /\ \A l \in k + 1 .. Len(dlbuf') : dlbuf'[l] \in Late'
                                   /\ monitor' \in {"waiting", "done"}
             /\ broken' = {} => /\ dlStop' => /\ \A k \in 1 .. Len(dlbuf') : dlbuf'[k] \in Late'
                                              /\ monitor' \in {"waiting", "done"}
                                /\ dl' = "gone" => dlStop'
                                /\ monitor' = "done" => dl' = "gone"
  <2>1. ~pipeCtx /\ setup.pool # "nodes"
    BY <1>1, <1>6
  <2>2. \A k \in 1 .. Len(dlbuf) :
          dlbuf[k] = 0 => /\ \A l \in k + 1 .. Len(dlbuf) : dlbuf[l] \in Late
                          /\ monitor \in {"waiting", "done"}
    BY <2>1 DEF LettersBehindStop
  <2>3. \A k \in 1 .. Len(dlbuf') :
          dlbuf'[k] = 0 => /\ \A l \in k + 1 .. Len(dlbuf') : dlbuf'[l] \in Late'
                           /\ monitor' \in {"waiting", "done"}
    <3> SUFFICES ASSUME NEW k \in 1 .. Len(dlbuf'), dlbuf'[k] = 0
                 PROVE  /\ \A l \in k + 1 .. Len(dlbuf') : dlbuf'[l] \in Late'
                        /\ monitor' \in {"waiting", "done"}
      OBVIOUS
    <3>1. k + 1 \in 1 .. Len(dlbuf) /\ dlbuf[k + 1] = 0
      BY <1>2
    <3>2. /\ \A l \in (k + 1) + 1 .. Len(dlbuf) : dlbuf[l] \in Late
          /\ monitor \in {"waiting", "done"}
      BY <2>2, <3>1
    <3>3. ASSUME NEW l \in k + 1 .. Len(dlbuf')
          PROVE  dlbuf'[l] \in Late'
      <4>1. l \in 1 .. Len(dlbuf') /\ l + 1 \in (k + 1) + 1 .. Len(dlbuf)
        BY <1>2
      <4> QED
        BY <1>2, <1>3, <3>2, <4>1
    <3>4. monitor' = monitor
      BY <1>1
    <3> QED
      BY <3>2, <3>3, <3>4
  <2>4. CASE DLHandle
    <3>1. \/ dl' = dl /\ broken' = broken
          \/ "sink" \in broken'
      BY <2>4 DEF DLHandle
    <3>2. broken = {} /\ dlStop => /\ \A k \in 1 .. Len(dlbuf') : dlbuf'[k] \in Late'
                                   /\ monitor \in {"waiting", "done"}
      BY <1>2, <1>3, <2>1 DEF LettersBehindStop
    <3>3. dlStop' = dlStop
      BY <2>4 DEF DLHandle
    <3> QED
      BY <1>1, <2>1, <2>3, <3>1, <3>2, <3>3 DEF LettersBehindStop
  <2>5. CASE DLHandleStop
    <3>1. dlbuf[1] = 0 /\ 1 \in 1 .. Len(dlbuf)
      BY <1>2, <2>5 DEF DLHandleStop
    <3>2. /\ \A l \in 1 + 1 .. Len(dlbuf) : dlbuf[l] \in Late
          /\ monitor \in {"waiting", "done"}
      BY <2>2, <3>1
    <3>3. \A k \in 1 .. Len(dlbuf') : dlbuf'[k] \in Late'
      <4> SUFFICES ASSUME NEW k \in 1 .. Len(dlbuf') PROVE dlbuf'[k] \in Late'
        OBVIOUS
      <4>1. k + 1 \in 1 + 1 .. Len(dlbuf)
        BY <1>2
      <4> QED
        BY <1>2, <1>3, <3>2, <4>1
    <3>4. dl' = dl /\ broken' = broken /\ dlStop'
      BY <2>5 DEF DLHandleStop
    <3> QED
      BY <1>1, <2>1, <2>3, <3>2, <3>3, <3>4 DEF LettersBehindStop
  <2> QED
    BY <2>4, <2>5
<1> QED
  BY <1>4, <1>5, <1>6 DEF LettersBehindStop, Pending

(* Monitor keeps LettersBehindStop. *)
LEMMA MonitorLetters ==
  ASSUME Shape, LettersBehindStop, DLDone \/ MonitorNodes \/ MonitorSendStop \/ MonitorDone
  PROVE  LettersBehindStop'
<1>1. UNCHANGED <<setup, pc, taken, out, pipeCtx, routed, delivered>>
  BY DEF DLDone, MonitorNodes, MonitorSendStop, MonitorDone, loopVars
<1>2. Routed' = Routed /\ Pending' = Pending /\ Late' = Late
  BY <1>1 DEF Routed, Pending, Late
<1>3. CASE MonitorSendStop
  <2>1. dlbuf' = Append(dlbuf, 0) /\ monitor = "stopping" /\ monitor' = "waiting"
        /\ UNCHANGED <<dl, dlStop, broken>>
    BY <1>3 DEF MonitorSendStop
  <2>2. dlbuf \in Seq(0 .. MaxData) /\ 0 \in 0 .. MaxData
    BY WorkerPoolAssumption DEF Shape, TypeOK
  <2>3. /\ Letters' = Letters \cup ({0} \ {0})
        /\ Len(dlbuf) \in Nat /\ Len(dlbuf') = Len(dlbuf) + 1 /\ dlbuf'[Len(dlbuf) + 1] = 0
        /\ \A k \in 1 .. Len(dlbuf) : dlbuf'[k] = dlbuf[k]
    BY <2>1, <2>2, LettersAppend
  <2>4. Letters' = Letters
    BY <2>3
  <2> SUFFICES ASSUME setup.strategy = "deadletter" PROVE LettersBehindStop'
    BY <1>1 DEF LettersBehindStop
  <2>5. broken' = {} => Routed' \subseteq (delivered \cup Letters \cup Pending)'
    BY <1>1, <1>2, <2>1, <2>4 DEF LettersBehindStop, Pending
  <2>6. monitor' # "wait" => pc' = "gone"
    BY <1>1, <2>1 DEF LettersBehindStop
  <2>7. ASSUME ~pipeCtx', setup'.pool # "nodes"
        PROVE  /\ \A k \in 1 .. Len(dlbuf') :
                    dlbuf'[k] = 0 => /\ \A l \in k + 1 .. Len(dlbuf') : dlbuf'[l] \in Late'
                                     /\ monitor' \in {"waiting", "done"}
               /\ broken' = {} => /\ dlStop' => /\ \A k \in 1 .. Len(dlbuf') : dlbuf'[k] \in Late'
                                                /\ monitor' \in {"waiting", "done"}
                                  /\ dl' = "gone" => dlStop'
                                  /\ monitor' = "done" => dl' = "gone"
    <3>1. ~pipeCtx /\ setup.pool # "nodes"
      BY <1>1, <2>7
    <3>2. \A k \in 1 .. Len(dlbuf) : dlbuf[k] # 0
      BY <2>1, <3>1 DEF LettersBehindStop
    <3>3. \A k \in 1 .. Len(dlbuf') : dlbuf'[k] = 0 => k + 1 .. Len(dlbuf') = {}
      BY <2>3, <3>2
    <3>4. broken = {} => ~dlStop /\ dl # "gone"
      BY <2>1, <3>1 DEF LettersBehindStop
    <3> QED
      BY <2>1, <3>3, <3>4
  <2> QED
    BY <2>5, <2>6, <2>7 DEF LettersBehindStop, Pending
<1>4. CASE DLDone \/ MonitorNodes \/ MonitorDone
  <2>1. dlbuf' = dlbuf /\ Letters' = Letters
    BY <1>4 DEF DLDone, MonitorNodes, MonitorDone, Letters
  <2>2. CASE DLDone
    BY <1>1, <1>2, <2>1, <2>2 DEF DLDone, LettersBehindStop, Pending
  <2>3. CASE MonitorNodes
    BY <1>1, <1>2, <2>1, <2>3 DEF MonitorNodes, LettersBehindStop, Pending
  <2>4. CASE MonitorDone
    <3>1. \/ dl = "gone" /\ UNCHANGED <<dlStop, broken>>
          \/ "timeout" \in broken'
      BY <2>4 DEF MonitorDone
    <3>2. monitor = "waiting" /\ monitor' = "done" /\ dl' = dl
      BY <2>4 DEF MonitorDone
    <3> QED
      BY <1>1, <1>2, <2>1, <3>1, <3>2 DEF LettersBehindStop, Pending
  <2> QED
    BY <1>4, <2>2, <2>3, <2>4
<1> QED
  BY <1>3, <1>4

(* Every step keeps Letters. *)
LEMMA NextLetters == Shape /\ Quiet /\ LettersBehindStop /\ [Next]_vars => LettersBehindStop'
<1> SUFFICES ASSUME Shape, Quiet, LettersBehindStop, [Next]_vars PROVE LettersBehindStop'
  OBVIOUS
<1>0. Late \subseteq Late'
  BY NextLate
<1>1. CASE SelectData
  <2>1. /\ pc = "select" /\ taken' = taken + 1
        /\ UNCHANGED <<setup, pipeCtx, dlbuf, dl, dlStop, delivered, monitor, broken>>
        /\ DataEmitted \/ DataRouted \/ DataToPool
    BY <1>1, SelectDataCases DEF deadVars
  <2>2. setup.strategy = "deadletter" => Routed' \subseteq Routed \cup Pending'
    <3>1. CASE DataRouted
      <4>1. PICK cause : routed' = routed \cup {[msg |-> taken + 1, cause |-> cause]}
        BY <3>1 DEF DataRouted
      <4>2. setup.strategy = "deadletter" => pc' = "deadletter"
        BY <3>1 DEF DataRouted
      <4> QED
        BY <2>1, <4>1, <4>2, RoutedGrows DEF Pending
    <3> QED
      BY <2>1, <3>1 DEF DataEmitted, DataToPool, Routed
  <2>3. CASE setup.strategy # "deadletter"
    BY <2>1, <2>3 DEF LettersBehindStop
  <2>4. CASE setup.strategy = "deadletter"
    <3>1. Pending = {}
      BY <2>1 DEF Pending
    <3> QED
      BY <1>0, <2>1, <2>2, <2>4, <3>1, LettersKept
  <2> QED
    BY <2>3, <2>4
<1>2. CASE AcquireFails
  <2>1. /\ pc = "acquire" /\ routed' = routed \cup {[msg |-> taken, cause |-> taken]}
        /\ UNCHANGED <<setup, pipeCtx, taken, dlbuf, dl, dlStop, delivered, monitor, broken>>
        /\ setup.strategy = "deadletter" => pc' = "deadletter"
    BY <1>2, AcquireFailsCases DEF deadVars
  <2>2. setup.strategy = "deadletter" => Routed' \subseteq Routed \cup Pending'
    BY <2>1, RoutedGrows DEF Pending
  <2>3. CASE setup.strategy # "deadletter"
    BY <2>1, <2>3 DEF LettersBehindStop
  <2>4. CASE setup.strategy = "deadletter"
    <3>1. Pending = {}
      BY <2>1 DEF Pending
    <3> QED
      BY <1>0, <2>1, <2>2, <2>4, <3>1, LettersKept
  <2> QED
    BY <2>3, <2>4
<1>3. CASE SendDeadLetter
  <2>1. /\ dlbuf' = Append(dlbuf, taken) /\ taken \in 1 .. MaxData
        /\ pc = "deadletter" /\ setup.strategy = "deadletter"
        /\ UNCHANGED <<setup, pipeCtx, taken, routed, dl, dlStop, delivered, monitor, broken>>
    BY <1>3, SendDeadLetterShape DEF SendDeadLetter, Shape, LoopState
  <2>2. Routed' \subseteq Routed \cup {taken} /\ Pending \subseteq Pending' \cup {taken}
    BY <2>1 DEF Routed, Pending
  <2> QED
    BY <1>0, <2>1, <2>2, LetterSent
<1>4. ASSUME NEW w \in 1 .. MaxData, WorkerStep(w)
      PROVE  LettersBehindStop'
  <2>1. w \in workers /\ UNCHANGED <<setup, pc, pipeCtx, taken, dl, dlStop, delivered, monitor, broken>>
    BY <1>4 DEF WorkerStep, WorkerEmits, WorkerFails, WorkerEmitsError, loopVars, deadVars
  <2>2. Pending' = Pending
    BY <2>1 DEF Pending
  <2>3. CASE setup.strategy # "deadletter"
    BY <2>1, <2>3 DEF LettersBehindStop
  <2>4. CASE setup.strategy = "deadletter" /\ WorkerEmitsError(w)
    <3>1. dlbuf' = Append(dlbuf, w) /\ routed' = routed \cup {[msg |-> w, cause |-> w]}
      BY <2>4 DEF WorkerEmitsError
    <3>2. Routed' \subseteq Routed \cup {w}
      BY <3>1, RoutedGrows
    <3> QED
      BY <1>0, <2>1, <2>2, <2>4, <3>1, <3>2, LetterSent
  <2>5. CASE WorkerEmits(w) \/ WorkerFails(w)
    <3>1. dlbuf' = dlbuf /\ Routed' = Routed
      BY <2>5 DEF WorkerEmits, WorkerFails, deadVars, Routed
    <3> QED
      BY <1>0, <2>1, <2>2, <3>1, LettersKept
  <2> QED
    BY <1>4, <2>3, <2>4, <2>5 DEF WorkerStep
<1>5. CASE SelectSignal \/ Acquire \/ WaitAll \/ DrainAll \/ Forward \/ SelectDone
  <2>1. /\ UNCHANGED <<setup, pipeCtx, taken, routed, dlbuf, dl, dlStop, delivered, monitor, broken>>
        /\ pc \notin {"gone", "deadletter"}
    BY <1>5 DEF SelectSignal, Acquire, WaitAll, DrainAll, Forward, SelectDone, deadVars
  <2>2. Routed' = Routed /\ Pending = {}
    BY <2>1 DEF Routed, Pending
  <2> QED
    BY <1>0, <2>1, <2>2, LettersKept
<1>6. CASE NodeError \/ Cancel \/ UNCHANGED vars
  <2>1. UNCHANGED <<setup, pc, taken, routed, dlbuf, dl, dlStop, delivered, monitor, broken>>
        /\ (pipeCtx => pipeCtx')
    BY <1>6 DEF NodeError, Cancel, vars, deadVars, loopVars
  <2>2. Routed' = Routed /\ Pending' = Pending
    BY <2>1 DEF Routed, Pending
  <2> QED
    BY <1>0, <2>1, <2>2, LettersKept
<1>7. CASE DLHandle \/ DLHandleStop
  BY <1>7, DLHandleLetters
<1>8. CASE DLDone \/ MonitorNodes \/ MonitorSendStop \/ MonitorDone
  BY <1>8, MonitorLetters
<1> QED
  BY <1>1, <1>2, <1>3, <1>4, <1>5, <1>6, <1>7, <1>8
  DEF Next, LoopStep, DeadLetterStep, MonitorStep

(* When the monitor is done, the dead-letter sink has handled every message *)
(* that the error handler routed to it, for every capacity of the buffer:   *)
(* nothing but the letters of late messages is sent behind the monitor's    *)
(* stop.  Excepted are what the property names: a failed sink, the timeout, *)
(* a cancellation, messages taken behind the node's stop and the workers of *)
(* nodes.Concurrent, which nobody waits for.                                *)
THEOREM AllLettersDelivered == Spec => []DeadLettersDelivered
<1>1. LettersBehindStop => DeadLettersDelivered
  <2> SUFFICES ASSUME LettersBehindStop, monitor = "done",
                      setup.strategy = "deadletter", broken = {}, ~pipeCtx, setup.pool # "nodes"
               PROVE  Routed \ Late \subseteq delivered
    BY DEF DeadLettersDelivered
  <2>1. pc = "gone" /\ \A k \in 1 .. Len(dlbuf) : dlbuf[k] \in Late
    BY DEF LettersBehindStop
  <2>2. Letters \subseteq Late /\ Pending = {}
    BY <2>1 DEF Letters, Pending
  <2> QED
    BY <2>2 DEF LettersBehindStop
<1> QED
  BY <1>1, InitShape, NextShape, InitPassing, NextPassing, InitQuiet, NextQuiet, InitLetters,
     NextLetters, PTL DEF Spec
=============================================================================
