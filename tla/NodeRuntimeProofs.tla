-------------------------- MODULE NodeRuntimeProofs --------------------------
(***************************************************************************)
(* Proofs about NodeRuntime, for every number of inputs and every bound.   *)
(***************************************************************************)
EXTENDS NodeRuntime, EngineLemmas, FiniteSetTheorems

-----------------------------------------------------------------------------
(* What the aligner returns is well typed. *)
LEMMA OnMessageType ==
  ASSUME NEW a \in AlignerState(Inputs), NEW i \in Inputs,
         NEW m \in DataMsgs(Inputs) \cup {StopMsg} \cup BarrierMsgs
  PROVE  LET r == OnMessage(a, NumInputs, i, m)
         IN  /\ r.ba \in AlignerState(Inputs)
             /\ r.toProcess \in Seq(DataMsgs(Inputs) \cup {StopMsg})
             /\ r.aligned \in BarrierMsgs \cup {NoBarrier}
<1> DEFINE D == DataMsgs(Inputs) \cup {StopMsg}
<1>1. ASSUME m.kind = "barrier"
      PROVE  m \in BarrierMsgs
  BY <1>1 DEF DataMsgs, StopMsg, BarrierMsgs
<1>2. ASSUME m.kind # "barrier"
      PROVE  m \in D
  BY <1>2 DEF BarrierMsgs
<1>3. NewBarrierAligner \in AlignerState(Inputs)
  BY DEF NewBarrierAligner, AlignerState
<1>4. CASE m.kind = "barrier"
  <2> DEFINE st == StartAlignment(a, m)
             jo == [st EXCEPT !.received = @ \cup {i}]
  <2>1. m \in BarrierMsgs
    BY <1>4, <1>1
  <2>2. st \in AlignerState(Inputs)
    BY <2>1 DEF StartAlignment, AlignerState, BarrierMsgs
  <2>3. jo \in AlignerState(Inputs)
    BY <2>2 DEF AlignerState
  <2>4. jo.buffered \in Seq(D) /\ jo.currentBarrier \in BarrierMsgs \cup {NoBarrier}
    BY <2>3 DEF AlignerState
  <2> QED
    BY <1>3, <1>4, <2>1, <2>3, <2>4 DEF OnMessage, onBarrier
<1>5. CASE m.kind # "barrier"
  <2>1. m \in D
    BY <1>5, <1>2
  <2>2. [a EXCEPT !.buffered = Append(@, m)] \in AlignerState(Inputs)
    BY <2>1 DEF AlignerState
  <2>3. <<m>> \in Seq(D) /\ << >> \in Seq(D)
    BY <2>1
  <2>4. CASE Holds(a, i)
    <3>1. OnMessage(a, NumInputs, i, m) =
            [ba |-> [a EXCEPT !.buffered = Append(@, m)],
             toProcess |-> << >>, aligned |-> NoBarrier]
      BY <1>5, <2>4 DEF OnMessage
    <3> QED
      BY <3>1, <2>2, <2>3
  <2>5. CASE ~Holds(a, i)
    <3>1. OnMessage(a, NumInputs, i, m) =
            [ba |-> a, toProcess |-> <<m>>, aligned |-> NoBarrier]
      BY <1>5, <2>5 DEF OnMessage
    <3> QED
      BY <3>1, <2>3
  <2> QED
    BY <2>4, <2>5
<1> QED
  BY <1>4, <1>5

PerInputs == [Inputs -> [time : Nat, idle : BOOLEAN, received : BOOLEAN]]

(* Once every input has reported, the output time exists, and it is at most *)
(* the time of each input that is not idle.                                 *)
LEMMA OutputTimeBound ==
  ASSUME NEW p \in PerInputs, AllReceived(p)
  PROVE  /\ OutputTime(p) \in Nat
         /\ \A i \in Inputs : ~p[i].idle => OutputTime(p) <= p[i].time
<1> DEFINE f == [i \in Inputs |-> p[i].time]
<1>1. f \in [1 .. NumInputs -> Nat]
  BY DEF Inputs, PerInputs
<1>2. Received(p) = Inputs /\ Inputs # {}
  <2>1. DOMAIN p = Inputs
    BY DEF PerInputs
  <2>2. 1 \in Inputs
    BY NodeRuntimeAssumption DEF Inputs
  <2> QED
    BY <2>1, <2>2 DEF AllReceived
<1>3. \A i \in Inputs : f[i] = p[i].time /\ p[i].time \in Nat
  BY DEF PerInputs
<1>4. CASE NonIdle(p) = {}
  <2>1. PICK x \in Inputs : \A y \in Inputs : f[y] <= f[x]
    <3> HIDE DEF f
    <3> QED
      BY <1>1, <1>2, NodeRuntimeAssumption, LargestOf DEF Inputs
  <2>2. \E t \in {p[i].time : i \in Received(p)} : \A i \in Received(p) : t >= p[i].time
    BY <1>2, <1>3, <2>1
  <2>3. MaxTime(p) \in {p[i].time : i \in Received(p)}
    BY <2>2 DEF MaxTime
  <2>4. \A i \in Inputs : p[i].idle
    BY <1>2, <1>4 DEF NonIdle
  <2> QED
    BY <1>2, <1>3, <1>4, <2>3, <2>4 DEF OutputTime
<1>5. CASE NonIdle(p) # {}
  <2> DEFINE T == {p[i].time : i \in NonIdle(p)}
  <2>1. NonIdle(p) \subseteq Inputs /\ T \in SUBSET Nat /\ T # {}
    BY <1>2, <1>3, <1>5 DEF NonIdle
  <2>2. PICK t \in T : \A y \in T : t <= y
    <3> HIDE DEF T
    <3> QED
      BY <2>1, LeastNat
  <2>3. \A i \in NonIdle(p) : t <= p[i].time
    BY <2>2
  <2>4. MinTime(p) \in T /\ \A i \in NonIdle(p) : MinTime(p) <= p[i].time
    BY <2>3 DEF MinTime
  <2>5. \A i \in Inputs : ~p[i].idle => i \in NonIdle(p)
    BY <1>2 DEF NonIdle
  <2> QED
    BY <1>5, <2>1, <2>4, <2>5 DEF OutputTime
<1> QED
  BY <1>4, <1>5

(* What Update returns: the output moves, if at all, forward and to a time  *)
(* that no input which is not idle has passed.                              *)
LEMMA UpdateResult ==
  ASSUME NEW h \in HolderState(Inputs), NEW i \in Inputs, NEW m \in WatermarkMsgs,
         NEW r, r = Update(h, i, m)
  PROVE  /\ r.wh \in HolderState(Inputs)
         /\ r.advanced \in WatermarkMsgs \cup {NoWatermark}
         /\ r.wh.current >= h.current
         /\ r.wh.perInput = [h.perInput EXCEPT ![i] =
                               [time |-> m.time, idle |-> m.idle, received |-> TRUE]]
         /\ \/ r.wh.current = h.current
            \/ \A j \in Inputs : /\ r.wh.perInput[j].received
                                 /\ ~r.wh.perInput[j].idle
                                      => r.wh.current <= r.wh.perInput[j].time
<1> DEFINE q == [h.perInput EXCEPT ![i] =
                   [time |-> m.time, idle |-> m.idle, received |-> TRUE]]
           u == [perInput |-> q, current |-> h.current]
           t == OutputTime(q)
<1>1. q \in PerInputs /\ h.current \in Nat
  BY DEF HolderState, WatermarkMsgs, PerInputs
<1>2. r = IF AllReceived(u.perInput)
          THEN tryAdvance(u)
          ELSE [wh |-> u, advanced |-> NoWatermark]
  BY DEF Update
<1>3. u.perInput = q /\ u.current = h.current
  OBVIOUS
<1> SUFFICES /\ r.wh \in HolderState(Inputs)
             /\ r.advanced \in WatermarkMsgs \cup {NoWatermark}
             /\ r.wh.current >= h.current
             /\ r.wh.perInput = q
             /\ \/ r.wh.current = h.current
                \/ \A j \in Inputs : /\ q[j].received
                                     /\ ~q[j].idle => r.wh.current <= q[j].time
  OBVIOUS
<1> HIDE DEF q
<1>4. CASE AllReceived(q) /\ t > h.current
  <2>1. t \in Nat /\ \A j \in Inputs : ~q[j].idle => t <= q[j].time
    BY <1>1, <1>4, OutputTimeBound
  <2>2. r = [wh |-> [perInput |-> q, current |-> t],
             advanced |-> WatermarkMsg(t, NonIdle(q) = {})]
    BY <1>2, <1>3, <1>4 DEF tryAdvance
  <2>3. r.wh = [perInput |-> q, current |-> t]
        /\ r.advanced = WatermarkMsg(t, NonIdle(q) = {})
    BY <2>2
  <2>4. r.advanced \in WatermarkMsgs
    BY <2>1, <2>3 DEF WatermarkMsg, WatermarkMsgs
  <2>5. \A j \in Inputs : q[j].received
    BY <1>1, <1>4 DEF AllReceived, Received, PerInputs
  <2>6. r.wh \in HolderState(Inputs)
    BY <1>1, <2>1, <2>3 DEF HolderState, PerInputs
  <2>7. r.wh.current = t /\ r.wh.perInput = q
    BY <2>3
  <2>8. t >= h.current
    BY <1>1, <1>4, <2>1
  <2> QED
    BY <2>1, <2>4, <2>5, <2>6, <2>7, <2>8
<1>5. CASE ~(AllReceived(q) /\ t > h.current)
  <2>1. r = [wh |-> u, advanced |-> NoWatermark]
    BY <1>2, <1>3, <1>5 DEF tryAdvance
  <2>2. r.wh = u /\ r.advanced = NoWatermark
    BY <2>1
  <2>3. u \in HolderState(Inputs)
    BY <1>1 DEF HolderState, PerInputs
  <2>4. r.wh.current >= h.current
    BY <1>1, <1>3, <2>2
  <2> QED
    BY <1>3, <2>2, <2>3, <2>4
<1> QED
  BY <1>4, <1>5

-----------------------------------------------------------------------------
(* The part of the state that one step of the handler loop leaves alone. *)
LEMMA DispatchType ==
  ASSUME TypeOK, NEW i \in Inputs,
         NEW m \in DataMsgs(Inputs) \cup {StopMsg} \cup BarrierMsgs,
         Dispatch(i, m)
  PROVE  /\ ba' \in AlignerState(Inputs)
         /\ todo' \in Seq(Message(Inputs))
         /\ wh' \in HolderState(Inputs)
         /\ activeInputs' \in Int
         /\ cancelled' \in BOOLEAN /\ exited' \in BOOLEAN
         /\ handled' \in Seq(Message(Inputs))
         /\ snaps' \in Seq(Snap)
         /\ stopAt' \in Nat
<1> DEFINE r == OnMessage(ba, NumInputs, i, m)
           tail == IF r.aligned = NoBarrier THEN << >> ELSE <<r.aligned>>
<1>1. /\ r.ba \in AlignerState(Inputs)
      /\ r.toProcess \in Seq(DataMsgs(Inputs) \cup {StopMsg})
      /\ r.aligned \in BarrierMsgs \cup {NoBarrier}
  BY OnMessageType DEF TypeOK
<1>2. ba' = r.ba /\ todo' = r.toProcess \o tail
  BY DEF Dispatch
<1> HIDE DEF r
<1>3. tail \in Seq(Message(Inputs))
  <2>1. r.aligned # NoBarrier => r.aligned \in Message(Inputs)
    BY <1>1 DEF Message
  <2>2. CASE r.aligned = NoBarrier
    BY <2>2
  <2>3. CASE r.aligned # NoBarrier
    BY <2>1, <2>3
  <2> QED
    BY <2>2, <2>3
<1>4. r.toProcess \in Seq(Message(Inputs))
  BY <1>1 DEF Message
<1> HIDE DEF tail
<1>5. todo' \in Seq(Message(Inputs))
  BY <1>2, <1>3, <1>4
<1> QED
  BY <1>1, <1>2, <1>5 DEF Dispatch, TypeOK

(* Handling the next message of todo keeps the types. *)
LEMMA ConsumeType ==
  ASSUME TypeOK, todo # << >>, Consume
  PROVE  /\ todo' \in Seq(Message(Inputs))
         /\ handled' \in Seq(Message(Inputs))
         /\ Head(todo) \in Message(Inputs)
  BY DEF TypeOK, Consume

(* A failed handler keeps the types. *)
LEMMA FailType ==
  ASSUME TypeOK, Fail
  PROVE  TypeOK'
  BY DEF TypeOK, Fail, envVars

(* Every step preserves the types. *)
LEMMA TypeStep ==
  ASSUME TypeOK, [Next]_vars
  PROVE  TypeOK'
<1>1. ASSUME NEW i \in Inputs, ReceiveData(i) PROVE TypeOK'
  <2>1. sent[i] + 1 \in Nat /\ DataMsg(i, sent[i] + 1) \in DataMsgs(Inputs)
    BY DEF TypeOK, DataMsg, DataMsgs
  <2>2. Dispatch(i, DataMsg(i, sent[i] + 1))
    BY <1>1 DEF ReceiveData
  <2>3. sent' \in [Inputs -> Nat] /\ UNCHANGED <<cut, stopSent, promise, everIdle>>
    BY <1>1 DEF ReceiveData, TypeOK
  <2> QED
    BY <2>1, <2>2, <2>3, DispatchType DEF TypeOK
<1>2. ASSUME NEW i \in Inputs, ReceiveBarrier(i) PROVE TypeOK'
  <2> DEFINE m == BarrierMsg(Len(cut[i]) + 1, Len(cut[i]) + 1 \in StopEpochs)
  <2>0. Len(cut[i]) \in Nat
    BY DEF TypeOK
  <2>1. m \in BarrierMsgs
    BY <2>0 DEF BarrierMsg, BarrierMsgs
  <2>2. Dispatch(i, m)
    BY <1>2 DEF ReceiveBarrier
  <2>3. cut' \in [Inputs -> Seq(Nat)] /\ UNCHANGED <<sent, stopSent, promise, everIdle>>
    BY <1>2 DEF ReceiveBarrier, TypeOK
  <2> QED
    BY <2>1, <2>2, <2>3, DispatchType DEF TypeOK
<1>3. ASSUME NEW i \in Inputs, ReceiveStop(i) PROVE TypeOK'
  <2>1. Dispatch(i, StopMsg)
    BY <1>3 DEF ReceiveStop
  <2>2. stopSent' \subseteq Inputs /\ UNCHANGED <<sent, cut, promise, everIdle>>
    BY <1>3 DEF ReceiveStop, TypeOK
  <2> QED
    BY <2>1, <2>2, DispatchType DEF TypeOK
<1>4. ASSUME NEW i \in Inputs, ReceiveWatermark(i) PROVE TypeOK'
  <2>1. PICK time \in 0 .. MaxWM, idle \in BOOLEAN :
          /\ wh' = Update(wh, i, WatermarkMsg(time, idle)).wh
          /\ todo' = IF Update(wh, i, WatermarkMsg(time, idle)).advanced = NoWatermark
                     THEN << >>
                     ELSE <<Update(wh, i, WatermarkMsg(time, idle)).advanced>>
          /\ promise' = [promise EXCEPT ![i] = IF idle THEN @ ELSE time]
          /\ everIdle' = IF idle THEN everIdle \cup {i} ELSE everIdle
    BY <1>4 DEF ReceiveWatermark
  <2> DEFINE r == Update(wh, i, WatermarkMsg(time, idle))
  <2>2. time \in Nat /\ WatermarkMsg(time, idle) \in WatermarkMsgs
    BY NodeRuntimeAssumption DEF WatermarkMsg, WatermarkMsgs
  <2>3. r.wh \in HolderState(Inputs) /\ r.advanced \in WatermarkMsgs \cup {NoWatermark}
    BY <2>2, UpdateResult DEF TypeOK
  <2> HIDE DEF r
  <2>4. todo' = IF r.advanced = NoWatermark THEN << >> ELSE <<r.advanced>>
    BY <2>1 DEF r
  <2>5. todo' \in Seq(Message(Inputs))
    <3>1. r.advanced # NoWatermark => r.advanced \in Message(Inputs)
      BY <2>3 DEF Message
    <3>2. CASE r.advanced = NoWatermark
      BY <2>4, <3>2
    <3>3. CASE r.advanced # NoWatermark
      BY <2>4, <3>1, <3>3
    <3> QED
      BY <3>2, <3>3
  <2>6. wh' \in HolderState(Inputs)
    BY <2>1, <2>3 DEF r
  <2>7. promise' \in [Inputs -> Nat] /\ everIdle' \subseteq Inputs
    BY <2>1, <2>2 DEF TypeOK
  <2> QED
    BY <1>4, <2>5, <2>6, <2>7 DEF ReceiveWatermark, TypeOK
<1>5. ASSUME ProcessMessage PROVE TypeOK'
  BY <1>5, ConsumeType, FailType DEF ProcessMessage, Handling, TypeOK, envVars
<1>6. ASSUME handleStop PROVE TypeOK'
  <2>1. CASE cancelled /\ activeInputs <= 1 /\ Fail
    BY <2>1, FailType
  <2>2. CASE Consume /\ ~Fail
    <3>1. todo' \in Seq(Message(Inputs)) /\ handled' \in Seq(Message(Inputs))
      BY <1>6, <2>2, ConsumeType DEF handleStop, Handling
    <3>2. activeInputs' = activeInputs - 1 /\ UNCHANGED <<ba, wh, exited, snaps, envVars>>
          /\ cancelled' \in {cancelled, TRUE} /\ stopAt' \in {stopAt, Len(handled) + 1}
      BY <1>6, <2>2 DEF handleStop
    <3>3. activeInputs' \in Int
      BY <3>2 DEF TypeOK
    <3>6. cancelled' \in BOOLEAN
      BY <3>2, Zenon DEF TypeOK
    <3>4. Len(handled) \in Nat /\ stopAt \in Nat
      BY DEF TypeOK
    <3>5. stopAt' \in Nat
      BY <3>2, <3>4
    <3> QED
      BY <3>1, <3>2, <3>3, <3>5, <3>6 DEF TypeOK, envVars
  <2> QED
    BY <1>6, <2>1, <2>2, FailType DEF handleStop
<1>7. ASSUME handleAlignedBarrier PROVE TypeOK'
  <2>1. Head(todo) \in BarrierMsgs /\ todo # << >>
    <3>1. Head(todo) \in Message(Inputs) /\ Head(todo).kind = "barrier" /\ todo # << >>
      BY <1>7 DEF handleAlignedBarrier, Handling, TypeOK
    <3> QED
      BY <3>1 DEF Message, DataMsgs, WatermarkMsgs, StopMsg
  <2>2. ASSUME Snapshot(Head(todo)) PROVE snaps' \in Seq(Snap)
    <3> DEFINE e == Head(todo).epoch
               s == [epoch |-> e, at |-> Len(handled),
                     seen |-> [i \in Inputs |-> Len(cut[i])]]
    <3>1. e \in Nat /\ Len(handled) \in Nat /\ \A i \in Inputs : Len(cut[i]) \in Nat
      BY <2>1 DEF BarrierMsgs, TypeOK
    <3>2. s \in Snap
      BY <3>1 DEF Snap
    <3>3. snaps' = Append(snaps, s)
      BY <2>2 DEF Snapshot
    <3> HIDE DEF s
    <3> QED
      BY <3>2, <3>3 DEF TypeOK
  <2>3. CASE Fail
    BY <2>3, FailType
  <2>4. CASE Consume /\ Snapshot(Head(todo)) /\ cancelled' = (cancelled \/ Head(todo).thenStop)
             /\ UNCHANGED <<ba, wh, activeInputs, exited, stopAt, envVars>>
    <3>1. todo' \in Seq(Message(Inputs)) /\ handled' \in Seq(Message(Inputs))
      BY <2>1, <2>4, ConsumeType
    <3>2. cancelled' \in BOOLEAN
      BY <2>4
    <3> QED
      BY <2>2, <2>4, <3>1, <3>2 DEF TypeOK, envVars
  <2>5. CASE cancelled /\ Snapshot(Head(todo)) /\ exited' = TRUE /\ todo' = << >>
             /\ UNCHANGED <<ba, wh, activeInputs, cancelled, handled, stopAt, envVars>>
    BY <2>2, <2>5 DEF TypeOK, envVars
  <2> QED
    BY <1>7, <2>3, <2>4, <2>5 DEF handleAlignedBarrier
<1>8. ASSUME HandleWatermark PROVE TypeOK'
  BY <1>8, ConsumeType, FailType DEF HandleWatermark, Handling, TypeOK, envVars
<1>9. ASSUME Cancel PROVE TypeOK'
  BY <1>9 DEF Cancel, TypeOK, envVars
<1>10. ASSUME Exit PROVE TypeOK'
  BY <1>10 DEF Exit, TypeOK, envVars
<1>11. ASSUME UNCHANGED vars PROVE TypeOK'
  BY <1>11 DEF vars, nodeVars, envVars, TypeOK
<1> QED
  BY <1>1, <1>2, <1>3, <1>4, <1>5, <1>6, <1>7, <1>8, <1>9, <1>10, <1>11 DEF Next

(* Type correctness, the base of every other proof: in particular only data *)
(* and stops are ever buffered by the aligner.                              *)
THEOREM TypeCorrect == Spec => []TypeOK
<1>1. Init => TypeOK
  <2> SUFFICES ASSUME Init PROVE TypeOK
    OBVIOUS
  <2>1. ba \in AlignerState(Inputs)
    BY DEF Init, NewBarrierAligner, AlignerState
  <2>2. wh \in HolderState(Inputs)
    BY DEF Init, NewWatermarkHolder, HolderState
  <2>3. todo \in Seq(Message(Inputs)) /\ handled \in Seq(Message(Inputs))
        /\ snaps \in Seq(Snap)
    BY DEF Init
  <2>4. /\ sent \in [Inputs -> Nat] /\ promise \in [Inputs -> Nat]
        /\ cut \in [Inputs -> Seq(Nat)]
    BY DEF Init
  <2>5. activeInputs \in Int /\ stopAt \in Nat
    BY NodeRuntimeAssumption DEF Init
  <2> QED
    BY <2>1, <2>2, <2>3, <2>4, <2>5 DEF Init, TypeOK
<1>2. TypeOK /\ [Next]_vars => TypeOK'
  BY TypeStep
<1> QED
  BY <1>1, <1>2, PTL DEF Spec

-----------------------------------------------------------------------------
(* Every step but the receipt of a watermark leaves the holder alone, and   *)
(* no step takes delivered data back.                                       *)
LEMMA HolderSteps ==
  ASSUME TypeOK, [Next]_vars, \A i \in Inputs : ~ReceiveWatermark(i)
  PROVE  /\ UNCHANGED <<wh, promise, everIdle>>
         /\ \A i \in Inputs : sent'[i] >= sent[i]
<1>1. ASSUME NEW i \in Inputs, ReceiveData(i)
      PROVE  UNCHANGED <<wh, promise, everIdle>> /\ \A j \in Inputs : sent'[j] >= sent[j]
  BY <1>1 DEF ReceiveData, Dispatch, TypeOK
<1>2. ASSUME UNCHANGED sent
      PROVE  \A j \in Inputs : sent'[j] >= sent[j]
  BY <1>2 DEF TypeOK
<1>3. ASSUME NEW i \in Inputs, ReceiveBarrier(i) \/ ReceiveStop(i)
      PROVE  UNCHANGED <<wh, promise, everIdle, sent>>
  BY <1>3 DEF ReceiveBarrier, ReceiveStop, Dispatch
<1>4. ASSUME ProcessMessage \/ handleStop \/ handleAlignedBarrier \/ HandleWatermark
                \/ Cancel \/ Exit \/ UNCHANGED vars
      PROVE  UNCHANGED <<wh, promise, everIdle, sent>>
  BY <1>4 DEF ProcessMessage, handleStop, handleAlignedBarrier, HandleWatermark,
     Cancel, Exit, Fail, vars, nodeVars, envVars
<1> QED
  BY <1>1, <1>2, <1>3, <1>4 DEF Next

(* The inductive strengthening of WatermarkIsPromised: what the holder      *)
(* remembers of an input that was never idle is that input's last promise,  *)
(* and no input has promised more than it will keep.                        *)
WatermarkInv ==
  /\ WatermarkIsPromised
  /\ \A i \in Inputs : promise[i] <= sent[i] + 1
  /\ \A i \in Inputs \ everIdle :
       wh.perInput[i].received =>
         ~wh.perInput[i].idle /\ wh.perInput[i].time = promise[i]

(* Receiving a watermark keeps WatermarkInv and moves the output forward only. *)
LEMMA WatermarkStep ==
  ASSUME TypeOK, NEW i \in Inputs, ReceiveWatermark(i)
  PROVE  /\ wh' \in HolderState(Inputs)
         /\ wh'.current >= wh.current
         /\ sent' = sent
         /\ WatermarkInv => WatermarkInv'
<1>1. PICK time \in 0 .. MaxWM, idle \in BOOLEAN :
        /\ idle \/ (promise[i] < time /\ time <= sent[i] + 1)
        /\ wh' = Update(wh, i, WatermarkMsg(time, idle)).wh
        /\ promise' = [promise EXCEPT ![i] = IF idle THEN @ ELSE time]
        /\ everIdle' = IF idle THEN everIdle \cup {i} ELSE everIdle
  BY DEF ReceiveWatermark
<1> DEFINE m == WatermarkMsg(time, idle)
           r == Update(wh, i, m)
           w == [time |-> time, idle |-> idle, received |-> TRUE]
<1>2. time \in Nat /\ m \in WatermarkMsgs /\ m.time = time /\ m.idle = idle
  BY NodeRuntimeAssumption DEF WatermarkMsg, WatermarkMsgs
<1>3. wh \in HolderState(Inputs)
  BY DEF TypeOK
<1>4. /\ r.wh \in HolderState(Inputs)
      /\ r.wh.current >= wh.current
      /\ r.wh.perInput = [wh.perInput EXCEPT ![i] = w]
      /\ \/ r.wh.current = wh.current
         \/ \A j \in Inputs : /\ r.wh.perInput[j].received
                              /\ ~r.wh.perInput[j].idle
                                   => r.wh.current <= r.wh.perInput[j].time
  <2> HIDE DEF m
  <2> QED
    BY <1>2, <1>3, UpdateResult
<1>5. wh' = r.wh /\ sent' = sent
  BY <1>1 DEF ReceiveWatermark
<1> HIDE DEF r, m
<1>6. ASSUME WatermarkInv PROVE WatermarkInv'
  <2> USE <1>6
  <2>1. \A j \in Inputs : promise'[j] <= sent'[j] + 1
    BY <1>1, <1>5 DEF WatermarkInv, TypeOK
  <2>2. ASSUME NEW j \in Inputs \ everIdle', wh'.perInput[j].received
        PROVE  ~wh'.perInput[j].idle /\ wh'.perInput[j].time = promise'[j]
    <3>1. j \in Inputs \ everIdle /\ (j = i => ~idle)
      BY <1>1, <2>2
    <3>2. CASE j = i
      <4>1. wh'.perInput[j] = w
        BY <1>3, <1>4, <1>5, <3>2 DEF HolderState
      <4>2. promise'[j] = time
        BY <1>1, <3>1, <3>2 DEF TypeOK
      <4> QED
        BY <3>1, <3>2, <4>1, <4>2
    <3>3. CASE j # i
      <4>1. wh'.perInput[j] = wh.perInput[j] /\ promise'[j] = promise[j]
        BY <1>1, <1>3, <1>4, <1>5, <3>3 DEF HolderState, TypeOK
      <4> QED
        BY <2>2, <3>1, <4>1 DEF WatermarkInv
    <3> QED
      BY <3>2, <3>3
  <2>3. ASSUME NEW j \in Inputs \ everIdle'
        PROVE  wh'.current <= sent'[j] + 1
    <3>1. j \in Inputs \ everIdle
      BY <1>1, <2>3
    <3>2. CASE wh'.current = wh.current
      BY <1>5, <3>1, <3>2 DEF WatermarkInv, WatermarkIsPromised
    <3>3. CASE wh'.current # wh.current
      <4>1. wh'.perInput[j].received /\ (~wh'.perInput[j].idle => wh'.current <= wh'.perInput[j].time)
        BY <1>4, <1>5, <3>3
      <4>2. wh'.current <= promise'[j]
        BY <2>2, <2>3, <4>1
      <4>3. wh'.current \in Nat /\ promise'[j] \in Nat /\ sent'[j] \in Nat
        BY <1>1, <1>2, <1>4, <1>5 DEF HolderState, TypeOK
      <4> QED
        BY <2>1, <4>2, <4>3
    <3> QED
      BY <3>2, <3>3
  <2> QED
    BY <2>1, <2>2, <2>3 DEF WatermarkInv, WatermarkIsPromised
<1> QED
  BY <1>4, <1>5, <1>6

(* tryAdvance: for every number of inputs, whatever they send and whichever *)
(* of them turn idle or active again, the watermark a node forwards never   *)
(* moves back.                                                              *)
THEOREM WatermarkMonotoneCorrect == Spec => WatermarkMonotone
<1>1. TypeOK /\ [Next]_vars => [wh'.current >= wh.current]_vars
  <2> SUFFICES ASSUME TypeOK, [Next]_vars PROVE wh'.current >= wh.current
    OBVIOUS
  <2>1. CASE \E i \in Inputs : ReceiveWatermark(i)
    BY <2>1, WatermarkStep
  <2>2. CASE \A i \in Inputs : ~ReceiveWatermark(i)
    <3>1. wh' = wh
      BY <2>2, HolderSteps
    <3>2. wh.current \in Nat
      BY DEF TypeOK, HolderState
    <3> QED
      BY <3>1, <3>2
  <2> QED
    BY <2>1, <2>2
<1> QED
  BY <1>1, TypeCorrect, PTL DEF Spec, WatermarkMonotone

(* Update and tryAdvance: a merge node's watermark is never ahead of what   *)
(* any input that was never idle has promised.  The invariant is inductive  *)
(* only together with the link from the holder's entries to the promises.   *)
THEOREM WatermarkCorrect == Spec => []WatermarkIsPromised
<1>1. Init => WatermarkInv
  <2> SUFFICES ASSUME Init PROVE WatermarkInv
    OBVIOUS
  <2>1. \A i \in Inputs : ~wh.perInput[i].received /\ promise[i] = 0 /\ sent[i] = 0
    BY DEF Init, NewWatermarkHolder
  <2>2. wh.current = 0
    BY DEF Init, NewWatermarkHolder
  <2> QED
    BY <2>1, <2>2 DEF WatermarkInv, WatermarkIsPromised
<1>2. TypeOK /\ WatermarkInv /\ [Next]_vars => WatermarkInv'
  <2> SUFFICES ASSUME TypeOK, WatermarkInv, [Next]_vars PROVE WatermarkInv'
    OBVIOUS
  <2>1. CASE \E i \in Inputs : ReceiveWatermark(i)
    BY <2>1, WatermarkStep
  <2>2. CASE \A i \in Inputs : ~ReceiveWatermark(i)
    <3>1. UNCHANGED <<wh, promise, everIdle>> /\ \A i \in Inputs : sent'[i] >= sent[i]
      BY <2>2, HolderSteps
    <3>2. \A i \in Inputs : sent[i] \in Nat /\ promise[i] \in Nat
      BY DEF TypeOK
    <3>3. wh.current \in Nat
      BY DEF TypeOK, HolderState
    <3>4. \A i \in Inputs : sent'[i] \in Int
      BY <2>2, TypeStep DEF TypeOK
    <3>5. \A i \in Inputs \ everIdle : wh.current <= sent'[i] + 1
      BY <3>1, <3>2, <3>3, <3>4 DEF WatermarkInv, WatermarkIsPromised
    <3>6. \A i \in Inputs : promise[i] <= sent'[i] + 1
      BY <3>1, <3>2, <3>4 DEF WatermarkInv
    <3> QED
      BY <3>1, <3>5, <3>6 DEF WatermarkInv, WatermarkIsPromised
  <2> QED
    BY <2>1, <2>2
<1>3. WatermarkInv => WatermarkIsPromised
  BY DEF WatermarkInv
<1> QED
  BY <1>1, <1>2, <1>3, TypeCorrect, PTL DEF Spec

-----------------------------------------------------------------------------
(* Order and conservation of the data, stated on the three parts of Held.   *)
Same(x, y) == x.kind = "data" /\ y.kind = "data" /\ x.in = y.in

Ordered(s) == \A j, k \in 1 .. Len(s) : j < k /\ Same(s[j], s[k]) => s[j].n < s[k].n

Before(s, t) ==
  \A j \in 1 .. Len(s), k \in 1 .. Len(t) : Same(s[j], t[k]) => s[j].n < t[k].n

Delivered(s) == \A k \in 1 .. Len(s) : s[k].kind = "data" => s[k].n <= sent[s[k].in]

(* The data buffered comes from inputs whose barrier has arrived, and only  *)
(* while aligning.                                                          *)
BufferInv ==
  /\ ~ba.aligning => ba.buffered = << >>
  /\ \A k \in 1 .. Len(ba.buffered) :
       ba.buffered[k].kind = "data" => ba.buffered[k].in \in ba.received

OrderInv ==
  /\ Ordered(handled) /\ Ordered(todo) /\ Ordered(ba.buffered)
  /\ Before(handled, todo) /\ Before(handled, ba.buffered) /\ Before(todo, ba.buffered)
  /\ Delivered(handled) /\ Delivered(todo) /\ Delivered(ba.buffered)
  /\ BufferInv

(* What Dispatch does to the aligner's buffer and to todo. *)
LEMMA DispatchCases ==
  ASSUME TypeOK, BufferInv, NEW i \in Inputs,
         NEW m \in DataMsgs(Inputs) \cup {StopMsg} \cup BarrierMsgs,
         Dispatch(i, m)
  PROVE  \/ /\ m.kind # "barrier" /\ Holds(ba, i)
            /\ ba'.buffered = Append(ba.buffered, m)
            /\ ba'.received = ba.received /\ ba'.aligning = ba.aligning
            /\ todo' = << >>
         \/ /\ m.kind = "barrier" \/ ~Holds(ba, i)
            /\ ba' = ba
            /\ todo' = <<m>>
         \/ /\ m.kind = "barrier"
            /\ ba'.buffered = ba.buffered
            /\ ba.aligning => ba.received \subseteq ba'.received
            /\ ba'.aligning = TRUE
            /\ todo' = << >>
         \/ /\ m.kind = "barrier"
            /\ ba' = NewBarrierAligner
            /\ \E x \in BarrierMsgs : todo' = Append(ba.buffered, x)
         \/ /\ m.kind = "barrier"
            /\ ba' = NewBarrierAligner
            /\ todo' = ba.buffered
<1> DEFINE r == OnMessage(ba, NumInputs, i, m)
           tail == IF r.aligned = NoBarrier THEN << >> ELSE <<r.aligned>>
<1>1. ba' = r.ba /\ todo' = r.toProcess \o tail
  BY DEF Dispatch
<1>2. /\ r.toProcess \in Seq(DataMsgs(Inputs) \cup {StopMsg})
      /\ r.aligned \in BarrierMsgs \cup {NoBarrier}
  BY OnMessageType DEF TypeOK
<1>3. ba \in AlignerState(Inputs) /\ ba.buffered \in Seq(DataMsgs(Inputs) \cup {StopMsg})
  BY DEF TypeOK, AlignerState
<1>4. m.kind = "barrier" => m \in BarrierMsgs
  BY DEF DataMsgs, StopMsg, BarrierMsgs
<1>5. \A x \in BarrierMsgs : x # NoBarrier
  BY DEF BarrierMsgs, NoBarrier
<1>6. CASE m.kind # "barrier" /\ Holds(ba, i)
  <2>1. r = [ba |-> [ba EXCEPT !.buffered = Append(@, m)],
             toProcess |-> << >>, aligned |-> NoBarrier]
    BY <1>6 DEF OnMessage
  <2>2. ba' = [ba EXCEPT !.buffered = Append(@, m)]
    BY <1>1, <2>1
  <2>3. /\ ba'.buffered = Append(ba.buffered, m)
        /\ ba'.received = ba.received /\ ba'.aligning = ba.aligning
    BY <1>3, <2>2 DEF AlignerState
  <2>4. todo' = << >>
    BY <1>1, <2>1
  <2> QED
    BY <1>6, <2>3, <2>4
<1>7. CASE m.kind # "barrier" /\ ~Holds(ba, i)
  <2>1. r = [ba |-> ba, toProcess |-> <<m>>, aligned |-> NoBarrier]
    BY <1>7 DEF OnMessage
  <2>2. todo' = <<m>> \o << >> /\ ba' = ba
    BY <1>1, <2>1
  <2>3. todo' = <<m>>
    BY <2>2
  <2> QED
    BY <1>7, <2>2, <2>3
<1>8. CASE m.kind = "barrier" /\ NumInputs <= 1
  <2>1. r = [ba |-> ba, toProcess |-> << >>, aligned |-> m]
    BY <1>8 DEF OnMessage, onBarrier
  <2>2. todo' = << >> \o <<m>> /\ ba' = ba
    BY <1>1, <1>4, <1>5, <1>8, <2>1
  <2>3. todo' = <<m>>
    BY <2>2
  <2> QED
    BY <1>8, <2>2, <2>3
<1>9. CASE m.kind = "barrier" /\ ~(NumInputs <= 1)
  <2> DEFINE st == StartAlignment(ba, m)
             jo == [st EXCEPT !.received = @ \cup {i}]
  <2>1. st \in AlignerState(Inputs)
    BY <1>3, <1>4, <1>9 DEF StartAlignment, AlignerState, BarrierMsgs
  <2>2. /\ st.buffered = ba.buffered /\ st.aligning = TRUE
        /\ ba.aligning => st.received = ba.received
    BY <1>3 DEF StartAlignment, BufferInv, AlignerState
  <2> HIDE DEF st
  <2>3. /\ jo.buffered = ba.buffered /\ jo.aligning = TRUE
        /\ ba.aligning => ba.received \subseteq jo.received
    BY <2>1, <2>2 DEF AlignerState
  <2>4. r = IF Cardinality(jo.received) = NumInputs
            THEN [ba |-> NewBarrierAligner, toProcess |-> jo.buffered,
                  aligned |-> jo.currentBarrier]
            ELSE [ba |-> jo, toProcess |-> << >>, aligned |-> NoBarrier]
    BY <1>9 DEF OnMessage, onBarrier, st
  <2> HIDE DEF jo
  <2>5. CASE Cardinality(jo.received) = NumInputs
    <3>1. /\ r.ba = NewBarrierAligner
          /\ r.toProcess = ba.buffered
      BY <2>3, <2>4, <2>5
    <3> HIDE DEF r
    <3>2. CASE r.aligned = NoBarrier
      <4>1. todo' = ba.buffered \o << >>
        BY <1>1, <3>1, <3>2
      <4>2. todo' = ba.buffered
        BY <1>3, <4>1
      <4> QED
        BY <1>1, <1>9, <3>1, <4>2
    <3>3. CASE r.aligned # NoBarrier
      <4>1. todo' = ba.buffered \o <<r.aligned>> /\ r.aligned \in BarrierMsgs
        BY <1>1, <1>2, <3>1, <3>3
      <4>2. todo' = Append(ba.buffered, r.aligned)
        BY <1>3, <4>1
      <4> QED
        BY <1>1, <1>9, <3>1, <4>1, <4>2
    <3> QED
      BY <3>2, <3>3
  <2>6. CASE Cardinality(jo.received) # NumInputs
    <3>1. r.ba = jo /\ r.toProcess = << >> /\ r.aligned = NoBarrier
      BY <2>4, <2>6
    <3>2. todo' = << >> /\ ba' = jo
      BY <1>1, <3>1
    <3> QED
      BY <1>9, <2>3, <3>2
  <2> QED
    BY <2>5, <2>6
<1> QED
  BY <1>6, <1>7, <1>8, <1>9

(* Moving the head of todo to handled keeps the order. *)
LEMMA ConsumeOrder ==
  ASSUME TypeOK, OrderInv, todo # << >>, Consume, UNCHANGED <<ba, sent>>
  PROVE  OrderInv'
<1> DEFINE h == handled
           t == todo
           b == ba.buffered
<1>1. /\ h \in Seq(Message(Inputs)) /\ t \in Seq(Message(Inputs))
      /\ b \in Seq(DataMsgs(Inputs) \cup {StopMsg})
  BY DEF TypeOK, AlignerState
<1>2. /\ Len(t) \in Nat /\ Len(t) >= 1 /\ Len(h) \in Nat
      /\ Len(handled') = Len(h) + 1 /\ Len(todo') = Len(t) - 1
  BY <1>1 DEF Consume
<1>3. /\ \A k \in 1 .. Len(h) : handled'[k] = h[k]
      /\ handled'[Len(h) + 1] = t[1]
      /\ \A k \in 1 .. Len(t) - 1 : todo'[k] = t[k + 1]
  BY <1>1, <1>2 DEF Consume
<1>4. ba' = ba /\ sent' = sent
  OBVIOUS
<1>5. Ordered(handled')
  <2> SUFFICES ASSUME NEW j \in 1 .. Len(handled'), NEW k \in 1 .. Len(handled'),
                      j < k, Same(handled'[j], handled'[k])
               PROVE  handled'[j].n < handled'[k].n
    BY DEF Ordered
  <2>1. j \in 1 .. Len(h)
    BY <1>2
  <2>2. CASE k \in 1 .. Len(h)
    BY <1>3, <2>1, <2>2 DEF OrderInv, Ordered
  <2>3. CASE k = Len(h) + 1
    BY <1>2, <1>3, <2>1, <2>3 DEF OrderInv, Before
  <2> QED
    BY <1>2, <2>2, <2>3
<1>6. Ordered(todo')
  <2> SUFFICES ASSUME NEW j \in 1 .. Len(todo'), NEW k \in 1 .. Len(todo'),
                      j < k, Same(todo'[j], todo'[k])
               PROVE  todo'[j].n < todo'[k].n
    BY DEF Ordered
  <2>1. /\ j + 1 \in 1 .. Len(t) /\ todo'[j] = t[j + 1]
        /\ k + 1 \in 1 .. Len(t) /\ todo'[k] = t[k + 1]
        /\ j + 1 < k + 1
    BY <1>2, <1>3
  <2> QED
    BY <2>1 DEF OrderInv, Ordered
<1>7. Before(handled', todo')
  <2> SUFFICES ASSUME NEW j \in 1 .. Len(handled'), NEW k \in 1 .. Len(todo'),
                      Same(handled'[j], todo'[k])
               PROVE  handled'[j].n < todo'[k].n
    BY DEF Before
  <2>1. k + 1 \in 1 .. Len(t) /\ todo'[k] = t[k + 1] /\ k + 1 > 1
    BY <1>2, <1>3
  <2>2. CASE j \in 1 .. Len(h)
    BY <1>3, <2>1, <2>2 DEF OrderInv, Before
  <2>3. CASE j = Len(h) + 1
    <3>1. 1 \in 1 .. Len(t) /\ handled'[j] = t[1]
      BY <1>2, <1>3, <2>3
    <3> QED
      BY <2>1, <3>1 DEF OrderInv, Ordered
  <2> QED
    BY <1>2, <2>2, <2>3
<1>8. Before(handled', b)
  <2> SUFFICES ASSUME NEW j \in 1 .. Len(handled'), NEW k \in 1 .. Len(b),
                      Same(handled'[j], b[k])
               PROVE  handled'[j].n < b[k].n
    BY DEF Before
  <2>2. CASE j \in 1 .. Len(h)
    BY <1>3, <2>2 DEF OrderInv, Before
  <2>3. CASE j = Len(h) + 1
    <3>1. 1 \in 1 .. Len(t) /\ handled'[j] = t[1]
      BY <1>2, <1>3, <2>3
    <3> QED
      BY <3>1 DEF OrderInv, Before
  <2> QED
    BY <1>2, <2>2, <2>3
<1>9. Before(todo', b)
  <2> SUFFICES ASSUME NEW j \in 1 .. Len(todo'), NEW k \in 1 .. Len(b),
                      Same(todo'[j], b[k])
               PROVE  todo'[j].n < b[k].n
    BY DEF Before
  <2>1. j + 1 \in 1 .. Len(t) /\ todo'[j] = t[j + 1]
    BY <1>2, <1>3
  <2> QED
    BY <2>1 DEF OrderInv, Before
<1>10. Delivered(handled)' /\ Delivered(todo)'
  <2>1. ASSUME NEW k \in 1 .. Len(handled'), handled'[k].kind = "data"
        PROVE  handled'[k].n <= sent[handled'[k].in]
    <3>1. CASE k \in 1 .. Len(h)
      BY <1>3, <2>1, <3>1 DEF OrderInv, Delivered
    <3>2. CASE k = Len(h) + 1
      <4>1. 1 \in 1 .. Len(t) /\ handled'[k] = t[1]
        BY <1>2, <1>3, <3>2
      <4> QED
        BY <2>1, <4>1 DEF OrderInv, Delivered
    <3> QED
      BY <1>2, <3>1, <3>2
  <2>2. ASSUME NEW k \in 1 .. Len(todo'), todo'[k].kind = "data"
        PROVE  todo'[k].n <= sent[todo'[k].in]
    <3>1. k + 1 \in 1 .. Len(t) /\ todo'[k] = t[k + 1]
      BY <1>2, <1>3
    <3> QED
      BY <2>2, <3>1 DEF OrderInv, Delivered
  <2> QED
    BY <1>4, <2>1, <2>2 DEF Delivered
<1> QED
  BY <1>4, <1>5, <1>6, <1>7, <1>8, <1>9, <1>10 DEF OrderInv, Ordered, Before, Delivered, BufferInv

(* Dropping todo keeps the order. *)
LEMMA DropOrder ==
  ASSUME TypeOK, OrderInv, todo' = << >>, UNCHANGED <<ba, handled, sent>>
  PROVE  OrderInv'
  BY DEF OrderInv, Ordered, Before, Delivered, BufferInv

(* A message that is received joins the end of its input's order. *)
LEMMA DispatchOrder ==
  ASSUME TypeOK, OrderInv, todo = << >>, NEW i \in Inputs,
         NEW m \in DataMsgs(Inputs) \cup {StopMsg} \cup BarrierMsgs,
         Dispatch(i, m),
         m.kind = "data" => m.in = i /\ m.n = sent[i] + 1 /\ sent' = [sent EXCEPT ![i] = @ + 1],
         m.kind # "data" => sent' = sent
  PROVE  OrderInv'
<1> DEFINE h == handled
           b == ba.buffered
<1>1. /\ h \in Seq(Message(Inputs)) /\ Len(h) \in Nat
      /\ b \in Seq(DataMsgs(Inputs) \cup {StopMsg}) /\ Len(b) \in Nat
      /\ sent \in [Inputs -> Nat] /\ handled' = handled
  BY DEF TypeOK, AlignerState, Dispatch
<1>2. /\ \A k \in 1 .. Len(h) : h[k].kind = "data" => h[k].in \in Inputs /\ h[k].n \in Nat
      /\ \A k \in 1 .. Len(b) : b[k].kind = "data" => b[k].in \in Inputs /\ b[k].n \in Nat
  <2>1. \A x \in Message(Inputs) : x.kind = "data" => x.in \in Inputs /\ x.n \in Nat
    BY DEF Message, DataMsgs, BarrierMsgs, WatermarkMsgs, StopMsg
  <2>2. \A k \in 1 .. Len(h) : h[k] \in Message(Inputs)
    BY <1>1
  <2>3. \A k \in 1 .. Len(b) : b[k] \in Message(Inputs)
    BY <1>1 DEF Message
  <2> QED
    BY <2>1, <2>2, <2>3
<1>3. \A j \in Inputs : sent'[j] \in Nat /\ sent'[j] >= sent[j]
  BY <1>1
<1>4. /\ \A k \in 1 .. Len(h) : h[k].kind = "data" => h[k].n <= sent[h[k].in]
      /\ \A k \in 1 .. Len(b) : b[k].kind = "data" => b[k].n <= sent[b[k].in]
  BY DEF OrderInv, Delivered
<1>5. /\ \A k \in 1 .. Len(h) : h[k].kind = "data" => h[k].n <= sent'[h[k].in]
      /\ \A k \in 1 .. Len(b) : b[k].kind = "data" => b[k].n <= sent'[b[k].in]
  <2>1. ASSUME NEW x, x.kind = "data", x.in \in Inputs, x.n \in Nat, x.n <= sent[x.in]
        PROVE  x.n <= sent'[x.in]
    <3>1. sent[x.in] \in Nat /\ sent'[x.in] \in Nat /\ sent'[x.in] >= sent[x.in]
      BY <1>1, <1>3, <2>1
    <3> QED
      BY <2>1, <3>1
  <2> QED
    BY <1>2, <1>4, <2>1
<1>6. /\ \A k \in 1 .. Len(h) : Same(h[k], m) => h[k].n < m.n
      /\ \A k \in 1 .. Len(b) : Same(b[k], m) => b[k].n < m.n
      /\ m.kind = "data" => m.n <= sent'[m.in]
  BY <1>1, <1>2, <1>4 DEF Same
<1>7. Delivered(handled)'
  BY <1>1, <1>5 DEF Delivered
<1>8. Ordered(handled)' /\ Ordered(b) /\ Before(handled, b) /\ BufferInv
  BY <1>1 DEF OrderInv
<1>9. CASE /\ m.kind # "barrier" /\ Holds(ba, i)
           /\ ba'.buffered = Append(b, m)
           /\ ba'.received = ba.received /\ ba'.aligning = ba.aligning
           /\ todo' = << >>
  <2> DEFINE c == ba'.buffered
  <2>1. /\ Len(c) = Len(b) + 1 /\ c[Len(b) + 1] = m
        /\ \A k \in 1 .. Len(b) : c[k] = b[k]
    BY <1>1, <1>9
  <2>2. Ordered(c)
    <3> SUFFICES ASSUME NEW j \in 1 .. Len(c), NEW k \in 1 .. Len(c), j < k, Same(c[j], c[k])
                 PROVE  c[j].n < c[k].n
      BY DEF Ordered
    <3> HIDE DEF c
    <3>1. j \in 1 .. Len(b)
      BY <1>1, <2>1
    <3>2. CASE k \in 1 .. Len(b)
      BY <1>8, <2>1, <3>1, <3>2 DEF Ordered
    <3>3. CASE k = Len(b) + 1
      BY <1>6, <2>1, <3>1, <3>3
    <3> QED
      BY <1>1, <2>1, <3>2, <3>3
  <2>3. Before(handled', c)
    <3> SUFFICES ASSUME NEW j \in 1 .. Len(h), NEW k \in 1 .. Len(c), Same(h[j], c[k])
                 PROVE  h[j].n < c[k].n
      BY <1>1 DEF Before
    <3> HIDE DEF c
    <3>2. CASE k \in 1 .. Len(b)
      BY <1>8, <2>1, <3>2 DEF Before
    <3>3. CASE k = Len(b) + 1
      BY <1>6, <2>1, <3>3
    <3> QED
      BY <1>1, <2>1, <3>2, <3>3
  <2>4. \A k \in 1 .. Len(c) : c[k].kind = "data" =>
                                 c[k].n <= sent'[c[k].in] /\ c[k].in \in ba'.received
    <3> SUFFICES ASSUME NEW k \in 1 .. Len(c), c[k].kind = "data"
                 PROVE  c[k].n <= sent'[c[k].in] /\ c[k].in \in ba'.received
      OBVIOUS
    <3> HIDE DEF c
    <3>2. CASE k \in 1 .. Len(b)
      BY <1>5, <1>8, <1>9, <2>1, <3>2 DEF BufferInv
    <3>3. CASE k = Len(b) + 1
      BY <1>6, <1>9, <2>1, <3>3 DEF Holds
    <3> QED
      BY <1>1, <2>1, <3>2, <3>3
  <2>5. ba'.aligning
    BY <1>9 DEF Holds
  <2>6. Ordered(todo)' /\ Before(handled, todo)' /\ Before(todo, ba.buffered)' /\ Delivered(todo)'
    BY <1>9 DEF Ordered, Before, Delivered
  <2> QED
    BY <1>1, <1>7, <1>8, <2>2, <2>3, <2>4, <2>5, <2>6 DEF OrderInv, Delivered, BufferInv
<1>10. CASE (m.kind = "barrier" \/ ~Holds(ba, i)) /\ ba' = ba /\ todo' = <<m>>
  <2>1. Len(todo') = 1 /\ todo'[1] = m
    BY <1>10
  <2>2. Ordered(todo)' /\ Delivered(todo)'
    BY <1>6, <2>1 DEF Ordered, Delivered
  <2>3. Before(handled, todo)'
    BY <1>1, <1>6, <2>1 DEF Before
  <2>4. Before(todo, ba.buffered)'
    <3>1. \A k \in 1 .. Len(b) : ~Same(m, b[k])
      BY <1>8, <1>10 DEF BufferInv, Same, Holds
    <3> QED
      BY <1>10, <2>1, <3>1 DEF Before
  <2>5. BufferInv' /\ Delivered(ba.buffered)' /\ Ordered(ba.buffered)' /\ Before(handled, ba.buffered)'
    BY <1>1, <1>5, <1>8, <1>10 DEF BufferInv, Delivered
  <2> QED
    BY <1>7, <1>8, <2>2, <2>3, <2>4, <2>5 DEF OrderInv
<1>11. CASE /\ m.kind = "barrier"
            /\ ba'.buffered = b
            /\ ba.aligning => ba.received \subseteq ba'.received
            /\ ba'.aligning = TRUE
            /\ todo' = << >>
  <2>1. Ordered(todo)' /\ Before(handled, todo)' /\ Before(todo, ba.buffered)' /\ Delivered(todo)'
    BY <1>11 DEF Ordered, Before, Delivered
  <2>2. Delivered(ba.buffered)' /\ Ordered(ba.buffered)' /\ Before(handled, ba.buffered)'
    BY <1>1, <1>5, <1>8, <1>11 DEF Delivered
  <2>3. BufferInv'
    BY <1>8, <1>11 DEF BufferInv
  <2> QED
    BY <1>7, <1>8, <2>1, <2>2, <2>3 DEF OrderInv
<1>12. ASSUME m.kind = "barrier", ba' = NewBarrierAligner,
              Ordered(todo)', Before(handled, todo)', Delivered(todo)'
       PROVE  OrderInv'
  <2>1. ba'.buffered = << >>
    BY <1>12 DEF NewBarrierAligner
  <2>2. /\ Before(todo, ba.buffered)' /\ Delivered(ba.buffered)' /\ Ordered(ba.buffered)'
        /\ Before(handled, ba.buffered)' /\ BufferInv'
    BY <2>1 DEF Before, Delivered, Ordered, BufferInv
  <2> QED
    BY <1>7, <1>8, <1>12, <2>2 DEF OrderInv
<1>13. CASE /\ m.kind = "barrier"
            /\ ba' = NewBarrierAligner
            /\ \E x \in BarrierMsgs : todo' = Append(b, x)
  <2>1. PICK x \in BarrierMsgs : todo' = Append(b, x)
    BY <1>13
  <2>2. x.kind # "data"
    BY DEF BarrierMsgs
  <2>3. /\ Len(todo') = Len(b) + 1 /\ todo'[Len(b) + 1].kind # "data"
        /\ \A k \in 1 .. Len(b) : todo'[k] = b[k]
    BY <1>1, <2>1, <2>2
  <2>4. \A k \in 1 .. Len(todo') : k \in 1 .. Len(b) \/ todo'[k].kind # "data"
    BY <1>1, <2>3
  <2>5. Ordered(todo)'
    BY <1>8, <2>3, <2>4 DEF Ordered, Same
  <2>6. Before(handled, todo)'
    BY <1>1, <1>8, <2>3, <2>4 DEF Before, Same
  <2>7. Delivered(todo)'
    BY <1>5, <2>3, <2>4 DEF Delivered
  <2> QED
    BY <1>12, <1>13, <2>5, <2>6, <2>7
<1>14. CASE m.kind = "barrier" /\ ba' = NewBarrierAligner /\ todo' = b
  <2>1. Ordered(todo)' /\ Before(handled, todo)' /\ Delivered(todo)'
    BY <1>1, <1>5, <1>8, <1>14 DEF Delivered
  <2> QED
    BY <1>12, <1>14, <2>1
<1> QED
  BY <1>8, <1>9, <1>10, <1>11, <1>13, <1>14, DispatchCases

(* Every step preserves the order of the three parts. *)
LEMMA OrderStep ==
  ASSUME TypeOK, OrderInv, [Next]_vars
  PROVE  OrderInv'
<1>1. ASSUME NEW i \in Inputs, ReceiveData(i) PROVE OrderInv'
  <2> DEFINE m == DataMsg(i, sent[i] + 1)
  <2>1. m \in DataMsgs(Inputs) /\ m.kind = "data" /\ m.in = i /\ m.n = sent[i] + 1
    BY DEF TypeOK, DataMsg, DataMsgs
  <2>2. Dispatch(i, m) /\ todo = << >> /\ sent' = [sent EXCEPT ![i] = @ + 1]
    BY <1>1 DEF ReceiveData, AtSelect
  <2> HIDE DEF m
  <2> QED
    BY <2>1, <2>2, DispatchOrder
<1>2. ASSUME NEW i \in Inputs, ReceiveBarrier(i) PROVE OrderInv'
  <2> DEFINE m == BarrierMsg(Len(cut[i]) + 1, Len(cut[i]) + 1 \in StopEpochs)
  <2>1. Len(cut[i]) \in Nat
    BY DEF TypeOK
  <2>2. m \in BarrierMsgs /\ m.kind # "data"
    BY <2>1 DEF BarrierMsg, BarrierMsgs
  <2>3. Dispatch(i, m) /\ todo = << >> /\ sent' = sent
    BY <1>2 DEF ReceiveBarrier, AtSelect
  <2> HIDE DEF m
  <2> QED
    BY <2>2, <2>3, DispatchOrder
<1>3. ASSUME NEW i \in Inputs, ReceiveStop(i) PROVE OrderInv'
  <2>1. Dispatch(i, StopMsg) /\ todo = << >> /\ sent' = sent
    BY <1>3 DEF ReceiveStop, AtSelect
  <2>2. StopMsg.kind # "data"
    BY DEF StopMsg
  <2> QED
    BY <2>1, <2>2, DispatchOrder
<1>4. ASSUME NEW i \in Inputs, ReceiveWatermark(i) PROVE OrderInv'
  <2>1. /\ todo = << >> /\ UNCHANGED <<ba, handled, sent>>
        /\ todo' = << >> \/ \E x \in WatermarkMsgs : todo' = <<x>>
    <3>1. PICK time \in 0 .. MaxWM, idle \in BOOLEAN :
            todo' = IF Update(wh, i, WatermarkMsg(time, idle)).advanced = NoWatermark
                    THEN << >>
                    ELSE <<Update(wh, i, WatermarkMsg(time, idle)).advanced>>
      BY <1>4 DEF ReceiveWatermark
    <3>2. WatermarkMsg(time, idle) \in WatermarkMsgs
      BY NodeRuntimeAssumption DEF WatermarkMsg, WatermarkMsgs
    <3>3. Update(wh, i, WatermarkMsg(time, idle)).advanced \in WatermarkMsgs \cup {NoWatermark}
      BY <3>2, UpdateResult DEF TypeOK
    <3>4. todo = << >> /\ UNCHANGED <<ba, handled, sent>>
      BY <1>4 DEF ReceiveWatermark, AtSelect
    <3> QED
      BY <3>1, <3>3, <3>4
  <2>2. CASE todo' = << >>
    BY <2>1, <2>2, DropOrder
  <2>3. CASE \E x \in WatermarkMsgs : todo' = <<x>>
    <3>1. Len(todo') = 1 /\ todo'[1].kind # "data"
      BY <2>3 DEF WatermarkMsgs
    <3>2. /\ Ordered(todo)' /\ Before(handled, todo)' /\ Before(todo, ba.buffered)'
          /\ Delivered(todo)'
      BY <3>1 DEF Ordered, Before, Delivered, Same
    <3>3. /\ Ordered(handled)' /\ Ordered(ba.buffered)' /\ Before(handled, ba.buffered)'
          /\ Delivered(handled)' /\ Delivered(ba.buffered)' /\ BufferInv'
      BY <2>1 DEF OrderInv, Delivered, BufferInv
    <3> QED
      BY <3>2, <3>3 DEF OrderInv
  <2> QED
    BY <2>1, <2>2, <2>3
<1>5. ASSUME Fail PROVE OrderInv'
  BY <1>5, DropOrder DEF Fail, envVars
<1>6. ASSUME ProcessMessage \/ HandleWatermark \/ handleStop PROVE OrderInv'
  <2>1. todo # << >> /\ (Fail \/ (Consume /\ UNCHANGED <<ba, sent>>))
    BY <1>6 DEF ProcessMessage, HandleWatermark, handleStop, Handling, envVars
  <2> QED
    BY <1>5, <2>1, ConsumeOrder
<1>7. ASSUME handleAlignedBarrier PROVE OrderInv'
  <2>1. /\ todo # << >>
        /\ \/ Fail
           \/ Consume /\ UNCHANGED <<ba, sent>>
           \/ todo' = << >> /\ UNCHANGED <<ba, handled, sent>>
    BY <1>7 DEF handleAlignedBarrier, Handling, envVars
  <2> QED
    BY <1>5, <2>1, ConsumeOrder, DropOrder
<1>8. ASSUME Cancel \/ Exit \/ UNCHANGED vars PROVE OrderInv'
  BY <1>8 DEF Cancel, Exit, vars, nodeVars, envVars, OrderInv, Ordered, Before,
     Delivered, BufferInv
<1> QED
  BY <1>1, <1>2, <1>3, <1>4, <1>6, <1>7, <1>8 DEF Next

(* The parts in order make the whole in order. *)
LEMMA OrderWhole ==
  ASSUME TypeOK, OrderInv
  PROVE  InputOrder
<1> DEFINE h == handled
           t == todo
           b == ba.buffered
<1>1. /\ h \in Seq(Message(Inputs)) /\ t \in Seq(Message(Inputs))
      /\ b \in Seq(Message(Inputs))
  <2>1. b \in Seq(DataMsgs(Inputs) \cup {StopMsg})
    BY DEF TypeOK, AlignerState
  <2> QED
    BY <2>1 DEF TypeOK, Message
<1>2. Len(h) \in Nat /\ Len(t) \in Nat /\ Len(b) \in Nat
  BY <1>1
<1>3. Held = (h \o t) \o b
  BY DEF Held
<1>4. Len(Held) = Len(h) + Len(t) + Len(b)
  BY <1>1, <1>3
<1>5. ASSUME NEW k \in 1 .. Len(Held)
      PROVE  \/ k \in 1 .. Len(h) /\ Held[k] = h[k]
             \/ k - Len(h) \in 1 .. Len(t) /\ Held[k] = t[k - Len(h)]
             \/ k - Len(h) - Len(t) \in 1 .. Len(b) /\ Held[k] = b[k - Len(h) - Len(t)]
  <2> DEFINE ht == h \o t
  <2>1. ht \in Seq(Message(Inputs)) /\ Len(ht) = Len(h) + Len(t)
    BY <1>1
  <2>2. /\ \A l \in 1 .. Len(h) : ht[l] = h[l]
        /\ \A l \in 1 .. Len(ht) : l > Len(h) => ht[l] = t[l - Len(h)]
    BY <1>1
  <2>3. Held = ht \o b
    BY <1>3
  <2> HIDE DEF ht
  <2>4. CASE k <= Len(ht)
    <3>1. Held[k] = ht[k] /\ k \in 1 .. Len(ht)
      BY <1>1, <1>2, <1>4, <2>1, <2>3, <2>4
    <3>2. CASE k <= Len(h)
      BY <1>2, <2>2, <3>1, <3>2
    <3>3. CASE k > Len(h)
      BY <1>2, <2>1, <2>2, <3>1, <3>3
    <3> QED
      BY <1>2, <3>2, <3>3
  <2>5. CASE k > Len(ht)
    <3> DEFINE L == Len(ht)
               B == Len(b)
    <3>0. L \in Nat /\ B \in Nat /\ Len(Held) = L + B
      BY <1>2, <1>4, <2>1
    <3>1. k - L \in 1 .. B
      <4> HIDE DEF L, B
      <4>1. k \in Nat /\ k <= L + B /\ k > L
        BY <2>5, <3>0 DEF L
      <4> QED
        BY <3>0, <4>1
    <3>2. Held[k] = b[k - L]
      <4>1. k \in 1 .. Len(ht) + Len(b) /\ ~(k <= Len(ht))
        BY <2>5, <3>0
      <4> QED
        BY <1>1, <2>1, <2>3, <4>1
    <3>3. k - Len(ht) = k - Len(h) - Len(t)
      BY <1>2, <2>1
    <3> QED
      BY <3>1, <3>2, <3>3
  <2> QED
    BY <1>2, <2>1, <2>4, <2>5
<1>6. ASSUME NEW j \in 1 .. Len(Held), NEW k \in 1 .. Len(Held), j < k,
             Held[j].kind = "data", Held[k].kind = "data", Held[j].in = Held[k].in
      PROVE  Held[j].n < Held[k].n
  <2>1. Same(Held[j], Held[k])
    BY <1>6 DEF Same
  <2>2. Ordered(h) /\ Ordered(t) /\ Ordered(b) /\ Before(h, t) /\ Before(h, b) /\ Before(t, b)
    BY DEF OrderInv
  <2>3. j \in Nat /\ k \in Nat
    BY <1>2, <1>4
  <2> HIDE DEF h, t, b
  <2>4. CASE k \in 1 .. Len(h) /\ Held[k] = h[k]
    <3>1. j \in 1 .. Len(h) /\ Held[j] = h[j]
      BY <1>2, <1>5, <1>6, <2>3, <2>4
    <3> QED
      BY <1>6, <2>1, <2>2, <2>4, <3>1 DEF Ordered
  <2>5. CASE k - Len(h) \in 1 .. Len(t) /\ Held[k] = t[k - Len(h)]
    <3>1. \/ j \in 1 .. Len(h) /\ Held[j] = h[j]
          \/ /\ j - Len(h) \in 1 .. Len(t) /\ Held[j] = t[j - Len(h)]
             /\ j - Len(h) < k - Len(h)
      <4>1. ~(j - Len(h) - Len(t) \in 1 .. Len(b))
        BY <1>2, <1>6, <2>3, <2>5
      <4>2. j - Len(h) < k - Len(h)
        BY <1>2, <1>6, <2>3
      <4> QED
        BY <1>5, <4>1, <4>2
    <3> QED
      BY <2>1, <2>2, <2>5, <3>1 DEF Ordered, Before
  <2>6. CASE k - Len(h) - Len(t) \in 1 .. Len(b) /\ Held[k] = b[k - Len(h) - Len(t)]
    <3>1. \/ j \in 1 .. Len(h) /\ Held[j] = h[j]
          \/ j - Len(h) \in 1 .. Len(t) /\ Held[j] = t[j - Len(h)]
          \/ /\ j - Len(h) - Len(t) \in 1 .. Len(b) /\ Held[j] = b[j - Len(h) - Len(t)]
             /\ j - Len(h) - Len(t) < k - Len(h) - Len(t)
      <4>1. j - Len(h) - Len(t) < k - Len(h) - Len(t)
        BY <1>2, <1>6, <2>3
      <4> QED
        BY <1>5, <4>1
    <3> QED
      BY <2>1, <2>2, <2>6, <3>1 DEF Ordered, Before
  <2> QED
    BY <1>5, <2>4, <2>5, <2>6
<1>7. ASSUME NEW k \in 1 .. Len(Held), Held[k].kind = "data"
      PROVE  Held[k].n <= sent[Held[k].in]
  <2>1. Delivered(h) /\ Delivered(t) /\ Delivered(b)
    BY DEF OrderInv
  <2> QED
    BY <1>5, <1>7, <2>1 DEF Delivered
<1> QED
  BY <1>6, <1>7 DEF InputOrder

(* OnMessage and handleIndexedMessage: for every number of inputs and any   *)
(* interleaving of data, barriers, stops and cancellation, the alignment    *)
(* never reorders or duplicates the data of one input.  Inductive are the   *)
(* order of the three parts and where the buffered data comes from.         *)
THEOREM InputOrderCorrect == Spec => []InputOrder
<1>1. Init => OrderInv
  BY DEF Init, NewBarrierAligner, OrderInv, Ordered, Before, Delivered, BufferInv
<1>2. TypeOK /\ OrderInv /\ [Next]_vars => OrderInv'
  BY OrderStep
<1>3. TypeOK /\ OrderInv => InputOrder
  BY OrderWhole
<1> QED
  BY <1>1, <1>2, <1>3, TypeCorrect, PTL DEF Spec

-----------------------------------------------------------------------------
(* What the barrier alignment keeps, releases and snapshots: no message is  *)
(* lost, stop is forwarded last, and, when epochs do not overlap, each      *)
(* snapshot is aligned and covers what precedes its barrier.                *)

(* Where a message may be: as an element of a sequence, or of one of the    *)
(* three parts of Held.                                                     *)
Has(s, m) == \E k \in 1 .. Len(s) : s[k] = m

InHand(m) == Has(handled, m) \/ Has(todo, m) \/ Has(ba.buffered, m)

(* An element of a sequence with one more at its end. *)
LEMMA HasAppend ==
  ASSUME NEW S, NEW s \in Seq(S), NEW x \in S, NEW m
  PROVE  Has(Append(s, x), m) <=> (Has(s, m) \/ x = m)
<1> DEFINE a == Append(s, x)
<1>1. /\ Len(s) \in Nat /\ Len(a) = Len(s) + 1 /\ a[Len(s) + 1] = x
      /\ \A k \in 1 .. Len(s) : a[k] = s[k]
  OBVIOUS
<1> HIDE DEF a
<1>2. Len(s) + 1 \in 1 .. Len(a) /\ \A k \in 1 .. Len(a) : k \in 1 .. Len(s) \/ k = Len(s) + 1
  BY <1>1
<1>3. \A k \in 1 .. Len(s) : k \in 1 .. Len(a)
  BY <1>1
<1>4. Has(a, m) <=> (Has(s, m) \/ x = m)
  BY <1>1, <1>2, <1>3 DEF Has
<1> QED
  BY <1>4 DEF a

(* An element of a sequence is its head or an element of its tail. *)
LEMMA HasTail ==
  ASSUME NEW S, NEW s \in Seq(S), s # << >>, NEW m
  PROVE  Has(s, m) => (Head(s) = m \/ Has(Tail(s), m))
<1> DEFINE t == Tail(s)
<1>1. /\ Len(s) \in Nat /\ Len(s) >= 1 /\ Len(t) = Len(s) - 1 /\ Head(s) = s[1]
      /\ \A k \in 1 .. Len(t) : t[k] = s[k + 1]
  OBVIOUS
<1> HIDE DEF t
<1> SUFFICES ASSUME NEW k \in 1 .. Len(s), s[k] = m, k # 1
             PROVE  Has(t, m)
  BY <1>1 DEF Has, t
<1>2. k - 1 \in 1 .. Len(t) /\ (k - 1) + 1 = k
  BY <1>1
<1>3. t[k - 1] = s[k]
  BY <1>1, <1>2
<1> QED
  BY <1>2, <1>3 DEF Has

(* The types of the three parts of Held. *)
LEMMA HeldTypes ==
  ASSUME TypeOK
  PROVE  /\ handled \in Seq(Message(Inputs)) /\ todo \in Seq(Message(Inputs))
         /\ ba.buffered \in Seq(Message(Inputs))
         /\ ba.buffered \in Seq(DataMsgs(Inputs) \cup {StopMsg})
<1>1. ba.buffered \in Seq(DataMsgs(Inputs) \cup {StopMsg})
  BY DEF TypeOK, AlignerState
<1> QED
  BY <1>1 DEF TypeOK, Message

(* Receiving a watermark touches only the holder, todo and the environment. *)
LEMMA WatermarkTodo ==
  ASSUME TypeOK, NEW i \in Inputs, ReceiveWatermark(i)
  PROVE  /\ todo = << >>
         /\ ~exited
         /\ UNCHANGED <<ba, activeInputs, cancelled, exited, handled, snaps, stopAt,
                        sent, cut, stopSent>>
         /\ todo' = << >> \/ \E x \in WatermarkMsgs : todo' = <<x>>
<1>1. PICK time \in 0 .. MaxWM, idle \in BOOLEAN :
        todo' = IF Update(wh, i, WatermarkMsg(time, idle)).advanced = NoWatermark
                THEN << >>
                ELSE <<Update(wh, i, WatermarkMsg(time, idle)).advanced>>
  BY DEF ReceiveWatermark
<1>2. WatermarkMsg(time, idle) \in WatermarkMsgs
  BY NodeRuntimeAssumption DEF WatermarkMsg, WatermarkMsgs
<1>3. Update(wh, i, WatermarkMsg(time, idle)).advanced \in WatermarkMsgs \cup {NoWatermark}
  BY <1>2, UpdateResult DEF TypeOK
<1>4. /\ todo = << >> /\ ~exited
      /\ UNCHANGED <<ba, activeInputs, cancelled, exited, handled, snaps, stopAt,
                     sent, cut, stopSent>>
  BY DEF ReceiveWatermark, AtSelect
<1> QED
  BY <1>1, <1>3, <1>4

(* What the aligner gets it keeps or releases. *)
LEMMA DispatchKeeps ==
  ASSUME TypeOK, BufferInv, todo = << >>, NEW i \in Inputs,
         NEW m \in DataMsgs(Inputs) \cup {StopMsg} \cup BarrierMsgs,
         Dispatch(i, m), NEW x, InHand(x) \/ (m.kind # "barrier" /\ x = m)
  PROVE  InHand(x)'
<1> DEFINE b == ba.buffered
           D == DataMsgs(Inputs) \cup {StopMsg}
<1>1. b \in Seq(D) /\ b \in Seq(Message(Inputs)) /\ handled' = handled
  BY HeldTypes DEF Dispatch
<1>2. Has(handled, x) \/ Has(b, x) \/ (m.kind # "barrier" /\ x = m)
  BY DEF InHand, Has
<1>3. CASE Has(handled, x)
  BY <1>1, <1>3 DEF InHand
<1> SUFFICES ASSUME Has(b, x) \/ (m.kind # "barrier" /\ x = m)
             PROVE  Has(ba'.buffered, x) \/ Has(todo', x)
  BY <1>2, <1>3 DEF InHand
<1>4. CASE /\ m.kind # "barrier"
           /\ ba'.buffered = Append(b, m)
  <2>1. m \in D
    BY <1>4 DEF BarrierMsgs
  <2> HIDE DEF b, D
  <2> QED
    BY <1>1, <1>4, <2>1, HasAppend
<1>5. CASE ba' = ba /\ todo' = <<m>>
  BY <1>5 DEF Has
<1>6. CASE m.kind = "barrier" /\ ba'.buffered = b
  BY <1>6
<1>7. CASE m.kind = "barrier" /\ \E y \in BarrierMsgs : todo' = Append(b, y)
  <2>1. PICK y \in BarrierMsgs : todo' = Append(b, y)
    BY <1>7
  <2>2. y \in Message(Inputs) /\ Has(b, x)
    BY <1>7 DEF Message
  <2> HIDE DEF b
  <2> QED
    BY <1>1, <2>1, <2>2, HasAppend
<1>8. CASE m.kind = "barrier" /\ todo' = b
  BY <1>8
<1> QED
  BY <1>4, <1>5, <1>6, <1>7, <1>8, DispatchCases

(* Moving the head of todo to handled loses nothing. *)
LEMMA ConsumeKeeps ==
  ASSUME TypeOK, todo # << >>, Consume, UNCHANGED ba, NEW x, InHand(x)
  PROVE  InHand(x)'
<1>1. /\ handled \in Seq(Message(Inputs)) /\ todo \in Seq(Message(Inputs))
      /\ Head(todo) \in Message(Inputs)
  BY ConsumeType, HeldTypes
<1>2. Has(handled', x) <=> (Has(handled, x) \/ Head(todo) = x)
  BY <1>1, HasAppend DEF Consume
<1>3. Has(todo, x) => (Head(todo) = x \/ Has(todo', x))
  BY <1>1, HasTail DEF Consume
<1> QED
  BY <1>2, <1>3 DEF InHand

(* While the loop runs, every data message delivered is in one of the parts. *)
KeptInv ==
  ~exited => \A i \in Inputs : \A n \in 1 .. sent[i] : InHand(DataMsg(i, n))

(* No step loses a data message while the loop runs. *)
LEMMA KeptStep ==
  ASSUME TypeOK, BufferInv, KeptInv, [Next]_vars
  PROVE  KeptInv'
<1> SUFFICES ASSUME ~exited', NEW j \in Inputs, NEW n \in 1 .. sent'[j]
             PROVE  InHand(DataMsg(j, n))'
  BY DEF KeptInv
<1> DEFINE x == DataMsg(j, n)
<1>1. ASSUME ~exited, n \in 1 .. sent[j] PROVE InHand(x)
  BY <1>1 DEF KeptInv
<1>2. ASSUME NEW i \in Inputs, ReceiveData(i) PROVE InHand(x)'
  <2> DEFINE m == DataMsg(i, sent[i] + 1)
  <2>1. m \in DataMsgs(Inputs) /\ m.kind # "barrier" /\ sent[i] \in Nat
    BY DEF TypeOK, DataMsg, DataMsgs
  <2>2. Dispatch(i, m) /\ todo = << >> /\ ~exited /\ sent' = [sent EXCEPT ![i] = @ + 1]
    BY <1>2 DEF ReceiveData, AtSelect
  <2>3. InHand(x) \/ x = m
    <3>1. CASE n \in 1 .. sent[j]
      BY <1>1, <2>2, <3>1
    <3>2. CASE n \notin 1 .. sent[j]
      <4>1. j = i /\ n = sent[i] + 1
        BY <2>1, <2>2, <3>2 DEF TypeOK
      <4> QED
        BY <4>1
    <3> QED
      BY <3>1, <3>2
  <2> HIDE DEF m, x
  <2> QED
    BY <2>1, <2>2, <2>3, DispatchKeeps
<1>3. ASSUME NEW i \in Inputs, ReceiveBarrier(i) PROVE InHand(x)'
  <2> DEFINE m == BarrierMsg(Len(cut[i]) + 1, Len(cut[i]) + 1 \in StopEpochs)
  <2>1. Len(cut[i]) \in Nat
    BY DEF TypeOK
  <2>2. m \in BarrierMsgs
    BY <2>1 DEF BarrierMsg, BarrierMsgs
  <2>3. Dispatch(i, m) /\ todo = << >> /\ ~exited /\ sent' = sent
    BY <1>3 DEF ReceiveBarrier, AtSelect
  <2>4. InHand(x)
    BY <1>1, <2>3
  <2> HIDE DEF m, x
  <2> QED
    BY <2>2, <2>3, <2>4, DispatchKeeps
<1>4. ASSUME NEW i \in Inputs, ReceiveStop(i) PROVE InHand(x)'
  <2>1. Dispatch(i, StopMsg) /\ todo = << >> /\ ~exited /\ sent' = sent
    BY <1>4 DEF ReceiveStop, AtSelect
  <2>2. InHand(x)
    BY <1>1, <2>1
  <2> HIDE DEF x
  <2> QED
    BY <2>1, <2>2, DispatchKeeps
<1>5. ASSUME NEW i \in Inputs, ReceiveWatermark(i) PROVE InHand(x)'
  <2>1. todo = << >> /\ UNCHANGED <<ba, handled, sent>> /\ ~exited
    BY <1>5, WatermarkTodo
  <2>2. InHand(x) /\ ~Has(todo, x)
    BY <1>1, <2>1 DEF Has
  <2> QED
    BY <2>1, <2>2 DEF InHand
<1>6. ASSUME ProcessMessage \/ HandleWatermark \/ handleStop \/ handleAlignedBarrier
      PROVE  InHand(x)'
  <2>1. todo # << >> /\ ~exited /\ Consume /\ UNCHANGED <<ba, sent>>
    BY <1>6 DEF ProcessMessage, HandleWatermark, handleStop, handleAlignedBarrier, Fail,
       Handling, envVars
  <2>2. InHand(x)
    BY <1>1, <2>1
  <2> HIDE DEF x
  <2> QED
    BY <2>1, <2>2, ConsumeKeeps
<1>7. ASSUME Cancel \/ Exit \/ UNCHANGED vars PROVE InHand(x)'
  <2>1. ~exited /\ UNCHANGED <<ba, handled, todo, sent>>
    BY <1>7 DEF Cancel, Exit, vars, nodeVars, envVars
  <2>2. InHand(x)
    BY <1>1, <2>1
  <2> QED
    BY <2>1, <2>2 DEF InHand
<1> QED
  BY <1>2, <1>3, <1>4, <1>5, <1>6, <1>7 DEF Next

(* An element of a part is an element of the whole. *)
LEMMA KeptWhole ==
  ASSUME TypeOK, KeptInv
  PROVE  NoneLost
<1> DEFINE h == handled
           t == todo
           b == ba.buffered
           S == Message(Inputs)
<1>1. h \in Seq(S) /\ t \in Seq(S) /\ b \in Seq(S)
  BY HeldTypes
<1>2. Held = (h \o t) \o b
  BY DEF Held
<1> HIDE DEF h, t, b, S
<1>3. ASSUME NEW u \in Seq(S), NEW v \in Seq(S), NEW x, Has(u, x) \/ Has(v, x)
      PROVE  Has(u \o v, x)
  <2> DEFINE w == u \o v
  <2>1. /\ Len(u) \in Nat /\ Len(v) \in Nat /\ Len(w) = Len(u) + Len(v)
        /\ \A k \in 1 .. Len(u) : w[k] = u[k]
    OBVIOUS
  <2>2. \A k \in 1 .. Len(v) : w[Len(u) + k] = v[k]
    <3> SUFFICES ASSUME NEW k \in 1 .. Len(v) PROVE w[Len(u) + k] = v[k]
      OBVIOUS
    <3>1. Len(u) + k \in 1 .. Len(w) /\ Len(u) + k > Len(u) /\ (Len(u) + k) - Len(u) = k
      BY <2>1
    <3> QED
      BY <3>1
  <2> HIDE DEF w
  <2>3. /\ \A k \in 1 .. Len(u) : k \in 1 .. Len(w)
        /\ \A k \in 1 .. Len(v) : Len(u) + k \in 1 .. Len(w)
    BY <2>1
  <2>4. Has(w, x)
    BY <1>3, <2>1, <2>2, <2>3 DEF Has
  <2> QED
    BY <2>4 DEF w
<1>4. ASSUME NEW x, InHand(x) PROVE Has(Held, x)
  <2>1. h \o t \in Seq(S)
    BY <1>1
  <2>2. Has(h \o t, x) \/ Has(b, x)
    BY <1>1, <1>3, <1>4 DEF InHand, h, t, b
  <2> QED
    BY <1>1, <1>2, <1>3, <2>1, <2>2
<1> QED
  BY <1>4 DEF KeptInv, NoneLost, Has

(* OnMessage, onBarrier and handleIndexedMessage: for every number of       *)
(* inputs, however alignments, stops and cancellation interleave, no data   *)
(* message is dropped while the loop runs.  Inductive is where each one is. *)
THEOREM NoneLostCorrect == Spec => []NoneLost
<1>1. Init => KeptInv /\ OrderInv
  BY DEF Init, KeptInv, NewBarrierAligner, OrderInv, Ordered, Before, Delivered, BufferInv
<1>2. TypeOK /\ OrderInv /\ [Next]_vars => OrderInv'
  BY OrderStep
<1>3. TypeOK /\ OrderInv /\ KeptInv /\ [Next]_vars => KeptInv'
  BY KeptStep DEF OrderInv
<1>4. TypeOK /\ KeptInv => NoneLost
  BY KeptWhole
<1> QED
  BY <1>1, <1>2, <1>3, <1>4, TypeCorrect, PTL DEF Spec

-----------------------------------------------------------------------------
(* Where the stops are in a sequence. *)
Stops(s) == {k \in 1 .. Len(s) : s[k].kind = "stop"}

(* The stops of a sequence can be counted. *)
LEMMA StopsFinite ==
  ASSUME NEW S, NEW s \in Seq(S)
  PROVE  IsFiniteSet(Stops(s)) /\ Cardinality(Stops(s)) \in Nat
<1>1. Len(s) \in Nat
  OBVIOUS
<1>2. IsFiniteSet(1 .. Len(s)) /\ Stops(s) \in SUBSET (1 .. Len(s))
  BY <1>1, FS_Interval DEF Stops
<1>3. IsFiniteSet(Stops(s))
  BY <1>2, FS_Subset
<1> QED
  BY <1>3, FS_CardinalityType

(* The number of stops with one more message at the end. *)
LEMMA StopsAppend ==
  ASSUME NEW S, NEW s \in Seq(S), NEW x \in S
  PROVE  Cardinality(Stops(Append(s, x))) =
           Cardinality(Stops(s)) + (IF x.kind = "stop" THEN 1 ELSE 0)
<1> DEFINE a == Append(s, x)
<1>1. /\ Len(s) \in Nat /\ Len(a) = Len(s) + 1 /\ a[Len(s) + 1] = x
      /\ \A k \in 1 .. Len(s) : a[k] = s[k]
  OBVIOUS
<1> HIDE DEF a
<1>2. Len(s) + 1 \in 1 .. Len(a) /\ \A k \in 1 .. Len(a) : k \in 1 .. Len(s) \/ k = Len(s) + 1
  BY <1>1
<1>3. (\A k \in 1 .. Len(s) : k \in 1 .. Len(a)) /\ Len(s) + 1 \notin 1 .. Len(s)
  BY <1>1
<1>4. IsFiniteSet(Stops(s)) /\ Cardinality(Stops(s)) \in Nat
  BY StopsFinite
<1>5. CASE x.kind = "stop"
  <2>1. Stops(a) = Stops(s) \cup {Len(s) + 1} /\ Len(s) + 1 \notin Stops(s)
    BY <1>1, <1>2, <1>3, <1>5 DEF Stops
  <2>2. Cardinality(Stops(a)) = Cardinality(Stops(s)) + 1
    BY <1>4, <2>1, FS_AddElement
  <2> QED
    BY <1>5, <2>2 DEF a
<1>6. CASE x.kind # "stop"
  <2>1. Stops(a) = Stops(s)
    BY <1>1, <1>2, <1>3, <1>6 DEF Stops
  <2> QED
    BY <1>4, <1>6, <2>1 DEF a
<1> QED
  BY <1>5, <1>6

(* The number of stops without the first message. *)
LEMMA StopsTail ==
  ASSUME NEW S, NEW s \in Seq(S), s # << >>
  PROVE  Cardinality(Stops(Tail(s))) =
           Cardinality(Stops(s)) - (IF Head(s).kind = "stop" THEN 1 ELSE 0)
<1> DEFINE t == Tail(s)
           F == Stops(t)
           G == Stops(s) \ {1}
           f == [k \in F |-> k + 1]
<1>1. /\ Len(s) \in Nat /\ Len(s) >= 1 /\ t \in Seq(S) /\ Len(t) = Len(s) - 1 /\ Head(s) = s[1]
      /\ \A k \in 1 .. Len(t) : t[k] = s[k + 1]
  OBVIOUS
<1> HIDE DEF t
<1>2. /\ \A k \in F : k \in Nat /\ k >= 1 /\ k + 1 \in G
      /\ \A k \in G : k \in Nat /\ k - 1 \in F
  <2>1. ASSUME NEW k \in F PROVE k \in Nat /\ k >= 1 /\ k + 1 \in G
    <3>1. k \in 1 .. Len(t) /\ t[k].kind = "stop"
      BY DEF Stops
    <3>2. k + 1 \in 1 .. Len(s) /\ k + 1 # 1 /\ k \in Nat /\ k >= 1
      BY <1>1, <3>1
    <3> QED
      BY <1>1, <3>1, <3>2 DEF Stops
  <2>2. ASSUME NEW k \in G PROVE k \in Nat /\ k - 1 \in F
    <3>1. k \in 1 .. Len(s) /\ s[k].kind = "stop" /\ k # 1
      BY DEF Stops
    <3>2. k - 1 \in 1 .. Len(t) /\ (k - 1) + 1 = k /\ k \in Nat
      BY <1>1, <3>1
    <3>3. t[k - 1] = s[k]
      BY <1>1, <3>2
    <3> QED
      BY <3>1, <3>2, <3>3 DEF Stops
  <2> QED
    BY <2>1, <2>2
<1> HIDE DEF F, G
<1>3. f \in Bijection(F, G)
  <2>1. f \in [F -> G]
    BY <1>2
  <2>2. \A k, l \in F : f[k] = f[l] => k = l
    BY <1>2
  <2>3. \A g \in G : \E k \in F : f[k] = g
    <3> SUFFICES ASSUME NEW g \in G PROVE \E k \in F : f[k] = g
      OBVIOUS
    <3>1. g - 1 \in F /\ (g - 1) + 1 = g
      BY <1>2
    <3> QED
      BY <3>1
  <2> HIDE DEF f
  <2> QED
    BY <2>1, <2>2, <2>3 DEF Bijection, Injection, Surjection, IsInjective
<1>4. IsFiniteSet(F) /\ IsFiniteSet(Stops(s)) /\ Cardinality(Stops(s)) \in Nat
  BY <1>1, StopsFinite DEF F
<1>5. Cardinality(G) = Cardinality(F)
  <2>1. ExistsBijection(F, G)
    BY <1>3 DEF ExistsBijection
  <2> QED
    BY <1>4, <2>1, FS_Bijection
<1>6. Cardinality(G) = IF 1 \in Stops(s) THEN Cardinality(Stops(s)) - 1 ELSE Cardinality(Stops(s))
  BY <1>4, FS_RemoveElement DEF G
<1>7. 1 \in Stops(s) <=> Head(s).kind = "stop"
  BY <1>1 DEF Stops
<1> QED
  BY <1>4, <1>5, <1>6, <1>7 DEF F, t

(* The counter of handleStop: each input that has stopped has its stop      *)
(* pending or has been counted.                                             *)
StopCounted ==
  ~exited => Cardinality(Stops(todo)) + Cardinality(Stops(ba.buffered)) + NumInputs
               = Cardinality(stopSent) + activeInputs

(* Pending data of an input that has stopped has a stop behind it. *)
Behind(s, I) ==
  \A k \in 1 .. Len(s) : s[k].kind = "data" /\ s[k].in \in I => \E l \in Stops(s) : k < l

StopBehind == ~exited => Behind(todo, stopSent) /\ Behind(ba.buffered, stopSent)

(* After the stop was forwarded. *)
StopDone ==
  stopAt > 0 =>
    /\ stopSent = Inputs
    /\ stopAt <= Len(handled)
    /\ \A i \in Inputs : \A n \in 1 .. sent[i] :
         \E k \in 1 .. stopAt : handled[k] = DataMsg(i, n)
    /\ \A k \in stopAt + 1 .. Len(handled) : handled[k].kind # "data"
    /\ ~exited => /\ ba.buffered = << >>
                  /\ \A k \in 1 .. Len(todo) : todo[k].kind \notin {"data", "stop"}

StopInv == StopCounted /\ StopBehind /\ StopDone

(* The empty sequence has no stop. *)
LEMMA NoStops ==
  Stops(<< >>) = {} /\ Cardinality(Stops(<< >>)) = 0
<1>1. Stops(<< >>) = {}
  BY DEF Stops
<1> QED
  BY <1>1, FS_EmptySet

(* The number of stops of a sequence of one message. *)
LEMMA OneStop ==
  ASSUME NEW m \in Message(Inputs)
  PROVE  Cardinality(Stops(<<m>>)) = IF m.kind = "stop" THEN 1 ELSE 0
<1>1. << >> \in Seq(Message(Inputs)) /\ <<m>> = Append(<< >>, m)
  OBVIOUS
<1>2. Cardinality(Stops(Append(<< >>, m))) =
        Cardinality(Stops(<< >>)) + (IF m.kind = "stop" THEN 1 ELSE 0)
  BY <1>1, StopsAppend
<1> QED
  BY <1>1, <1>2, NoStops

(* A message received adds its stop, if it is one, to the pending ones. *)
LEMMA DispatchStops ==
  ASSUME TypeOK, BufferInv, todo = << >>, NEW i \in Inputs,
         NEW m \in DataMsgs(Inputs) \cup {StopMsg} \cup BarrierMsgs,
         Dispatch(i, m)
  PROVE  Cardinality(Stops(todo')) + Cardinality(Stops(ba'.buffered)) =
           Cardinality(Stops(ba.buffered)) + (IF m.kind = "stop" THEN 1 ELSE 0)
<1> DEFINE b == ba.buffered
           C(s) == Cardinality(Stops(s))
           S == Message(Inputs)
<1>1. b \in Seq(S) /\ m \in S /\ \A y \in BarrierMsgs : y \in S /\ y.kind # "stop"
  BY HeldTypes DEF Message, BarrierMsgs
<1>2. C(b) \in Nat /\ C(<< >>) = 0
  BY <1>1, StopsFinite, NoStops
<1>3. C(<<m>>) = IF m.kind = "stop" THEN 1 ELSE 0
  BY <1>1, OneStop
<1>4. \A y \in S : C(Append(b, y)) = C(b) + (IF y.kind = "stop" THEN 1 ELSE 0)
  <2> HIDE DEF b, S
  <2> QED
    BY <1>1, StopsAppend
<1>5. NewBarrierAligner.buffered = << >>
  BY DEF NewBarrierAligner
<1>6. \/ ba'.buffered = Append(b, m) /\ todo' = << >>
      \/ ba'.buffered = b /\ todo' = <<m>>
      \/ m.kind = "barrier" /\ ba'.buffered = b /\ todo' = << >>
      \/ m.kind = "barrier" /\ ba'.buffered = << >> /\ \E y \in BarrierMsgs : todo' = Append(b, y)
      \/ m.kind = "barrier" /\ ba'.buffered = << >> /\ todo' = b
  BY <1>5, DispatchCases
<1> HIDE DEF b, S, C
<1>7. C(todo') + C(ba'.buffered) = C(b) + (IF m.kind = "stop" THEN 1 ELSE 0)
  <2>1. CASE ba'.buffered = Append(b, m) /\ todo' = << >>
    BY <1>1, <1>2, <1>4, <2>1
  <2>2. CASE ba'.buffered = b /\ todo' = <<m>>
    BY <1>2, <1>3, <2>2
  <2>3. CASE m.kind = "barrier" /\ ba'.buffered = b /\ todo' = << >>
    BY <1>2, <2>3
  <2>4. CASE m.kind = "barrier" /\ ba'.buffered = << >> /\ \E y \in BarrierMsgs : todo' = Append(b, y)
    BY <1>1, <1>2, <1>4, <2>4
  <2>5. CASE m.kind = "barrier" /\ ba'.buffered = << >> /\ todo' = b
    BY <1>2, <2>5
  <2> QED
    BY <1>6, <2>1, <2>2, <2>3, <2>4, <2>5
<1> QED
  BY <1>7 DEF C, b

(* Appending anything but data of an input in I keeps Behind. *)
LEMMA BehindAppend ==
  ASSUME NEW S, NEW s \in Seq(S), NEW x \in S, NEW I, NEW J,
         \/ x.kind = "stop"
         \/ I = J /\ Behind(s, I) /\ ~(x.kind = "data" /\ x.in \in I)
  PROVE  Behind(Append(s, x), J)
<1> DEFINE a == Append(s, x)
<1>1. /\ Len(s) \in Nat /\ Len(a) = Len(s) + 1 /\ a[Len(s) + 1] = x
      /\ \A k \in 1 .. Len(s) : a[k] = s[k]
  OBVIOUS
<1> HIDE DEF a
<1>2. Len(s) + 1 \in 1 .. Len(a) /\ \A k \in 1 .. Len(a) : k \in 1 .. Len(s) \/ k = Len(s) + 1
  BY <1>1
<1>3. \A k \in 1 .. Len(s) : k \in 1 .. Len(a) /\ k < Len(s) + 1
  BY <1>1
<1> SUFFICES ASSUME NEW k \in 1 .. Len(a), a[k].kind = "data", a[k].in \in J
             PROVE  \E l \in Stops(a) : k < l
  BY DEF Behind, a
<1>4. CASE x.kind = "stop"
  <2>1. Len(s) + 1 \in Stops(a)
    BY <1>1, <1>2, <1>4 DEF Stops
  <2>2. k \in 1 .. Len(s)
    BY <1>1, <1>2, <1>4
  <2> QED
    BY <1>3, <2>1, <2>2
<1>5. CASE I = J /\ Behind(s, I) /\ ~(x.kind = "data" /\ x.in \in I)
  <2>1. k \in 1 .. Len(s) /\ s[k] = a[k]
    BY <1>1, <1>2, <1>5
  <2>2. PICK l \in Stops(s) : k < l
    BY <1>5, <2>1 DEF Behind
  <2>3. l \in Stops(a)
    BY <1>1, <1>3 DEF Stops
  <2> QED
    BY <2>2, <2>3
<1> QED
  BY <1>4, <1>5

(* Dropping the first message keeps the stops behind the data. *)
LEMMA BehindTail ==
  ASSUME NEW S, NEW s \in Seq(S), s # << >>, NEW I, Behind(s, I)
  PROVE  Behind(Tail(s), I)
<1> DEFINE t == Tail(s)
<1>1. /\ Len(s) \in Nat /\ Len(t) = Len(s) - 1
      /\ \A k \in 1 .. Len(t) : t[k] = s[k + 1]
  OBVIOUS
<1> HIDE DEF t
<1> SUFFICES ASSUME NEW k \in 1 .. Len(t), t[k].kind = "data", t[k].in \in I
             PROVE  \E l \in Stops(t) : k < l
  BY DEF Behind, t
<1>2. k + 1 \in 1 .. Len(s) /\ s[k + 1] = t[k]
  BY <1>1
<1>3. PICK l \in Stops(s) : k + 1 < l
  BY <1>2 DEF Behind
<1>4. l \in 1 .. Len(s) /\ s[l].kind = "stop"
  BY DEF Stops
<1>5. l - 1 \in 1 .. Len(t) /\ (l - 1) + 1 = l /\ k < l - 1
  BY <1>1, <1>3, <1>4
<1>6. t[l - 1] = s[l]
  BY <1>1, <1>5
<1> QED
  BY <1>4, <1>5, <1>6 DEF Stops

(* A message received keeps the stops behind the data. *)
LEMMA DispatchBehind ==
  ASSUME TypeOK, BufferInv, todo = << >>, NEW i \in Inputs,
         NEW m \in DataMsgs(Inputs) \cup {StopMsg} \cup BarrierMsgs,
         Dispatch(i, m), Behind(ba.buffered, stopSent),
         m.kind = "data" => m.in = i /\ i \notin stopSent,
         stopSent' = IF m.kind = "stop" THEN stopSent \cup {i} ELSE stopSent
  PROVE  Behind(todo', stopSent') /\ Behind(ba'.buffered, stopSent')
<1> DEFINE b == ba.buffered
           S == Message(Inputs)
<1>1. b \in Seq(S) /\ m \in S /\ \A y \in BarrierMsgs : y \in S /\ y.kind # "data"
  BY HeldTypes DEF Message, BarrierMsgs
<1>2. \A I : Behind(<< >>, I)
  BY DEF Behind
<1>3. NewBarrierAligner.buffered = << >>
  BY DEF NewBarrierAligner
<1>4. CASE m.kind # "barrier" /\ ba'.buffered = Append(b, m) /\ todo' = << >>
  <2>1. \/ m.kind = "stop"
        \/ stopSent = stopSent' /\ Behind(b, stopSent) /\ ~(m.kind = "data" /\ m.in \in stopSent)
    OBVIOUS
  <2>2. Behind(Append(b, m), stopSent')
    <3> HIDE DEF b, S
    <3> QED
      BY <1>1, <2>1, BehindAppend
  <2> QED
    BY <1>2, <1>4, <2>2
<1>5. CASE (m.kind = "barrier" \/ ~Holds(ba, i)) /\ ba' = ba /\ todo' = <<m>>
  <2>1. \A k \in 1 .. Len(b) : b[k].kind = "data" /\ b[k].in \in stopSent' => b[k].in \in stopSent
    <3>1. CASE m.kind = "stop"
      <4>1. \A k \in 1 .. Len(b) : b[k].kind = "data" => b[k].in # i
        BY <1>5, <3>1 DEF BufferInv, Holds
      <4> QED
        BY <3>1, <4>1
    <3>2. CASE m.kind # "stop"
      BY <3>2
    <3> QED
      BY <3>1, <3>2
  <2>2. Behind(b, stopSent')
    BY <2>1 DEF Behind
  <2>3. ~(m.kind = "data" /\ m.in \in stopSent')
    OBVIOUS
  <2>4. Len(<<m>>) = 1 /\ <<m>>[1] = m
    OBVIOUS
  <2>5. Behind(<<m>>, stopSent')
    BY <2>3, <2>4 DEF Behind
  <2> QED
    BY <1>5, <2>2, <2>5
<1>6. CASE m.kind = "barrier" /\ ba'.buffered = b /\ todo' = << >>
  BY <1>2, <1>6
<1>7. CASE m.kind = "barrier" /\ ba'.buffered = << >> /\ \E y \in BarrierMsgs : todo' = Append(b, y)
  <2>1. PICK y \in BarrierMsgs : todo' = Append(b, y)
    BY <1>7
  <2>2. y \in S /\ y.kind # "data" /\ stopSent' = stopSent
    BY <1>1, <1>7
  <2>3. Behind(Append(b, y), stopSent')
    <3> HIDE DEF b, S
    <3>1. Behind(b, stopSent)
      BY DEF b
    <3> QED
      BY <1>1, <2>2, <3>1, BehindAppend
  <2> QED
    BY <1>2, <1>7, <2>1, <2>3
<1>8. CASE m.kind = "barrier" /\ ba'.buffered = << >> /\ todo' = b
  BY <1>2, <1>8
<1> QED
  BY <1>3, <1>4, <1>5, <1>6, <1>7, <1>8, DispatchCases

(* A barrier received after the stop was forwarded releases no data. *)
LEMMA DispatchDone ==
  ASSUME TypeOK, BufferInv, StopDone, ~exited, todo = << >>, NEW i \in Inputs,
         NEW m \in DataMsgs(Inputs) \cup {StopMsg} \cup BarrierMsgs,
         Dispatch(i, m),
         stopAt > 0 => m.kind = "barrier" /\ sent' = sent /\ stopSent' = stopSent
  PROVE  StopDone'
<1>1. UNCHANGED <<stopAt, handled, exited>>
  BY DEF Dispatch
<1> SUFFICES ASSUME stopAt > 0
             PROVE  StopDone'
  BY <1>1 DEF StopDone
<1>2. ba.buffered = << >>
  BY DEF StopDone
<1>3. \A y \in BarrierMsgs : y.kind \notin {"data", "stop"}
  BY DEF BarrierMsgs
<1>4. /\ ba'.buffered = << >>
      /\ todo' = << >> \/ \E y : y.kind \notin {"data", "stop"} /\ todo' = <<y>>
  <2>1. m.kind = "barrier"
    OBVIOUS
  <2>2. \A y : Append(<< >>, y) = <<y>>
    OBVIOUS
  <2>3. NewBarrierAligner.buffered = << >>
    BY DEF NewBarrierAligner
  <2>4. \/ ba' = ba /\ todo' = <<m>>
        \/ ba'.buffered = << >> /\ todo' = << >>
        \/ ba'.buffered = << >> /\ \E y \in BarrierMsgs : todo' = Append(<< >>, y)
    BY <1>2, <2>1, <2>3, DispatchCases
  <2> QED
    BY <1>2, <1>3, <2>1, <2>2, <2>4
<1>5. \A k \in 1 .. Len(todo') : todo'[k].kind \notin {"data", "stop"}
  BY <1>4
<1> QED
  BY <1>1, <1>4, <1>5 DEF StopDone

(* Handling the head of todo when stop is already forwarded. *)
LEMMA ConsumeDone ==
  ASSUME TypeOK, StopDone, ~exited, todo # << >>, Consume,
         UNCHANGED <<ba, sent, stopSent, stopAt>>
  PROVE  StopDone'
<1> SUFFICES ASSUME stopAt > 0
             PROVE  StopDone'
  BY DEF StopDone
<1>1. /\ handled \in Seq(Message(Inputs)) /\ todo \in Seq(Message(Inputs)) /\ stopAt \in Nat
  BY DEF TypeOK
<1>2. /\ Len(todo) \in Nat /\ Len(todo) >= 1 /\ Len(handled) \in Nat
      /\ Len(handled') = Len(handled) + 1 /\ Len(todo') = Len(todo) - 1
  BY <1>1 DEF Consume
<1>3. /\ \A k \in 1 .. Len(handled) : handled'[k] = handled[k]
      /\ handled'[Len(handled) + 1] = todo[1]
      /\ \A k \in 1 .. Len(todo) - 1 : todo'[k] = todo[k + 1]
  BY <1>1, <1>2 DEF Consume
<1>4. /\ stopAt <= Len(handled)
      /\ \A k \in 1 .. Len(todo) : todo[k].kind \notin {"data", "stop"}
  BY DEF StopDone
<1>5. ASSUME NEW k \in 1 .. Len(todo') PROVE todo'[k].kind \notin {"data", "stop"}
  <2>1. k + 1 \in 1 .. Len(todo) /\ todo'[k] = todo[k + 1]
    BY <1>2, <1>3
  <2> QED
    BY <1>4, <2>1
<1>6. ASSUME NEW k \in stopAt + 1 .. Len(handled') PROVE handled'[k].kind # "data"
  <2>1. CASE k \in stopAt + 1 .. Len(handled)
    <3>1. k \in 1 .. Len(handled)
      BY <1>1, <1>2, <2>1
    <3> QED
      BY <1>3, <2>1, <3>1 DEF StopDone
  <2>2. CASE k = Len(handled) + 1
    <3>1. 1 \in 1 .. Len(todo)
      BY <1>2
    <3> QED
      BY <1>3, <1>4, <2>2, <3>1
  <2> QED
    BY <1>1, <1>2, <2>1, <2>2
<1>7. ASSUME NEW i \in Inputs, NEW n \in 1 .. sent[i]
      PROVE  \E k \in 1 .. stopAt : handled'[k] = DataMsg(i, n)
  <2>1. PICK k \in 1 .. stopAt : handled[k] = DataMsg(i, n)
    BY DEF StopDone
  <2>2. k \in 1 .. Len(handled)
    BY <1>1, <1>2, <1>4
  <2> QED
    BY <1>3, <2>1, <2>2
<1>8. stopAt <= Len(handled')
  BY <1>1, <1>2, <1>4
<1>9. stopSent = Inputs /\ ba.buffered = << >>
  BY DEF StopDone
<1> QED
  BY <1>5, <1>6, <1>7, <1>8, <1>9 DEF StopDone

(* Handling the head of todo: the stops still pending. *)
LEMMA ConsumeStops ==
  ASSUME TypeOK, todo # << >>, Consume, UNCHANGED ba
  PROVE  /\ Cardinality(Stops(todo')) + Cardinality(Stops(ba'.buffered)) =
              Cardinality(Stops(todo)) + Cardinality(Stops(ba.buffered))
                - (IF Head(todo).kind = "stop" THEN 1 ELSE 0)
         /\ Cardinality(Stops(todo')) \in Nat /\ Cardinality(Stops(ba'.buffered)) \in Nat
         /\ \A I : Behind(todo, I) => Behind(todo', I)
<1>1. todo \in Seq(Message(Inputs)) /\ ba.buffered \in Seq(Message(Inputs))
  BY HeldTypes
<1>2. todo' = Tail(todo) /\ Tail(todo) \in Seq(Message(Inputs))
  BY <1>1 DEF Consume
<1>3. Cardinality(Stops(todo')) =
        Cardinality(Stops(todo)) - (IF Head(todo).kind = "stop" THEN 1 ELSE 0)
  BY <1>1, <1>2, StopsTail
<1>4. /\ Cardinality(Stops(todo)) \in Nat /\ Cardinality(Stops(todo')) \in Nat
      /\ Cardinality(Stops(ba.buffered)) \in Nat
  BY <1>1, <1>2, StopsFinite
<1>5. \A I : Behind(todo, I) => Behind(todo', I)
  BY <1>1, <1>2, BehindTail
<1> QED
  BY <1>3, <1>4, <1>5

(* As many stops as inputs means that every input has stopped. *)
LEMMA StopSentFinite ==
  ASSUME TypeOK
  PROVE  /\ IsFiniteSet(stopSent) /\ Cardinality(stopSent) \in Nat
         /\ Cardinality(stopSent) <= NumInputs
         /\ Cardinality(stopSent) = NumInputs => stopSent = Inputs
<1>1. IsFiniteSet(Inputs) /\ Cardinality(Inputs) = NumInputs
  BY FS_Interval, NodeRuntimeAssumption DEF Inputs
<1>2. stopSent \in SUBSET Inputs
  BY DEF TypeOK
<1>3. /\ IsFiniteSet(stopSent) /\ Cardinality(stopSent) <= Cardinality(Inputs)
      /\ Cardinality(Inputs) = Cardinality(stopSent) => Inputs = stopSent
  BY <1>1, <1>2, FS_Subset
<1>4. Cardinality(stopSent) \in Nat
  BY <1>3, FS_CardinalityType
<1> QED
  BY <1>1, <1>3, <1>4

(* The stop that is forwarded is the last thing of every input. *)
LEMMA LastStop ==
  ASSUME TypeOK, KeptInv', TypeOK', StopCounted', StopBehind', ~exited', activeInputs' <= 0,
         stopAt' = Len(handled')
  PROVE  StopDone'
<1> DEFINE ct == Cardinality(Stops(todo'))
           cb == Cardinality(Stops(ba'.buffered))
           cs == Cardinality(stopSent')
           left == activeInputs'
<1>1. /\ todo' \in Seq(Message(Inputs)) /\ ba'.buffered \in Seq(Message(Inputs))
      /\ ba'.buffered \in Seq(DataMsgs(Inputs) \cup {StopMsg})
      /\ handled' \in Seq(Message(Inputs))
  <2>1. ba'.buffered \in Seq(DataMsgs(Inputs) \cup {StopMsg})
    BY DEF TypeOK, AlignerState
  <2> QED
    BY <2>1 DEF TypeOK, Message
<1>2. ct \in Nat /\ cb \in Nat
  BY <1>1, StopsFinite
<1>3. cs \in Nat /\ cs <= NumInputs /\ (cs = NumInputs => stopSent' = Inputs)
  <2>1. IsFiniteSet(Inputs) /\ Cardinality(Inputs) = NumInputs
    BY FS_Interval, NodeRuntimeAssumption DEF Inputs
  <2>2. stopSent' \in SUBSET Inputs
    BY DEF TypeOK
  <2>3. /\ IsFiniteSet(stopSent') /\ cs <= NumInputs
        /\ NumInputs = cs => Inputs = stopSent'
    BY <2>1, <2>2, FS_Subset
  <2> QED
    BY <2>3, FS_CardinalityType
<1>4. ct + cb + NumInputs = cs + left /\ left <= 0
  BY DEF StopCounted
<1>5. left \in Int /\ NumInputs \in Nat
  BY NodeRuntimeAssumption DEF TypeOK
<1> HIDE DEF ct, cb, cs, left
<1>6. ct = 0 /\ cb = 0 /\ cs = NumInputs
  BY <1>2, <1>3, <1>4, <1>5
<1>7. stopSent' = Inputs
  BY <1>3, <1>6
<1>8. Stops(todo') = {} /\ Stops(ba'.buffered) = {}
  <2>1. IsFiniteSet(Stops(todo')) /\ IsFiniteSet(Stops(ba'.buffered))
    BY <1>1, StopsFinite
  <2> QED
    BY <1>6, <2>1, FS_EmptySet DEF ct, cb
<1>9. \A x \in Message(Inputs) : x.kind = "data" => x.in \in Inputs
  BY DEF Message, DataMsgs, BarrierMsgs, WatermarkMsgs, StopMsg
<1>10. \A k \in 1 .. Len(todo') : todo'[k].kind \notin {"data", "stop"}
  <2> SUFFICES ASSUME NEW k \in 1 .. Len(todo') PROVE todo'[k].kind \notin {"data", "stop"}
    OBVIOUS
  <2>1. todo'[k] \in Message(Inputs)
    BY <1>1
  <2>2. todo'[k].kind # "stop"
    BY <1>8 DEF Stops
  <2>3. Behind(todo', Inputs)
    BY <1>7 DEF StopBehind
  <2> QED
    BY <1>8, <1>9, <2>1, <2>2, <2>3 DEF Behind
<1>11. \A k \in 1 .. Len(ba'.buffered) : FALSE
  <2> SUFFICES ASSUME NEW k \in 1 .. Len(ba'.buffered) PROVE FALSE
    OBVIOUS
  <2>1. ba'.buffered[k] \in DataMsgs(Inputs) \cup {StopMsg} /\ ba'.buffered[k] \in Message(Inputs)
    BY <1>1
  <2>2. ba'.buffered[k].kind \in {"data", "stop"}
    BY <2>1 DEF DataMsgs, StopMsg
  <2>3. ba'.buffered[k].kind # "stop"
    BY <1>8 DEF Stops
  <2>4. Behind(ba'.buffered, Inputs)
    BY <1>7 DEF StopBehind
  <2> QED
    BY <1>8, <1>9, <2>1, <2>2, <2>3, <2>4 DEF Behind
<1>12. ba'.buffered = << >>
  <2>1. Len(ba'.buffered) \in Nat
    BY <1>1
  <2>2. Len(ba'.buffered) = 0
    <3>1. ~(1 \in 1 .. Len(ba'.buffered))
      BY <1>11
    <3> QED
      BY <2>1, <3>1
  <2> QED
    BY <1>1, <2>2
<1>13. ASSUME NEW i \in Inputs, NEW n \in 1 .. sent'[i]
       PROVE  \E k \in 1 .. stopAt' : handled'[k] = DataMsg(i, n)
  <2>1. InHand(DataMsg(i, n))'
    BY DEF KeptInv
  <2>2. ~Has(todo', DataMsg(i, n))
    <3>1. DataMsg(i, n).kind = "data"
      BY DEF DataMsg
    <3> QED
      BY <1>10, <3>1 DEF Has
  <2>3. ~Has(ba'.buffered, DataMsg(i, n))
    BY <1>11 DEF Has
  <2> QED
    BY <2>1, <2>2, <2>3 DEF InHand, Has
<1>14. \A k \in stopAt' + 1 .. Len(handled') : handled'[k].kind # "data"
  <2>1. Len(handled') \in Nat
    BY <1>1
  <2> QED
    BY <2>1
<1>15. stopAt' <= Len(handled')
  <2>1. Len(handled') \in Nat
    BY <1>1
  <2> QED
    BY <2>1
<1> QED
  BY <1>7, <1>10, <1>12, <1>13, <1>14, <1>15 DEF StopDone

(* Every step keeps the count and the place of the stops. *)
LEMMA StopStep ==
  ASSUME TypeOK, BufferInv, KeptInv, StopInv, [Next]_vars
  PROVE  StopInv'
<1> DEFINE C(s) == Cardinality(Stops(s))
<1>1. TypeOK' /\ KeptInv'
  BY TypeStep, KeptStep
<1>2. StopCounted /\ StopBehind /\ StopDone
  BY DEF StopInv
<1>3. activeInputs \in Int /\ NumInputs \in Nat /\ stopSent \subseteq Inputs
  BY NodeRuntimeAssumption DEF TypeOK
<1>4. /\ IsFiniteSet(stopSent) /\ Cardinality(stopSent) \in Nat
  BY StopSentFinite
<1>5. C(<< >>) = 0 /\ C(ba.buffered) \in Nat /\ C(todo) \in Nat
  BY HeldTypes, StopsFinite, NoStops
<1>6. ASSUME NEW i \in Inputs, NEW m \in DataMsgs(Inputs) \cup {StopMsg} \cup BarrierMsgs,
             AtSelect, Dispatch(i, m),
             m.kind = "data" => m.in = i /\ i \notin stopSent,
             m.kind = "stop" => i \notin stopSent,
             m.kind # "data" => sent' = sent,
             stopSent' = IF m.kind = "stop" THEN stopSent \cup {i} ELSE stopSent
      PROVE  StopInv'
  <2>1. todo = << >> /\ ~exited /\ exited' = exited /\ activeInputs' = activeInputs
    BY <1>6 DEF AtSelect, Dispatch
  <2>2. C(todo') + C(ba'.buffered) = C(ba.buffered) + (IF m.kind = "stop" THEN 1 ELSE 0)
    BY <1>6, <2>1, DispatchStops
  <2>3. C(todo) + C(ba.buffered) + NumInputs = Cardinality(stopSent) + activeInputs
        /\ C(todo) = 0
    BY <1>2, <1>5, <2>1 DEF StopCounted
  <2>4. Cardinality(stopSent') = Cardinality(stopSent) + (IF m.kind = "stop" THEN 1 ELSE 0)
    BY <1>4, <1>6, FS_AddElement
  <2>5. C(todo') \in Nat /\ C(ba'.buffered) \in Nat
    <3>1. todo' \in Seq(Message(Inputs)) /\ ba'.buffered \in Seq(DataMsgs(Inputs) \cup {StopMsg})
      BY <1>1 DEF TypeOK, AlignerState
    <3> QED
      BY <3>1, StopsFinite
  <2>6. StopCounted'
    <3> HIDE DEF C
    <3>1. C(todo') + C(ba'.buffered) + NumInputs = Cardinality(stopSent') + activeInputs'
      BY <1>3, <1>4, <1>5, <2>1, <2>2, <2>3, <2>4, <2>5
    <3> QED
      BY <3>1 DEF StopCounted, C
  <2>7. StopBehind'
    <3>1. Behind(ba.buffered, stopSent)
      BY <1>2, <2>1 DEF StopBehind
    <3> QED
      BY <1>6, <2>1, <3>1, DispatchBehind DEF StopBehind
  <2>8. stopAt > 0 => m.kind = "barrier" /\ sent' = sent /\ stopSent' = stopSent
    <3>1. stopAt > 0 => stopSent = Inputs
      BY <1>2 DEF StopDone
    <3>2. m.kind \in {"data", "stop", "barrier"}
      BY DEF DataMsgs, StopMsg, BarrierMsgs
    <3> QED
      BY <1>6, <3>1, <3>2
  <2>9. StopDone'
    BY <1>2, <1>6, <2>1, <2>8, DispatchDone
  <2> QED
    BY <2>6, <2>7, <2>9 DEF StopInv
<1>7. ASSUME NEW i \in Inputs, ReceiveData(i) PROVE StopInv'
  <2> DEFINE m == DataMsg(i, sent[i] + 1)
  <2>1. m \in DataMsgs(Inputs) /\ m.kind = "data" /\ m.in = i
    BY DEF TypeOK, DataMsg, DataMsgs
  <2>2. AtSelect /\ Dispatch(i, m) /\ i \notin stopSent /\ stopSent' = stopSent
    BY <1>7 DEF ReceiveData
  <2> HIDE DEF m
  <2> QED
    BY <1>6, <2>1, <2>2
<1>8. ASSUME NEW i \in Inputs, ReceiveBarrier(i) PROVE StopInv'
  <2> DEFINE m == BarrierMsg(Len(cut[i]) + 1, Len(cut[i]) + 1 \in StopEpochs)
  <2>1. Len(cut[i]) \in Nat
    BY DEF TypeOK
  <2>2. m \in BarrierMsgs /\ m.kind = "barrier"
    BY <2>1 DEF BarrierMsg, BarrierMsgs
  <2>3. AtSelect /\ Dispatch(i, m) /\ UNCHANGED <<sent, stopSent>>
    BY <1>8 DEF ReceiveBarrier
  <2> HIDE DEF m
  <2> QED
    BY <1>6, <2>2, <2>3
<1>9. ASSUME NEW i \in Inputs, ReceiveStop(i) PROVE StopInv'
  <2>1. AtSelect /\ Dispatch(i, StopMsg) /\ UNCHANGED sent /\ i \notin stopSent
        /\ stopSent' = stopSent \cup {i}
    BY <1>9 DEF ReceiveStop
  <2>2. StopMsg.kind = "stop"
    BY DEF StopMsg
  <2> QED
    BY <1>6, <2>1, <2>2
<1>10. ASSUME NEW i \in Inputs, ReceiveWatermark(i) PROVE StopInv'
  <2>1. /\ todo = << >> /\ ~exited
        /\ UNCHANGED <<ba, activeInputs, exited, handled, stopAt, sent, stopSent>>
        /\ todo' = << >> \/ \E x \in WatermarkMsgs : todo' = <<x>>
    BY <1>10, WatermarkTodo
  <2>2. \A k \in 1 .. Len(todo') : todo'[k].kind \notin {"data", "stop"}
    BY <2>1 DEF WatermarkMsgs
  <2>3. Stops(todo') = {} /\ Stops(todo) = {}
    BY <2>1, <2>2 DEF Stops
  <2>4. StopCounted'
    BY <1>2, <2>1, <2>3 DEF StopCounted
  <2>5. StopBehind'
    BY <1>2, <2>1, <2>2 DEF StopBehind, Behind
  <2>6. StopDone'
    BY <1>2, <2>1, <2>2 DEF StopDone
  <2> QED
    BY <2>4, <2>5, <2>6 DEF StopInv
<1>11. ASSUME exited', UNCHANGED <<stopAt, stopSent, handled, sent>>
       PROVE  StopInv'
  BY <1>2, <1>11 DEF StopInv, StopCounted, StopBehind, StopDone
<1>12. ASSUME ~exited, todo # << >>, Consume, UNCHANGED <<ba, exited, stopSent, sent>>,
              activeInputs' = activeInputs - (IF Head(todo).kind = "stop" THEN 1 ELSE 0)
       PROVE  StopCounted' /\ StopBehind'
  <2>1. /\ C(todo') + C(ba'.buffered) =
             C(todo) + C(ba.buffered) - (IF Head(todo).kind = "stop" THEN 1 ELSE 0)
        /\ C(todo') \in Nat /\ C(ba'.buffered) \in Nat
        /\ Behind(todo, stopSent) => Behind(todo', stopSent)
    BY <1>12, ConsumeStops
  <2>2. StopBehind'
    BY <1>2, <1>12, <2>1 DEF StopBehind
  <2>3. C(todo) + C(ba.buffered) + NumInputs = Cardinality(stopSent) + activeInputs
    BY <1>2, <1>12 DEF StopCounted
  <2>4. C(todo') + C(ba'.buffered) + NumInputs = Cardinality(stopSent') + activeInputs'
    <3> DEFINE one == IF Head(todo).kind = "stop" THEN 1 ELSE 0
               a == C(todo)
               b == C(ba.buffered)
               c == C(todo')
               d == C(ba'.buffered)
               s == Cardinality(stopSent)
    <3>1. /\ one \in Int /\ a \in Nat /\ b \in Nat /\ c \in Nat /\ d \in Nat /\ s \in Nat
          /\ c + d = a + b - one
          /\ a + b + NumInputs = s + activeInputs
      BY <1>4, <1>5, <1>12, <2>1, <2>3
    <3>2. activeInputs' = activeInputs - one /\ Cardinality(stopSent') = s
      BY <1>12
    <3> HIDE DEF C, one, a, b, c, d, s
    <3>3. c + d + NumInputs = s + (activeInputs - one)
      BY <1>3, <3>1
    <3> QED
      BY <3>2, <3>3 DEF c, d
  <2> QED
    BY <2>2, <2>4 DEF StopCounted
<1>13. ASSUME ProcessMessage \/ HandleWatermark \/ handleAlignedBarrier PROVE StopInv'
  <2>1. /\ ~exited /\ todo # << >> /\ Head(todo).kind # "stop"
        /\ UNCHANGED <<ba, stopSent, sent, stopAt, activeInputs>>
        /\ \/ exited' /\ UNCHANGED handled
           \/ Consume /\ UNCHANGED exited
    BY <1>13 DEF ProcessMessage, HandleWatermark, handleAlignedBarrier, Fail, Handling, envVars
  <2>2. CASE exited' /\ UNCHANGED handled
    BY <1>11, <2>1, <2>2
  <2>3. CASE Consume /\ UNCHANGED exited
    <3>1. StopCounted' /\ StopBehind'
      BY <1>3, <1>12, <2>1, <2>3
    <3>2. StopDone'
      BY <1>2, <2>1, <2>3, ConsumeDone
    <3> QED
      BY <3>1, <3>2 DEF StopInv
  <2> QED
    BY <2>1, <2>2, <2>3
<1>14. ASSUME handleStop PROVE StopInv'
  <2>1. CASE Fail
    BY <1>11, <2>1 DEF Fail, envVars
  <2>2. CASE ~Fail
    <3>1. /\ ~exited /\ todo # << >> /\ Head(todo).kind = "stop" /\ Consume
          /\ activeInputs' = activeInputs - 1
          /\ UNCHANGED <<ba, exited, sent, stopSent>>
          /\ \/ activeInputs <= 1 /\ stopAt' = Len(handled) + 1
             \/ UNCHANGED stopAt
      BY <1>14, <2>2 DEF handleStop, Handling, envVars
    <3>2. StopCounted' /\ StopBehind'
      BY <1>12, <3>1
    <3>3. CASE activeInputs <= 1 /\ stopAt' = Len(handled) + 1
      <4>1. activeInputs' <= 0
        BY <1>3, <3>1, <3>3
      <4>2. stopAt' = Len(handled')
        BY <3>1, <3>3, ConsumeType DEF Consume, TypeOK
      <4>3. StopDone'
        BY <1>1, <3>1, <3>2, <4>1, <4>2, LastStop
      <4> QED
        BY <3>2, <4>3 DEF StopInv
    <3>4. CASE UNCHANGED stopAt
      <4>1. StopDone'
        BY <1>2, <3>1, <3>4, ConsumeDone
      <4> QED
        BY <3>2, <4>1 DEF StopInv
    <3> QED
      BY <3>1, <3>3, <3>4
  <2> QED
    BY <2>1, <2>2
<1>15. ASSUME Exit PROVE StopInv'
  BY <1>11, <1>15 DEF Exit, envVars
<1>16. ASSUME Cancel \/ UNCHANGED vars PROVE StopInv'
  <2>1. UNCHANGED <<ba, activeInputs, exited, todo, handled, stopAt, sent, stopSent>>
    BY <1>16 DEF Cancel, vars, nodeVars, envVars
  <2> QED
    BY <1>2, <2>1 DEF StopInv, StopCounted, StopBehind, StopDone
<1> QED
  BY <1>7, <1>8, <1>9, <1>10, <1>13, <1>14, <1>15, <1>16 DEF Next

(* handleStop with OnMessage: for every number of inputs, the node forwards *)
(* stop only when each input has stopped and all its data was handled, also *)
(* when alignments hold stops and data back.  Inductive are the count of    *)
(* the pending stops and that each of them is behind the data of its input. *)
THEOREM StopIsLastCorrect == Spec => []StopIsLast
<1>1. Init => KeptInv /\ OrderInv
  BY DEF Init, KeptInv, NewBarrierAligner, OrderInv, Ordered, Before, Delivered, BufferInv
<1>2. Init => StopInv
  <2> SUFFICES ASSUME Init PROVE StopInv
    OBVIOUS
  <2>1. ba.buffered = << >> /\ todo = << >> /\ stopAt = 0 /\ stopSent = {} /\ activeInputs = NumInputs
    BY DEF Init, NewBarrierAligner
  <2>2. StopCounted
    BY <2>1, NoStops, FS_EmptySet, NodeRuntimeAssumption DEF StopCounted
  <2>3. StopBehind /\ StopDone
    BY <2>1 DEF StopBehind, Behind, StopDone
  <2> QED
    BY <2>2, <2>3 DEF StopInv
<1>3. TypeOK /\ OrderInv /\ [Next]_vars => OrderInv'
  BY OrderStep
<1>4. TypeOK /\ OrderInv /\ KeptInv /\ [Next]_vars => KeptInv'
  BY KeptStep DEF OrderInv
<1>5. TypeOK /\ OrderInv /\ KeptInv /\ StopInv /\ [Next]_vars => StopInv'
  BY StopStep DEF OrderInv
<1>6. StopInv => StopIsLast
  BY DEF StopInv, StopDone, StopIsLast
<1> QED
  BY <1>1, <1>2, <1>3, <1>4, <1>5, <1>6, TypeCorrect, PTL DEF Spec

-----------------------------------------------------------------------------
(* The alignment of epochs that do not overlap: the inputs are in the same  *)
(* epoch, or, while the aligner waits, one epoch apart.                     *)
Phase ==
  /\ ba.aligning =>
       /\ ba.currentBarrier \in BarrierMsgs
       /\ ba.received # {} /\ ba.received # Inputs
       /\ \A i \in Inputs : Len(cut[i]) = IF i \in ba.received
                                          THEN ba.currentBarrier.epoch
                                          ELSE ba.currentBarrier.epoch - 1
  /\ ~ba.aligning => \A i, j \in Inputs : Len(cut[i]) = Len(cut[j])

(* An aligned barrier is the last thing to handle, and new to the node. *)
LastBarrier ==
  \A k \in 1 .. Len(todo) :
    todo[k].kind = "barrier" =>
      /\ k = Len(todo)
      /\ ~ba.aligning
      /\ todo[k].epoch >= 1
      /\ \A i \in Inputs : Len(cut[i]) = todo[k].epoch
      /\ \A s \in 1 .. Len(snaps) : snaps[s].epoch < todo[k].epoch

(* What a snapshot covers. *)
SnapCovered ==
  \A s \in 1 .. Len(snaps) :
    /\ snaps[s].epoch >= 1
    /\ snaps[s].at <= Len(handled)
    /\ \A i \in Inputs :
         /\ snaps[s].epoch <= Len(cut[i])
         /\ \A n \in 1 .. cut[i][snaps[s].epoch] :
              \E k \in 1 .. snaps[s].at : handled[k] = DataMsg(i, n)

CutBound == \A i \in Inputs : \A e \in 1 .. Len(cut[i]) : cut[i][e] <= sent[i]

(* An epoch that has arrived on every input is snapshotted or about to be. *)
EpochKept ==
  ~exited =>
    \A e \in 1 .. MaxEpoch :
      (\A i \in Inputs : e <= Len(cut[i])) =>
        \/ \E s \in 1 .. Len(snaps) : snaps[s].epoch = e
        \/ \E k \in 1 .. Len(todo) : todo[k].kind = "barrier" /\ todo[k].epoch = e

AlignInv == Phase /\ LastBarrier /\ SnapCovered /\ SnapshotAligned /\ CutBound /\ EpochKept

(* Data and stops leave the alignment as it is. *)
LEMMA PlainDispatch ==
  ASSUME TypeOK, NEW i \in Inputs, NEW m \in DataMsgs(Inputs) \cup {StopMsg}, Dispatch(i, m)
  PROVE  /\ ba'.aligning = ba.aligning /\ ba'.received = ba.received
         /\ ba'.currentBarrier = ba.currentBarrier
         /\ \A k \in 1 .. Len(todo') : todo'[k].kind # "barrier"
<1> DEFINE r == OnMessage(ba, NumInputs, i, m)
<1>1. m.kind # "barrier"
  BY DEF DataMsgs, StopMsg
<1>2. ba \in AlignerState(Inputs)
  BY DEF TypeOK
<1>3. CASE Holds(ba, i)
  <2>1. r = [ba |-> [ba EXCEPT !.buffered = Append(@, m)],
             toProcess |-> << >>, aligned |-> NoBarrier]
    BY <1>1, <1>3 DEF OnMessage
  <2>2. ba' = [ba EXCEPT !.buffered = Append(@, m)] /\ todo' = << >>
    BY <2>1 DEF Dispatch
  <2> QED
    BY <1>2, <2>2 DEF AlignerState
<1>4. CASE ~Holds(ba, i)
  <2>1. r = [ba |-> ba, toProcess |-> <<m>>, aligned |-> NoBarrier]
    BY <1>1, <1>4 DEF OnMessage
  <2>2. ba' = ba /\ todo' = <<m>> \o << >>
    BY <2>1 DEF Dispatch
  <2>3. todo' = <<m>>
    BY <2>2
  <2>4. \A k \in 1 .. Len(todo') : todo'[k] = m
    BY <2>3
  <2> QED
    BY <1>1, <2>2, <2>4
<1> QED
  BY <1>3, <1>4

(* A set of inputs has as many members as there are inputs only if it has   *)
(* all of them: the test of onBarrier.                                      *)
LEMMA AllInputs ==
  ASSUME NEW R \in SUBSET Inputs
  PROVE  Cardinality(R) = NumInputs <=> R = Inputs
<1>1. IsFiniteSet(Inputs) /\ Cardinality(Inputs) = NumInputs
  BY FS_Interval, NodeRuntimeAssumption DEF Inputs
<1> QED
  BY <1>1, FS_Subset

(* What a barrier does to the alignment. *)
LEMMA BarrierDispatch ==
  ASSUME TypeOK, BufferInv, Phase, NEW i \in Inputs, NEW m \in BarrierMsgs, Dispatch(i, m)
  PROVE  \/ /\ Inputs = {i} /\ ~ba.aligning
            /\ ba' = ba /\ todo' = <<m>>
         \/ /\ ba'.aligning /\ ba'.received # Inputs /\ i \in ba'.received
            /\ \/ /\ ba.aligning /\ ba'.received = ba.received \cup {i}
                  /\ ba'.currentBarrier = ba.currentBarrier
               \/ ~ba.aligning /\ ba'.received = {i} /\ ba'.currentBarrier = m
            /\ todo' = << >>
         \/ /\ ba.aligning /\ ba.received \cup {i} = Inputs
            /\ ba' = NewBarrierAligner
            /\ todo' = Append(ba.buffered, ba.currentBarrier)
<1> DEFINE r == OnMessage(ba, NumInputs, i, m)
           tail == IF r.aligned = NoBarrier THEN << >> ELSE <<r.aligned>>
<1>1. ba' = r.ba /\ todo' = r.toProcess \o tail
  BY DEF Dispatch
<1>2. ba \in AlignerState(Inputs) /\ ba.buffered \in Seq(DataMsgs(Inputs) \cup {StopMsg})
  BY DEF TypeOK, AlignerState
<1>3. m.kind = "barrier" /\ \A x \in BarrierMsgs : x # NoBarrier
  BY DEF BarrierMsgs, NoBarrier
<1>4. CASE NumInputs <= 1
  <2>1. r = [ba |-> ba, toProcess |-> << >>, aligned |-> m]
    BY <1>3, <1>4 DEF OnMessage, onBarrier
  <2>2. todo' = << >> \o <<m>> /\ ba' = ba
    BY <1>1, <1>3, <2>1
  <2>3. todo' = <<m>>
    BY <2>2
  <2>4. Inputs = {i}
    BY <1>4, NodeRuntimeAssumption DEF Inputs
  <2>5. ba.received \in SUBSET Inputs
    BY <1>2 DEF AlignerState
  <2>6. ~ba.aligning
    BY <2>4, <2>5 DEF Phase
  <2> QED
    BY <2>2, <2>3, <2>4, <2>6
<1>5. CASE ~(NumInputs <= 1)
  <2> DEFINE st == StartAlignment(ba, m)
             jo == [st EXCEPT !.received = @ \cup {i}]
  <2>1. st \in AlignerState(Inputs)
    BY <1>2, <1>3 DEF StartAlignment, AlignerState, BarrierMsgs
  <2>2. /\ st.buffered = ba.buffered /\ st.aligning = TRUE
        /\ ba.aligning => st.received = ba.received /\ st.currentBarrier = ba.currentBarrier
        /\ ~ba.aligning => st.received = {} /\ st.currentBarrier = m
    BY <1>2 DEF StartAlignment, BufferInv, AlignerState
  <2> HIDE DEF st
  <2>3. /\ jo.buffered = ba.buffered /\ jo.aligning = TRUE /\ i \in jo.received
        /\ jo.received \in SUBSET Inputs
        /\ ba.aligning => jo.received = ba.received \cup {i} /\ jo.currentBarrier = ba.currentBarrier
        /\ ~ba.aligning => jo.received = {i} /\ jo.currentBarrier = m
    BY <2>1, <2>2 DEF AlignerState
  <2>4. r = IF Cardinality(jo.received) = NumInputs
            THEN [ba |-> NewBarrierAligner, toProcess |-> jo.buffered,
                  aligned |-> jo.currentBarrier]
            ELSE [ba |-> jo, toProcess |-> << >>, aligned |-> NoBarrier]
    BY <1>3, <1>5 DEF OnMessage, onBarrier, st
  <2> HIDE DEF jo
  <2>5. CASE jo.received = Inputs
    <3>1. ba.aligning
      <4>1. 1 \in Inputs /\ 2 \in Inputs /\ 1 # 2
        BY <1>5, NodeRuntimeAssumption DEF Inputs
      <4> QED
        BY <2>3, <2>5, <4>1
    <3>2. jo.currentBarrier = ba.currentBarrier /\ ba.currentBarrier \in BarrierMsgs
      BY <2>3, <3>1 DEF Phase
    <3>3. /\ r.ba = NewBarrierAligner /\ r.toProcess = ba.buffered
          /\ r.aligned = ba.currentBarrier
      BY <2>3, <2>4, <2>5, <3>2, AllInputs
    <3> HIDE DEF r
    <3>4. todo' = ba.buffered \o <<ba.currentBarrier>>
      BY <1>1, <1>3, <3>2, <3>3
    <3>5. todo' = Append(ba.buffered, ba.currentBarrier)
      BY <1>2, <3>4
    <3> QED
      BY <1>1, <2>3, <2>5, <3>1, <3>3, <3>5
  <2>6. CASE jo.received # Inputs
    <3>1. r.ba = jo /\ r.toProcess = << >> /\ r.aligned = NoBarrier
      BY <2>3, <2>4, <2>6, AllInputs
    <3>2. todo' = << >> /\ ba' = jo
      BY <1>1, <3>1
    <3> QED
      BY <2>3, <2>6, <3>2
  <2> QED
    BY <2>5, <2>6
<1> QED
  BY <1>4, <1>5

(* Histories that only grow keep what the snapshots cover. *)
LEMMA SnapKept ==
  ASSUME TypeOK, TypeOK', SnapCovered, snaps' = snaps,
         \A i \in Inputs : /\ Len(cut'[i]) >= Len(cut[i])
                           /\ \A e \in 1 .. Len(cut[i]) : cut'[i][e] = cut[i][e],
         Len(handled') >= Len(handled),
         \A k \in 1 .. Len(handled) : handled'[k] = handled[k]
  PROVE  SnapCovered'
<1> SUFFICES ASSUME NEW s \in 1 .. Len(snaps)
             PROVE  /\ snaps[s].epoch >= 1
                    /\ snaps[s].at <= Len(handled')
                    /\ \A i \in Inputs :
                         /\ snaps[s].epoch <= Len(cut'[i])
                         /\ \A n \in 1 .. cut'[i][snaps[s].epoch] :
                              \E k \in 1 .. snaps[s].at : handled'[k] = DataMsg(i, n)
  BY DEF SnapCovered
<1> DEFINE e == snaps[s].epoch
           a == snaps[s].at
<1>1. snaps[s] \in Snap
  BY DEF TypeOK
<1>2. e \in Nat /\ a \in Nat /\ e >= 1 /\ a <= Len(handled)
      /\ Len(handled) \in Nat /\ Len(handled') \in Nat
  BY <1>1 DEF Snap, SnapCovered, TypeOK
<1>3. ASSUME NEW i \in Inputs
      PROVE  /\ e <= Len(cut'[i])
             /\ \A n \in 1 .. cut'[i][e] : \E k \in 1 .. a : handled'[k] = DataMsg(i, n)
  <2>1. /\ e <= Len(cut[i])
        /\ \A n \in 1 .. cut[i][e] : \E k \in 1 .. a : handled[k] = DataMsg(i, n)
    BY DEF SnapCovered
  <2>2. Len(cut[i]) \in Nat /\ Len(cut'[i]) \in Nat
    BY DEF TypeOK
  <2> HIDE DEF e, a
  <2>3. e \in 1 .. Len(cut[i]) /\ e <= Len(cut'[i])
    BY <1>2, <2>1, <2>2
  <2>4. cut'[i][e] = cut[i][e]
    BY <2>3
  <2>5. \A k \in 1 .. a : handled'[k] = handled[k]
    BY <1>2
  <2> QED
    BY <2>1, <2>3, <2>4, <2>5
<1>4. a <= Len(handled')
  <2> HIDE DEF a, e
  <2> QED
    BY <1>2
<1> QED
  BY <1>2, <1>3, <1>4

(* A barrier that is received keeps the epochs aligned. *)
LEMMA BarrierAlign ==
  ASSUME ~Overlap, TypeOK, TypeOK', BufferInv, AlignInv, NEW i \in Inputs, ReceiveBarrier(i)
  PROVE  AlignInv'
<1> DEFINE L(j) == Len(cut[j])
           M(j) == Len(cut'[j])
           ep == L(i) + 1
           m == BarrierMsg(ep, ep \in StopEpochs)
           cb == ba.currentBarrier.epoch
<1>1. /\ Phase /\ LastBarrier /\ SnapCovered /\ SnapshotAligned /\ CutBound /\ EpochKept
      /\ ~exited /\ ~exited' /\ todo = << >>
      /\ UNCHANGED <<snaps, handled, sent>>
      /\ Dispatch(i, m)
  BY DEF AlignInv, ReceiveBarrier, AtSelect, Dispatch
<1>2. \A j \in Inputs : cut[j] \in Seq(Nat) /\ L(j) \in Nat /\ sent[j] \in Nat
  BY DEF TypeOK
<1>3. /\ cut'[i] = Append(cut[i], sent[i])
      /\ \A j \in Inputs : j # i => cut'[j] = cut[j]
      /\ \A j \in Inputs : L(j) >= L(i)
  BY DEF ReceiveBarrier, TypeOK
<1>4. M(i) = L(i) + 1 /\ \A j \in Inputs : j # i => M(j) = L(j)
  BY <1>2, <1>3
<1>5. m \in BarrierMsgs /\ m.epoch = ep /\ m.kind = "barrier"
  BY <1>2 DEF BarrierMsg, BarrierMsgs
<1>6. /\ \A e \in 1 .. L(i) : cut'[i][e] = cut[i][e]
      /\ cut'[i][L(i) + 1] = sent[i]
  BY <1>2, <1>3
<1>7. ASSUME NEW j \in Inputs
      PROVE  M(j) >= L(j) /\ \A e \in 1 .. L(j) : cut'[j][e] = cut[j][e]
  <2>1. CASE j = i
    BY <1>2, <1>4, <1>6, <2>1
  <2>2. CASE j # i
    BY <1>2, <1>3, <1>4, <2>2
  <2> QED
    BY <2>1, <2>2
<1>8. SnapCovered'
  <2>1. Len(handled') >= Len(handled) /\ \A k \in 1 .. Len(handled) : handled'[k] = handled[k]
    BY <1>1 DEF TypeOK
  <2> QED
    BY <1>1, <1>7, <2>1, SnapKept
<1>9. SnapshotAligned'
  BY <1>1 DEF SnapshotAligned
<1>10. CutBound'
  <2> SUFFICES ASSUME NEW j \in Inputs, NEW e \in 1 .. M(j)
               PROVE  cut'[j][e] <= sent[j]
    BY <1>1 DEF CutBound
  <2>1. CASE j # i
    BY <1>1, <1>3, <2>1 DEF CutBound
  <2>2. CASE j = i /\ e \in 1 .. L(i)
    BY <1>1, <1>6, <2>2 DEF CutBound
  <2>3. CASE j = i /\ e = L(i) + 1
    <3>1. cut'[j][e] = sent[j] /\ sent[j] \in Nat
      BY <1>2, <1>6, <2>3
    <3> QED
      BY <3>1
  <2>4. j = i => e \in 1 .. L(i) \/ e = L(i) + 1
    BY <1>2, <1>4
  <2> QED
    BY <2>1, <2>2, <2>3, <2>4
<1>11. \A s \in 1 .. Len(snaps) : snaps[s].epoch \in Nat /\ \A j \in Inputs : snaps[s].epoch <= L(j)
  <2>1. \A s \in 1 .. Len(snaps) : snaps[s] \in Snap
    BY DEF TypeOK
  <2> QED
    BY <1>1, <2>1 DEF Snap, SnapCovered
<1>12. \A s \in 1 .. Len(snaps) : snaps[s].epoch < ep
  BY <1>2, <1>11
<1>13. ASSUME NEW e \in 1 .. MaxEpoch, \A j \in Inputs : e <= L(j)
       PROVE  \E s \in 1 .. Len(snaps) : snaps[s].epoch = e
  BY <1>1, <1>13 DEF EpochKept
<1>14. ba.aligning => /\ ba.currentBarrier \in BarrierMsgs /\ cb \in Nat
                      /\ ba.received # {} /\ ba.received # Inputs
                      /\ ba.received \in SUBSET Inputs
                      /\ \A j \in Inputs : L(j) = IF j \in ba.received THEN cb ELSE cb - 1
  <2>1. ba.received \in SUBSET Inputs
    BY DEF TypeOK, AlignerState
  <2> QED
    BY <1>1, <2>1 DEF Phase, BarrierMsgs
<1>15. ba.aligning => i \notin ba.received /\ ep = cb
  <2> SUFFICES ASSUME ba.aligning PROVE i \notin ba.received /\ ep = cb
    OBVIOUS
  <2>1. PICK j \in Inputs : j \notin ba.received
    BY <1>14
  <2>2. L(j) = cb - 1 /\ L(j) >= L(i) /\ cb \in Nat /\ L(i) \in Nat
    BY <1>2, <1>3, <1>14, <2>1
  <2>3. i \notin ba.received
    <3>1. i \in ba.received => L(i) = cb
      BY <1>14
    <3> HIDE DEF L, cb, ep
    <3> QED
      BY <2>2, <3>1
  <2>4. L(i) = cb - 1
    BY <1>14, <2>3
  <2> QED
    BY <2>2, <2>3, <2>4
<1>16. ~ba.aligning => \A j, k \in Inputs : L(j) = L(k)
  BY <1>1 DEF Phase
<1>17. ep \in Nat /\ ep >= 1 /\ L(i) = ep - 1 /\ M(i) = ep
  BY <1>2, <1>4
<1> HIDE DEF m
<1>18. CASE Inputs = {i} /\ ~ba.aligning /\ ba' = ba /\ todo' = <<m>>
  <2>1. Len(todo') = 1 /\ todo'[1] = m
    BY <1>18
  <2>2. Phase'
    BY <1>18 DEF Phase
  <2>3. LastBarrier'
    BY <1>1, <1>5, <1>12, <1>17, <1>18, <2>1 DEF LastBarrier
  <2>4. EpochKept'
    <3> SUFFICES ASSUME NEW e \in 1 .. MaxEpoch, \A j \in Inputs : e <= M(j)
                 PROVE  \/ \E s \in 1 .. Len(snaps) : snaps[s].epoch = e
                        \/ \E k \in 1 .. Len(todo') : todo'[k].kind = "barrier" /\ todo'[k].epoch = e
      BY <1>1 DEF EpochKept
    <3>1. e <= L(i) \/ e = ep
      BY <1>17
    <3>2. CASE e <= L(i)
      BY <1>13, <1>18, <3>2
    <3>3. CASE e = ep
      BY <1>5, <2>1, <3>3
    <3> QED
      BY <3>1, <3>2, <3>3
  <2> QED
    BY <1>8, <1>9, <1>10, <2>2, <2>3, <2>4 DEF AlignInv
<1>19. CASE /\ ba'.aligning /\ ba'.received # Inputs /\ i \in ba'.received
            /\ \/ /\ ba.aligning /\ ba'.received = ba.received \cup {i}
                  /\ ba'.currentBarrier = ba.currentBarrier
               \/ ~ba.aligning /\ ba'.received = {i} /\ ba'.currentBarrier = m
            /\ todo' = << >>
  <2>1. ba'.currentBarrier \in BarrierMsgs /\ ba'.currentBarrier.epoch = ep
    BY <1>5, <1>14, <1>15, <1>19
  <2>2. ASSUME NEW j \in Inputs
        PROVE  M(j) = IF j \in ba'.received THEN ep ELSE ep - 1
    <3>1. CASE j = i
      BY <1>17, <1>19, <3>1
    <3>2. CASE j # i /\ ba.aligning
      BY <1>4, <1>14, <1>15, <1>19, <3>2
    <3>3. CASE j # i /\ ~ba.aligning
      <4>1. j \notin ba'.received /\ L(j) = L(i)
        BY <1>16, <1>19, <3>3
      <4> QED
        BY <1>4, <1>17, <3>3, <4>1
    <3> QED
      BY <3>1, <3>2, <3>3
  <2>3. Phase'
    <3> HIDE DEF ep
    <3> QED
      BY <1>19, <2>1, <2>2 DEF Phase
  <2>4. LastBarrier'
    BY <1>19 DEF LastBarrier
  <2>5. EpochKept'
    <3> SUFFICES ASSUME NEW e \in 1 .. MaxEpoch, \A j \in Inputs : e <= M(j)
                 PROVE  \E s \in 1 .. Len(snaps) : snaps[s].epoch = e
      BY <1>1 DEF EpochKept
    <3>1. PICK j \in Inputs : j \notin ba'.received
      <4>1. ba'.received \in SUBSET Inputs
        BY DEF TypeOK, AlignerState
      <4> QED
        BY <1>19, <4>1
    <3>2. M(j) = ep - 1 /\ e <= M(j)
      BY <2>2, <3>1
    <3>3. e <= L(i)
      BY <1>17, <3>2
    <3>4. \A k \in Inputs : e <= L(k)
      <4> SUFFICES ASSUME NEW k \in Inputs PROVE e <= L(k)
        OBVIOUS
      <4>1. CASE k = i
        BY <3>3, <4>1
      <4>2. CASE k # i
        BY <1>4, <4>2
      <4> QED
        BY <4>1, <4>2
    <3> QED
      BY <1>13, <3>4
  <2> QED
    BY <1>8, <1>9, <1>10, <2>3, <2>4, <2>5 DEF AlignInv
<1>20. CASE /\ ba.aligning /\ ba.received \cup {i} = Inputs
            /\ ba' = NewBarrierAligner
            /\ todo' = Append(ba.buffered, ba.currentBarrier)
  <2> DEFINE b == ba.buffered
  <2>1. ~ba'.aligning
    BY <1>20 DEF NewBarrierAligner
  <2>2. ASSUME NEW j \in Inputs PROVE M(j) = ep
    <3>1. CASE j = i
      BY <1>17, <3>1
    <3>2. CASE j # i
      BY <1>4, <1>14, <1>15, <1>20, <3>2
    <3> QED
      BY <3>1, <3>2
  <2>3. Phase'
    BY <2>1, <2>2 DEF Phase
  <2>4. b \in Seq(DataMsgs(Inputs) \cup {StopMsg})
    BY HeldTypes
  <2>5. /\ Len(b) \in Nat /\ Len(todo') = Len(b) + 1
        /\ todo'[Len(b) + 1] = ba.currentBarrier
        /\ \A k \in 1 .. Len(b) : todo'[k] = b[k] /\ b[k] \in DataMsgs(Inputs) \cup {StopMsg}
    BY <1>20, <2>4
  <2>6. \A x \in DataMsgs(Inputs) \cup {StopMsg} : x.kind # "barrier"
    BY DEF DataMsgs, StopMsg
  <2>7. \A k \in 1 .. Len(todo') : todo'[k].kind = "barrier" => k = Len(todo')
    BY <2>5, <2>6
  <2>8. todo'[Len(todo')].kind = "barrier" /\ todo'[Len(todo')].epoch = ep
    BY <1>14, <1>15, <1>20, <2>5 DEF BarrierMsgs
  <2>9. LastBarrier'
    <3> SUFFICES ASSUME NEW k \in 1 .. Len(todo'), todo'[k].kind = "barrier"
                 PROVE  /\ k = Len(todo')
                        /\ ~ba'.aligning
                        /\ todo'[k].epoch >= 1
                        /\ \A j \in Inputs : M(j) = todo'[k].epoch
                        /\ \A s \in 1 .. Len(snaps) : snaps[s].epoch < todo'[k].epoch
      BY <1>1 DEF LastBarrier
    <3>1. k = Len(todo') /\ todo'[k].epoch = ep
      BY <2>7, <2>8
    <3> QED
      BY <1>12, <1>17, <2>1, <2>2, <3>1
  <2>10. EpochKept'
    <3> SUFFICES ASSUME NEW e \in 1 .. MaxEpoch, \A j \in Inputs : e <= M(j)
                 PROVE  \/ \E s \in 1 .. Len(snaps) : snaps[s].epoch = e
                        \/ \E k \in 1 .. Len(todo') : todo'[k].kind = "barrier" /\ todo'[k].epoch = e
      BY <1>1 DEF EpochKept
    <3>1. e <= L(i) \/ e = ep
      BY <1>17
    <3>2. CASE e <= L(i)
      <4>1. \A k \in Inputs : e <= L(k)
        BY <1>2, <1>3, <3>2
      <4> QED
        BY <1>13, <4>1
    <3>3. CASE e = ep
      <4>1. Len(todo') \in 1 .. Len(todo')
        BY <2>5
      <4> QED
        BY <2>8, <3>3, <4>1
    <3> QED
      BY <3>1, <3>2, <3>3
  <2> QED
    BY <1>8, <1>9, <1>10, <2>3, <2>9, <2>10 DEF AlignInv
<1> QED
  BY <1>1, <1>5, <1>18, <1>19, <1>20, BarrierDispatch

(* Steps that take no snapshot and receive no barrier. *)
LEMMA AlignKept ==
  ASSUME TypeOK, TypeOK', AlignInv, UNCHANGED <<snaps, cut>>,
         \A j \in Inputs : sent'[j] >= sent[j],
         ba'.aligning = ba.aligning, ba'.received = ba.received,
         ba'.currentBarrier = ba.currentBarrier,
         Len(handled') >= Len(handled),
         \A k \in 1 .. Len(handled) : handled'[k] = handled[k],
         LastBarrier', EpochKept'
  PROVE  AlignInv'
<1>1. Phase /\ SnapCovered /\ SnapshotAligned /\ CutBound
  BY DEF AlignInv
<1>2. Phase'
  BY <1>1 DEF Phase
<1>3. SnapCovered'
  <2>1. \A i \in Inputs : /\ Len(cut'[i]) >= Len(cut[i])
                          /\ \A e \in 1 .. Len(cut[i]) : cut'[i][e] = cut[i][e]
    BY DEF TypeOK
  <2> QED
    BY <1>1, <2>1, SnapKept
<1>4. SnapshotAligned'
  BY <1>1 DEF SnapshotAligned
<1>5. CutBound'
  <2> SUFFICES ASSUME NEW j \in Inputs, NEW e \in 1 .. Len(cut[j])
               PROVE  cut[j][e] <= sent'[j]
    BY DEF CutBound
  <2>1. cut[j][e] \in Nat /\ sent[j] \in Nat /\ sent'[j] \in Nat
    BY DEF TypeOK
  <2>2. cut[j][e] <= sent[j] /\ sent'[j] >= sent[j]
    BY <1>1 DEF CutBound
  <2> QED
    BY <2>1, <2>2
<1> QED
  BY <1>2, <1>3, <1>4, <1>5 DEF AlignInv

(* Handling a message that is not a barrier. *)
LEMMA ConsumeAlign ==
  ASSUME TypeOK, TypeOK', AlignInv, ~exited, todo # << >>, Consume, Head(todo).kind # "barrier",
         UNCHANGED <<ba, snaps, cut, sent>>
  PROVE  AlignInv'
<1>1. /\ handled \in Seq(Message(Inputs)) /\ todo \in Seq(Message(Inputs))
      /\ \A j \in Inputs : sent[j] \in Nat
  BY DEF TypeOK
<1>2. /\ Len(todo) \in Nat /\ Len(todo) >= 1 /\ Len(handled) \in Nat
      /\ Len(handled') = Len(handled) + 1 /\ Len(todo') = Len(todo) - 1
  BY <1>1 DEF Consume
<1>3. /\ \A k \in 1 .. Len(handled) : handled'[k] = handled[k]
      /\ todo[1] = Head(todo)
      /\ \A k \in 1 .. Len(todo) - 1 : todo'[k] = todo[k + 1]
  BY <1>1, <1>2 DEF Consume
<1>4. LastBarrier'
  <2> SUFFICES ASSUME NEW k \in 1 .. Len(todo'), todo'[k].kind = "barrier"
               PROVE  /\ k = Len(todo')
                      /\ ~ba.aligning
                      /\ todo'[k].epoch >= 1
                      /\ \A i \in Inputs : Len(cut[i]) = todo'[k].epoch
                      /\ \A s \in 1 .. Len(snaps) : snaps[s].epoch < todo'[k].epoch
    BY DEF LastBarrier
  <2>1. k + 1 \in 1 .. Len(todo) /\ todo'[k] = todo[k + 1]
    BY <1>2, <1>3
  <2>2. k + 1 = Len(todo)
    BY <2>1 DEF AlignInv, LastBarrier
  <2>3. k = Len(todo')
    BY <1>2, <2>2
  <2> QED
    BY <2>1, <2>3 DEF AlignInv, LastBarrier
<1>5. EpochKept'
  <2> SUFFICES ASSUME NEW e \in 1 .. MaxEpoch,
                      NEW k \in 1 .. Len(todo), todo[k].kind = "barrier", todo[k].epoch = e
               PROVE  \E l \in 1 .. Len(todo') : todo'[l].kind = "barrier" /\ todo'[l].epoch = e
    BY DEF AlignInv, EpochKept
  <2>1. k # 1
    BY <1>3
  <2>2. k - 1 \in 1 .. Len(todo) - 1 /\ (k - 1) + 1 = k /\ k - 1 \in 1 .. Len(todo')
    BY <1>2, <2>1
  <2>3. todo'[k - 1] = todo[k]
    BY <1>3, <2>2
  <2> QED
    BY <2>2, <2>3
<1>6. Len(handled') >= Len(handled) /\ \A j \in Inputs : sent'[j] >= sent[j]
  BY <1>1, <1>2
<1> QED
  BY <1>3, <1>4, <1>5, <1>6, AlignKept

(* The snapshot of an aligned barrier: everything delivered is handled, so  *)
(* what precedes the barrier on any input is.                               *)
LEMMA SnapshotAlign ==
  ASSUME TypeOK, TypeOK', BufferInv, KeptInv, AlignInv, ~exited, todo # << >>,
         Head(todo).kind = "barrier", Snapshot(Head(todo)), todo' \in {<< >>, Tail(todo)},
         UNCHANGED <<ba, cut, sent>>,
         Len(handled') >= Len(handled),
         \A k \in 1 .. Len(handled) : handled'[k] = handled[k]
  PROVE  AlignInv'
<1> DEFINE m == Head(todo)
           e == m.epoch
           a == Len(handled)
           sn == [epoch |-> e, at |-> a, seen |-> [i \in Inputs |-> Len(cut[i])]]
           N == Len(snaps)
<1>1. /\ handled \in Seq(Message(Inputs)) /\ todo \in Seq(Message(Inputs)) /\ snaps \in Seq(Snap)
      /\ Len(todo) \in Nat /\ Len(todo) >= 1 /\ todo[1] = m /\ a \in Nat /\ N \in Nat
      /\ m \in Message(Inputs)
  BY DEF TypeOK
<1>2. m \in BarrierMsgs
  BY <1>1 DEF Message, DataMsgs, WatermarkMsgs, StopMsg
<1>3. e \in Nat
  BY <1>2 DEF BarrierMsgs
<1>4. /\ 1 = Len(todo) /\ ~ba.aligning /\ e >= 1
      /\ \A i \in Inputs : Len(cut[i]) = e
      /\ \A s \in 1 .. N : snaps[s].epoch < e
  <2>1. 1 \in 1 .. Len(todo) /\ todo[1].kind = "barrier"
    BY <1>1
  <2> QED
    BY <1>1, <2>1 DEF AlignInv, LastBarrier
<1>5. ba.buffered = << >>
  BY <1>4 DEF BufferInv
<1>6. todo' = << >>
  <2> DEFINE t == Tail(todo)
  <2>1. t \in Seq(Message(Inputs)) /\ Len(t) = 0
    BY <1>1, <1>4
  <2>2. t = << >>
    <3> HIDE DEF t
    <3> QED
      BY <2>1
  <2> QED
    BY <2>2
<1>7. ASSUME NEW i \in Inputs, NEW n \in 1 .. cut[i][e]
      PROVE  \E k \in 1 .. a : handled[k] = DataMsg(i, n)
  <2>1. e \in 1 .. Len(cut[i])
    BY <1>3, <1>4
  <2>2. cut[i][e] \in Nat /\ sent[i] \in Nat /\ cut[i][e] <= sent[i]
    <3>1. cut[i] \in Seq(Nat) /\ sent[i] \in Nat
      BY DEF TypeOK
    <3>2. CutBound
      BY DEF AlignInv
    <3> HIDE DEF e
    <3> QED
      BY <2>1, <3>1, <3>2 DEF CutBound
  <2>3. n \in 1 .. sent[i]
    BY <2>2
  <2>4. InHand(DataMsg(i, n))
    BY <2>3 DEF KeptInv
  <2>5. DataMsg(i, n).kind = "data"
    BY DEF DataMsg
  <2>6. ~Has(todo, DataMsg(i, n))
    <3>1. \A k \in 1 .. Len(todo) : k = 1
      <4>1. 1 .. Len(todo) = 1 .. 1
        BY <1>4
      <4> QED
        BY <4>1
    <3> QED
      BY <1>1, <2>5, <3>1 DEF Has
  <2>7. ~Has(ba.buffered, DataMsg(i, n))
    BY <1>5 DEF Has
  <2> QED
    BY <2>4, <2>6, <2>7 DEF InHand, Has
<1>8. sn \in Snap /\ sn.epoch = e /\ sn.at = a /\ \A i \in Inputs : sn.seen[i] = Len(cut[i])
  BY <1>1, <1>3, <1>4 DEF Snap
<1>9. snaps' = Append(snaps, sn)
  BY DEF Snapshot
<1> HIDE DEF sn
<1>10. /\ Len(snaps') = N + 1 /\ snaps'[N + 1] = sn
       /\ \A s \in 1 .. N : snaps'[s] = snaps[s]
  BY <1>1, <1>8, <1>9
<1>11. \A s \in 1 .. Len(snaps') : s \in 1 .. N \/ s = N + 1
  BY <1>1, <1>10
<1>12. N + 1 \in 1 .. Len(snaps') /\ \A s \in 1 .. N : s \in 1 .. Len(snaps')
  BY <1>1, <1>10
<1>13. Phase /\ SnapCovered /\ SnapshotAligned /\ CutBound /\ EpochKept
  BY DEF AlignInv
<1>14. Len(handled') \in Nat
  BY DEF TypeOK
<1> HIDE DEF m, e, a, N
<1>15. SnapCovered'
  <2> SUFFICES ASSUME NEW s \in 1 .. Len(snaps')
               PROVE  /\ snaps'[s].epoch >= 1
                      /\ snaps'[s].at <= Len(handled')
                      /\ \A i \in Inputs :
                           /\ snaps'[s].epoch <= Len(cut[i])
                           /\ \A n \in 1 .. cut[i][snaps'[s].epoch] :
                                \E k \in 1 .. snaps'[s].at : handled'[k] = DataMsg(i, n)
    BY DEF SnapCovered
  <2>1. CASE s \in 1 .. N
    <3> DEFINE f == snaps[s].epoch
               c == snaps[s].at
    <3>1. snaps'[s] = snaps[s] /\ snaps[s] \in Snap
      BY <1>1, <1>10, <2>1 DEF N
    <3>2. /\ f >= 1 /\ c <= a
          /\ \A i \in Inputs :
               /\ f <= Len(cut[i])
               /\ \A n \in 1 .. cut[i][f] : \E k \in 1 .. c : handled[k] = DataMsg(i, n)
      BY <1>13, <2>1 DEF SnapCovered, N, a
    <3>3. c \in Nat /\ a \in Nat /\ Len(handled') >= a
      BY <1>1, <3>1 DEF Snap, a
    <3> HIDE DEF f, c
    <3>4. c <= Len(handled') /\ \A k \in 1 .. c : handled'[k] = handled[k]
      <4>1. \A k \in 1 .. c : k \in 1 .. Len(handled)
        BY <3>2, <3>3 DEF a
      <4> QED
        BY <1>14, <3>2, <3>3, <4>1
    <3>5. /\ f >= 1 /\ c <= Len(handled')
          /\ \A i \in Inputs :
               /\ f <= Len(cut[i])
               /\ \A n \in 1 .. cut[i][f] : \E k \in 1 .. c : handled'[k] = DataMsg(i, n)
      BY <3>2, <3>4
    <3> QED
      BY <3>1, <3>5 DEF f, c
  <2>2. CASE s = N + 1
    <3>1. snaps'[s].epoch = e /\ snaps'[s].at = a
      BY <1>8, <1>10, <2>2
    <3>2. \A k \in 1 .. a : handled'[k] = handled[k]
      BY DEF a
    <3>3. Len(handled') >= a
      BY DEF a
    <3>4. \A i \in Inputs : e <= Len(cut[i])
      BY <1>3, <1>4
    <3>5. a <= Len(handled')
      BY <1>1, <1>14, <3>3
    <3> QED
      BY <1>4, <1>7, <3>1, <3>2, <3>4, <3>5
  <2> QED
    BY <1>11, <2>1, <2>2
<1>16. SnapshotAligned'
  <2>1. ASSUME NEW s \in 1 .. Len(snaps'), NEW i \in Inputs
        PROVE  snaps'[s].seen[i] = snaps'[s].epoch
    <3>1. CASE s \in 1 .. N
      BY <1>10, <1>13, <3>1 DEF SnapshotAligned, N
    <3>2. CASE s = N + 1
      BY <1>4, <1>8, <1>10, <3>2
    <3> QED
      BY <1>11, <3>1, <3>2
  <2>2. ASSUME NEW s \in 1 .. Len(snaps'), NEW t \in 1 .. Len(snaps'), s # t
        PROVE  snaps'[s].epoch # snaps'[t].epoch
    <3>0. \A r \in 1 .. N : snaps[r].epoch \in Nat
      <4>1. \A r \in 1 .. N : snaps[r] \in Snap
        BY <1>1 DEF N
      <4> QED
        BY <4>1 DEF Snap
    <3>1. CASE s \in 1 .. N /\ t \in 1 .. N
      BY <1>10, <1>13, <2>2, <3>1 DEF SnapshotAligned, N
    <3>2. CASE s \in 1 .. N /\ t = N + 1
      BY <1>3, <1>4, <1>8, <1>10, <3>0, <3>2
    <3>3. CASE s = N + 1 /\ t \in 1 .. N
      BY <1>3, <1>4, <1>8, <1>10, <3>0, <3>3
    <3> QED
      BY <1>11, <2>2, <3>1, <3>2, <3>3
  <2> QED
    BY <2>1, <2>2 DEF SnapshotAligned
<1>17. EpochKept'
  <2> SUFFICES ASSUME NEW f \in 1 .. MaxEpoch, \A i \in Inputs : f <= Len(cut[i])
               PROVE  \E s \in 1 .. Len(snaps') : snaps'[s].epoch = f
    BY DEF EpochKept
  <2>1. CASE \E s \in 1 .. N : snaps[s].epoch = f
    BY <1>10, <1>12, <2>1
  <2>2. CASE \E k \in 1 .. Len(todo) : todo[k].epoch = f
    <3>1. f = e
      <4>1. 1 .. Len(todo) = 1 .. 1
        BY <1>4
      <4>2. todo[1].epoch = f
        BY <2>2, <4>1
      <4> QED
        BY <1>1, <4>2 DEF e, m
    <3> QED
      BY <1>8, <1>10, <1>12, <3>1
  <2> QED
    BY <1>13, <2>1, <2>2 DEF EpochKept, N
<1>18. LastBarrier'
  BY <1>6 DEF LastBarrier
<1>19. Phase' /\ CutBound'
  BY <1>13 DEF Phase, CutBound
<1> QED
  BY <1>15, <1>16, <1>17, <1>18, <1>19 DEF AlignInv

(* Every step keeps the epochs aligned. *)
LEMMA AlignStep ==
  ASSUME ~Overlap, TypeOK, BufferInv, KeptInv, AlignInv, [Next]_vars
  PROVE  AlignInv'
<1>1. TypeOK'
  BY TypeStep
<1>2. \A j \in Inputs : sent[j] \in Nat
  BY DEF TypeOK
<1>3. /\ Len(handled) >= Len(handled)
      /\ \A j \in Inputs : sent[j] >= sent[j]
  BY <1>2 DEF TypeOK
<1>4. LastBarrier /\ EpochKept
  BY DEF AlignInv
<1>5. ASSUME NEW i \in Inputs, NEW m \in DataMsgs(Inputs) \cup {StopMsg}, AtSelect,
             Dispatch(i, m), UNCHANGED cut, \A j \in Inputs : sent'[j] >= sent[j]
      PROVE  AlignInv'
  <2>1. /\ todo = << >> /\ ~exited
        /\ UNCHANGED <<exited, snaps, handled>>
        /\ ba'.aligning = ba.aligning /\ ba'.received = ba.received
        /\ ba'.currentBarrier = ba.currentBarrier
        /\ \A k \in 1 .. Len(todo') : todo'[k].kind # "barrier"
    BY <1>5, PlainDispatch DEF AtSelect, Dispatch
  <2>2. LastBarrier'
    BY <2>1 DEF LastBarrier
  <2>3. EpochKept'
    BY <1>4, <1>5, <2>1 DEF EpochKept
  <2> QED
    BY <1>1, <1>3, <1>5, <2>1, <2>2, <2>3, AlignKept
<1>6. ASSUME NEW i \in Inputs, ReceiveData(i) PROVE AlignInv'
  <2> DEFINE m == DataMsg(i, sent[i] + 1)
  <2>1. m \in DataMsgs(Inputs)
    BY DEF TypeOK, DataMsg, DataMsgs
  <2>2. AtSelect /\ Dispatch(i, m) /\ UNCHANGED cut /\ \A j \in Inputs : sent'[j] >= sent[j]
    BY <1>2, <1>6 DEF ReceiveData, TypeOK
  <2> HIDE DEF m
  <2> QED
    BY <1>5, <2>1, <2>2
<1>7. ASSUME NEW i \in Inputs, ReceiveBarrier(i) PROVE AlignInv'
  BY <1>1, <1>7, BarrierAlign
<1>8. ASSUME NEW i \in Inputs, ReceiveStop(i) PROVE AlignInv'
  <2>1. AtSelect /\ Dispatch(i, StopMsg) /\ UNCHANGED <<cut, sent>>
    BY <1>8 DEF ReceiveStop
  <2> QED
    BY <1>3, <1>5, <2>1
<1>9. ASSUME NEW i \in Inputs, ReceiveWatermark(i) PROVE AlignInv'
  <2>1. /\ todo = << >> /\ ~exited
        /\ UNCHANGED <<ba, exited, handled, snaps, sent, cut>>
        /\ todo' = << >> \/ \E x \in WatermarkMsgs : todo' = <<x>>
    BY <1>9, WatermarkTodo
  <2>2. \A k \in 1 .. Len(todo') : todo'[k].kind # "barrier"
    BY <2>1 DEF WatermarkMsgs
  <2>3. LastBarrier'
    BY <2>2 DEF LastBarrier
  <2>4. EpochKept'
    BY <1>4, <2>1 DEF EpochKept
  <2> QED
    BY <1>1, <1>3, <2>1, <2>3, <2>4, AlignKept
<1>10. ASSUME exited', todo' = << >>, UNCHANGED <<ba, snaps, cut, sent, handled>>
       PROVE  AlignInv'
  <2>1. LastBarrier' /\ EpochKept'
    BY <1>10 DEF LastBarrier, EpochKept
  <2> QED
    BY <1>1, <1>3, <1>10, <2>1, AlignKept
<1>11. ASSUME ProcessMessage \/ HandleWatermark \/ handleStop PROVE AlignInv'
  <2>1. /\ ~exited /\ todo # << >> /\ Head(todo).kind # "barrier"
        /\ UNCHANGED <<ba, snaps, cut, sent>>
        /\ \/ exited' /\ todo' = << >> /\ UNCHANGED handled
           \/ Consume
    BY <1>11 DEF ProcessMessage, HandleWatermark, handleStop, Fail, Handling, envVars
  <2> QED
    BY <1>1, <1>10, <2>1, ConsumeAlign
<1>12. ASSUME handleAlignedBarrier PROVE AlignInv'
  <2>1. CASE Fail
    BY <1>10, <2>1 DEF Fail, envVars
  <2>2. CASE ~Fail
    <3>1. /\ ~exited /\ todo # << >> /\ Head(todo).kind = "barrier"
          /\ Snapshot(Head(todo)) /\ UNCHANGED <<ba, cut, sent>>
          /\ Consume \/ (todo' = << >> /\ UNCHANGED handled)
      BY <1>12, <2>2 DEF handleAlignedBarrier, Handling, envVars
    <3>2. /\ todo' \in {<< >>, Tail(todo)}
          /\ Len(handled') >= Len(handled)
          /\ \A k \in 1 .. Len(handled) : handled'[k] = handled[k]
      <4>1. CASE Consume
        <5>1. handled' = Append(handled, Head(todo)) /\ todo' = Tail(todo)
              /\ handled \in Seq(Message(Inputs)) /\ Head(todo) \in Message(Inputs)
          BY <3>1, <4>1, ConsumeType DEF Consume, TypeOK
        <5> QED
          BY <5>1
      <4>2. CASE todo' = << >> /\ UNCHANGED handled
        BY <1>3, <4>2
      <4> QED
        BY <3>1, <4>1, <4>2
    <3> QED
      BY <1>1, <3>1, <3>2, SnapshotAlign
  <2> QED
    BY <2>1, <2>2
<1>13. ASSUME Exit PROVE AlignInv'
  BY <1>10, <1>13 DEF Exit, AtSelect, envVars
<1>14. ASSUME Cancel \/ UNCHANGED vars PROVE AlignInv'
  <2>1. UNCHANGED <<ba, exited, todo, handled, snaps, sent, cut>>
    BY <1>14 DEF Cancel, vars, nodeVars, envVars
  <2>2. LastBarrier' /\ EpochKept'
    BY <1>4, <2>1 DEF LastBarrier, EpochKept
  <2> QED
    BY <1>1, <1>3, <2>1, <2>2, AlignKept
<1> QED
  BY <1>6, <1>7, <1>8, <1>9, <1>11, <1>12, <1>13, <1>14 DEF Next

(* The alignment of epochs that do not overlap, with all it rests on. *)
LEMMA AlignedAlways ==
  ASSUME ~Overlap
  PROVE  Spec => []AlignInv
<1>1. Init => KeptInv /\ OrderInv
  BY DEF Init, KeptInv, NewBarrierAligner, OrderInv, Ordered, Before, Delivered, BufferInv
<1>2. Init => AlignInv
  <2> SUFFICES ASSUME Init PROVE AlignInv
    OBVIOUS
  <2>1. /\ ~ba.aligning /\ todo = << >> /\ snaps = << >>
        /\ \A i \in Inputs : cut[i] = << >> /\ Len(cut[i]) = 0
    BY DEF Init, NewBarrierAligner
  <2>2. Phase /\ LastBarrier /\ SnapCovered /\ SnapshotAligned
    BY <2>1 DEF Phase, LastBarrier, SnapCovered, SnapshotAligned
  <2>3. CutBound
    BY <2>1 DEF CutBound
  <2>4. EpochKept
    <3>1. 1 \in Inputs /\ \A e \in 1 .. MaxEpoch : ~(e <= 0)
      BY NodeRuntimeAssumption DEF Inputs
    <3> QED
      BY <2>1, <3>1 DEF EpochKept
  <2> QED
    BY <2>2, <2>3, <2>4 DEF AlignInv
<1>3. TypeOK /\ OrderInv /\ [Next]_vars => OrderInv'
  BY OrderStep
<1>4. TypeOK /\ OrderInv /\ KeptInv /\ [Next]_vars => KeptInv'
  BY KeptStep DEF OrderInv
<1>5. TypeOK /\ OrderInv /\ KeptInv /\ AlignInv /\ [Next]_vars => AlignInv'
  BY AlignStep DEF OrderInv
<1> QED
  BY <1>1, <1>2, <1>3, <1>4, <1>5, TypeCorrect, PTL DEF Spec

(* onBarrier and handleAlignedBarrier: for every number of inputs, when no  *)
(* epoch starts before the previous one is aligned, a snapshot holds all    *)
(* that precedes its barrier on every input.  NodeOverlap.cfg shows that   *)
(* the assumption cannot be dropped.                                        *)
THEOREM SnapshotCoversCorrect ==
  ASSUME ~Overlap
  PROVE  Spec => []SnapshotCovers
<1>1. AlignInv => SnapshotCovers
  BY DEF AlignInv, SnapCovered, SnapshotCovers
<1> QED
  BY <1>1, AlignedAlways, PTL

(* onBarrier: under the same assumption a snapshot of epoch e is taken when *)
(* every input has delivered the barrier of e and none a later one, once.   *)
THEOREM SnapshotAlignedCorrect ==
  ASSUME ~Overlap
  PROVE  Spec => []SnapshotAligned
<1>1. AlignInv => SnapshotAligned
  BY DEF AlignInv
<1> QED
  BY <1>1, AlignedAlways, PTL

(* handleIndexedMessage: under the same assumption no epoch that arrived on *)
(* every input is forgotten, whatever else was buffered or cancelled.       *)
THEOREM BarrierNotLostCorrect ==
  ASSUME ~Overlap
  PROVE  Spec => []BarrierNotLost
<1>1. AlignInv => BarrierNotLost
  BY DEF AlignInv, EpochKept, BarrierNotLost, AtSelect
<1> QED
  BY <1>1, AlignedAlways, PTL
=============================================================================
