------------------------------ MODULE Messages ------------------------------
(***************************************************************************)
(* The messages that travel on the edges of a graph (message.go).  A data  *)
(* message is identified by the input that carries it and its position on  *)
(* that input, which also serves as its event time; keys and values are    *)
(* never looked at by the engine and are left out.                         *)
(***************************************************************************)
EXTENDS Naturals

DataMsg(i, n) == [kind |-> "data", in |-> i, n |-> n]

BarrierMsg(epoch, thenStop) ==
  [kind |-> "barrier", epoch |-> epoch, thenStop |-> thenStop]

WatermarkMsg(time, idle) == [kind |-> "watermark", time |-> time, idle |-> idle]

StopMsg == [kind |-> "stop"]

DataMsgs(I) == [kind : {"data"}, in : I, n : Nat]
BarrierMsgs == [kind : {"barrier"}, epoch : Nat, thenStop : BOOLEAN]
WatermarkMsgs == [kind : {"watermark"}, time : Nat, idle : BOOLEAN]

Message(I) == DataMsgs(I) \cup BarrierMsgs \cup WatermarkMsgs \cup {StopMsg}
=============================================================================
