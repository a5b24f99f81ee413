-------------------------- MODULE NodeTimersProofs --------------------------
(***************************************************************************)
(* Proofs about NodeTimers, for every window, any number of messages and   *)
(* lives and every order of requests: Sleep keeps order and delay,         *)
(* Debounce waits for a quiet window, Deduplicate is exact, and what is    *)
(* held back has its timer.                                                *)
(***************************************************************************)
EXTENDS NodeTimers, EngineLemmas, SequenceTheorems

Keys == {"a", "b"}
Held == [name : Nat, msg : [n : Nat, key : Keys]]
Entries == [key : Keys, at : Nat]
Ops == [counter : Nat, pending : SUBSET Held, seen : SUBSET Entries]
Stamps == [n : Nat, at : Nat]

Sorted(s) == \A j, k \in 1 .. Len(s) : j < k => s[j].at <= s[k].at

-----------------------------------------------------------------------------
(* The timer manager. *)

(* The binary search of a sorted sequence finds the border between what has *)
(* expired and what has not.                                                *)
LEMMA UpToSplits ==
  ASSUME NEW T, \A x \in T : x.at \in Nat,
         NEW s \in Seq(T), Sorted(s), NEW t \in Nat
  PROVE  /\ UpTo(s, t) \in 0 .. Len(s)
         /\ \A k \in 1 .. Len(s) : IF k <= UpTo(s, t) THEN s[k].at <= t ELSE s[k].at > t
<1> DEFINE Border(i) == /\ i > 0 => s[i].at <= t
                        /\ i < Len(s) => s[i + 1].at > t
           late == {k \in 1 .. Len(s) : s[k].at > t}
<1>0. /\ Len(s) \in Nat
      /\ \A k \in 1 .. Len(s) : s[k].at \in Nat
  <2>1. \A k \in 1 .. Len(s) : s[k] \in T
    OBVIOUS
  <2> QED
    BY <2>1
<1>1. \E i \in 0 .. Len(s) : Border(i)
  <2>1. CASE late = {}
    <3>1. Border(Len(s))
      BY <1>0, <2>1
    <3> QED
      BY <3>1, <1>0
  <2>2. CASE late # {}
    <3>1. late \in SUBSET Nat
      BY <1>0
    <3>2. PICK k \in late : \A l \in late : k <= l
      <4> HIDE DEF late
      <4> QED
        BY <2>2, <3>1, LeastNat
    <3>3. k \in 1 .. Len(s) /\ s[k].at > t
      BY <3>2
    <3>4. k - 1 > 0 => s[k - 1].at <= t
      <4> SUFFICES ASSUME k - 1 > 0 PROVE s[k - 1].at <= t
        OBVIOUS
      <4>1. k - 1 \in 1 .. Len(s) /\ ~(k <= k - 1)
        BY <3>3, <1>0
      <4>2. k - 1 \notin late
        BY <3>2, <4>1
      <4>3. ~(s[k - 1].at > t)
        BY <4>1, <4>2
      <4> QED
        BY <4>1, <4>3, <1>0
    <3>5. k - 1 \in 0 .. Len(s) /\ (k - 1) + 1 = k
      BY <3>3, <1>0
    <3>6. Border(k - 1)
      BY <3>3, <3>4, <3>5
    <3> QED
      BY <3>5, <3>6
  <2> QED
    BY <2>1, <2>2
<1>2. UpTo(s, t) = CHOOSE i \in 0 .. Len(s) : Border(i)
  BY DEF UpTo
<1> DEFINE u == UpTo(s, t)
<1>3. u \in 0 .. Len(s) /\ Border(u)
  <2> HIDE DEF Border
  <2> QED
    BY <1>1, <1>2
<1> HIDE DEF u, late
<1>4. ASSUME NEW k \in 1 .. Len(s)
      PROVE  IF k <= u THEN s[k].at <= t ELSE s[k].at > t
  <2>1. CASE k <= u
    <3>1. u \in 1 .. Len(s) /\ s[u].at <= t
      BY <1>0, <1>3, <1>4, <2>1
    <3>2. s[k].at <= s[u].at
      BY <1>0, <1>4, <2>1, <3>1 DEF Sorted
    <3> QED
      BY <1>0, <1>4, <2>1, <3>1, <3>2
  <2>2. CASE ~(k <= u)
    <3>1. u + 1 \in 1 .. Len(s) /\ s[u + 1].at > t /\ u + 1 <= k
      BY <1>0, <1>3, <1>4, <2>2
    <3>2. s[u + 1].at <= s[k].at
      BY <1>0, <1>4, <3>1 DEF Sorted
    <3> QED
      BY <1>0, <1>4, <2>2, <3>1, <3>2
  <2> QED
    BY <2>1, <2>2
<1> QED
  BY <1>3, <1>4 DEF u

(* Register puts the timer behind all that fire before it or with it, and   *)
(* leaves the others in their order.                                        *)
LEMMA RegisterInserts ==
  ASSUME NEW T, \A x \in T : x.at \in Nat,
         NEW s \in Seq(T), Sorted(s), NEW nm, NEW at \in Nat, [name |-> nm, at |-> at] \in T
  PROVE  /\ Register(s, nm, at) \in Seq(T)
         /\ Sorted(Register(s, nm, at))
         /\ Len(Register(s, nm, at)) = Len(s) + 1
         /\ \A k \in 1 .. Len(s) + 1 :
              Register(s, nm, at)[k] = IF k <= UpTo(s, at) THEN s[k]
                                       ELSE IF k = UpTo(s, at) + 1 THEN [name |-> nm, at |-> at]
                                       ELSE s[k - 1]
<1> DEFINE u == UpTo(s, at)
           x == [name |-> nm, at |-> at]
           front == SubSeq(s, 1, u)
           back == SubSeq(s, u + 1, Len(s))
           r == front \o <<x>> \o back
<1>1. Register(s, nm, at) = r
  BY DEF Register
<1>2. /\ Len(s) \in Nat
      /\ u \in 0 .. Len(s)
      /\ \A k \in 1 .. Len(s) : IF k <= u THEN s[k].at <= at ELSE s[k].at > at
      /\ \A k \in 1 .. Len(s) : s[k] \in T /\ s[k].at \in Nat
  <2>1. \A k \in 1 .. Len(s) : s[k] \in T
    OBVIOUS
  <2>2. \A k \in 1 .. Len(s) : s[k].at \in Nat
    BY <2>1
  <2>3. Len(s) \in Nat
    OBVIOUS
  <2>4. /\ UpTo(s, at) \in 0 .. Len(s)
        /\ \A k \in 1 .. Len(s) : IF k <= UpTo(s, at) THEN s[k].at <= at ELSE s[k].at > at
    BY UpToSplits
  <2> QED
    BY <2>1, <2>2, <2>3, <2>4
<1>3. x \in T /\ x.at = at
  OBVIOUS
<1> HIDE DEF u, x
<1>4. /\ front \in Seq(T) /\ Len(front) = u
      /\ \A k \in 1 .. u : front[k] = s[k]
  <2>1. \A i \in 1 .. u : s[i] \in T
    BY <1>2
  <2>2. /\ SubSeq(s, 1, u) \in Seq(T)
        /\ Len(SubSeq(s, 1, u)) = IF 1 <= u THEN u - 1 + 1 ELSE 0
        /\ \A i \in 1 .. u - 1 + 1 : SubSeq(s, 1, u)[i] = s[1 + i - 1]
    BY <1>2, <2>1, SubSeqProperties
  <2> QED
    BY <1>2, <2>2
<1>5. /\ back \in Seq(T) /\ Len(back) = Len(s) - u
      /\ \A k \in 1 .. Len(s) - u : back[k] = s[u + k]
  <2>1. \A i \in u + 1 .. Len(s) : s[i] \in T
    BY <1>2
  <2>2. /\ SubSeq(s, u + 1, Len(s)) \in Seq(T)
        /\ Len(SubSeq(s, u + 1, Len(s))) = IF u + 1 <= Len(s) THEN Len(s) - (u + 1) + 1 ELSE 0
        /\ \A i \in 1 .. Len(s) - (u + 1) + 1 : SubSeq(s, u + 1, Len(s))[i] = s[(u + 1) + i - 1]
    BY <1>2, <2>1, SubSeqProperties
  <2> QED
    BY <1>2, <2>2
<1> HIDE DEF front, back
<1>6. /\ r \in Seq(T)
      /\ Len(r) = Len(s) + 1
      /\ \A k \in 1 .. Len(s) + 1 : r[k] = IF k <= u THEN s[k]
                                           ELSE IF k = u + 1 THEN x ELSE s[k - 1]
  <2> DEFINE f == front \o <<x>>
  <2>1. /\ f \in Seq(T) /\ Len(f) = u + 1
        /\ \A k \in 1 .. u : f[k] = s[k]
        /\ f[u + 1] = x
    BY <1>2, <1>3, <1>4
  <2>2. r = f \o back
    OBVIOUS
  <2> HIDE DEF f, r
  <2>3. /\ r \in Seq(T) /\ Len(r) = Len(s) + 1
        /\ \A k \in 1 .. u + 1 : r[k] = f[k]
        /\ \A k \in 1 .. Len(s) - u : r[u + 1 + k] = back[k]
    BY <1>2, <1>5, <2>1, <2>2
  <2>4. ASSUME NEW k \in 1 .. Len(s) + 1
        PROVE  r[k] = IF k <= u THEN s[k] ELSE IF k = u + 1 THEN x ELSE s[k - 1]
    <3>1. CASE k <= u + 1
      BY <3>1, <1>2, <2>1, <2>3
    <3>2. CASE ~(k <= u + 1)
      <4>1. k - (u + 1) \in 1 .. Len(s) - u /\ u + 1 + (k - (u + 1)) = k /\ u + (k - (u + 1)) = k - 1
        BY <3>2, <1>2
      <4>2. r[k] = back[k - (u + 1)] /\ back[k - (u + 1)] = s[k - 1]
        BY <4>1, <2>3, <1>5
      <4> QED
        BY <3>2, <4>2, <1>2
    <3> QED
      BY <3>1, <3>2
  <2> QED
    BY <2>3, <2>4
<1> HIDE DEF r
<1>7. Sorted(r)
  <2> SUFFICES ASSUME NEW j \in 1 .. Len(s) + 1, NEW k \in 1 .. Len(s) + 1, j < k
               PROVE  r[j].at <= r[k].at
    BY <1>6 DEF Sorted
  <2>1. CASE k <= u
    <3>1. r[j] = s[j] /\ r[k] = s[k] /\ j \in 1 .. Len(s) /\ k \in 1 .. Len(s)
      BY <2>1, <1>2, <1>6
    <3> QED
      BY <3>1 DEF Sorted
  <2>0. u \in Nat /\ k \in Nat /\ j \in Nat
    <3>1. u \in Nat
      BY <1>2
    <3>2. k \in Nat /\ j \in Nat
      OBVIOUS
    <3> QED
      BY <3>1, <3>2
  <2>2. CASE k = u + 1
    <3>1. j <= u /\ ~(k <= u)
      BY <2>0, <2>2
    <3>2. r[j] = s[j] /\ r[k] = x
      BY <2>2, <3>1, <1>6
    <3>3. j \in 1 .. Len(s)
      BY <3>1, <1>2
    <3>4. s[j].at <= at
      BY <3>1, <3>3, <1>2
    <3> QED
      BY <3>2, <3>4, <1>3
  <2>3. CASE k > u + 1
    <3>1. r[k] = s[k - 1] /\ k - 1 \in 1 .. Len(s) /\ s[k - 1].at > at
      BY <2>3, <1>2, <1>6
    <3>2. CASE j <= u
      <4>1. r[j] = s[j] /\ j \in 1 .. Len(s)
        BY <3>2, <1>2, <1>6
      <4>2. s[j].at <= at /\ s[j].at \in Nat /\ s[k - 1].at \in Nat
        BY <3>1, <3>2, <4>1, <1>2
      <4> QED
        BY <3>1, <4>1, <4>2
    <3>3. CASE j = u + 1
      BY <3>1, <3>3, <1>2, <1>3, <1>6
    <3>4. CASE j > u + 1
      <4>1. r[j] = s[j - 1] /\ j - 1 \in 1 .. Len(s) /\ j - 1 < k - 1
        BY <2>3, <3>4, <1>2, <1>6
      <4> QED
        BY <3>1, <4>1 DEF Sorted
    <3> QED
      BY <3>2, <3>3, <3>4, <1>2
  <2>4. k <= u \/ k = u + 1 \/ k > u + 1
    BY <2>0
  <2> QED
    BY <2>1, <2>2, <2>3, <2>4
<1> QED
  BY <1>1, <1>6, <1>7 DEF u, x

(* PopExpired cuts the sequence in two and keeps the order: what is in      *)
(* front has expired.                                                       *)
LEMMA PopSplits ==
  ASSUME NEW T, \A x \in T : x.at \in Nat,
         NEW s \in Seq(T), Sorted(s), NEW t \in Nat
  PROVE  LET e == PopExpired(s, t).expired
             r == PopExpired(s, t).timers
         IN  /\ e \in Seq(T) /\ r \in Seq(T)
             /\ Sorted(r)
             /\ Len(s) = Len(e) + Len(r)
             /\ \A k \in 1 .. Len(e) : e[k] = s[k] /\ e[k].at <= t
             /\ \A k \in 1 .. Len(r) : r[k] = s[Len(e) + k]
<1> DEFINE u == UpTo(s, t)
           e == SubSeq(s, 1, u)
           r == SubSeq(s, u + 1, Len(s))
<1>1. PopExpired(s, t).expired = e /\ PopExpired(s, t).timers = r
  BY DEF PopExpired
<1>2. /\ Len(s) \in Nat
      /\ u \in 0 .. Len(s)
      /\ \A k \in 1 .. Len(s) : IF k <= u THEN s[k].at <= t ELSE s[k].at > t
      /\ \A k \in 1 .. Len(s) : s[k] \in T /\ s[k].at \in Nat
  <2>1. \A k \in 1 .. Len(s) : s[k] \in T
    OBVIOUS
  <2>2. \A k \in 1 .. Len(s) : s[k].at \in Nat
    BY <2>1
  <2>3. Len(s) \in Nat
    OBVIOUS
  <2>4. /\ UpTo(s, t) \in 0 .. Len(s)
        /\ \A k \in 1 .. Len(s) : IF k <= UpTo(s, t) THEN s[k].at <= t ELSE s[k].at > t
    BY UpToSplits
  <2> QED
    BY <2>1, <2>2, <2>3, <2>4
<1> HIDE DEF u
<1>3. /\ e \in Seq(T) /\ Len(e) = u
      /\ \A k \in 1 .. u : e[k] = s[k]
  <2>1. \A i \in 1 .. u : s[i] \in T
    BY <1>2
  <2>2. /\ SubSeq(s, 1, u) \in Seq(T)
        /\ Len(SubSeq(s, 1, u)) = IF 1 <= u THEN u - 1 + 1 ELSE 0
        /\ \A i \in 1 .. u - 1 + 1 : SubSeq(s, 1, u)[i] = s[1 + i - 1]
    BY <1>2, <2>1, SubSeqProperties
  <2> QED
    BY <1>2, <2>2
<1>4. /\ r \in Seq(T) /\ Len(r) = Len(s) - u
      /\ \A k \in 1 .. Len(s) - u : r[k] = s[u + k]
  <2>1. \A i \in u + 1 .. Len(s) : s[i] \in T
    BY <1>2
  <2>2. /\ SubSeq(s, u + 1, Len(s)) \in Seq(T)
        /\ Len(SubSeq(s, u + 1, Len(s))) = IF u + 1 <= Len(s) THEN Len(s) - (u + 1) + 1 ELSE 0
        /\ \A i \in 1 .. Len(s) - (u + 1) + 1 : SubSeq(s, u + 1, Len(s))[i] = s[(u + 1) + i - 1]
    BY <1>2, <2>1, SubSeqProperties
  <2> QED
    BY <1>2, <2>2
<1> HIDE DEF e, r
<1>5. Sorted(r)
  <2> SUFFICES ASSUME NEW j \in 1 .. Len(r), NEW k \in 1 .. Len(r), j < k
               PROVE  r[j].at <= r[k].at
    BY DEF Sorted
  <2>1. /\ r[j] = s[u + j] /\ r[k] = s[u + k] /\ u + j < u + k
        /\ u + j \in 1 .. Len(s) /\ u + k \in 1 .. Len(s)
    BY <1>2, <1>4
  <2> QED
    BY <2>1 DEF Sorted
<1>6. \A k \in 1 .. Len(e) : e[k] = s[k] /\ e[k].at <= t
  BY <1>2, <1>3
<1> QED
  BY <1>1, <1>2, <1>3, <1>4, <1>5, <1>6

(* A restored sequence of timers is the one of which the snapshot was       *)
(* taken.                                                                   *)
LEMMA RestoreKeeps ==
  ASSUME NEW N, NEW s \in Seq([name : N, at : Nat])
  PROVE  Restore(Snapshot(s)) = s
<1> DEFINE T == [name : N, at : Nat]
<1>1. Len(s) \in Nat /\ \A k \in 1 .. Len(s) : s[k] \in T
  <2> HIDE DEF T
  <2>1. s \in Seq(T)
    BY DEF T
  <2> QED
    BY <2>1
<1>2. \A x \in T : [name |-> x.name, at |-> x.at] = x
  OBVIOUS
<1>3. s = [k \in 1 .. Len(s) |-> s[k]]
  OBVIOUS
<1> HIDE DEF T
<1>4. /\ Len(Snapshot(s)) = Len(s)
      /\ \A k \in 1 .. Len(s) : Snapshot(s)[k] = <<s[k].name, s[k].at>>
  BY <1>1 DEF Snapshot
<1>5. Restore(Snapshot(s)) =
        [k \in 1 .. Len(s) |-> [name |-> Snapshot(s)[k][1], at |-> Snapshot(s)[k][2]]]
  BY <1>4 DEF Restore
<1>6. \A k \in 1 .. Len(s) : [name |-> Snapshot(s)[k][1], at |-> Snapshot(s)[k][2]] = s[k]
  <2> SUFFICES ASSUME NEW k \in 1 .. Len(s)
               PROVE  [name |-> Snapshot(s)[k][1], at |-> Snapshot(s)[k][2]] = s[k]
    OBVIOUS
  <2>1. Snapshot(s)[k] = <<s[k].name, s[k].at>>
    BY <1>4
  <2>2. [name |-> s[k].name, at |-> s[k].at] = s[k]
    BY <1>1, <1>2
  <2> QED
    BY <2>1, <2>2
<1> QED
  BY <1>3, <1>5, <1>6
-----------------------------------------------------------------------------
(* The invariant of the loop. *)

(* A message of the input, and room for it if it is data. *)
Acceptable(msg) ==
  /\ msg.type \in {"data", "barrier", "stop"}
  /\ msg.type = "data" => msg.key \in Keys /\ Len(arrived) < setup.data
  /\ msg.type = "barrier" => msg.thenStop \in BOOLEAN

LoopInv ==
  /\ setup \in Setups
  /\ now \in Nat /\ life \in 1 .. setup.lives
  /\ pc \in {"top", "select", "fire", "wait", "gone"}
  /\ tick \in BOOLEAN /\ paused \in BOOLEAN /\ cancelled \in BOOLEAN /\ ended \in BOOLEAN
  /\ tick => kind = "tick"
  /\ pc = "wait" => Len(held) = 1 /\ Acceptable(held[1])

(* What a step does to the timers and the operator: nothing, but for a      *)
(* tick, a checkpoint and the clock, ...                                    *)
Idle ==
  /\ UNCHANGED <<setup, op, tm, due, arrived, life>>
  /\ now' \in {now, now + 1}
  /\ \/ emitted' = emitted
     \/ kind = "tick" /\ emitted' = Append(emitted, [n |-> 0, at |-> now])
  /\ saved' = saved \/ saved' = <<HandleCheckpoint(kind, op, tm)>>
  /\ pc = "gone" => pc' = "gone"
  /\ pc' = "fire" => pc = "fire"
  /\ pc = "fire" /\ pc' # "fire" => due = << >>
  /\ cancelled => cancelled'

(* ... expired timers are popped, ... *)
Pop ==
  /\ pc \in {"top", "select"} /\ pc' = "fire"
  /\ due' = PopExpired(tm, now).expired
  /\ tm' = PopExpired(tm, now).timers
  /\ UNCHANGED <<setup, now, op, arrived, emitted, cancelled, saved, life>>

(* ... a popped timer is handled, ... *)
Fire == FireTimer /\ due # << >>

(* ... or a data message is. *)
Deliver(key) ==
  /\ pc \in {"select", "wait"} /\ Len(arrived) < setup.data
  /\ HandleData(key)
  /\ UNCHANGED <<setup, now, due, life>>

(* What the setups allow: the fields of the one that runs. *)
LEMMA SetupType ==
  ASSUME setup \in Setups
  PROVE  /\ kind \in {"sleep", "debounce", "dedup", "tick"}
         /\ setup.keys \subseteq Keys
         /\ setup.data \in Nat
         /\ setup.lives \in Nat
         /\ Window \in Nat
<1> DEFINE S == [kind : {"sleep", "debounce", "dedup", "tick"},
                 requests : SUBSET {"pause", "resume", "terminate"}, lives : Nat \ {0},
                 keys : SUBSET {"a", "b"}, data : 0 .. MaxData]
<1>1. setup \in S
  BY NodeTimersAssumption
<1>2. setup.data \in 0 .. MaxData
  BY <1>1
<1> QED
  BY <1>1, <1>2, NodeTimersAssumption DEF kind, Keys

(* Every message of the input is acceptable. *)
LEMMA IncomingAcceptable ==
  ASSUME setup \in Setups, NEW msg \in Incoming
  PROVE  Acceptable(msg)
<1>1. setup.keys \subseteq Keys
  BY SetupType
<1>2. \/ msg \in [type : {"data"}, key : setup.keys] /\ Len(arrived) < setup.data
      \/ msg \in [type : {"barrier"}, thenStop : BOOLEAN]
      \/ msg = [type |-> "stop"]
  BY Zenon DEF Incoming
<1>3. CASE msg \in [type : {"data"}, key : setup.keys] /\ Len(arrived) < setup.data
  BY <1>1, <1>3 DEF Acceptable
<1>4. CASE msg \in [type : {"barrier"}, thenStop : BOOLEAN]
  <2>1. msg.type = "barrier"
    BY <1>4
  <2>2. msg.thenStop \in BOOLEAN
    BY <1>4, Zenon
  <2> QED
    BY <2>1, <2>2 DEF Acceptable
<1>5. CASE msg = [type |-> "stop"]
  BY <1>5 DEF Acceptable
<1> QED
  BY <1>2, <1>3, <1>4, <1>5

(* Barriers and stops leave the operator alone. *)
LEMMA HandleCases ==
  ASSUME NEW msg, Acceptable(msg), cancelled \in BOOLEAN, Handle(msg)
  PROVE  /\ cancelled' \in BOOLEAN
         /\ cancelled => cancelled'
         /\ pc' \in {"top", "gone"}
         /\ \/ msg.key \in Keys /\ Len(arrived) < setup.data /\ HandleData(msg.key)
            \/ /\ UNCHANGED opVars
               /\ saved' = saved \/ saved' = <<HandleCheckpoint(kind, op, tm)>>
<1>1. CASE msg.type = "data"
  <2>1. HandleData(msg.key)
    BY <1>1, Zenon DEF Handle
  <2>2. UNCHANGED cancelled /\ pc' \in {"top", "gone"}
    BY <2>1 DEF HandleData
  <2> QED
    BY <1>1, <2>1, <2>2 DEF Acceptable
<1>2. CASE msg.type = "barrier"
  <2>1. HandleBarrier(msg.thenStop)
    BY <1>2 DEF Handle
  <2>2. \/ /\ saved' = <<HandleCheckpoint(kind, op, tm)>>
           /\ cancelled' = (cancelled \/ msg.thenStop)
           /\ pc' = "top"
        \/ pc' = "gone" /\ UNCHANGED <<saved, cancelled>>
    BY <2>1, Zenon DEF HandleBarrier
  <2>3. UNCHANGED opVars
    BY <2>1 DEF HandleBarrier
  <2>4. cancelled' \in BOOLEAN /\ (cancelled => cancelled')
    BY <2>2, Zenon
  <2>5. pc' \in {"top", "gone"} /\ (saved' = saved \/ saved' = <<HandleCheckpoint(kind, op, tm)>>)
    BY <2>2
  <2> QED
    BY <2>3, <2>4, <2>5
<1>3. CASE msg.type = "stop"
  <2>1. HandleStop
    BY <1>3 DEF Handle
  <2> QED
    BY <2>1 DEF HandleStop
<1> QED
  BY <1>1, <1>2, <1>3 DEF Acceptable
(* Every step of the node is one of these, and keeps the loop's invariant. *)
LEMMA StepCases ==
  ASSUME LoopInv, [Next]_vars
  PROVE  Idle \/ Pop \/ Fire \/ Restart \/ \E key \in Keys : Deliver(key)
<1> USE DEF LoopInv
<1>1. CASE Top
  <2>1. CASE Expired(tm, now)
    <3>1. Pop
      BY <1>1, <2>1 DEF Top, Pop
    <3> QED
      BY <3>1
  <2>2. CASE ~Expired(tm, now)
    <3>1. Idle
      BY <1>1, <2>2 DEF Top, Idle
    <3> QED
      BY <3>1
  <2> QED
    BY <2>1, <2>2
<1>2. CASE FireTimer
  <2>1. CASE due = << >>
    <3>1. Idle
      BY <1>2, <2>1 DEF FireTimer, Idle
    <3> QED
      BY <3>1
  <2>2. CASE due # << >>
    BY <1>2, <2>2 DEF Fire
  <2> QED
    BY <2>1, <2>2
<1>3. CASE SelectDone
  <2>1. Idle
    BY <1>3 DEF SelectDone, Idle, opVars
  <2> QED
    BY <2>1
<1>4. CASE SelectControl
  <2>1. Idle
    BY <1>4 DEF SelectControl, Idle, opVars
  <2> QED
    BY <2>1
<1>5. CASE SelectTimer
  <2>1. CASE paused
    <3>1. Idle
      BY <1>5, <2>1 DEF SelectTimer, Idle
    <3> QED
      BY <3>1
  <2>2. CASE ~paused
    <3>1. Pop
      BY <1>5, <2>2 DEF SelectTimer, Pop
    <3> QED
      BY <3>1
  <2> QED
    BY <2>1, <2>2
<1>6. CASE SelectTick
  <2>1. Idle
    BY <1>6 DEF SelectTick, Idle
  <2> QED
    BY <2>1
<1>7. CASE SelectMerged
  <2>1. PICK msg \in Incoming :
          IF paused THEN /\ pc' = "wait"
                         /\ UNCHANGED <<opVars, cancelled, saved>>
          ELSE Handle(msg)
    BY <1>7 DEF SelectMerged
  <2>2. pc = "select" /\ UNCHANGED <<setup, now, due, life>>
    BY <1>7 DEF SelectMerged
  <2>3. CASE paused
    <3>1. Idle
      BY <2>1, <2>2, <2>3 DEF Idle, opVars
    <3> QED
      BY <3>1
  <2>4. CASE ~paused
    <3>1. Acceptable(msg) /\ Handle(msg)
      BY <2>1, <2>4, IncomingAcceptable
    <3>2. CASE msg.key \in Keys /\ Len(arrived) < setup.data /\ HandleData(msg.key)
      BY <2>2, <3>2 DEF Deliver
    <3>3. CASE /\ UNCHANGED opVars
               /\ saved' = saved \/ saved' = <<HandleCheckpoint(kind, op, tm)>>
      <4>1. pc' \in {"top", "gone"} /\ (cancelled => cancelled')
        BY <3>1, HandleCases
      <4>2. Idle
        BY <2>2, <3>3, <4>1 DEF Idle, opVars
      <4> QED
        BY <4>2
    <3> QED
      BY <3>1, <3>2, <3>3, HandleCases
  <2> QED
    BY <2>3, <2>4
<1>8. CASE WaitControl
  <2>1. pc = "wait" /\ UNCHANGED <<setup, now, due, life>>
    BY <1>8 DEF WaitControl
  <2>2. CASE ~cancelled /\ Handle(held[1])
    <3>1. Acceptable(held[1])
      BY <2>1
    <3>2. CASE held[1].key \in Keys /\ Len(arrived) < setup.data /\ HandleData(held[1].key)
      BY <2>1, <3>2 DEF Deliver
    <3>3. CASE /\ UNCHANGED opVars
               /\ saved' = saved \/ saved' = <<HandleCheckpoint(kind, op, tm)>>
      <4>1. pc' \in {"top", "gone"}
        BY <3>1, <2>2, HandleCases
      <4>2. Idle
        BY <2>1, <2>2, <3>3, <4>1 DEF Idle, opVars
      <4> QED
        BY <4>2
    <3> QED
      BY <2>2, <3>1, <3>2, <3>3, HandleCases
  <2>3. CASE pc' = "gone" /\ UNCHANGED <<opVars, saved>> /\ (cancelled' = cancelled \/ cancelled')
    <3>1. Idle
      BY <2>1, <2>3 DEF Idle, opVars
    <3> QED
      BY <3>1
  <2> QED
    BY <1>8, <2>2, <2>3 DEF WaitControl
<1>9. CASE Advance
  <2>1. Idle
    BY <1>9 DEF Advance, Idle, opVars, loopVars
  <2> QED
    BY <2>1
<1>10. CASE SendControl
  <2>1. Idle
    BY <1>10 DEF SendControl, Idle, opVars, loopVars
  <2> QED
    BY <2>1
<1>11. CASE Cancel
  <2>1. Idle
    BY <1>11 DEF Cancel, Idle, opVars
  <2> QED
    BY <2>1
<1>12. CASE UNCHANGED vars
  <2>1. Idle
    BY <1>12 DEF vars, Idle, opVars, loopVars
  <2> QED
    BY <2>1
<1> QED
  BY <1>1, <1>2, <1>3, <1>4, <1>5, <1>6, <1>7, <1>8, <1>9, <1>10, <1>11, <1>12, Zenon
     DEF Next, LoopStep

(* The part of the invariant about the loop holds at the start ... *)
LEMMA LoopInit == Init => LoopInv
<1> SUFFICES ASSUME Init PROVE LoopInv
  OBVIOUS
<1>1. setup.lives \in Nat \ {0}
  <2> DEFINE S == [kind : {"sleep", "debounce", "dedup", "tick"},
                   requests : SUBSET {"pause", "resume", "terminate"}, lives : Nat \ {0},
                   keys : SUBSET {"a", "b"}, data : 0 .. MaxData]
  <2>1. setup \in S
    BY NodeTimersAssumption DEF Init
  <2> QED
    BY <2>1
<1>2. life \in 1 .. setup.lives
  BY <1>1 DEF Init
<1>3. /\ setup \in Setups /\ now = 1 /\ pc = "top" /\ tick = FALSE
      /\ paused = FALSE /\ cancelled = FALSE /\ ended = FALSE
  BY DEF Init
<1> QED
  BY <1>2, <1>3 DEF LoopInv

(* A message held in front of waitForResume stays acceptable. *)
LEMMA HeldKept ==
  ASSUME LoopInv, UNCHANGED <<setup, held, arrived>>, pc' = "wait" => pc = "wait"
  PROVE  (pc = "wait" => Len(held) = 1 /\ Acceptable(held[1]))'
BY DEF LoopInv, Acceptable

(* ... and every step of the loop and of its environment keeps it. *)
LEMMA LoopStepKeeps == LoopInv /\ [Next]_vars => LoopInv'
<1> SUFFICES ASSUME LoopInv, [Next]_vars PROVE LoopInv'
  OBVIOUS
<1> DEFINE HeldPart == pc = "wait" => Len(held) = 1 /\ Acceptable(held[1])
           Flags == /\ tick \in BOOLEAN /\ paused \in BOOLEAN /\ cancelled \in BOOLEAN
                    /\ ended \in BOOLEAN
                    /\ tick => kind = "tick"
           Rest == /\ setup \in Setups
                   /\ now \in Nat /\ life \in 1 .. setup.lives
                   /\ pc \in {"top", "select", "fire", "wait", "gone"}
<1>0. HeldPart /\ Flags /\ Rest
  BY DEF LoopInv
<1> SUFFICES HeldPart' /\ Flags' /\ Rest'
  BY DEF LoopInv
<1>1. CASE Top
  <2>1. HeldPart'
    BY <1>1, HeldKept DEF Top
  <2>2. Flags' /\ Rest'
    BY <1>0, <1>1 DEF Top, kind
  <2> QED
    BY <2>1, <2>2
<1>2. CASE FireTimer
  <2>1. HeldPart'
    BY <1>2, HeldKept DEF FireTimer
  <2>2. Flags' /\ Rest'
    BY <1>0, <1>2 DEF FireTimer, kind
  <2> QED
    BY <2>1, <2>2
<1>3. CASE SelectDone
  <2>1. HeldPart'
    BY <1>3, HeldKept DEF SelectDone, opVars
  <2>2. Flags' /\ Rest'
    BY <1>0, <1>3 DEF SelectDone, kind
  <2> QED
    BY <2>1, <2>2
<1>4. CASE SelectControl
  <2>1. HeldPart'
    BY <1>4 DEF SelectControl
  <2>2. paused' \in BOOLEAN
    BY <1>0, <1>4 DEF SelectControl
  <2>3. Flags' /\ Rest'
    BY <1>0, <1>4, <2>2 DEF SelectControl, kind
  <2> QED
    BY <2>1, <2>3
<1>5. CASE SelectTimer
  <2>1. HeldPart'
    BY <1>5 DEF SelectTimer
  <2>2. Flags' /\ Rest'
    BY <1>0, <1>5 DEF SelectTimer, kind
  <2> QED
    BY <2>1, <2>2
<1>6. CASE SelectTick
  <2>1. HeldPart'
    BY <1>6 DEF SelectTick
  <2>2. Flags' /\ Rest'
    BY <1>0, <1>6 DEF SelectTick, kind
  <2> QED
    BY <2>1, <2>2
<1>7. CASE SelectMerged
  <2>1. PICK msg \in Incoming :
          /\ ended' = (msg.type = "stop" \/ (msg.type = "barrier" /\ msg.thenStop))
          /\ IF paused THEN /\ pc' = "wait" /\ held' = <<msg>>
                            /\ UNCHANGED <<opVars, cancelled, saved>>
             ELSE Handle(msg) /\ UNCHANGED held
    BY <1>7 DEF SelectMerged
  <2>2. UNCHANGED <<setup, now, life, paused, tick>>
    BY <1>7 DEF SelectMerged
  <2>3. Acceptable(msg)
    BY <1>0, IncomingAcceptable
  <2>4. ended' \in BOOLEAN
    BY <2>1, Zenon
  <2>5. CASE paused
    <3>1. pc' = "wait" /\ held' = <<msg>> /\ UNCHANGED <<arrived, cancelled>>
      BY <2>1, <2>5 DEF opVars
    <3>2. HeldPart'
      BY <2>2, <2>3, <3>1 DEF Acceptable
    <3>3. Flags' /\ Rest'
      BY <1>0, <2>2, <2>4, <3>1 DEF kind
    <3> QED
      BY <3>2, <3>3
  <2>6. CASE ~paused
    <3>1. cancelled' \in BOOLEAN /\ pc' \in {"top", "gone"}
      BY <1>0, <2>1, <2>3, <2>6, HandleCases
    <3>2. HeldPart'
      BY <3>1
    <3>3. Flags' /\ Rest'
      BY <1>0, <2>2, <2>4, <3>1 DEF kind
    <3> QED
      BY <3>2, <3>3
  <2> QED
    BY <2>5, <2>6
<1>8. CASE WaitControl
  <2>1. pc = "wait" /\ UNCHANGED <<setup, now, life, tick, ended>>
    BY <1>8 DEF WaitControl
  <2>2. paused' \in BOOLEAN
    BY <1>0, <1>8 DEF WaitControl
  <2>3. cancelled' \in BOOLEAN /\ pc' \in {"top", "gone"}
    <3>1. CASE Handle(held[1])
      BY <1>0, <2>1, <3>1, HandleCases
    <3>2. CASE pc' = "gone" /\ (cancelled' = cancelled \/ cancelled' = TRUE)
      BY <1>0, <3>2
    <3> QED
      BY <1>8, <3>1, <3>2 DEF WaitControl
  <2>4. HeldPart'
    BY <2>3
  <2>5. Flags' /\ Rest'
    BY <1>0, <2>1, <2>2, <2>3 DEF kind
  <2> QED
    BY <2>4, <2>5
<1>9. CASE Advance
  <2>1. HeldPart'
    BY <1>9, HeldKept DEF Advance, opVars, loopVars
  <2>2. UNCHANGED <<setup, pc, life, paused, cancelled, ended>> /\ now' = now + 1
    BY <1>9 DEF Advance, loopVars
  <2>3. tick' \in BOOLEAN /\ (tick' => kind' = "tick")
    <3>1. tick' = (tick \/ kind = "tick") /\ kind' = kind
      BY <1>9, <2>2 DEF Advance, kind
    <3>2. tick => kind = "tick"
      BY <1>0
    <3> QED
      BY <3>1, <3>2, Zenon
  <2>4. Flags' /\ Rest'
    BY <1>0, <2>2, <2>3 DEF kind
  <2> QED
    BY <2>1, <2>4
<1>10. CASE SendControl
  <2>1. HeldPart'
    BY <1>10, HeldKept DEF SendControl, opVars, loopVars
  <2>2. Flags' /\ Rest'
    BY <1>0, <1>10 DEF SendControl, loopVars, kind
  <2> QED
    BY <2>1, <2>2
<1>11. CASE Cancel
  <2>1. HeldPart'
    BY <1>11, HeldKept DEF Cancel, opVars
  <2>2. Flags' /\ Rest'
    BY <1>0, <1>11 DEF Cancel, kind
  <2> QED
    BY <2>1, <2>2
<1>12. CASE Restart
  <2>1. HeldPart'
    BY <1>12 DEF Restart
  <2>2. setup.lives \in Nat
    BY <1>0, SetupType
  <2>3. life' \in 1 .. setup'.lives
    BY <1>0, <1>12, <2>2 DEF Restart
  <2>4. /\ UNCHANGED <<setup, now>> /\ pc' = "top" /\ tick' = FALSE
        /\ paused' = FALSE /\ cancelled' = FALSE /\ ended' = FALSE
    BY <1>12 DEF Restart
  <2>5. Flags' /\ Rest'
    BY <1>0, <2>3, <2>4 DEF kind
  <2> QED
    BY <2>1, <2>5
<1>13. CASE UNCHANGED vars
  <2>1. HeldPart'
    BY <1>13, HeldKept DEF vars, opVars, loopVars
  <2>2. Flags' /\ Rest'
    BY <1>0, <1>13 DEF vars, loopVars, kind
  <2> QED
    BY <2>1, <2>2
<1> QED
  BY <1>1, <1>2, <1>3, <1>4, <1>5, <1>6, <1>7, <1>8, <1>9, <1>10, <1>11, <1>12, <1>13, Zenon
     DEF Next, LoopStep
-----------------------------------------------------------------------------
(* What a message and a timer do to the operator. *)

(* No message, no stamp. *)
LEMMA StampNone == Stamp(<< >>) = << >>
<1>1. Len(<< >>) = 0 /\ 1 .. 0 = {}
  OBVIOUS
<1>2. \A k \in 1 .. Len(<< >>) : FALSE
  BY <1>1
<1> QED
  BY <1>1 DEF Stamp

(* One message emitted is one stamp, with the time of the clock. *)
LEMMA StampOne ==
  ASSUME NEW m
  PROVE  Stamp(<<m>>) = <<[n |-> m.n, at |-> now]>>
<1>1. Len(<<m>>) = 1 /\ <<m>>[1] = m
  OBVIOUS
<1>2. Stamp(<<m>>) = [k \in 1 .. 1 |-> [n |-> <<m>>[k].n, at |-> now]]
  BY <1>1 DEF Stamp
<1>3. [k \in 1 .. 1 |-> [n |-> <<m>>[k].n, at |-> now]] = [k \in 1 .. 1 |-> [n |-> m.n, at |-> now]]
  BY <1>1
<1>4. [k \in 1 .. 1 |-> [n |-> m.n, at |-> now]] = <<[n |-> m.n, at |-> now]>>
  OBVIOUS
<1> QED
  BY <1>2, <1>3, <1>4

(* The operator's state, given by its fields. *)
OpIs(o, counter, pending, seen) ==
  o \in Ops /\ o.counter = counter /\ o.pending = pending /\ o.seen = seen

(* Changing the counter and the keys seen gives an operator's state again. *)
LEMMA OpsNext ==
  ASSUME NEW o \in Ops, NEW c \in Nat, NEW e \in SUBSET Entries
  PROVE  [o EXCEPT !.counter = c, !.seen = e] \in Ops
BY DEF Ops

(* The entry Sleep and Debounce make for the next message. *)
Entry(key) == [name |-> op.counter + 1, msg |-> [n |-> Len(arrived) + 1, key |-> key]]

(* What stays pending when a message comes: all of it in Sleep, the other   *)
(* keys in Debounce.                                                        *)
Staying(key) == {p \in op.pending : kind = "debounce" => p.msg.key # key}

(* Sleep and Debounce hold a message back and register its timer. *)
LEMMA HoldsBack ==
  ASSUME op \in Ops, arrived \in Seq(Entries), emitted \in Seq(Stamps),
         kind \in {"sleep", "debounce"}, NEW key \in Keys, Deliver(key)
  PROVE  /\ OpIs(op', op.counter + 1, Staying(key) \cup {Entry(key)}, op.seen)
         /\ tm' = Register(tm, op.counter + 1, now + Window)
         /\ arrived' = Append(arrived, [key |-> key, at |-> now])
         /\ emitted' = emitted /\ pc' = "top" /\ UNCHANGED <<cancelled, saved>>
<1> DEFINE msg == [n |-> Len(arrived) + 1, key |-> key]
           r == ProcessMessage(kind, op, msg, now, Window)
           New(o) == OpIs(o, op.counter + 1, Staying(key) \cup {Entry(key)}, op.seen)
<1>0. Staying(key) \cup {Entry(key)} \in SUBSET Held /\ op.counter + 1 \in Nat
  <2>1. Entry(key) \in Held
    BY DEF Entry, Held, Ops
  <2>2. op.pending \in SUBSET Held /\ op.counter \in Nat
    BY DEF Ops
  <2> QED
    BY <2>1, <2>2 DEF Staying
<1>1. /\ op' = r.op
      /\ tm' = IF r.timers = {} THEN tm
               ELSE Register(tm, r.op.counter, CHOOSE at \in r.timers : TRUE)
      /\ arrived' = Append(arrived, [key |-> key, at |-> now])
      /\ \/ pc' = "top" /\ emitted' = emitted \o Stamp(r.emit)
         \/ r.emit # << >>
      /\ UNCHANGED <<cancelled, saved>>
  BY DEF Deliver, HandleData
<1>2. New(r.op) /\ r.emit = << >> /\ r.timers = {now + Window}
  <2>1. CASE kind = "sleep"
    <3>1. r = SleepProcess(op, msg, now, Window)
      BY <2>1 DEF ProcessMessage
    <3>2. Staying(key) = op.pending
      BY <2>1 DEF Staying
    <3>3. r = [op |-> [op EXCEPT !.counter = @ + 1, !.pending = @ \cup {Entry(key)}],
               emit |-> << >>, timers |-> {now + Window}]
      BY <3>1 DEF SleepProcess, Result, Entry
    <3>4. New([op EXCEPT !.counter = @ + 1, !.pending = @ \cup {Entry(key)}])
      BY <1>0, <3>2 DEF Ops, OpIs
    <3> QED
      BY <3>3, <3>4
  <2>2. CASE kind = "debounce"
    <3>1. r = DebounceProcess(op, msg, now, Window)
      BY <2>2 DEF ProcessMessage
    <3>2. {p \in op.pending : p.msg.key # msg.key} = Staying(key)
      BY <2>2 DEF Staying
    <3>3. r = [op |-> [op EXCEPT !.counter = @ + 1, !.pending = Staying(key) \cup {Entry(key)}],
               emit |-> << >>, timers |-> {now + Window}]
      BY <3>1, <3>2 DEF DebounceProcess, Result, Entry
    <3>4. New([op EXCEPT !.counter = @ + 1, !.pending = Staying(key) \cup {Entry(key)}])
      BY <1>0 DEF Ops, OpIs
    <3> QED
      BY <3>3, <3>4
  <2> QED
    BY <2>1, <2>2
<1> HIDE DEF r
<1>3. (CHOOSE at \in {now + Window} : TRUE) = now + Window
  OBVIOUS
<1>4. tm' = Register(tm, op.counter + 1, now + Window)
  <2>1. r.timers # {}
    BY <1>2
  <2> QED
    BY <1>1, <1>2, <1>3, <2>1 DEF OpIs
<1>5. emitted \o << >> = emitted
  OBVIOUS
<1> QED
  BY <1>1, <1>2, <1>4, <1>5, StampNone

(* A duplicate leaves everything as it is; a fresh key is entered with a    *)
(* timer, and its message emitted unless the context is done.               *)
LEMMA PassesOn ==
  ASSUME op \in Ops, emitted \in Seq(Stamps), kind = "dedup", now + Window \in Nat,
         NEW key \in Keys, Deliver(key)
  PROVE  /\ arrived' = Append(arrived, [key |-> key, at |-> now])
         /\ UNCHANGED <<cancelled, saved>> /\ pc' \in {"top", "gone"}
         /\ \/ /\ \E s \in op.seen : s.key = key /\ s.at > now
               /\ UNCHANGED <<op, tm, emitted>>
            \/ /\ ~\E s \in op.seen : s.key = key /\ s.at > now
               /\ OpIs(op', op.counter + 1, op.pending, {s \in op.seen : s.key # key}
                                                         \cup {[key |-> key, at |-> now + Window]})
               /\ tm' = Register(tm, op.counter + 1, now + Window)
               /\ \/ emitted' = Append(emitted, [n |-> Len(arrived) + 1, at |-> now])
                  \/ cancelled /\ UNCHANGED emitted
<1> DEFINE msg == [n |-> Len(arrived) + 1, key |-> key]
           r == ProcessMessage(kind, op, msg, now, Window)
           entries == {s \in op.seen : s.key # key} \cup {[key |-> key, at |-> now + Window]}
           New(o) == OpIs(o, op.counter + 1, op.pending, entries)
<1>1. /\ op' = r.op
      /\ tm' = IF r.timers = {} THEN tm
               ELSE Register(tm, r.op.counter, CHOOSE at \in r.timers : TRUE)
      /\ arrived' = Append(arrived, [key |-> key, at |-> now])
      /\ pc' \in {"top", "gone"}
      /\ \/ emitted' = emitted \o Stamp(r.emit)
         \/ cancelled /\ r.emit # << >> /\ UNCHANGED emitted
      /\ UNCHANGED <<cancelled, saved>>
  BY DEF Deliver, HandleData
<1>2. r = DedupProcess(op, msg, now, Window)
  BY DEF ProcessMessage
<1>3. emitted \o << >> = emitted
  OBVIOUS
<1>4. CASE \E s \in op.seen : s.key = key /\ s.at > now
  <2>1. \E s \in op.seen : s.key = msg.key /\ s.at > now
    BY <1>4
  <2>2. r = [op |-> op, emit |-> << >>, timers |-> {}]
    BY <1>2, <2>1 DEF DedupProcess, Result
  <2>3. r.op = op /\ r.emit = << >> /\ r.timers = {}
    BY <2>2
  <2> HIDE DEF r
  <2> QED
    BY <1>1, <1>3, <1>4, <2>3, StampNone
<1>5. CASE ~\E s \in op.seen : s.key = key /\ s.at > now
  <2>1. msg.key = key
    OBVIOUS
  <2>2. r = [op |-> [op EXCEPT !.counter = @ + 1, !.seen = entries],
             emit |-> <<msg>>, timers |-> {now + Window}]
    <3>1. ~\E s \in op.seen : s.key = msg.key /\ s.at > now
      BY <1>5, <2>1
    <3> QED
      BY <1>2, <2>1, <3>1 DEF DedupProcess, Result
  <2>3. New([op EXCEPT !.counter = @ + 1, !.seen = entries])
    <3>1. entries \in SUBSET Entries
      BY DEF Ops, Entries
    <3> HIDE DEF entries
    <3> DEFINE o == [op EXCEPT !.counter = @ + 1, !.seen = entries]
    <3>2. o.counter = op.counter + 1 /\ o.pending = op.pending /\ o.seen = entries
      BY DEF Ops
    <3>3. o \in Ops
      <4>1. op.counter + 1 \in Nat
        BY DEF Ops
      <4>2. [op EXCEPT !.counter = op.counter + 1, !.seen = entries] \in Ops
        BY <3>1, <4>1, OpsNext
      <4> QED
        BY <4>2
    <3> QED
      BY <3>2, <3>3 DEF OpIs
  <2>4. New(r.op) /\ r.emit = <<msg>> /\ r.timers = {now + Window}
    BY <2>2, <2>3
  <2> HIDE DEF r
  <2>5. (CHOOSE at \in {now + Window} : TRUE) = now + Window
    OBVIOUS
  <2>6. tm' = Register(tm, op.counter + 1, now + Window)
    <3>1. r.timers # {}
      BY <2>4
    <3> QED
      BY <1>1, <2>4, <2>5, <3>1 DEF OpIs
  <2>7. emitted \o Stamp(r.emit) = Append(emitted, [n |-> Len(arrived) + 1, at |-> now])
    <3>1. Stamp(r.emit) = <<[n |-> Len(arrived) + 1, at |-> now]>>
      BY <2>4, StampOne
    <3> QED
      BY <3>1
  <2> QED
    BY <1>1, <1>5, <2>4, <2>6, <2>7
<1> QED
  BY <1>4, <1>5

(* A ticker's operator hands its messages on at once, or fails to. *)
LEMMA TickPassesOn ==
  ASSUME op \in Ops, emitted \in Seq(Stamps), kind = "tick",
         NEW key \in Keys, Deliver(key)
  PROVE  /\ arrived' = Append(arrived, [key |-> key, at |-> now])
         /\ UNCHANGED <<op, tm, cancelled, saved>> /\ pc' \in {"top", "gone"}
         /\ \/ emitted' = Append(emitted, [n |-> Len(arrived) + 1, at |-> now])
            \/ UNCHANGED emitted
<1> DEFINE msg == [n |-> Len(arrived) + 1, key |-> key]
           r == ProcessMessage(kind, op, msg, now, Window)
<1>1. /\ op' = r.op
      /\ tm' = IF r.timers = {} THEN tm
               ELSE Register(tm, r.op.counter, CHOOSE at \in r.timers : TRUE)
      /\ arrived' = Append(arrived, [key |-> key, at |-> now])
      /\ pc' \in {"top", "gone"}
      /\ \/ emitted' = emitted \o Stamp(r.emit)
         \/ UNCHANGED emitted
      /\ UNCHANGED <<cancelled, saved>>
  BY DEF Deliver, HandleData
<1>2. r = [op |-> op, emit |-> <<msg>>, timers |-> {}]
  BY DEF ProcessMessage, TickProcess, Result
<1>3. r.op = op /\ r.emit = <<msg>> /\ r.timers = {}
  BY <1>2
<1> HIDE DEF r
<1>4. emitted \o Stamp(r.emit) = Append(emitted, [n |-> Len(arrived) + 1, at |-> now])
  <2>1. Stamp(r.emit) = <<[n |-> Len(arrived) + 1, at |-> now]>>
    BY <1>3, StampOne
  <2> QED
    BY <2>1
<1> QED
  BY <1>1, <1>3, <1>4

(* A timer of Sleep or Debounce finds nothing, or releases the one entry    *)
(* under its name; if that fails the loop returns.                          *)
LEMMA Releases ==
  ASSUME op \in Ops, emitted \in Seq(Stamps), kind # "dedup", Fire,
         \A p, q \in op.pending : p.name = q.name => p = q
  PROVE  /\ UNCHANGED <<setup, now, tm, arrived, cancelled, saved, life>>
         /\ \/ /\ ~\E p \in op.pending : p.name = Head(due).name
               /\ UNCHANGED <<op, emitted, pc>> /\ due' = Tail(due)
            \/ \E p \in op.pending :
                 /\ p.name = Head(due).name
                 /\ OpIs(op', op.counter, op.pending \ {p}, op.seen)
                 /\ \/ /\ emitted' = Append(emitted, [n |-> p.msg.n, at |-> now])
                       /\ due' = Tail(due) /\ pc' = pc
                    \/ /\ UNCHANGED emitted
                       /\ due' = << >> /\ pc' = "gone"
<1> DEFINE r == HandleTimer(kind, op, Head(due))
           found == {p \in op.pending : p.name = Head(due).name}
<1>1. /\ UNCHANGED <<setup, now, tm, arrived, cancelled, saved, life>>
      /\ op' = r.op
      /\ \/ emitted' = emitted \o Stamp(r.emit) /\ due' = Tail(due) /\ UNCHANGED pc
         \/ r.emit # << >> /\ pc' = "gone" /\ due' = << >> /\ UNCHANGED emitted
  BY DEF Fire, FireTimer
<1>2. r = PendingTimer(op, Head(due))
  BY DEF HandleTimer
<1>3. CASE found = {}
  <2>1. r = [op |-> op, emit |-> << >>, timers |-> {}]
    BY <1>2, <1>3 DEF PendingTimer, Result
  <2>2. r.op = op /\ r.emit = << >>
    BY <2>1
  <2> HIDE DEF r
  <2>3. emitted \o << >> = emitted
    OBVIOUS
  <2>4. ~\E p \in op.pending : p.name = Head(due).name
    BY <1>3
  <2> QED
    BY <1>1, <2>2, <2>3, <2>4, StampNone
<1>4. CASE found # {}
  <2>1. PICK p \in found : TRUE
    BY <1>4
  <2>2. found = {p}
    BY <2>1
  <2>3. (CHOOSE q \in found : TRUE) = p
    BY <2>2
  <2>4. r = [op |-> [op EXCEPT !.pending = @ \ {p}], emit |-> <<p.msg>>, timers |-> {}]
    BY <1>2, <1>4, <2>2, <2>3 DEF PendingTimer, Result
  <2>5. OpIs([op EXCEPT !.pending = @ \ {p}], op.counter, op.pending \ {p}, op.seen)
    BY DEF Ops, OpIs
  <2>6. /\ OpIs(r.op, op.counter, op.pending \ {p}, op.seen)
        /\ r.emit = <<p.msg>>
    BY <2>4, <2>5
  <2> HIDE DEF r
  <2>7. Stamp(r.emit) = <<[n |-> p.msg.n, at |-> now]>>
    BY <2>6, StampOne
  <2>8. emitted \o Stamp(r.emit) = Append(emitted, [n |-> p.msg.n, at |-> now])
    BY <2>7
  <2>9. p \in op.pending /\ p.name = Head(due).name
    BY <2>1
  <2> QED
    BY <1>1, <2>6, <2>8, <2>9
<1> QED
  BY <1>3, <1>4

(* A timer of Deduplicate forgets the keys that have expired by its time. *)
LEMMA Forgets ==
  ASSUME op \in Ops, emitted \in Seq(Stamps), kind = "dedup", Fire
  PROVE  /\ UNCHANGED <<setup, now, tm, arrived, cancelled, saved, life, emitted, pc>>
         /\ due' = Tail(due)
         /\ OpIs(op', op.counter, op.pending, {s \in op.seen : s.at > Head(due).at})
<1> DEFINE r == HandleTimer(kind, op, Head(due))
<1>1. /\ UNCHANGED <<setup, now, tm, arrived, cancelled, saved, life>>
      /\ op' = r.op
      /\ \/ emitted' = emitted \o Stamp(r.emit) /\ due' = Tail(due) /\ UNCHANGED pc
         \/ r.emit # << >>
  BY DEF Fire, FireTimer
<1>2. r = [op |-> [op EXCEPT !.seen = {s \in @ : s.at > Head(due).at}], emit |-> << >>,
           timers |-> {}]
  BY DEF HandleTimer, DedupTimer, Result
<1>3. OpIs([op EXCEPT !.seen = {s \in @ : s.at > Head(due).at}],
           op.counter, op.pending, {s \in op.seen : s.at > Head(due).at})
  BY DEF Ops, OpIs
<1>4. /\ r.emit = << >>
      /\ OpIs(r.op, op.counter, op.pending, {s \in op.seen : s.at > Head(due).at})
  BY <1>2, <1>3
<1> HIDE DEF r
<1>5. emitted \o << >> = emitted
  OBVIOUS
<1> QED
  BY <1>1, <1>4, <1>5, StampNone
-----------------------------------------------------------------------------
(* The invariant of the timers and the operator, for all lives. *)

Restorable(s) == s \in Seq(Timers) /\ Sorted(s)

(* Timers are sorted, popped timers are late, and what a checkpoint would   *)
(* restore is sorted too, for Restore does not sort.                        *)
TimerInv ==
  /\ tm \in Seq(Timers) /\ Sorted(tm)
  /\ due \in Seq(Timers)
  /\ \A k \in 1 .. Len(due) : due[k].at <= now
  /\ pc # "fire" => due = << >>
  /\ saved # << >> => Restorable(RestoreTimerState(saved[1]).timers)

OperatorTypes == op \in Ops /\ arrived \in Seq(Entries) /\ emitted \in Seq(Stamps)

(* The histories are of the past, and the names given out are at most as    *)
(* many as the messages.                                                    *)
Histories ==
  /\ op.counter <= Len(arrived) /\ Len(arrived) <= setup.data
  /\ \A k \in 1 .. Len(arrived) : arrived[k].at <= now
  /\ \A k \in 1 .. Len(emitted) : emitted[k].n <= Len(arrived) /\ emitted[k].at <= now

(* Pending is a map from names given out in this life to messages that came *)
(* in it.                                                                   *)
PendingMap ==
  /\ \A p \in op.pending : /\ p.name \in 1 .. op.counter
                           /\ p.msg.n \in 1 .. Len(arrived)
                           /\ p.msg.key = arrived[p.msg.n].key
  /\ \A p, q \in op.pending :
       p.name = q.name \/ (kind = "debounce" /\ p.msg.key = q.msg.key) => p = q
  /\ kind \in {"dedup", "tick"} => op.pending = {}

SeenMap == \A s, t \in op.seen : s.key = t.key => s = t

OperatorInv == OperatorTypes /\ Histories /\ PendingMap /\ SeenMap

NodeTimersInv == LoopInv /\ TimerInv /\ OperatorInv

(* The fields of a timer, and back. *)
LEMMA TimersType ==
  /\ \A x \in Timers : x.at \in Nat /\ x.name \in 1 .. setup.data
  /\ \A nm \in 1 .. setup.data, at \in Nat : [name |-> nm, at |-> at] \in Timers
BY DEF Timers

(* What a checkpoint holds is what is restored from it, in order. *)
LEMMA CheckpointTimers ==
  ASSUME TimerInv, saved' = <<HandleCheckpoint(kind, op, tm)>>
  PROVE  Restorable(RestoreTimerState(saved'[1]).timers)
<1>1. saved'[1] = HandleCheckpoint(kind, op, tm)
  OBVIOUS
<1>2. CASE kind = "tick"
  <2>1. HandleCheckpoint(kind, op, tm) = << >>
    BY <1>2 DEF HandleCheckpoint, OpState
  <2>2. RestoreTimerState(saved'[1]).timers = << >>
    BY <1>1, <2>1 DEF RestoreTimerState, newTimerManager
  <2>3. Restorable(<< >>)
    BY DEF Restorable, Sorted
  <2> QED
    BY <2>2, <2>3
<1>3. CASE kind # "tick"
  <2> DEFINE os == OpState(kind, op)
  <2>1. HandleCheckpoint(kind, op, tm) = <<Snapshot(tm), os>>
    BY <1>3 DEF HandleCheckpoint, encodeTimerCheckpoint
  <2> HIDE DEF os
  <2> DEFINE sn == Snapshot(tm)
  <2> HIDE DEF sn
  <2>2. <<sn, os>> # << >> /\ <<sn, os>>[1] = sn
    OBVIOUS
  <2>3. RestoreTimerState(saved'[1]).timers = Restore(Snapshot(tm))
    BY <1>1, <2>1, <2>2 DEF RestoreTimerState, decodeTimerCheckpoint, sn
  <2>4. Restore(Snapshot(tm)) = tm
    <3> DEFINE N == 1 .. setup.data
    <3>1. tm \in Seq([name : N, at : Nat])
      BY DEF TimerInv, Timers
    <3> HIDE DEF N
    <3> QED
      BY <3>1, RestoreKeeps
  <2> QED
    BY <2>3, <2>4 DEF TimerInv, Restorable
<1> QED
  BY <1>2, <1>3

(* The invariant after a step, in terms of the new values. *)
LEMMA TimersNow ==
  ASSUME UNCHANGED Timers,
         tm' \in Seq(Timers), Sorted(tm'), due' \in Seq(Timers),
         \A k \in 1 .. Len(due') : due'[k].at <= now',
         pc' # "fire" => due' = << >>,
         saved' # << >> => Restorable(RestoreTimerState(saved'[1]).timers)
  PROVE  TimerInv'
<1>1. \A s : Restorable(s) => (s \in Seq(Timers)' /\ Sorted(s))
  BY DEF Restorable
<1>2. saved' # << >> => Restorable(RestoreTimerState(saved[1]).timers)'
  BY <1>1 DEF Restorable
<1>3. Sorted(tm)'
  BY DEF Sorted
<1> QED
  BY <1>2, <1>3 DEF TimerInv

(* Head and tail of a sequence, index by index. *)
LEMMA TailOf ==
  ASSUME NEW T, NEW s \in Seq(T), s # << >>
  PROVE  /\ Head(s) = s[1] /\ s[1] \in T /\ Tail(s) \in Seq(T)
         /\ Len(s) \in Nat /\ Len(s) > 0 /\ Len(Tail(s)) = Len(s) - 1
         /\ \A k \in 1 .. Len(Tail(s)) : k + 1 \in 1 .. Len(s) /\ Tail(s)[k] = s[k + 1]
OBVIOUS

(* Every step keeps the timers typed and sorted, those popped expired. *)
LEMMA TimerStep ==
  ASSUME NodeTimersInv, [Next]_vars
  PROVE  TimerInv'
<1> USE DEF NodeTimersInv
<1>0. /\ now \in Nat /\ setup.data \in Nat /\ Window \in Nat
      /\ kind \in {"sleep", "debounce", "dedup", "tick"}
  BY SetupType DEF LoopInv
<1>1. CASE Idle
  <2>1. /\ UNCHANGED <<Timers, tm, due>> /\ now' >= now
        /\ saved' = saved \/ saved' = <<HandleCheckpoint(kind, op, tm)>>
    BY <1>0, <1>1 DEF Idle, Timers
  <2>2. \A k \in 1 .. Len(due) : due[k].at <= now'
    <3>1. ASSUME NEW k \in 1 .. Len(due) PROVE due[k].at <= now'
      <4>1. due[k].at <= now /\ due[k].at \in Nat /\ now' \in Nat
        BY <1>0, <1>1, TimersType DEF TimerInv, Idle
      <4> QED
        BY <1>0, <2>1, <4>1
    <3> QED
      BY <3>1
  <2>3. pc' # "fire" => due = << >>
    BY <1>1 DEF Idle, TimerInv
  <2>4. saved' # << >> => Restorable(RestoreTimerState(saved'[1]).timers)
    BY <2>1, CheckpointTimers DEF TimerInv
  <2> QED
    BY <2>1, <2>2, <2>3, <2>4, TimersNow DEF TimerInv
<1>2. CASE Pop
  <2> DEFINE e == PopExpired(tm, now).expired
             r == PopExpired(tm, now).timers
  <2>1. /\ e \in Seq(Timers) /\ r \in Seq(Timers) /\ Sorted(r)
        /\ \A k \in 1 .. Len(e) : e[k].at <= now
    BY <1>0, TimersType, PopSplits DEF TimerInv
  <2>2. /\ due' = e /\ tm' = r /\ pc' = "fire" /\ UNCHANGED <<Timers, now, saved>>
    BY <1>2 DEF Pop, Timers
  <2> HIDE DEF e, r
  <2> QED
    BY <2>1, <2>2, TimersNow DEF TimerInv
<1>3. CASE Fire
  <2>1. /\ UNCHANGED <<Timers, now, tm, saved>> /\ pc = "fire"
        /\ (due' = Tail(due) /\ pc' = "fire") \/ due' = << >>
    BY <1>3 DEF Fire, FireTimer, Timers
  <2>2. due' \in Seq(Timers) /\ \A k \in 1 .. Len(due') : due'[k].at <= now
    <3>1. CASE due' = << >>
      BY <3>1
    <3>2. CASE due' = Tail(due)
      BY <1>3, <3>2, TailOf DEF TimerInv, Fire
    <3> QED
      BY <2>1, <3>1, <3>2
  <2> QED
    BY <2>1, <2>2, TimersNow DEF TimerInv
<1>4. CASE Restart
  <2>1. /\ saved # << >> /\ UNCHANGED <<Timers, now, saved>> /\ due' = << >>
        /\ tm' = RestoreTimerState(saved[1]).timers
    BY <1>4 DEF Restart, Timers
  <2>2. Restorable(tm')
    BY <2>1 DEF TimerInv
  <2>3. tm' \in Seq(Timers) /\ Sorted(tm')
    BY <2>2 DEF Restorable
  <2>4. due' \in Seq(Timers) /\ \A k \in 1 .. Len(due') : due'[k].at <= now'
    BY <2>1
  <2> QED
    BY <2>1, <2>3, <2>4, TimersNow DEF TimerInv
<1>5. ASSUME NEW key \in Keys, Deliver(key)
      PROVE  TimerInv'
  <2>1. /\ UNCHANGED <<Timers, now, due>> /\ due = << >>
    BY <1>5 DEF Deliver, Timers, TimerInv
  <2>2. /\ op.counter + 1 \in 1 .. setup.data /\ now + Window \in Nat
        /\ op \in Ops /\ arrived \in Seq(Entries) /\ emitted \in Seq(Stamps)
    <3>1. /\ Len(arrived) < setup.data /\ op.counter \in Nat /\ op.counter <= Len(arrived)
          /\ Len(arrived) \in Nat
      BY <1>5 DEF Deliver, OperatorInv, OperatorTypes, Histories, Ops
    <3> QED
      BY <1>0, <3>1 DEF OperatorInv, OperatorTypes
  <2> DEFINE r == Register(tm, op.counter + 1, now + Window)
  <2>3. (tm' = tm \/ tm' = r) /\ saved' = saved
    <3>1. CASE kind \in {"sleep", "debounce"}
      BY <1>5, <2>2, <3>1, HoldsBack
    <3>2. CASE kind = "dedup"
      BY <1>5, <2>2, <3>2, PassesOn
    <3>3. CASE kind = "tick"
      BY <1>5, <2>2, <3>3, TickPassesOn
    <3> QED
      BY <1>0, <3>1, <3>2, <3>3
  <2>4. r \in Seq(Timers) /\ Sorted(r)
    <3>1. [name |-> op.counter + 1, at |-> now + Window] \in Timers
      BY <2>2, TimersType
    <3> QED
      BY <2>2, <3>1, TimersType, RegisterInserts DEF TimerInv
  <2> HIDE DEF r
  <2>5. tm' \in Seq(Timers) /\ Sorted(tm')
    BY <2>3, <2>4 DEF TimerInv
  <2> QED
    BY <2>1, <2>3, <2>5, TimersNow DEF TimerInv
<1> QED
  BY <1>1, <1>2, <1>3, <1>4, <1>5, StepCases

(* A sequence with one more element, index by index. *)
LEMMA AppendOf ==
  ASSUME NEW T, NEW s \in Seq(T), NEW x \in T
  PROVE  /\ Append(s, x) \in Seq(T) /\ Len(s) \in Nat
         /\ Len(Append(s, x)) = Len(s) + 1
         /\ \A k \in 1 .. Len(s) : Append(s, x)[k] = s[k]
         /\ Append(s, x)[Len(s) + 1] = x
OBVIOUS

(* What a step with a data message does to the histories. *)
LEMMA Delivered ==
  ASSUME LoopInv, OperatorTypes, Histories, NEW key \in Keys,
         UNCHANGED <<setup, now>>, Len(arrived) < setup.data,
         arrived' = Append(arrived, [key |-> key, at |-> now]),
         \/ emitted' = emitted
         \/ emitted' = Append(emitted, [n |-> Len(arrived) + 1, at |-> now]),
         op' \in Ops, op'.counter \in {op.counter, op.counter + 1}
  PROVE  /\ OperatorTypes' /\ Histories'
         /\ Len(arrived) \in Nat /\ Len(arrived') = Len(arrived) + 1
         /\ \A k \in 1 .. Len(arrived) : arrived'[k] = arrived[k]
         /\ arrived'[Len(arrived) + 1] = [key |-> key, at |-> now]
<1> DEFINE x == [key |-> key, at |-> now]
           y == [n |-> Len(arrived) + 1, at |-> now]
<1>1. now \in Nat /\ setup.data \in Nat /\ op.counter \in Nat /\ Len(arrived) \in Nat
  BY SetupType DEF LoopInv, OperatorTypes, Ops
<1>2. x \in Entries /\ x.at = now
  BY <1>1 DEF Entries
<1>3. y \in Stamps /\ y.n = Len(arrived) + 1 /\ y.at = now
  BY <1>1 DEF Stamps
<1> HIDE DEF x, y
<1>4. /\ arrived' \in Seq(Entries) /\ Len(arrived') = Len(arrived) + 1
      /\ \A k \in 1 .. Len(arrived) : arrived'[k] = arrived[k]
      /\ arrived'[Len(arrived) + 1] = x
  <2>1. arrived' = Append(arrived, x)
    BY DEF x
  <2> QED
    BY <1>2, <2>1, AppendOf DEF OperatorTypes
<1>5. \A k \in 1 .. Len(arrived') : arrived'[k].at <= now
  <2> SUFFICES ASSUME NEW k \in 1 .. Len(arrived') PROVE arrived'[k].at <= now
    OBVIOUS
  <2>1. CASE k = Len(arrived) + 1
    BY <1>1, <1>2, <1>4, <2>1
  <2>2. CASE k # Len(arrived) + 1
    <3>1. k \in 1 .. Len(arrived)
      BY <1>1, <1>4, <2>2
    <3> QED
      BY <1>4, <3>1 DEF Histories
  <2> QED
    BY <2>1, <2>2
<1>6. /\ emitted' \in Seq(Stamps)
      /\ \A k \in 1 .. Len(emitted') : emitted'[k].n <= Len(arrived') /\ emitted'[k].at <= now
  <2>1. \A k \in 1 .. Len(emitted) : /\ emitted[k].n \in Nat
                                     /\ emitted[k].n <= Len(arrived')
                                     /\ emitted[k].at <= now
    <3>1. \A k \in 1 .. Len(emitted) : emitted[k] \in Stamps
      BY DEF OperatorTypes
    <3>2. \A k \in 1 .. Len(emitted) : emitted[k].n \in Nat
      BY <3>1 DEF Stamps
    <3>3. ASSUME NEW k \in 1 .. Len(emitted)
          PROVE  emitted[k].n <= Len(arrived')
      <4>1. emitted[k].n \in Nat /\ emitted[k].n <= Len(arrived)
        BY <3>2 DEF Histories
      <4> QED
        BY <1>1, <1>4, <4>1
    <3> QED
      BY <3>2, <3>3 DEF Histories
  <2>2. CASE emitted' = emitted
    BY <2>1, <2>2 DEF OperatorTypes
  <2>3. CASE emitted' = Append(emitted, y)
    <3>1. /\ emitted' \in Seq(Stamps) /\ Len(emitted) \in Nat /\ Len(emitted') = Len(emitted) + 1
          /\ \A k \in 1 .. Len(emitted) : emitted'[k] = emitted[k]
          /\ emitted'[Len(emitted) + 1] = y
      BY <1>3, <2>3, AppendOf DEF OperatorTypes
    <3>2. ASSUME NEW k \in 1 .. Len(emitted')
          PROVE  emitted'[k].n <= Len(arrived') /\ emitted'[k].at <= now
      <4>1. CASE k = Len(emitted) + 1
        BY <1>1, <1>3, <1>4, <3>1, <4>1
      <4>2. CASE k # Len(emitted) + 1
        <5>1. k \in 1 .. Len(emitted)
          BY <3>1, <4>2
        <5> QED
          BY <2>1, <3>1, <5>1
      <4> QED
        BY <4>1, <4>2
    <3> QED
      BY <3>1, <3>2
  <2> QED
    BY <2>2, <2>3 DEF y
<1>7. OperatorTypes'
  BY <1>4, <1>6 DEF OperatorTypes
<1>8. op'.counter <= Len(arrived') /\ Len(arrived') <= setup'.data
  <2>1. op.counter <= Len(arrived)
    BY DEF Histories
  <2> QED
    BY <1>1, <1>4, <2>1
<1>9. Histories'
  BY <1>5, <1>6, <1>8 DEF Histories
<1> QED
  BY <1>1, <1>4, <1>7, <1>9 DEF x

(* The histories do not age when the clock goes on or a message is emitted. *)
LEMMA HistoriesKept ==
  ASSUME LoopInv, OperatorTypes, Histories, UNCHANGED <<setup, arrived>>,
         now' \in {now, now + 1},
         \/ emitted' = emitted
         \/ \E m \in 0 .. Len(arrived) : emitted' = Append(emitted, [n |-> m, at |-> now]),
         op' \in Ops, op'.counter = op.counter
  PROVE  OperatorTypes' /\ Histories'
<1>1. now \in Nat /\ now' \in Nat /\ now <= now' /\ Len(arrived) \in Nat
  BY DEF LoopInv, OperatorTypes
<1>2. \A k \in 1 .. Len(arrived) : arrived[k].at <= now'
  <2> SUFFICES ASSUME NEW k \in 1 .. Len(arrived) PROVE arrived[k].at <= now'
    OBVIOUS
  <2>1. arrived[k] \in Entries /\ arrived[k].at <= now
    BY DEF OperatorTypes, Histories
  <2>2. arrived[k].at \in Nat
    BY <2>1 DEF Entries
  <2> QED
    BY <1>1, <2>1, <2>2
<1>3. \A k \in 1 .. Len(emitted) : emitted[k].n <= Len(arrived) /\ emitted[k].at <= now'
  <2> SUFFICES ASSUME NEW k \in 1 .. Len(emitted)
               PROVE  emitted[k].n <= Len(arrived) /\ emitted[k].at <= now'
    OBVIOUS
  <2>1. emitted[k] \in Stamps /\ emitted[k].n <= Len(arrived) /\ emitted[k].at <= now
    BY DEF OperatorTypes, Histories
  <2>2. emitted[k].at \in Nat
    BY <2>1 DEF Stamps
  <2> QED
    BY <1>1, <2>1, <2>2
<1>4. /\ emitted' \in Seq(Stamps)
      /\ \A k \in 1 .. Len(emitted') : emitted'[k].n <= Len(arrived) /\ emitted'[k].at <= now'
  <2>1. CASE emitted' = emitted
    BY <1>3, <2>1 DEF OperatorTypes
  <2>2. ASSUME NEW m \in 0 .. Len(arrived), emitted' = Append(emitted, [n |-> m, at |-> now])
        PROVE  <1>4!1 /\ <1>4!2
    <3> DEFINE y == [n |-> m, at |-> now]
    <3>0. y \in Stamps /\ y.n = m /\ y.at = now
      BY <1>1 DEF Stamps
    <3>9. emitted' = Append(emitted, y)
      BY <2>2
    <3> HIDE DEF y
    <3>1. /\ emitted' \in Seq(Stamps) /\ Len(emitted) \in Nat /\ Len(emitted') = Len(emitted) + 1
          /\ \A k \in 1 .. Len(emitted) : emitted'[k] = emitted[k]
          /\ emitted'[Len(emitted) + 1] = y
      BY <3>0, <3>9, AppendOf DEF OperatorTypes
    <3>2. ASSUME NEW k \in 1 .. Len(emitted')
          PROVE  emitted'[k].n <= Len(arrived) /\ emitted'[k].at <= now'
      <4>1. CASE k = Len(emitted) + 1
        BY <1>1, <2>2, <3>0, <3>1, <4>1
      <4>2. CASE k # Len(emitted) + 1
        <5>1. k \in 1 .. Len(emitted)
          BY <3>1, <4>2
        <5> QED
          BY <1>3, <3>1, <5>1
      <4> QED
        BY <4>1, <4>2
    <3> QED
      BY <3>1, <3>2
  <2> QED
    BY <2>1, <2>2
<1> QED
  BY <1>2, <1>4 DEF OperatorTypes, Histories
(* Pending stays a map when a message is entered, ... *)
LEMMA PendingEntered ==
  ASSUME LoopInv, OperatorInv, kind \in {"sleep", "debounce"}, UNCHANGED setup, NEW key \in Keys,
         OpIs(op', op.counter + 1, Staying(key) \cup {Entry(key)}, op.seen),
         Len(arrived) \in Nat, Len(arrived') = Len(arrived) + 1,
         \A k \in 1 .. Len(arrived) : arrived'[k] = arrived[k],
         arrived'[Len(arrived) + 1] = [key |-> key, at |-> now]
  PROVE  PendingMap'
<1>1. op.counter \in Nat /\ kind' = kind
  BY DEF OperatorInv, OperatorTypes, Ops, kind
<1> DEFINE new == Entry(key)
<1>2. /\ new.name = op.counter + 1
      /\ new.msg.n = Len(arrived) + 1
      /\ new.msg.key = key
  BY DEF Entry
<1>3. /\ op'.counter = op.counter + 1
      /\ op'.pending = Staying(key) \cup {new}
  BY DEF OpIs
<1> HIDE DEF new
<1>4. \A p \in Staying(key) : /\ p \in op.pending
                              /\ p.name \in 1 .. op.counter
                              /\ p.msg.n \in 1 .. Len(arrived)
                              /\ p.msg.key = arrived[p.msg.n].key
                              /\ kind = "debounce" => p.msg.key # key
  BY DEF Staying, OperatorInv, PendingMap
<1>5. ASSUME NEW p \in op'.pending
      PROVE  /\ p.name \in 1 .. op'.counter
             /\ p.msg.n \in 1 .. Len(arrived')
             /\ p.msg.key = arrived'[p.msg.n].key
  <2>1. CASE p = new
    BY <1>1, <1>2, <1>3, <2>1
  <2>2. CASE p \in Staying(key)
    BY <1>1, <1>3, <1>4, <2>2
  <2> QED
    BY <1>3, <2>1, <2>2
<1>6. ASSUME NEW p \in op'.pending, NEW q \in op'.pending,
             p.name = q.name \/ (kind = "debounce" /\ p.msg.key = q.msg.key)
      PROVE  p = q
  <2>1. CASE p = new /\ q = new
    BY <2>1
  <2>2. CASE p \in Staying(key) /\ q \in Staying(key)
    BY <1>4, <1>6, <2>2 DEF OperatorInv, PendingMap
  <2>3. CASE p = new /\ q \in Staying(key)
    BY <1>1, <1>2, <1>4, <1>6, <2>3
  <2>4. CASE p \in Staying(key) /\ q = new
    BY <1>1, <1>2, <1>4, <1>6, <2>4
  <2> QED
    BY <1>3, <2>1, <2>2, <2>3, <2>4
<1> QED
  BY <1>1, <1>5, <1>6 DEF PendingMap

(* ... and when entries are removed or nothing happens to it. *)
LEMMA PendingKept ==
  ASSUME LoopInv, OperatorInv, UNCHANGED setup,
         op'.pending \subseteq op.pending,
         op.counter \in Nat, op'.counter \in {op.counter, op.counter + 1},
         \/ UNCHANGED arrived
         \/ /\ Len(arrived) \in Nat /\ Len(arrived') = Len(arrived) + 1
            /\ \A k \in 1 .. Len(arrived) : arrived'[k] = arrived[k]
  PROVE  PendingMap'
<1>1. kind' = kind
  BY DEF kind
<1>2. ASSUME NEW p \in op'.pending
      PROVE  /\ p.name \in 1 .. op'.counter
             /\ p.msg.n \in 1 .. Len(arrived')
             /\ p.msg.key = arrived'[p.msg.n].key
  <2>1. /\ p.name \in 1 .. op.counter
        /\ p.msg.n \in 1 .. Len(arrived)
        /\ p.msg.key = arrived[p.msg.n].key
    BY DEF OperatorInv, PendingMap
  <2>2. p.name \in 1 .. op'.counter
    BY <2>1
  <2>3. p.msg.n \in 1 .. Len(arrived') /\ arrived'[p.msg.n] = arrived[p.msg.n]
    BY <2>1
  <2> QED
    BY <2>1, <2>2, <2>3
<1> QED
  BY <1>1, <1>2 DEF OperatorInv, PendingMap

(* Every step keeps the types and the maps of the operator. *)
LEMMA OperatorStep ==
  ASSUME NodeTimersInv, [Next]_vars
  PROVE  OperatorInv'
<1> USE DEF NodeTimersInv
<1>0. /\ now \in Nat /\ setup.data \in Nat /\ Window \in Nat
      /\ kind \in {"sleep", "debounce", "dedup", "tick"}
  BY SetupType DEF LoopInv
<1>1. /\ op \in Ops /\ op.counter \in Nat
      /\ arrived \in Seq(Entries) /\ emitted \in Seq(Stamps)
      /\ Len(arrived) \in Nat
  BY DEF OperatorInv, OperatorTypes, Ops
<1>2. CASE Idle
  <2>1. /\ UNCHANGED <<setup, op, arrived>> /\ now' \in {now, now + 1}
        /\ \/ emitted' = emitted
           \/ emitted' = Append(emitted, [n |-> 0, at |-> now])
    BY <1>2 DEF Idle
  <2>2. OperatorTypes' /\ Histories'
    BY <1>1, <2>1, HistoriesKept DEF OperatorInv
  <2>3. PendingMap'
    BY <1>1, <2>1, PendingKept
  <2>4. SeenMap'
    BY <2>1 DEF OperatorInv, SeenMap
  <2> QED
    BY <2>2, <2>3, <2>4 DEF OperatorInv
<1>3. CASE Pop
  <2>1. UNCHANGED <<setup, now, op, arrived, emitted>>
    BY <1>3 DEF Pop
  <2>2. OperatorTypes' /\ Histories'
    BY <1>1, <2>1, HistoriesKept DEF OperatorInv
  <2>3. PendingMap'
    BY <1>1, <2>1, PendingKept
  <2>4. SeenMap'
    BY <2>1 DEF OperatorInv, SeenMap
  <2> QED
    BY <2>2, <2>3, <2>4 DEF OperatorInv
<1>4. CASE Fire /\ kind # "dedup"
  <2>1. \A p, q \in op.pending : p.name = q.name => p = q
    BY DEF OperatorInv, PendingMap
  <2>2. /\ UNCHANGED <<setup, now, arrived>>
        /\ \/ UNCHANGED <<op, emitted>>
           \/ \E p \in op.pending :
                /\ OpIs(op', op.counter, op.pending \ {p}, op.seen)
                /\ emitted' = emitted \/ emitted' = Append(emitted, [n |-> p.msg.n, at |-> now])
    BY <1>1, <1>4, <2>1, Releases
  <2>3. CASE UNCHANGED <<op, emitted>>
    <3>1. OperatorTypes' /\ Histories'
      BY <1>1, <2>2, <2>3, HistoriesKept DEF OperatorInv
    <3>2. PendingMap'
      BY <1>1, <2>2, <2>3, PendingKept
    <3>3. SeenMap'
      BY <2>3 DEF OperatorInv, SeenMap
    <3> QED
      BY <3>1, <3>2, <3>3 DEF OperatorInv
  <2>4. ASSUME NEW p \in op.pending,
               OpIs(op', op.counter, op.pending \ {p}, op.seen),
               emitted' = emitted \/ emitted' = Append(emitted, [n |-> p.msg.n, at |-> now])
        PROVE  OperatorInv'
    <3>1. /\ op' \in Ops /\ op'.counter = op.counter /\ op'.pending \subseteq op.pending
          /\ op'.seen = op.seen
      BY <2>4 DEF OpIs
    <3>2. p.msg.n \in 0 .. Len(arrived)
      BY <1>1 DEF OperatorInv, PendingMap
    <3>3. \/ emitted' = emitted
          \/ \E m \in 0 .. Len(arrived) : emitted' = Append(emitted, [n |-> m, at |-> now])
      BY <2>4, <3>2
    <3>4. OperatorTypes' /\ Histories'
      BY <1>1, <2>2, <3>1, <3>3, HistoriesKept DEF OperatorInv
    <3>5. PendingMap'
      BY <1>1, <2>2, <3>1, PendingKept
    <3>6. SeenMap'
      BY <3>1 DEF OperatorInv, SeenMap
    <3> QED
      BY <3>4, <3>5, <3>6 DEF OperatorInv
  <2> QED
    BY <2>2, <2>3, <2>4
<1>5. CASE Fire /\ kind = "dedup"
  <2>1. /\ UNCHANGED <<setup, now, arrived, emitted>>
        /\ OpIs(op', op.counter, op.pending, {s \in op.seen : s.at > Head(due).at})
    BY <1>1, <1>5, Forgets
  <2>2. /\ op' \in Ops /\ op'.counter = op.counter /\ op'.pending = op.pending
        /\ op'.seen \subseteq op.seen
    BY <2>1 DEF OpIs
  <2>3. OperatorTypes' /\ Histories'
    BY <1>1, <2>1, <2>2, HistoriesKept DEF OperatorInv
  <2>4. PendingMap'
    BY <1>1, <2>1, <2>2, PendingKept
  <2>5. SeenMap'
    BY <2>2 DEF OperatorInv, SeenMap
  <2> QED
    BY <2>3, <2>4, <2>5 DEF OperatorInv
<1>6. CASE Restart
  <2>1. /\ op' = NewOperator /\ arrived' = << >> /\ emitted' = << >> /\ UNCHANGED setup
    BY <1>6 DEF Restart, RestoreTimerState
  <2>2. /\ op'.counter = 0 /\ op'.pending = {} /\ op'.seen = {} /\ op' \in Ops
    BY <2>1 DEF NewOperator, Ops
  <2>3. OperatorTypes'
    BY <2>1, <2>2 DEF OperatorTypes
  <2>4. Len(arrived') = 0 /\ Len(emitted') = 0
    BY <2>1
  <2>5. Histories'
    BY <1>0, <2>1, <2>2, <2>4 DEF Histories
  <2>6. PendingMap' /\ SeenMap'
    BY <2>2 DEF PendingMap, SeenMap
  <2> QED
    BY <2>3, <2>5, <2>6 DEF OperatorInv
<1>7. ASSUME NEW key \in Keys, Deliver(key)
      PROVE  OperatorInv'
  <2>0. UNCHANGED <<setup, now>> /\ Len(arrived) < setup.data /\ now + Window \in Nat
    BY <1>0, <1>7 DEF Deliver
  <2>1. CASE kind \in {"sleep", "debounce"}
    <3>1. /\ OpIs(op', op.counter + 1, Staying(key) \cup {Entry(key)}, op.seen)
          /\ arrived' = Append(arrived, [key |-> key, at |-> now])
          /\ emitted' = emitted
      BY <1>1, <1>7, <2>1, HoldsBack
    <3>2. op' \in Ops /\ op'.counter = op.counter + 1 /\ op'.seen = op.seen
      BY <3>1 DEF OpIs
    <3>3. /\ OperatorTypes' /\ Histories'
          /\ Len(arrived) \in Nat /\ Len(arrived') = Len(arrived) + 1
          /\ \A k \in 1 .. Len(arrived) : arrived'[k] = arrived[k]
          /\ arrived'[Len(arrived) + 1] = [key |-> key, at |-> now]
      BY <2>0, <3>1, <3>2, Delivered DEF OperatorInv
    <3>4. PendingMap'
      BY <2>0, <2>1, <3>1, <3>3, PendingEntered
    <3>5. SeenMap'
      BY <3>2 DEF OperatorInv, SeenMap
    <3> QED
      BY <3>3, <3>4, <3>5 DEF OperatorInv
  <2>2. CASE kind = "dedup"
    <3> DEFINE entries == {s \in op.seen : s.key # key} \cup {[key |-> key, at |-> now + Window]}
    <3>1. /\ arrived' = Append(arrived, [key |-> key, at |-> now])
          /\ \/ UNCHANGED <<op, emitted>>
             \/ /\ OpIs(op', op.counter + 1, op.pending, entries)
                /\ \/ emitted' = Append(emitted, [n |-> Len(arrived) + 1, at |-> now])
                   \/ UNCHANGED emitted
      BY <1>1, <1>7, <2>0, <2>2, PassesOn
    <3>2. /\ op' \in Ops /\ op'.counter \in {op.counter, op.counter + 1}
          /\ op'.pending = op.pending /\ (op'.seen = op.seen \/ op'.seen = entries)
      BY <1>1, <3>1 DEF OpIs
    <3>3. /\ OperatorTypes' /\ Histories'
          /\ Len(arrived') = Len(arrived) + 1
          /\ \A k \in 1 .. Len(arrived) : arrived'[k] = arrived[k]
      BY <2>0, <3>1, <3>2, Delivered DEF OperatorInv
    <3>4. PendingMap'
      BY <1>1, <2>0, <3>2, <3>3, PendingKept
    <3>5. SeenMap'
      <4>1. \A s, t \in entries : s.key = t.key => s = t
        BY DEF OperatorInv, SeenMap
      <4> HIDE DEF entries
      <4> QED
        BY <3>2, <4>1 DEF OperatorInv, SeenMap
    <3> QED
      BY <3>3, <3>4, <3>5 DEF OperatorInv
  <2>3. CASE kind = "tick"
    <3>1. /\ arrived' = Append(arrived, [key |-> key, at |-> now]) /\ UNCHANGED op
          /\ \/ emitted' = Append(emitted, [n |-> Len(arrived) + 1, at |-> now])
             \/ UNCHANGED emitted
      BY <1>1, <1>7, <2>3, TickPassesOn
    <3>2. /\ OperatorTypes' /\ Histories'
          /\ Len(arrived') = Len(arrived) + 1
          /\ \A k \in 1 .. Len(arrived) : arrived'[k] = arrived[k]
      BY <1>1, <2>0, <3>1, Delivered DEF OperatorInv
    <3>3. PendingMap'
      BY <1>1, <2>0, <3>1, <3>2, PendingKept
    <3>4. SeenMap'
      BY <3>1 DEF OperatorInv, SeenMap
    <3> QED
      BY <3>2, <3>3, <3>4 DEF OperatorInv
  <2> QED
    BY <1>0, <2>1, <2>2, <2>3
<1> QED
  BY <1>2, <1>3, <1>4, <1>5, <1>6, <1>7, StepCases

(* The inductive invariant holds at the start. *)
LEMMA InvInit == Init => NodeTimersInv
<1> SUFFICES ASSUME Init PROVE NodeTimersInv
  OBVIOUS
<1>1. LoopInv
  BY LoopInit
<1>2. setup.data \in Nat
  BY <1>1, SetupType DEF LoopInv
<1>3. /\ tm = << >> /\ due = << >> /\ saved = << >> /\ arrived = << >> /\ emitted = << >>
  BY DEF Init, newTimerManager
<1>4. op.counter = 0 /\ op.pending = {} /\ op.seen = {} /\ op \in Ops
  BY DEF Init, NewOperator, Ops
<1>5. TimerInv
  BY <1>3 DEF TimerInv, Sorted
<1>6. Len(arrived) = 0 /\ Len(emitted) = 0
  BY <1>3
<1>7. OperatorTypes
  BY <1>3, <1>4 DEF OperatorTypes
<1>8. Histories
  BY <1>2, <1>4, <1>6 DEF Histories
<1>9. PendingMap /\ SeenMap
  BY <1>4 DEF PendingMap, SeenMap
<1> QED
  BY <1>1, <1>5, <1>7, <1>8, <1>9 DEF NodeTimersInv, OperatorInv

(* The inductive invariant on which the others rest. *)
THEOREM NodeTimersInvariant == Spec => []NodeTimersInv
<1>1. Init => NodeTimersInv
  BY InvInit
<1>2. NodeTimersInv /\ [Next]_vars => NodeTimersInv'
  BY LoopStepKeeps, TimerStep, OperatorStep DEF NodeTimersInv
<1> QED
  BY <1>1, <1>2, PTL DEF Spec

(* The time that the timer of the loop is set for is a time. *)
LEMMA WakeStep ==
  ASSUME NodeTimersInv, wake \in Nat, [Next]_vars
  PROVE  wake' \in Nat
<1>1. CASE Top
  <2>1. CASE tm = << >> \/ Expired(tm, now)
    BY <1>1, <2>1 DEF Top
  <2>2. CASE tm # << >> /\ ~Expired(tm, now)
    <3>1. tm[1] \in Timers
      BY <2>2, TailOf DEF NodeTimersInv, TimerInv
    <3>2. tm[1].at \in Nat
      BY <3>1, TimersType
    <3> QED
      BY <1>1, <2>2, <3>2 DEF Top
  <2> QED
    BY <2>1, <2>2
<1>2. CASE Restart
  BY <1>2 DEF Restart
<1>3. CASE FireTimer \/ SelectDone \/ SelectControl \/ SelectTimer \/ SelectTick \/ WaitControl
  BY <1>3 DEF FireTimer, SelectDone, SelectControl, SelectTimer, SelectTick, WaitControl
<1>4. CASE SelectMerged \/ Advance \/ SendControl \/ Cancel \/ UNCHANGED vars
  BY <1>4 DEF SelectMerged, Advance, SendControl, Cancel, vars, loopVars
<1> QED
  BY <1>1, <1>2, <1>3, <1>4, Zenon DEF Next, LoopStep

(* The loop and the operator keep their types: the timers are sorted, also  *)
(* after a restore that does not sort them, and pending is a map of names,  *)
(* for Debounce of keys too.                                                *)
THEOREM NodeTimersTypeOK == Spec => []TypeOK
<1>1. Init => wake \in Nat
  BY DEF Init
<1>2. NodeTimersInv /\ wake \in Nat /\ [Next]_vars => (wake \in Nat)'
  BY WakeStep
<1>3. NodeTimersInv /\ wake \in Nat => TypeOK
  <2> SUFFICES ASSUME NodeTimersInv, wake \in Nat PROVE TypeOK
    OBVIOUS
  <2>1. /\ now \in Nat /\ life \in 1 .. setup.lives
        /\ pc \in {"top", "select", "fire", "wait", "gone"}
        /\ (pc = "wait") => Len(held) = 1
    BY DEF NodeTimersInv, LoopInv
  <2>2. {tick, paused, cancelled, ended} \subseteq BOOLEAN
    BY DEF NodeTimersInv, LoopInv
  <2>3. /\ tm \in Seq(Timers) /\ due \in Seq(Timers)
        /\ \A j, k \in 1 .. Len(tm) : j < k => tm[j].at <= tm[k].at
    BY DEF NodeTimersInv, TimerInv, Sorted
  <2>4. op.counter \in 0 .. setup.data
    <3>1. /\ op.counter \in Nat /\ op.counter <= Len(arrived) /\ Len(arrived) <= setup.data
          /\ Len(arrived) \in Nat /\ setup.data \in Nat
      BY SetupType DEF NodeTimersInv, LoopInv, OperatorInv, OperatorTypes, Histories, Ops
    <3> QED
      BY <3>1
  <2>5. /\ \A p, q \in op.pending :
             p.name = q.name \/ (kind = "debounce" /\ p.msg.key = q.msg.key) => p = q
        /\ \A s, t \in op.seen : s.key = t.key => s = t
    BY DEF NodeTimersInv, OperatorInv, PendingMap, SeenMap
  <2> QED
    BY <2>1, <2>2, <2>3, <2>4, <2>5 DEF TypeOK
<1> QED
  BY <1>1, <1>2, <1>3, NodeTimersInvariant, PTL DEF Spec

-----------------------------------------------------------------------------
(* Pending messages and their timers. *)

(* A timer is popped and still to be handled, or registered. *)
Set(x) == \/ \E k \in 1 .. Len(due) : due[k] = x
          \/ \E k \in 1 .. Len(tm) : tm[k] = x

(* PendingHasTimer, in terms of the two sequences. *)
TimersSet ==
  pc # "gone" =>
    \A p \in op.pending : Set([name |-> p.name, at |-> arrived[p.msg.n].at + Window])

(* A timer in one of the two sequences is in their concatenation. *)
LEMMA SetInBoth ==
  ASSUME TimerInv, TimersSet
  PROVE  PendingHasTimer
<1> SUFFICES ASSUME pc # "gone", NEW p \in op.pending
             PROVE  \E k \in 1 .. Len(due \o tm) :
                      (due \o tm)[k] = [name |-> p.name, at |-> arrived[p.msg.n].at + Window]
  BY DEF PendingHasTimer
<1> DEFINE x == [name |-> p.name, at |-> arrived[p.msg.n].at + Window]
           b == due \o tm
<1>1. Set(x)
  BY DEF TimersSet
<1> HIDE DEF x
<1>2. /\ Len(due) \in Nat /\ Len(tm) \in Nat /\ Len(b) = Len(due) + Len(tm)
      /\ \A k \in 1 .. Len(due) : b[k] = due[k]
      /\ \A k \in 1 .. Len(tm) : b[Len(due) + k] = tm[k]
  BY DEF TimerInv
<1> HIDE DEF b
<1>3. \E k \in 1 .. Len(b) : b[k] = x
  <2>1. ASSUME NEW k \in 1 .. Len(due), due[k] = x
        PROVE  \E j \in 1 .. Len(b) : b[j] = x
    <3>1. k \in 1 .. Len(b)
      BY <1>2
    <3> QED
      BY <1>2, <2>1, <3>1
  <2>2. ASSUME NEW k \in 1 .. Len(tm), tm[k] = x
        PROVE  \E j \in 1 .. Len(b) : b[j] = x
    <3>1. Len(due) + k \in 1 .. Len(b)
      BY <1>2
    <3> QED
      BY <1>2, <2>2, <3>1
  <2> QED
    BY <1>1, <2>1, <2>2 DEF Set
<1> QED
  BY <1>3 DEF x, b

(* Registering a timer keeps the others. *)
LEMMA RegisterSets ==
  ASSUME NEW T, \A x \in T : x.at \in Nat,
         NEW s \in Seq(T), Sorted(s), NEW nm, NEW at \in Nat, [name |-> nm, at |-> at] \in T
  PROVE  /\ \A k \in 1 .. Len(s) : \E j \in 1 .. Len(Register(s, nm, at)) :
              Register(s, nm, at)[j] = s[k]
         /\ \E j \in 1 .. Len(Register(s, nm, at)) :
              Register(s, nm, at)[j] = [name |-> nm, at |-> at]
<1> DEFINE r == Register(s, nm, at)
           u == UpTo(s, at)
           x == [name |-> nm, at |-> at]
<1>1. /\ u \in 0 .. Len(s) /\ Len(s) \in Nat
      /\ Len(r) = Len(s) + 1
      /\ \A k \in 1 .. Len(s) + 1 : r[k] = IF k <= u THEN s[k]
                                           ELSE IF k = u + 1 THEN x ELSE s[k - 1]
  <2>1. u \in 0 .. Len(s)
    BY UpToSplits
  <2>2. Len(s) \in Nat
    OBVIOUS
  <2> QED
    BY <2>1, <2>2, RegisterInserts
<1> HIDE DEF r, u, x
<1>2. ASSUME NEW k \in 1 .. Len(s)
      PROVE  \E j \in 1 .. Len(r) : r[j] = s[k]
  <2>1. CASE k <= u
    <3>1. k \in 1 .. Len(r) /\ r[k] = s[k]
      BY <1>1, <2>1
    <3> QED
      BY <3>1
  <2>2. CASE ~(k <= u)
    <3>1. k + 1 \in 1 .. Len(r) /\ (k + 1) - 1 = k /\ ~(k + 1 <= u) /\ k + 1 # u + 1
      BY <1>1, <2>2
    <3>2. r[k + 1] = s[k]
      BY <1>1, <3>1
    <3> QED
      BY <3>1, <3>2
  <2> QED
    BY <2>1, <2>2
<1>3. u + 1 \in 1 .. Len(r) /\ r[u + 1] = x
  BY <1>1
<1> QED
  BY <1>2, <1>3 DEF r, x

(* No step takes the timer of a message away and leaves the message. *)
LEMMA TimersSetStep ==
  ASSUME NodeTimersInv, TimersSet, [Next]_vars
  PROVE  TimersSet'
<1> USE DEF NodeTimersInv
<1>0. /\ now \in Nat /\ setup.data \in Nat /\ Window \in Nat
      /\ kind \in {"sleep", "debounce", "dedup", "tick"}
  BY SetupType DEF LoopInv
<1>1. /\ op \in Ops /\ op.counter \in Nat
      /\ arrived \in Seq(Entries) /\ emitted \in Seq(Stamps)
      /\ Len(arrived) \in Nat
  BY DEF OperatorInv, OperatorTypes, Ops
<1>2. CASE Idle
  BY <1>2 DEF Idle, TimersSet, Set
<1>3. CASE Pop
  <2>1. due = << >> /\ UNCHANGED <<op, arrived>>
    BY <1>3 DEF Pop, TimerInv
  <2>2. /\ Len(due') \in Nat /\ Len(tm') \in Nat /\ Len(tm) = Len(due') + Len(tm')
        /\ \A k \in 1 .. Len(due') : due'[k] = tm[k]
        /\ \A k \in 1 .. Len(tm') : tm'[k] = tm[Len(due') + k]
    <3> DEFINE e == PopExpired(tm, now).expired
               r == PopExpired(tm, now).timers
    <3>1. /\ e \in Seq(Timers) /\ r \in Seq(Timers) /\ Len(tm) = Len(e) + Len(r)
          /\ \A k \in 1 .. Len(e) : e[k] = tm[k]
          /\ \A k \in 1 .. Len(r) : r[k] = tm[Len(e) + k]
      BY <1>0, TimersType, PopSplits DEF TimerInv
    <3>2. due' = e /\ tm' = r
      BY <1>3 DEF Pop
    <3> HIDE DEF e, r
    <3> QED
      BY <3>1, <3>2
  <2>3. ASSUME NEW x, Set(x)
        PROVE  Set(x)'
    <3>1. PICK k \in 1 .. Len(tm) : tm[k] = x
      BY <2>1, <2>3 DEF Set
    <3>2. CASE k <= Len(due')
      <4>1. k \in 1 .. Len(due')
        BY <2>2, <3>2
      <4> QED
        BY <2>2, <3>1, <4>1 DEF Set
    <3>3. CASE ~(k <= Len(due'))
      <4>1. k - Len(due') \in 1 .. Len(tm') /\ Len(due') + (k - Len(due')) = k
        BY <2>2, <3>3
      <4>2. tm'[k - Len(due')] = x
        BY <2>2, <3>1, <4>1
      <4> QED
        BY <4>1, <4>2 DEF Set
    <3> QED
      BY <3>2, <3>3
  <2>4. pc # "gone"
    BY <1>3 DEF Pop
  <2> QED
    BY <2>1, <2>3, <2>4 DEF TimersSet
<1>4. CASE Fire
  <2>1. CASE kind \in {"dedup", "tick"}
    <3>1. op.pending = {}
      BY <2>1 DEF OperatorInv, PendingMap
    <3>2. op'.pending = {}
      <4>1. CASE kind = "dedup"
        BY <1>1, <1>4, <3>1, <4>1, Forgets DEF OpIs
      <4>2. CASE kind = "tick"
        BY <1>1, <1>4, <3>1, <4>2, Releases DEF OpIs
      <4> QED
        BY <2>1, <4>1, <4>2
    <3> QED
      BY <3>2 DEF TimersSet
  <2>2. CASE kind \notin {"dedup", "tick"}
    <3>1. \A p, q \in op.pending : p.name = q.name => p = q
      BY DEF OperatorInv, PendingMap
    <3>2. /\ UNCHANGED <<tm, arrived>>
          /\ op'.pending \subseteq op.pending
          /\ \A p \in op'.pending : p.name # Head(due).name
          /\ (due' = Tail(due) /\ pc' = pc) \/ pc' = "gone"
      <4>1. CASE /\ ~\E p \in op.pending : p.name = Head(due).name
                 /\ UNCHANGED <<op, emitted, pc>> /\ due' = Tail(due)
        BY <1>1, <1>4, <2>2, <3>1, <4>1, Releases
      <4>2. ASSUME NEW p \in op.pending,
                   p.name = Head(due).name,
                   OpIs(op', op.counter, op.pending \ {p}, op.seen),
                   (due' = Tail(due) /\ pc' = pc) \/ pc' = "gone"
            PROVE  /\ op'.pending \subseteq op.pending
                   /\ \A q \in op'.pending : q.name # Head(due).name
        BY <3>1, <4>2 DEF OpIs
      <4> QED
        BY <1>1, <1>4, <2>2, <3>1, <4>1, <4>2, Releases
    <3>3. SUFFICES ASSUME pc' # "gone", NEW p \in op'.pending
                   PROVE  Set([name |-> p.name, at |-> arrived[p.msg.n].at + Window])'
      BY DEF TimersSet
    <3> DEFINE x == [name |-> p.name, at |-> arrived[p.msg.n].at + Window]
    <3>4. Set(x) /\ x.name # Head(due).name /\ x' = x
      BY <3>2, <3>3 DEF TimersSet
    <3> HIDE DEF x
    <3>5. Set(x)'
      <4>0. /\ due # << >> /\ due \in Seq(Timers) /\ due' = Tail(due)
        BY <1>4, <3>2, <3>3 DEF Fire, TimerInv
      <4>1. CASE \E k \in 1 .. Len(tm) : tm[k] = x
        BY <3>2, <3>4, <4>1 DEF Set
      <4>2. ASSUME NEW k \in 1 .. Len(due), due[k] = x
            PROVE  Set(x)'
        <5>1. /\ Head(due) = due[1] /\ Len(due) \in Nat /\ Len(Tail(due)) = Len(due) - 1
              /\ \A j \in 1 .. Len(Tail(due)) : Tail(due)[j] = due[j + 1]
          BY <4>0, TailOf
        <5>2. k # 1
          BY <3>4, <4>2, <5>1
        <5>3. k - 1 \in 1 .. Len(Tail(due)) /\ (k - 1) + 1 = k
          BY <5>1, <5>2
        <5>4. Tail(due)[k - 1] = x
          BY <4>2, <5>1, <5>3
        <5> QED
          BY <3>4, <4>0, <5>3, <5>4 DEF Set
      <4> QED
        BY <3>4, <4>1, <4>2 DEF Set
    <3> QED
      BY <3>5 DEF x
  <2> QED
    BY <2>1, <2>2
<1>5. CASE Restart
  BY <1>5 DEF Restart, RestoreTimerState, NewOperator, TimersSet
<1>6. ASSUME NEW key \in Keys, Deliver(key)
      PROVE  TimersSet'
  <2>0. /\ UNCHANGED <<setup, now, due>> /\ Len(arrived) < setup.data /\ now + Window \in Nat
        /\ pc # "gone"
    BY <1>0, <1>6 DEF Deliver
  <2>1. CASE kind \in {"sleep", "debounce"}
    <3>1. /\ OpIs(op', op.counter + 1, Staying(key) \cup {Entry(key)}, op.seen)
          /\ tm' = Register(tm, op.counter + 1, now + Window)
          /\ arrived' = Append(arrived, [key |-> key, at |-> now])
          /\ emitted' = emitted
      BY <1>1, <1>6, <2>1, HoldsBack
    <3>2. op' \in Ops /\ op'.counter = op.counter + 1
      BY <3>1 DEF OpIs
    <3>3. /\ Len(arrived') = Len(arrived) + 1
          /\ \A k \in 1 .. Len(arrived) : arrived'[k] = arrived[k]
          /\ arrived'[Len(arrived) + 1] = [key |-> key, at |-> now]
      BY <2>0, <3>1, <3>2, Delivered DEF OperatorInv
    <3>4. op.counter + 1 \in 1 .. setup.data
      BY <1>0, <1>1, <2>0 DEF OperatorInv, Histories
    <3>5. [name |-> op.counter + 1, at |-> now + Window] \in Timers
      BY <2>0, <3>4, TimersType
    <3>6. /\ \A k \in 1 .. Len(tm) : \E j \in 1 .. Len(tm') : tm'[j] = tm[k]
          /\ \E j \in 1 .. Len(tm') : tm'[j] = [name |-> op.counter + 1, at |-> now + Window]
      <4> DEFINE r == Register(tm, op.counter + 1, now + Window)
      <4>1. /\ \A k \in 1 .. Len(tm) : \E j \in 1 .. Len(r) : r[j] = tm[k]
            /\ \E j \in 1 .. Len(r) : r[j] = [name |-> op.counter + 1, at |-> now + Window]
        <5> DEFINE nm == op.counter + 1
                   at == now + Window
        <5>1. /\ \A x \in Timers : x.at \in Nat
              /\ tm \in Seq(Timers) /\ Sorted(tm)
              /\ [name |-> nm, at |-> at] \in Timers /\ at \in Nat
          BY <2>0, <3>5, TimersType DEF TimerInv
        <5> HIDE DEF nm, at
        <5>2. /\ \A k \in 1 .. Len(tm) : \E j \in 1 .. Len(Register(tm, nm, at)) :
                   Register(tm, nm, at)[j] = tm[k]
              /\ \E j \in 1 .. Len(Register(tm, nm, at)) :
                   Register(tm, nm, at)[j] = [name |-> nm, at |-> at]
          BY <5>1, RegisterSets
        <5> QED
          BY <5>2 DEF nm, at
      <4>2. tm' = r
        BY <3>1
      <4> HIDE DEF r
      <4> QED
        BY <4>1, <4>2
    <3>7. \A x : Set(x) => Set(x)'
      BY <2>0, <3>6 DEF Set
    <3>8. ASSUME NEW p \in op'.pending
          PROVE  Set([name |-> p.name, at |-> arrived[p.msg.n].at + Window])'
      <4>1. CASE p = Entry(key)
        <5>1. p.name = op.counter + 1 /\ p.msg.n = Len(arrived) + 1
          BY <4>1 DEF Entry
        <5>2. arrived'[p.msg.n].at = now
          BY <3>3, <5>1
        <5> QED
          BY <3>6, <5>1, <5>2 DEF Set
      <4>2. CASE p \in Staying(key)
        <5>1. p \in op.pending
          BY <4>2 DEF Staying
        <5>2. Set([name |-> p.name, at |-> arrived[p.msg.n].at + Window])
          BY <2>0, <5>1 DEF TimersSet
        <5>3. arrived'[p.msg.n] = arrived[p.msg.n]
          BY <3>3, <5>1 DEF OperatorInv, PendingMap
        <5> DEFINE x == [name |-> p.name, at |-> arrived[p.msg.n].at + Window]
        <5>4. Set(x)' /\ x' = x
          BY <3>7, <5>2, <5>3
        <5> QED
          BY <5>4
      <4> QED
        BY <3>1, <4>1, <4>2 DEF OpIs
    <3> QED
      BY <3>8 DEF TimersSet
  <2>2. CASE kind \in {"dedup", "tick"}
    <3>1. op.pending = {}
      BY <2>2 DEF OperatorInv, PendingMap
    <3>2. op'.pending = {}
      <4>1. CASE kind = "dedup"
        BY <1>1, <1>6, <2>0, <3>1, <4>1, PassesOn DEF OpIs
      <4>2. CASE kind = "tick"
        BY <1>1, <1>6, <3>1, <4>2, TickPassesOn
      <4> QED
        BY <2>2, <4>1, <4>2
    <3> QED
      BY <3>2 DEF TimersSet
  <2> QED
    BY <1>0, <2>1, <2>2
<1> QED
  BY <1>2, <1>3, <1>4, <1>5, <1>6, StepCases

(* A message that Sleep or Debounce holds back has a timer of its own still *)
(* to fire at its time, in every life: the names of restored timers, which  *)
(* are given out again, take no message's timer away (PendingHasTimer).     *)
THEOREM PendingTimerCorrect == Spec => []PendingHasTimer
<1>1. Init => TimersSet
  BY DEF Init, NewOperator, TimersSet
<1>2. NodeTimersInv /\ TimersSet /\ [Next]_vars => TimersSet'
  BY TimersSetStep
<1>3. NodeTimersInv /\ TimersSet => PendingHasTimer
  BY SetInBoth DEF NodeTimersInv
<1> QED
  BY <1>1, <1>2, <1>3, NodeTimersInvariant, PTL DEF Spec
-----------------------------------------------------------------------------
(* Sleep. *)

(* The timer Sleep and Debounce set for the message that came k-th. *)
Slot(k) == [name |-> k, at |-> arrived[k].at + Window]

(* While the loop runs, what Sleep holds back are the last messages, in the *)
(* order they came, popped timers first.                                    *)
SleepQueue ==
  /\ Len(emitted) + Len(due) + Len(tm) = Len(arrived)
  /\ \A k \in 1 .. Len(due) : due[k] = Slot(Len(emitted) + k)
  /\ \A k \in 1 .. Len(tm) : tm[k] = Slot(Len(emitted) + Len(due) + k)
  /\ \A p \in op.pending : p.msg.n = p.name
  /\ \A n \in Len(emitted) + 1 .. Len(arrived) : \E p \in op.pending : p.name = n

SleepLife ==
  /\ op.counter = Len(arrived)
  /\ \A j, k \in 1 .. Len(arrived) : j <= k => arrived[j].at <= arrived[k].at
  /\ Len(emitted) <= Len(arrived)
  /\ \A k \in 1 .. Len(emitted) :
       emitted[k].n = k /\ emitted[k].at >= arrived[k].at + Window
  /\ pc # "gone" => SleepQueue

SleepInv == kind = "sleep" /\ life = 1 => SleepLife

(* Types, as the steps below use them. *)
LEMMA Typed ==
  ASSUME NodeTimersInv
  PROVE  /\ now \in Nat /\ setup.data \in Nat /\ Window \in Nat /\ life \in Nat \ {0}
         /\ kind \in {"sleep", "debounce", "dedup", "tick"}
         /\ op \in Ops /\ op.counter \in Nat
         /\ arrived \in Seq(Entries) /\ emitted \in Seq(Stamps)
         /\ Len(arrived) \in Nat /\ Len(emitted) \in Nat
         /\ \A k \in 1 .. Len(arrived) : arrived[k].at \in Nat /\ arrived[k].at <= now
         /\ \A k \in 1 .. Len(emitted) : emitted[k].n \in Nat /\ emitted[k].at \in Nat
         /\ due \in Seq(Timers) /\ tm \in Seq(Timers) /\ Sorted(tm)
         /\ Len(due) \in Nat /\ Len(tm) \in Nat
         /\ \A k \in 1 .. Len(due) : due[k] \in Timers /\ due[k].at \in Nat /\ due[k].at <= now
         /\ \A k \in 1 .. Len(tm) : tm[k] \in Timers /\ tm[k].at \in Nat
         /\ \A p, q \in op.pending : p.name = q.name => p = q
<1> USE DEF NodeTimersInv
<1>1. /\ now \in Nat /\ setup.data \in Nat /\ Window \in Nat
      /\ kind \in {"sleep", "debounce", "dedup", "tick"}
  BY SetupType DEF LoopInv
<1>2. life \in Nat \ {0}
  BY SetupType DEF LoopInv
<1>3. /\ op \in Ops /\ op.counter \in Nat
      /\ arrived \in Seq(Entries) /\ emitted \in Seq(Stamps)
      /\ Len(arrived) \in Nat /\ Len(emitted) \in Nat
  BY DEF OperatorInv, OperatorTypes, Ops
<1>4. \A k \in 1 .. Len(arrived) : arrived[k].at \in Nat /\ arrived[k].at <= now
  <2>1. \A k \in 1 .. Len(arrived) : arrived[k] \in Entries
    BY <1>3
  <2> QED
    BY <2>1 DEF Entries, OperatorInv, Histories
<1>5. \A k \in 1 .. Len(emitted) : emitted[k].n \in Nat /\ emitted[k].at \in Nat
  <2>1. \A k \in 1 .. Len(emitted) : emitted[k] \in Stamps
    BY <1>3
  <2> QED
    BY <2>1 DEF Stamps
<1>6. /\ due \in Seq(Timers) /\ tm \in Seq(Timers) /\ Sorted(tm)
      /\ Len(due) \in Nat /\ Len(tm) \in Nat
      /\ \A k \in 1 .. Len(due) : due[k].at <= now
  BY DEF TimerInv
<1>7. /\ \A k \in 1 .. Len(due) : due[k] \in Timers
      /\ \A k \in 1 .. Len(tm) : tm[k] \in Timers
  BY <1>6
<1>8. /\ \A k \in 1 .. Len(due) : due[k].at \in Nat
      /\ \A k \in 1 .. Len(tm) : tm[k].at \in Nat
  BY <1>7, TimersType
<1>9. \A p, q \in op.pending : p.name = q.name => p = q
  BY DEF OperatorInv, PendingMap
<1> QED
  BY <1>1, <1>2, <1>3, <1>4, <1>5, <1>6, <1>7, <1>8, <1>9

(* Popping moves the border between the two sequences and nothing else. *)
LEMMA Popped ==
  ASSUME NodeTimersInv, Pop
  PROVE  /\ due = << >> /\ pc # "gone" /\ UNCHANGED <<setup, now, op, arrived, emitted, cancelled, life>>
         /\ Len(due') \in Nat /\ Len(tm') \in Nat /\ Len(tm) = Len(due') + Len(tm')
         /\ \A k \in 1 .. Len(due') : due'[k] = tm[k] /\ k \in 1 .. Len(tm)
         /\ \A k \in 1 .. Len(tm') : tm'[k] = tm[Len(due') + k] /\ Len(due') + k \in 1 .. Len(tm)
<1>1. /\ due = << >> /\ pc # "gone" /\ UNCHANGED <<setup, now, op, arrived, emitted, cancelled, life>>
  BY DEF Pop, NodeTimersInv, TimerInv
<1> DEFINE e == PopExpired(tm, now).expired
           r == PopExpired(tm, now).timers
<1>2. /\ e \in Seq(Timers) /\ r \in Seq(Timers) /\ Len(tm) = Len(e) + Len(r)
      /\ \A k \in 1 .. Len(e) : e[k] = tm[k]
      /\ \A k \in 1 .. Len(r) : r[k] = tm[Len(e) + k]
  <2>1. now \in Nat /\ tm \in Seq(Timers) /\ Sorted(tm)
    BY Typed
  <2> QED
    BY <2>1, TimersType, PopSplits
<1>3. due' = e /\ tm' = r
  BY DEF Pop
<1> HIDE DEF e, r
<1>4. Len(e) \in Nat /\ Len(r) \in Nat
  BY <1>2
<1>5. /\ \A k \in 1 .. Len(e) : k \in 1 .. Len(tm)
      /\ \A k \in 1 .. Len(r) : Len(e) + k \in 1 .. Len(tm)
  BY <1>2, <1>4
<1> QED
  BY <1>1, <1>2, <1>3, <1>4, <1>5

(* A timer later than all others is registered behind them. *)
LEMMA RegisterLast ==
  ASSUME NEW T, \A x \in T : x.at \in Nat,
         NEW s \in Seq(T), Sorted(s), NEW nm, NEW at \in Nat, [name |-> nm, at |-> at] \in T,
         \A k \in 1 .. Len(s) : s[k].at <= at
  PROVE  /\ Len(Register(s, nm, at)) = Len(s) + 1
         /\ \A k \in 1 .. Len(s) : Register(s, nm, at)[k] = s[k]
         /\ Register(s, nm, at)[Len(s) + 1] = [name |-> nm, at |-> at]
<1> DEFINE r == Register(s, nm, at)
           u == UpTo(s, at)
           x == [name |-> nm, at |-> at]
<1>0. /\ u \in 0 .. Len(s) /\ Len(s) \in Nat
      /\ \A k \in 1 .. Len(s) : IF k <= u THEN s[k].at <= at ELSE s[k].at > at
  <2>1. Len(s) \in Nat
    OBVIOUS
  <2> QED
    BY <2>1, UpToSplits
<1>1. /\ Len(r) = Len(s) + 1
      /\ \A k \in 1 .. Len(s) + 1 : r[k] = IF k <= u THEN s[k]
                                           ELSE IF k = u + 1 THEN x ELSE s[k - 1]
  BY RegisterInserts
<1>2. u = Len(s)
  <2> SUFFICES ASSUME u # Len(s) PROVE FALSE
    OBVIOUS
  <2>1. Len(s) \in 1 .. Len(s) /\ ~(Len(s) <= u)
    <3> HIDE DEF u
    <3> QED
      BY <1>0
  <2>2. s[Len(s)].at > at /\ s[Len(s)].at <= at
    BY <1>0, <2>1
  <2>3. s[Len(s)] \in T
    BY <2>1
  <2>4. s[Len(s)].at \in Nat
    BY <2>3
  <2> QED
    BY <2>2, <2>4
<1> HIDE DEF r, u, x
<1>3. \A k \in 1 .. Len(s) : r[k] = s[k]
  BY <1>0, <1>1, <1>2
<1>4. r[Len(s) + 1] = x
  BY <1>0, <1>1, <1>2
<1> QED
  BY <1>1, <1>3, <1>4 DEF r, x

(* Sleep: every step keeps the timers those of the last messages, in order. *)
LEMMA SleepStep ==
  ASSUME NodeTimersInv, SleepInv, [Next]_vars
  PROVE  SleepInv'
<1> SUFFICES ASSUME kind' = "sleep", life' = 1
             PROVE  SleepLife'
  BY DEF SleepInv
<1> USE Typed
<1>1. ~Restart
  BY DEF Restart
<1>2. kind = "sleep" /\ life = 1
  <2>1. UNCHANGED <<setup, life>>
    BY <1>1, StepCases DEF NodeTimersInv, Idle, Pop, Fire, FireTimer, Deliver
  <2> QED
    BY <2>1 DEF kind
<1>3. /\ op.counter = Len(arrived)
      /\ \A j, k \in 1 .. Len(arrived) : j <= k => arrived[j].at <= arrived[k].at
      /\ Len(emitted) <= Len(arrived)
      /\ \A k \in 1 .. Len(emitted) :
           emitted[k].n = k /\ emitted[k].at >= arrived[k].at + Window
      /\ pc # "gone" => SleepQueue
  BY <1>2 DEF SleepInv, SleepLife
<1>4. CASE Idle
  <2>1. /\ UNCHANGED <<op, tm, due, arrived, emitted>>
        /\ pc' # "gone" => pc # "gone"
    BY <1>2, <1>4 DEF Idle
  <2>2. (pc # "gone" => SleepQueue)'
    BY <1>3, <2>1 DEF SleepQueue, Slot
  <2> QED
    BY <1>3, <2>1, <2>2 DEF SleepLife
<1>5. CASE Pop
  <2>1. /\ due = << >> /\ pc # "gone" /\ UNCHANGED <<op, arrived, emitted>>
        /\ Len(due') \in Nat /\ Len(tm') \in Nat /\ Len(tm) = Len(due') + Len(tm')
        /\ \A k \in 1 .. Len(due') : due'[k] = tm[k] /\ k \in 1 .. Len(tm)
        /\ \A k \in 1 .. Len(tm') : tm'[k] = tm[Len(due') + k] /\ Len(due') + k \in 1 .. Len(tm)
    BY <1>5, Popped
  <2>2. \A k : Slot(k)' = Slot(k)
    BY <2>1 DEF Slot
  <2>3. SleepQueue /\ Len(due) = 0
    BY <1>3, <2>1
  <2>4. \A k \in 1 .. Len(tm) : tm[k] = Slot(Len(emitted) + k)
    BY <2>3 DEF SleepQueue
  <2>5. \A k \in 1 .. Len(due') : due'[k] = Slot(Len(emitted) + k)
    BY <2>1, <2>4
  <2>6. ASSUME NEW k \in 1 .. Len(tm')
        PROVE  tm'[k] = Slot(Len(emitted) + Len(due') + k)
    <3>1. tm'[k] = Slot(Len(emitted) + (Len(due') + k))
      BY <2>1, <2>4
    <3>2. Len(emitted) + (Len(due') + k) = Len(emitted) + Len(due') + k
      BY <2>1
    <3> QED
      BY <3>1, <3>2
  <2>7. Len(emitted) + Len(due') + Len(tm') = Len(arrived)
    <3>1. Len(emitted) + Len(due) + Len(tm) = Len(arrived)
      BY <2>3 DEF SleepQueue
    <3> QED
      BY <2>1, <2>3, <3>1
  <2>8. SleepQueue'
    BY <2>1, <2>2, <2>3, <2>5, <2>6, <2>7 DEF SleepQueue
  <2> QED
    BY <1>3, <2>1, <2>8 DEF SleepLife
<1>6. CASE Fire
  <2> DEFINE n == Len(emitted) + 1
  <2>1. /\ due # << >> /\ pc = "fire"
    BY <1>6 DEF Fire, FireTimer
  <2>2. SleepQueue
    BY <1>3, <2>1
  <2>3. /\ Head(due) = due[1] /\ Tail(due) \in Seq(Timers)
        /\ Len(due) > 0 /\ Len(Tail(due)) = Len(due) - 1
        /\ \A k \in 1 .. Len(Tail(due)) : k + 1 \in 1 .. Len(due) /\ Tail(due)[k] = due[k + 1]
    BY <2>1, TailOf
  <2>4. n \in 1 .. Len(arrived) /\ n \in Len(emitted) + 1 .. Len(arrived)
    BY <2>2, <2>3 DEF SleepQueue
  <2>5. due[1] = Slot(n) /\ 1 \in 1 .. Len(due)
    BY <2>2, <2>3 DEF SleepQueue
  <2>6. Head(due).name = n /\ arrived[n].at + Window <= now
    <3>1. Head(due) = [name |-> n, at |-> arrived[n].at + Window]
      BY <2>3, <2>5 DEF Slot
    <3>2. Head(due).name = n /\ Head(due).at = arrived[n].at + Window
      BY <3>1
    <3>3. Head(due).at <= now
      BY <2>3, <2>5
    <3> QED
      BY <3>2, <3>3
  <2>7. \E p \in op.pending : p.name = n
    BY <2>2, <2>4 DEF SleepQueue
  <2> HIDE DEF n
  <2>8. PICK p \in op.pending :
          /\ p.name = Head(due).name
          /\ OpIs(op', op.counter, op.pending \ {p}, op.seen)
          /\ \/ /\ emitted' = Append(emitted, [n |-> p.msg.n, at |-> now])
                /\ due' = Tail(due) /\ pc' = pc
             \/ /\ UNCHANGED emitted
                /\ due' = << >> /\ pc' = "gone"
    BY <1>2, <1>6, <2>6, <2>7, Releases
  <2>9. UNCHANGED <<tm, arrived>>
    BY <1>6 DEF Fire, FireTimer
  <2>10. p.name = n /\ p.msg.n = n
    BY <2>2, <2>6, <2>8 DEF SleepQueue
  <2>11. op'.counter = op.counter /\ op'.pending = op.pending \ {p}
    BY <2>8 DEF OpIs
  <2>12. CASE pc' = "gone" /\ UNCHANGED emitted
    BY <1>3, <2>9, <2>11, <2>12 DEF SleepLife
  <2>13. CASE /\ emitted' = Append(emitted, [n |-> p.msg.n, at |-> now])
              /\ due' = Tail(due) /\ pc' = pc
    <3> DEFINE y == [n |-> n, at |-> now]
    <3>1. y \in Stamps /\ y.n = n /\ y.at = now
      BY <2>4 DEF Stamps
    <3>2. emitted' = Append(emitted, y)
      BY <2>10, <2>13
    <3> HIDE DEF y
    <3>3. /\ Len(emitted') = n
          /\ \A k \in 1 .. Len(emitted) : emitted'[k] = emitted[k]
          /\ emitted'[n] = y
      BY <3>1, <3>2, AppendOf DEF n
    <3>4. n <= Len(arrived)
      BY <2>4
    <3>5. ASSUME NEW k \in 1 .. Len(emitted')
          PROVE  emitted'[k].n = k /\ emitted'[k].at >= arrived[k].at + Window
      <4>1. CASE k = n
        BY <2>4, <2>6, <3>1, <3>3, <4>1
      <4>2. CASE k # n
        <5>1. k \in 1 .. Len(emitted)
          BY <3>3, <4>2 DEF n
        <5> QED
          BY <1>3, <3>3, <5>1
      <4> QED
        BY <4>1, <4>2
    <3>6. \A k : Slot(k)' = Slot(k)
      BY <2>9 DEF Slot
    <3>7. /\ Len(due') = Len(due) - 1
          /\ Len(emitted') + Len(due') + Len(tm) = Len(arrived)
      <4>1. Len(emitted) + Len(due) + Len(tm) = Len(arrived)
        BY <2>2 DEF SleepQueue
      <4>2. Len(due') = Len(due) - 1
        BY <2>3, <2>13
      <4>3. Len(emitted') = Len(emitted) + 1
        BY <3>3 DEF n
      <4>4. Len(emitted) \in Nat /\ Len(due) \in Nat /\ Len(tm) \in Nat
        OBVIOUS
      <4> HIDE Typed
      <4> QED
        BY <4>1, <4>2, <4>3, <4>4
    <3>8. ASSUME NEW k \in 1 .. Len(due')
          PROVE  due'[k] = Slot(Len(emitted') + k)
      <4>1. k + 1 \in 1 .. Len(due) /\ due'[k] = due[k + 1]
        BY <2>3, <2>13
      <4>2. due[k + 1] = Slot(Len(emitted) + (k + 1))
        BY <2>2, <4>1 DEF SleepQueue
      <4>3. Len(emitted) + (k + 1) = Len(emitted') + k
        BY <3>3, <4>1 DEF n
      <4> QED
        BY <4>1, <4>2, <4>3
    <3>9. ASSUME NEW k \in 1 .. Len(tm)
          PROVE  tm[k] = Slot(Len(emitted') + Len(due') + k)
      <4>1. tm[k] = Slot(Len(emitted) + Len(due) + k)
        BY <2>2 DEF SleepQueue
      <4>2. Len(emitted) + Len(due) + k = Len(emitted') + Len(due') + k
        BY <3>3, <3>7 DEF n
      <4> QED
        BY <4>1, <4>2
    <3>10. ASSUME NEW m \in Len(emitted') + 1 .. Len(arrived)
           PROVE  \E q \in op'.pending : q.name = m
      <4>1. m \in Len(emitted) + 1 .. Len(arrived) /\ m # n
        BY <3>3 DEF n
      <4>2. PICK q \in op.pending : q.name = m
        BY <2>2, <4>1 DEF SleepQueue
      <4>3. q # p
        BY <2>10, <4>1, <4>2
      <4> QED
        BY <2>11, <4>2, <4>3
    <3>11. \A q \in op'.pending : q.msg.n = q.name
      BY <2>2, <2>11 DEF SleepQueue
    <3>12. SleepQueue'
      BY <2>9, <3>6, <3>7, <3>8, <3>9, <3>10, <3>11 DEF SleepQueue
    <3> QED
      BY <1>3, <2>9, <2>11, <3>3, <3>4, <3>5, <3>12 DEF SleepLife
  <2> QED
    BY <2>8, <2>12, <2>13
<1>7. ASSUME NEW key \in Keys, Deliver(key)
      PROVE  SleepLife'
  <2> DEFINE n == Len(arrived) + 1
             SlotNow(k) == [name |-> k, at |-> arrived'[k].at + Window]
  <2>1. /\ UNCHANGED <<setup, now, due>> /\ Len(arrived) < setup.data /\ pc \in {"select", "wait"}
    BY <1>7 DEF Deliver
  <2>2. due = << >> /\ Len(due) = 0
    BY <2>1 DEF NodeTimersInv, TimerInv
  <2>3. /\ OpIs(op', op.counter + 1, Staying(key) \cup {Entry(key)}, op.seen)
        /\ tm' = Register(tm, op.counter + 1, now + Window)
        /\ arrived' = Append(arrived, [key |-> key, at |-> now])
        /\ emitted' = emitted
    BY <1>2, <1>7, HoldsBack
  <2>4. /\ op' \in Ops /\ op'.counter = op.counter + 1
        /\ op'.pending = op.pending \cup {Entry(key)}
    BY <1>2, <2>3 DEF OpIs, Staying
  <2>5. /\ Len(arrived') = n
        /\ \A k \in 1 .. Len(arrived) : arrived'[k] = arrived[k]
        /\ arrived'[n] = [key |-> key, at |-> now]
    BY <2>1, <2>3, <2>4, Delivered DEF NodeTimersInv, OperatorInv
  <2>6. arrived'[n].at = now
    BY <2>5
  <2>7. SleepQueue
    BY <1>3, <2>1
  <2>8. \A k \in 1 .. Len(tm) : tm[k] = Slot(Len(emitted) + k) /\ Len(emitted) + k \in 1 .. Len(arrived)
    BY <2>2, <2>7 DEF SleepQueue
  <2>9. \A k \in 1 .. Len(tm) : tm[k].at <= now + Window
    <3> SUFFICES ASSUME NEW k \in 1 .. Len(tm) PROVE tm[k].at <= now + Window
      OBVIOUS
    <3>1. tm[k].at = arrived[Len(emitted) + k].at + Window
      <4> DEFINE i == Len(emitted) + k
      <4>1. tm[k] = Slot(i)
        BY <2>8
      <4> HIDE DEF i
      <4>2. tm[k].at = arrived[i].at + Window
        BY <4>1 DEF Slot
      <4> QED
        BY <4>2 DEF i
    <3>2. arrived[Len(emitted) + k].at \in Nat /\ arrived[Len(emitted) + k].at <= now
      BY <2>8
    <3> QED
      BY <3>1, <3>2
  <2>10. [name |-> op.counter + 1, at |-> now + Window] \in Timers
    <3>1. op.counter + 1 \in 1 .. setup.data /\ now + Window \in Nat
      BY <1>3, <2>1
    <3> QED
      BY <3>1, TimersType
  <2>11. /\ Len(tm') = Len(tm) + 1
         /\ \A k \in 1 .. Len(tm) : tm'[k] = tm[k]
         /\ tm'[Len(tm) + 1] = [name |-> op.counter + 1, at |-> now + Window]
    <3> DEFINE nm == op.counter + 1
               at == now + Window
    <3>1. /\ \A x \in Timers : x.at \in Nat
          /\ [name |-> nm, at |-> at] \in Timers /\ at \in Nat
          /\ tm \in Seq(Timers) /\ Sorted(tm)
          /\ \A k \in 1 .. Len(tm) : tm[k].at <= at
          /\ tm' = Register(tm, nm, at)
      BY <2>3, <2>9, <2>10, TimersType
    <3> HIDE DEF nm, at
    <3> HIDE Typed
    <3>2. /\ Len(Register(tm, nm, at)) = Len(tm) + 1
          /\ \A k \in 1 .. Len(tm) : Register(tm, nm, at)[k] = tm[k]
          /\ Register(tm, nm, at)[Len(tm) + 1] = [name |-> nm, at |-> at]
      BY <3>1, RegisterLast
    <3> QED
      BY <3>1, <3>2 DEF nm, at
  <2>12. \A k \in 1 .. Len(arrived) : SlotNow(k) = Slot(k)
    BY <2>5 DEF Slot
  <2>13. tm'[Len(tm) + 1] = SlotNow(n)
    BY <1>3, <2>6, <2>11
  <2> HIDE DEF n, SlotNow
  <2>14. n = Len(arrived) + 1
    BY DEF n
  <2>15. op'.counter = Len(arrived')
    BY <1>3, <2>4, <2>5, <2>14
  <2>16. ASSUME NEW j \in 1 .. Len(arrived'), NEW k \in 1 .. Len(arrived'), j <= k
         PROVE  arrived'[j].at <= arrived'[k].at
    <3>1. CASE k = n
      <4>1. CASE j = n
        BY <2>6, <3>1, <4>1
      <4>2. CASE j # n
        <5>1. j \in 1 .. Len(arrived)
          BY <2>5, <2>14, <4>2
        <5> QED
          BY <2>5, <2>6, <3>1, <5>1
      <4> QED
        BY <4>1, <4>2
    <3>2. CASE k # n
      <4>1. k \in 1 .. Len(arrived) /\ j \in 1 .. Len(arrived)
        BY <2>5, <2>14, <2>16, <3>2
      <4> QED
        BY <1>3, <2>5, <2>16, <4>1
    <3> QED
      BY <3>1, <3>2
  <2>17. Len(emitted') <= Len(arrived')
    BY <1>3, <2>3, <2>5, <2>14
  <2>18. ASSUME NEW k \in 1 .. Len(emitted')
         PROVE  emitted'[k].n = k /\ emitted'[k].at >= arrived'[k].at + Window
    <3>1. k \in 1 .. Len(emitted) /\ k \in 1 .. Len(arrived)
      BY <1>3, <2>3
    <3> QED
      BY <1>3, <2>3, <2>5, <3>1
  <2>19. Len(emitted) + Len(tm) = Len(arrived)
    <3>1. Len(emitted) + Len(due) + Len(tm) = Len(arrived)
      BY <2>7 DEF SleepQueue
    <3> QED
      BY <2>2, <3>1
  <2>20. Len(emitted') + Len(due') + Len(tm') = Len(arrived')
    BY <2>1, <2>2, <2>3, <2>5, <2>11, <2>14, <2>19
  <2>21. ASSUME NEW k \in 1 .. Len(tm')
         PROVE  tm'[k] = SlotNow(Len(emitted') + Len(due') + k)
    <3>1. Len(emitted') + Len(due') + k = Len(emitted) + k
      BY <2>1, <2>2, <2>3, <2>11
    <3>2. CASE k = Len(tm) + 1
      <4>1. Len(emitted) + k = n
        BY <2>14, <2>19, <3>2
      <4> QED
        BY <2>13, <3>1, <3>2, <4>1
    <3>3. CASE k # Len(tm) + 1
      <4>1. k \in 1 .. Len(tm)
        BY <2>11, <3>3
      <4>2. tm'[k] = Slot(Len(emitted) + k) /\ Len(emitted) + k \in 1 .. Len(arrived)
        BY <2>8, <2>11, <4>1
      <4> QED
        BY <2>12, <3>1, <4>2
    <3> QED
      BY <3>2, <3>3
  <2>22. ASSUME NEW p \in op'.pending
         PROVE  p.msg.n = p.name
    <3>1. CASE p = Entry(key)
      BY <1>3, <3>1 DEF Entry
    <3>2. CASE p \in op.pending
      BY <2>7, <3>2 DEF SleepQueue
    <3> QED
      BY <2>4, <3>1, <3>2
  <2>23. ASSUME NEW m \in Len(emitted') + 1 .. Len(arrived')
         PROVE  \E p \in op'.pending : p.name = m
    <3>1. CASE m = n
      <4>1. Entry(key).name = n
        BY <1>3, <2>14 DEF Entry
      <4> QED
        BY <2>4, <3>1, <4>1
    <3>2. CASE m # n
      <4>1. m \in Len(emitted) + 1 .. Len(arrived)
        BY <2>3, <2>5, <2>14, <3>2
      <4>2. PICK p \in op.pending : p.name = m
        BY <2>7, <4>1 DEF SleepQueue
      <4> QED
        BY <2>4, <4>2
    <3> QED
      BY <3>1, <3>2
  <2>24. SleepQueue'
    <3>1. Len(due') = 0 /\ 1 .. 0 = {}
      BY <2>1, <2>2
    <3>2. \A k \in 1 .. Len(due') : (due[k] = Slot(Len(emitted) + k))'
      BY <3>1
    <3>3. \A k \in 1 .. Len(tm') : (tm[k] = Slot(Len(emitted) + Len(due) + k))'
      BY <2>21 DEF Slot, SlotNow
    <3> QED
      BY <2>20, <2>22, <2>23, <3>2, <3>3 DEF SleepQueue
  <2> QED
    BY <2>15, <2>16, <2>17, <2>18, <2>24 DEF SleepLife
<1> QED
  BY <1>1, <1>4, <1>5, <1>6, <1>7, StepCases DEF NodeTimersInv

(* Sleep re-emits the messages in the order they came, none before its      *)
(* delay has passed, whenever timers fire late, are popped together or wait *)
(* while the node is paused (SleepFifo).                                    *)
THEOREM SleepCorrect == Spec => []SleepFifo
<1>1. Init => SleepInv
  <2> SUFFICES ASSUME Init PROVE SleepInv
    OBVIOUS
  <2>1. /\ tm = << >> /\ due = << >> /\ arrived = << >> /\ emitted = << >>
        /\ op.counter = 0 /\ op.pending = {}
    BY DEF Init, newTimerManager, NewOperator
  <2>2. Len(tm) = 0 /\ Len(due) = 0 /\ Len(arrived) = 0 /\ Len(emitted) = 0
    BY <2>1
  <2>3. SleepQueue
    BY <2>1, <2>2 DEF SleepQueue
  <2> QED
    BY <2>1, <2>2, <2>3 DEF SleepInv, SleepLife
<1>2. NodeTimersInv /\ SleepInv /\ [Next]_vars => SleepInv'
  BY SleepStep
<1>3. SleepInv => SleepFifo
  BY DEF SleepInv, SleepLife, SleepFifo
<1> QED
  BY <1>1, <1>2, <1>3, NodeTimersInvariant, PTL DEF Spec
-----------------------------------------------------------------------------
(* Debounce. *)

(* The timer belongs to a message of this life and is due a window later. *)
Timely(x) == x.name \in 1 .. Len(arrived) /\ x.at = arrived[x.name].at + Window

(* The message came n-th and a window without its key has followed, as far  *)
(* as there was time for one.                                               *)
QuietBehind(n) ==
  \A j \in n + 1 .. Len(arrived) :
    arrived[j].key = arrived[n].key => arrived[j].at >= arrived[n].at + Window

(* A name is the number of its message; a pending message is the last of    *)
(* its key; every timer is timely.                                          *)
DebounceLife ==
  /\ op.counter = Len(arrived)
  /\ \A p \in op.pending :
       p.msg.n = p.name /\ \A j \in p.name + 1 .. Len(arrived) : arrived[j].key # p.msg.key
  /\ \A k \in 1 .. Len(due) : Timely(due[k])
  /\ \A k \in 1 .. Len(tm) : Timely(tm[k])
  /\ \A k \in 1 .. Len(emitted) :
       /\ emitted[k].n \in 1 .. Len(arrived)
       /\ emitted[k].at >= arrived[emitted[k].n].at + Window
       /\ QuietBehind(emitted[k].n)

DebounceInv == kind = "debounce" /\ life = 1 => DebounceLife

(* Registering adds the new timer and no other. *)
LEMMA RegisterMembers ==
  ASSUME NEW T, \A x \in T : x.at \in Nat,
         NEW s \in Seq(T), Sorted(s), NEW nm, NEW at \in Nat, [name |-> nm, at |-> at] \in T
  PROVE  \A k \in 1 .. Len(Register(s, nm, at)) :
           \/ Register(s, nm, at)[k] = [name |-> nm, at |-> at]
           \/ \E j \in 1 .. Len(s) : Register(s, nm, at)[k] = s[j]
<1> DEFINE r == Register(s, nm, at)
           u == UpTo(s, at)
           x == [name |-> nm, at |-> at]
<1>1. /\ u \in 0 .. Len(s) /\ Len(s) \in Nat
      /\ Len(r) = Len(s) + 1
      /\ \A k \in 1 .. Len(s) + 1 : r[k] = IF k <= u THEN s[k]
                                           ELSE IF k = u + 1 THEN x ELSE s[k - 1]
  <2>1. u \in 0 .. Len(s)
    BY UpToSplits
  <2>2. Len(s) \in Nat
    OBVIOUS
  <2> QED
    BY <2>1, <2>2, RegisterInserts
<1> HIDE DEF r, u, x
<1>2. ASSUME NEW k \in 1 .. Len(r)
      PROVE  r[k] = x \/ \E j \in 1 .. Len(s) : r[k] = s[j]
  <2>1. CASE k <= u
    <3>1. k \in 1 .. Len(s) /\ r[k] = s[k]
      BY <1>1, <2>1
    <3> QED
      BY <3>1
  <2>2. CASE k = u + 1
    BY <1>1, <2>2
  <2>3. CASE k > u + 1
    <3>1. k - 1 \in 1 .. Len(s) /\ r[k] = s[k - 1]
      BY <1>1, <2>3
    <3> QED
      BY <3>1
  <2>4. k <= u \/ k = u + 1 \/ k > u + 1
    BY <1>1
  <2> QED
    BY <2>1, <2>2, <2>3, <2>4
<1> QED
  BY <1>2 DEF r, x

(* Debounce: every step keeps what is pending the last of its key. *)
LEMMA DebounceStep ==
  ASSUME NodeTimersInv, DebounceInv, [Next]_vars
  PROVE  DebounceInv'
<1> SUFFICES ASSUME kind' = "debounce", life' = 1
             PROVE  DebounceLife'
  BY DEF DebounceInv
<1> USE Typed
<1>1. ~Restart
  BY DEF Restart
<1>2. kind = "debounce" /\ life = 1
  <2>1. UNCHANGED <<setup, life>>
    BY <1>1, StepCases DEF NodeTimersInv, Idle, Pop, Fire, FireTimer, Deliver
  <2> QED
    BY <2>1 DEF kind
<1>3. /\ op.counter = Len(arrived)
      /\ \A p \in op.pending :
           p.msg.n = p.name /\ \A j \in p.name + 1 .. Len(arrived) : arrived[j].key # p.msg.key
      /\ \A k \in 1 .. Len(due) : Timely(due[k])
      /\ \A k \in 1 .. Len(tm) : Timely(tm[k])
      /\ \A k \in 1 .. Len(emitted) :
           /\ emitted[k].n \in 1 .. Len(arrived)
           /\ emitted[k].at >= arrived[emitted[k].n].at + Window
           /\ QuietBehind(emitted[k].n)
  BY <1>2 DEF DebounceInv, DebounceLife
<1>4. CASE Idle
  <2>1. UNCHANGED <<op, tm, due, arrived, emitted>>
    BY <1>2, <1>4 DEF Idle
  <2> QED
    BY <1>3, <2>1 DEF DebounceLife, Timely, QuietBehind
<1>5. CASE Pop
  <2>1. /\ UNCHANGED <<op, arrived, emitted>>
        /\ \A k \in 1 .. Len(due') : due'[k] = tm[k] /\ k \in 1 .. Len(tm)
        /\ \A k \in 1 .. Len(tm') : tm'[k] = tm[Len(due') + k] /\ Len(due') + k \in 1 .. Len(tm)
    BY <1>5, Popped
  <2>2. /\ \A k \in 1 .. Len(due') : Timely(due'[k])
        /\ \A k \in 1 .. Len(tm') : Timely(tm'[k])
    BY <1>3, <2>1
  <2>3. \A n : QuietBehind(n)' <=> QuietBehind(n)
    BY <2>1 DEF QuietBehind
  <2>4. \A k \in 1 .. Len(emitted') : QuietBehind(emitted[k].n)'
    BY <1>3, <2>1 DEF QuietBehind
  <2>5. /\ \A k \in 1 .. Len(due') : Timely(due[k])'
        /\ \A k \in 1 .. Len(tm') : Timely(tm[k])'
    BY <2>1, <2>2 DEF Timely
  <2> QED
    BY <1>3, <2>1, <2>4, <2>5 DEF DebounceLife
<1>6. CASE Fire
  <2>1. due # << >> /\ UNCHANGED <<now, tm, arrived>>
    BY <1>6 DEF Fire, FireTimer
  <2>2. /\ Head(due) = due[1] /\ 1 \in 1 .. Len(due)
        /\ \A k \in 1 .. Len(Tail(due)) : k + 1 \in 1 .. Len(due) /\ Tail(due)[k] = due[k + 1]
    BY <2>1, TailOf
  <2>3. \A k \in 1 .. Len(tm') : Timely(tm[k])'
    BY <1>3, <2>1 DEF Timely
  <2>4. ASSUME due' = Tail(due) \/ due' = << >>
        PROVE  \A k \in 1 .. Len(due') : Timely(due[k])'
    <3>1. CASE due' = Tail(due)
      BY <1>3, <2>1, <2>2, <3>1 DEF Timely
    <3>2. CASE due' = << >>
      BY <3>2
    <3> QED
      BY <2>4, <3>1, <3>2
  <2>5. \A k \in 1 .. Len(emitted) : /\ emitted[k].n \in 1 .. Len(arrived')
                                     /\ emitted[k].at >= arrived'[emitted[k].n].at + Window
                                     /\ QuietBehind(emitted[k].n)
    BY <1>3, <2>1
  <2>6. \/ UNCHANGED <<op, emitted, pc>> /\ due' = Tail(due)
        \/ \E p \in op.pending :
             /\ p.name = Head(due).name
             /\ OpIs(op', op.counter, op.pending \ {p}, op.seen)
             /\ \/ /\ emitted' = Append(emitted, [n |-> p.msg.n, at |-> now])
                   /\ due' = Tail(due) /\ pc' = pc
                \/ /\ UNCHANGED emitted
                   /\ due' = << >> /\ pc' = "gone"
    BY <1>2, <1>6, Releases
  <2>7. ASSUME UNCHANGED emitted
        PROVE  \A k \in 1 .. Len(emitted') : /\ emitted'[k].n \in 1 .. Len(arrived')
                                             /\ emitted'[k].at >= arrived'[emitted'[k].n].at + Window
                                             /\ QuietBehind(emitted[k].n)'
    BY <2>1, <2>5, <2>7 DEF QuietBehind
  <2>8. CASE UNCHANGED <<op, emitted, pc>> /\ due' = Tail(due)
    BY <1>3, <2>1, <2>3, <2>4, <2>7, <2>8 DEF DebounceLife
  <2>9. ASSUME NEW p \in op.pending,
               p.name = Head(due).name,
               OpIs(op', op.counter, op.pending \ {p}, op.seen),
               \/ /\ emitted' = Append(emitted, [n |-> p.msg.n, at |-> now])
                  /\ due' = Tail(due) /\ pc' = pc
               \/ /\ UNCHANGED emitted
                  /\ due' = << >> /\ pc' = "gone"
        PROVE  DebounceLife'
    <3>1. op'.counter = op.counter /\ op'.pending = op.pending \ {p}
      BY <2>9 DEF OpIs
    <3>2. CASE UNCHANGED emitted /\ due' = << >>
      BY <1>3, <2>1, <2>3, <2>4, <2>7, <3>1, <3>2 DEF DebounceLife
    <3>3. CASE emitted' = Append(emitted, [n |-> p.msg.n, at |-> now]) /\ due' = Tail(due)
      <4> DEFINE n == p.name
                 y == [n |-> n, at |-> now]
      <4>1. /\ p.msg.n = n /\ n \in 1 .. Len(arrived) /\ p.msg.key = arrived[n].key
            /\ \A j \in n + 1 .. Len(arrived) : arrived[j].key # p.msg.key
        BY <1>3 DEF NodeTimersInv, OperatorInv, PendingMap
      <4>2. arrived[n].at + Window <= now
        <5>1. Timely(due[1]) /\ due[1].at <= now /\ due[1].name = n
          BY <1>3, <2>2, <2>9
        <5> QED
          BY <5>1 DEF Timely
      <4>3. QuietBehind(n)
        BY <4>1 DEF QuietBehind
      <4>4. y \in Stamps /\ y.n = n /\ y.at = now
        BY <4>1 DEF Stamps
      <4>5. emitted' = Append(emitted, y)
        BY <3>3, <4>1
      <4> HIDE DEF y, n
      <4>6. /\ Len(emitted') = Len(emitted) + 1
            /\ \A k \in 1 .. Len(emitted) : emitted'[k] = emitted[k]
            /\ emitted'[Len(emitted) + 1] = y
        BY <4>4, <4>5, AppendOf
      <4>7. ASSUME NEW k \in 1 .. Len(emitted')
            PROVE  /\ emitted'[k].n \in 1 .. Len(arrived)
                   /\ emitted'[k].at >= arrived[emitted'[k].n].at + Window
                   /\ QuietBehind(emitted'[k].n)
        <5>1. CASE k = Len(emitted) + 1
          BY <4>1, <4>2, <4>3, <4>4, <4>6, <5>1
        <5>2. CASE k # Len(emitted) + 1
          <6>1. k \in 1 .. Len(emitted)
            BY <4>6, <5>2
          <6> QED
            BY <1>3, <4>6, <6>1
        <5> QED
          BY <5>1, <5>2
      <4>8. \A k \in 1 .. Len(emitted') : QuietBehind(emitted[k].n)'
        BY <2>1, <4>7 DEF QuietBehind
      <4> QED
        BY <1>3, <2>1, <2>3, <2>4, <3>1, <3>3, <4>7, <4>8 DEF DebounceLife
    <3> QED
      BY <2>9, <3>2, <3>3
  <2> QED
    BY <2>6, <2>8, <2>9
<1>7. ASSUME NEW key \in Keys, Deliver(key)
      PROVE  DebounceLife'
  <2> DEFINE n == Len(arrived) + 1
  <2>1. /\ UNCHANGED <<setup, now, due>> /\ Len(arrived) < setup.data /\ pc \in {"select", "wait"}
    BY <1>7 DEF Deliver
  <2>2. due' = << >>
    BY <2>1 DEF NodeTimersInv, TimerInv
  <2>3. /\ OpIs(op', op.counter + 1, Staying(key) \cup {Entry(key)}, op.seen)
        /\ tm' = Register(tm, op.counter + 1, now + Window)
        /\ arrived' = Append(arrived, [key |-> key, at |-> now])
        /\ emitted' = emitted
    BY <1>2, <1>7, HoldsBack
  <2>4. /\ op' \in Ops /\ op'.counter = op.counter + 1
        /\ op'.pending = Staying(key) \cup {Entry(key)}
    BY <2>3 DEF OpIs
  <2>5. /\ Len(arrived') = n
        /\ \A k \in 1 .. Len(arrived) : arrived'[k] = arrived[k]
        /\ arrived'[n] = [key |-> key, at |-> now]
    BY <2>1, <2>3, <2>4, Delivered DEF NodeTimersInv, OperatorInv
  <2>6. arrived'[n].at = now /\ arrived'[n].key = key
    BY <2>5
  <2> HIDE DEF n
  <2>7. n = Len(arrived) + 1 /\ n = op.counter + 1
    BY <1>3 DEF n
  <2>8. op'.counter = Len(arrived')
    BY <2>4, <2>5, <2>7
  <2>9. ASSUME NEW p \in op'.pending
        PROVE  p.msg.n = p.name /\ \A j \in p.name + 1 .. Len(arrived') : arrived'[j].key # p.msg.key
    <3>1. CASE p = Entry(key)
      <4>1. p.name = n /\ p.msg.n = n
        BY <2>7, <3>1 DEF Entry
      <4>2. \A j \in p.name + 1 .. Len(arrived') : FALSE
        BY <2>5, <2>7, <4>1
      <4> QED
        BY <4>1, <4>2
    <3>2. CASE p \in Staying(key)
      <4>1. p \in op.pending /\ p.msg.key # key
        BY <1>2, <3>2 DEF Staying
      <4>2. p.name \in 1 .. Len(arrived)
        BY <1>3, <4>1 DEF NodeTimersInv, OperatorInv, PendingMap
      <4>3. ASSUME NEW j \in p.name + 1 .. Len(arrived')
            PROVE  arrived'[j].key # p.msg.key
        <5>1. CASE j = n
          BY <2>6, <4>1, <5>1
        <5>2. CASE j # n
          <6>1. j \in p.name + 1 .. Len(arrived) /\ j \in 1 .. Len(arrived)
            BY <2>5, <2>7, <4>2, <5>2
          <6> QED
            BY <1>3, <2>5, <4>1, <6>1
        <5> QED
          BY <5>1, <5>2
      <4> QED
        BY <1>3, <4>1, <4>3
    <3> QED
      BY <2>4, <3>1, <3>2
  <2>10. [name |-> n, at |-> now + Window] \in Timers
    <3>1. n \in 1 .. setup.data /\ now + Window \in Nat
      BY <2>1, <2>7
    <3> QED
      BY <3>1, TimersType
  <2>11. ASSUME NEW k \in 1 .. Len(tm')
         PROVE  \/ tm'[k] = [name |-> n, at |-> now + Window]
                \/ \E j \in 1 .. Len(tm) : tm'[k] = tm[j]
    <3> DEFINE at == now + Window
    <3>1. /\ \A x \in Timers : x.at \in Nat
          /\ tm \in Seq(Timers) /\ Sorted(tm)
          /\ [name |-> n, at |-> at] \in Timers /\ at \in Nat
          /\ tm' = Register(tm, n, at)
      BY <2>3, <2>7, <2>10, TimersType
    <3> HIDE DEF at
    <3> HIDE Typed
    <3>2. \A i \in 1 .. Len(Register(tm, n, at)) :
            \/ Register(tm, n, at)[i] = [name |-> n, at |-> at]
            \/ \E j \in 1 .. Len(tm) : Register(tm, n, at)[i] = tm[j]
      BY <3>1, RegisterMembers
    <3> QED
      BY <3>1, <3>2 DEF at
  <2>12. ASSUME NEW k \in 1 .. Len(tm')
         PROVE  tm'[k].name \in 1 .. Len(arrived') /\ tm'[k].at = arrived'[tm'[k].name].at + Window
    <3>1. CASE tm'[k] = [name |-> n, at |-> now + Window]
      <4>1. tm'[k].name = n /\ tm'[k].at = now + Window
        BY <3>1
      <4> QED
        BY <2>5, <2>6, <2>7, <4>1
    <3>2. ASSUME NEW j \in 1 .. Len(tm), tm'[k] = tm[j]
          PROVE  /\ tm'[k].name \in 1 .. Len(arrived')
                 /\ tm'[k].at = arrived'[tm'[k].name].at + Window
      <4>1. tm[j].name \in 1 .. Len(arrived) /\ tm[j].at = arrived[tm[j].name].at + Window
        BY <1>3 DEF Timely
      <4>2. tm[j].name \in 1 .. Len(arrived') /\ arrived'[tm[j].name] = arrived[tm[j].name]
        BY <2>5, <2>7, <4>1
      <4> QED
        BY <3>2, <4>1, <4>2
    <3> QED
      BY <2>11, <3>1, <3>2
  <2>13. ASSUME NEW k \in 1 .. Len(emitted)
         PROVE  /\ emitted[k].n \in 1 .. Len(arrived')
                /\ emitted[k].at >= arrived'[emitted[k].n].at + Window
                /\ \A j \in emitted[k].n + 1 .. Len(arrived') :
                     arrived'[j].key = arrived'[emitted[k].n].key
                       => arrived'[j].at >= arrived'[emitted[k].n].at + Window
    <3> DEFINE m == emitted[k].n
    <3>1. /\ m \in 1 .. Len(arrived) /\ emitted[k].at >= arrived[m].at + Window
          /\ \A j \in m + 1 .. Len(arrived) :
               arrived[j].key = arrived[m].key => arrived[j].at >= arrived[m].at + Window
      BY <1>3 DEF QuietBehind
    <3>2. emitted[k].at \in Nat /\ emitted[k].at <= now
      BY DEF NodeTimersInv, OperatorInv, Histories
    <3> HIDE DEF m
    <3>3. m \in 1 .. Len(arrived') /\ arrived'[m] = arrived[m] /\ arrived[m].at \in Nat
      BY <2>5, <2>7, <3>1
    <3>4. now >= arrived[m].at + Window
      <4> DEFINE a == arrived[m].at
                 e == emitted[k].at
      <4>1. a \in Nat /\ e \in Nat /\ now \in Nat /\ Window \in Nat /\ e >= a + Window /\ e <= now
        BY <3>1, <3>2, <3>3
      <4> HIDE DEF a, e
      <4> HIDE Typed
      <4>2. now >= a + Window
        BY <4>1
      <4> QED
        BY <4>2 DEF a
    <3>5. ASSUME NEW j \in m + 1 .. Len(arrived'), arrived'[j].key = arrived'[m].key
          PROVE  arrived'[j].at >= arrived'[m].at + Window
      <4>1. CASE j = n
        BY <2>6, <3>3, <3>4, <4>1
      <4>2. CASE j # n
        <5>1. j \in m + 1 .. Len(arrived) /\ j \in 1 .. Len(arrived)
          <6>1. Len(arrived) \in Nat /\ m \in 1 .. Len(arrived) /\ Len(arrived') = Len(arrived) + 1
            BY <2>5, <2>7, <3>1
          <6>2. j \in Nat /\ j # Len(arrived) + 1
            BY <2>7, <4>2, <6>1
          <6> HIDE Typed
          <6> QED
            BY <6>1, <6>2
        <5> QED
          BY <2>5, <3>1, <3>3, <3>5, <5>1
      <4> QED
        BY <4>1, <4>2
    <3> QED
      BY <3>1, <3>3, <3>5 DEF m
  <2>14. \A k \in 1 .. Len(due') : FALSE
    BY <2>2
  <2>15. \A k \in 1 .. Len(tm') : Timely(tm[k])'
    BY <2>12 DEF Timely
  <2>16. \A k \in 1 .. Len(emitted') : QuietBehind(emitted[k].n)'
    BY <2>3, <2>13 DEF QuietBehind
  <2> QED
    BY <2>3, <2>8, <2>9, <2>13, <2>14, <2>15, <2>16 DEF DebounceLife
<1> QED
  BY <1>1, <1>4, <1>5, <1>6, <1>7, StepCases DEF NodeTimersInv

(* Debounce emits a message only after a window without a new message of    *)
(* its key, though the timers of the messages it has replaced fire all the  *)
(* same (DebounceQuiet).                                                    *)
THEOREM DebounceCorrect == Spec => []DebounceQuiet
<1>1. Init => DebounceInv
  <2> SUFFICES ASSUME Init PROVE DebounceInv
    OBVIOUS
  <2>1. /\ tm = << >> /\ due = << >> /\ arrived = << >> /\ emitted = << >>
        /\ op.counter = 0 /\ op.pending = {}
    BY DEF Init, newTimerManager, NewOperator
  <2>2. Len(tm) = 0 /\ Len(due) = 0 /\ Len(arrived) = 0 /\ Len(emitted) = 0
    BY <2>1
  <2> QED
    BY <2>1, <2>2 DEF DebounceInv, DebounceLife
<1>2. NodeTimersInv /\ DebounceInv /\ [Next]_vars => DebounceInv'
  BY DebounceStep
<1>3. DebounceInv => DebounceQuiet
  BY DEF DebounceInv, DebounceLife, QuietBehind, DebounceQuiet
<1> QED
  BY <1>1, <1>2, <1>3, NodeTimersInvariant, PTL DEF Spec
-----------------------------------------------------------------------------
(* Deduplicate. *)

(* No message of its key was emitted in the window before the j-th. *)
Fresh(j) ==
  \A i \in 1 .. j - 1 :
    WasEmitted(i) /\ arrived[i].key = arrived[j].key => arrived[j].at >= arrived[i].at + Window

(* A key is remembered because of a message that was emitted, ... *)
SeenForCause ==
  \A s \in op.seen :
    \E i \in 1 .. Len(arrived) :
      WasEmitted(i) /\ arrived[i].key = s.key /\ s.at = arrived[i].at + Window

(* ... and as long as the window of one lasts, whichever timers have fired. *)
Remembered ==
  \A i \in 1 .. Len(arrived) :
    WasEmitted(i) =>
      \/ arrived[i].at + Window <= now
      \/ \E s \in op.seen : s.key = arrived[i].key /\ s.at >= arrived[i].at + Window

DedupLife ==
  /\ SeenForCause
  /\ Remembered
  /\ \A j \in 1 .. Len(arrived) : WasEmitted(j) <=> Fresh(j)

DedupInv == kind = "dedup" /\ life = 1 /\ ~cancelled => DedupLife

(* A key is forgotten no earlier, and a message judged no differently, for  *)
(* a step that takes in and emits nothing.                                  *)
LEMMA DedupKept ==
  ASSUME NodeTimersInv, DedupLife, UNCHANGED <<arrived, emitted>>, now' \in {now, now + 1},
         op'.seen \subseteq op.seen,
         \A s \in op.seen : s \in op'.seen \/ s.at <= now
  PROVE  DedupLife'
<1> USE Typed
<1>1. \A i : WasEmitted(i)' <=> WasEmitted(i)
  BY DEF WasEmitted
<1>2. SeenForCause'
  BY <1>1 DEF DedupLife, SeenForCause
<1>3. ASSUME NEW i \in 1 .. Len(arrived), WasEmitted(i)
      PROVE  \/ arrived[i].at + Window <= now'
             \/ \E s \in op'.seen : s.key = arrived[i].key /\ s.at >= arrived[i].at + Window
  <2> DEFINE a == arrived[i].at + Window
  <2>1. a \in Nat /\ now' \in Nat /\ now <= now'
    OBVIOUS
  <2>2. a <= now \/ \E s \in op.seen : s.key = arrived[i].key /\ s.at >= a
    BY <1>3 DEF DedupLife, Remembered
  <2> HIDE DEF a
  <2>3. CASE a <= now
    <3>1. a <= now'
      BY <2>1, <2>3
    <3> QED
      BY <3>1 DEF a
  <2>4. ASSUME NEW s \in op.seen, s.key = arrived[i].key, s.at >= a
        PROVE  a <= now' \/ \E t \in op'.seen : t.key = arrived[i].key /\ t.at >= a
    <3>1. CASE s \in op'.seen
      BY <2>4, <3>1
    <3>2. CASE s.at <= now
      <4>1. s.at \in Nat
        BY DEF Ops, Entries
      <4>2. a <= now'
        BY <2>1, <2>4, <3>2, <4>1
      <4> QED
        BY <4>2
    <3> QED
      BY <3>1, <3>2
  <2> QED
    BY <2>2, <2>3, <2>4 DEF a
<1>4. Remembered'
  BY <1>1, <1>3 DEF Remembered
<1>5. \A j : Fresh(j)' <=> Fresh(j)
  BY <1>1 DEF Fresh
<1> QED
  BY <1>1, <1>2, <1>4, <1>5 DEF DedupLife

(* Deduplicate: every step keeps a key remembered exactly for its window. *)
LEMMA DedupStep ==
  ASSUME NodeTimersInv, DedupInv, [Next]_vars
  PROVE  DedupInv'
<1> SUFFICES ASSUME kind' = "dedup", life' = 1, ~cancelled'
             PROVE  DedupLife'
  BY DEF DedupInv
<1> USE Typed
<1>1. ~Restart
  BY DEF Restart
<1>2. kind = "dedup" /\ life = 1 /\ ~cancelled
  <2>1. UNCHANGED <<setup, life>>
    BY <1>1, StepCases DEF NodeTimersInv, Idle, Pop, Fire, FireTimer, Deliver
  <2>2. cancelled => cancelled'
    BY <1>1, StepCases DEF NodeTimersInv, Idle, Pop, Fire, FireTimer, Deliver, HandleData
  <2> QED
    BY <2>1, <2>2 DEF kind
<1>3. DedupLife
  BY <1>2 DEF DedupInv
<1>4. CASE Idle
  <2>1. UNCHANGED <<op, arrived, emitted>> /\ now' \in {now, now + 1}
    BY <1>2, <1>4 DEF Idle
  <2> QED
    BY <1>3, <2>1, DedupKept
<1>5. CASE Pop
  <2>1. UNCHANGED <<op, arrived, emitted, now>>
    BY <1>5 DEF Pop
  <2> QED
    BY <1>3, <2>1, DedupKept
<1>6. CASE Fire
  <2>1. /\ UNCHANGED <<now, arrived, emitted>>
        /\ op'.seen = {s \in op.seen : s.at > Head(due).at}
    BY <1>2, <1>6, Forgets DEF OpIs
  <2>2. Head(due).at \in Nat /\ Head(due).at <= now
    <3>1. due # << >>
      BY <1>6 DEF Fire
    <3>2. Head(due) = due[1] /\ 1 \in 1 .. Len(due)
      BY <3>1, TailOf
    <3> QED
      BY <3>2
  <2>3. \A s \in op.seen : s \in op'.seen \/ s.at <= now
    <3> SUFFICES ASSUME NEW s \in op.seen, s \notin op'.seen PROVE s.at <= now
      OBVIOUS
    <3>1. s.at \in Nat
      BY DEF Ops, Entries
    <3>2. ~(s.at > Head(due).at)
      BY <2>1
    <3> QED
      BY <2>2, <3>1, <3>2
  <2> QED
    BY <1>3, <2>1, <2>3, DedupKept
<1>7. ASSUME NEW key \in Keys, Deliver(key)
      PROVE  DedupLife'
  <2> DEFINE n == Len(arrived) + 1
             old == \E s \in op.seen : s.key = key /\ s.at > now
             entries == {s \in op.seen : s.key # key} \cup {[key |-> key, at |-> now + Window]}
  <2>1. /\ UNCHANGED <<setup, now>> /\ Len(arrived) < setup.data /\ now + Window \in Nat
    BY <1>7 DEF Deliver
  <2>2. /\ arrived' = Append(arrived, [key |-> key, at |-> now])
        /\ \/ old /\ UNCHANGED <<op, emitted>>
           \/ /\ ~old /\ OpIs(op', op.counter + 1, op.pending, entries)
              /\ emitted' = Append(emitted, [n |-> n, at |-> now])
    BY <1>2, <1>7, <2>1, PassesOn
  <2> HIDE DEF old, entries
  <2>3. op' \in Ops /\ op'.counter \in {op.counter, op.counter + 1}
    BY <2>2 DEF OpIs
  <2>4. /\ Len(arrived') = n
        /\ \A k \in 1 .. Len(arrived) : arrived'[k] = arrived[k]
        /\ arrived'[n] = [key |-> key, at |-> now]
    BY <2>1, <2>2, <2>3, Delivered DEF NodeTimersInv, OperatorInv
  <2>5. arrived'[n].at = now /\ arrived'[n].key = key
    BY <2>4
  <2> HIDE DEF n
  <2>6. n = Len(arrived) + 1 /\ n \in Nat
    BY DEF n
  <2>7. \A k \in 1 .. Len(emitted) : emitted[k].n # n
    <3> SUFFICES ASSUME NEW k \in 1 .. Len(emitted) PROVE emitted[k].n # n
      OBVIOUS
    <3>1. emitted[k].n \in Nat /\ emitted[k].n <= Len(arrived)
      BY DEF NodeTimersInv, OperatorInv, Histories
    <3> QED
      BY <2>6, <3>1
  <2>8. ~WasEmitted(n)
    BY <2>7 DEF WasEmitted
  (* What was emitted before, and the judgement of it, stays. *)
  <2> DEFINE Out(i) == \E k \in 1 .. Len(emitted') : emitted'[k].n = i
  <2>9. \A i : WasEmitted(i)' <=> Out(i)
    BY DEF WasEmitted
  <2>10. \A i : i # n => (Out(i) <=> WasEmitted(i))
    <3>1. CASE UNCHANGED emitted
      BY <3>1 DEF WasEmitted
    <3>2. CASE emitted' = Append(emitted, [n |-> n, at |-> now])
      <4> DEFINE y == [n |-> n, at |-> now]
      <4>1. y \in Stamps /\ y.n = n
        BY <2>6 DEF Stamps
      <4>2. emitted' = Append(emitted, y)
        BY <3>2
      <4> HIDE DEF y
      <4>3. /\ Len(emitted') = Len(emitted) + 1
            /\ \A k \in 1 .. Len(emitted) : emitted'[k] = emitted[k]
            /\ emitted'[Len(emitted) + 1] = y
        BY <4>1, <4>2, AppendOf
      <4>4. \A k \in 1 .. Len(emitted') : k \in 1 .. Len(emitted) \/ k = Len(emitted) + 1
        BY <4>3
      <4>5. \A k \in 1 .. Len(emitted) : k \in 1 .. Len(emitted')
        BY <4>3
      <4> QED
        BY <4>1, <4>3, <4>4, <4>5 DEF WasEmitted
    <3> QED
      BY <2>2, <3>1, <3>2
  <2>11. Out(n) <=> ~old
    <3>1. CASE old
      BY <2>2, <2>7, <3>1
    <3>2. CASE ~old
      <4> DEFINE y == [n |-> n, at |-> now]
      <4>1. y \in Stamps /\ y.n = n
        BY <2>6 DEF Stamps
      <4>2. emitted' = Append(emitted, y)
        BY <2>2, <3>2
      <4> HIDE DEF y
      <4>3. Len(emitted') = Len(emitted) + 1 /\ emitted'[Len(emitted) + 1] = y
        BY <4>1, <4>2, AppendOf
      <4>4. Len(emitted) + 1 \in 1 .. Len(emitted')
        BY <4>3
      <4> QED
        BY <3>2, <4>1, <4>3, <4>4
    <3> QED
      BY <3>1, <3>2
  <2> HIDE DEF Out
  <2>12. \A i \in 1 .. Len(arrived) :
           i # n /\ i \in 1 .. Len(arrived') /\ arrived'[i] = arrived[i] /\ (Out(i) <=> WasEmitted(i))
    BY <2>4, <2>6, <2>10
  <2>13. n \in 1 .. Len(arrived') /\ \A i \in 1 .. Len(arrived') : i = n \/ i \in 1 .. Len(arrived)
    BY <2>4, <2>6
  <2>14. ASSUME NEW s \in op.seen
         PROVE  \E i \in 1 .. Len(arrived) :
                  Out(i) /\ arrived'[i].key = s.key /\ s.at = arrived'[i].at + Window
    <3>1. PICK i \in 1 .. Len(arrived) :
            WasEmitted(i) /\ arrived[i].key = s.key /\ s.at = arrived[i].at + Window
      BY <1>3 DEF DedupLife, SeenForCause
    <3> QED
      BY <2>12, <3>1
  <2>15. ASSUME NEW s \in op'.seen
         PROVE  \E i \in 1 .. Len(arrived') :
                  Out(i) /\ arrived'[i].key = s.key /\ s.at = arrived'[i].at + Window
    <3>1. CASE s \in op.seen
      BY <2>12, <2>14, <3>1
    <3>2. CASE s \notin op.seen
      <4>1. ~old /\ op'.seen = entries
        BY <2>2, <3>2 DEF OpIs
      <4>2. s = [key |-> key, at |-> now + Window]
        BY <3>2, <4>1 DEF entries
      <4>3. s.key = key /\ s.at = now + Window
        BY <4>2
      <4> QED
        BY <2>5, <2>11, <2>13, <4>1, <4>3
    <3> QED
      BY <3>1, <3>2
  <2>16. SeenForCause'
    BY <2>9, <2>15 DEF SeenForCause
  <2>17. ASSUME NEW i \in 1 .. Len(arrived), WasEmitted(i)
         PROVE  \/ arrived[i].at + Window <= now
                \/ \E s \in op.seen : s.key = arrived[i].key /\ s.at >= arrived[i].at + Window
    BY <1>3, <2>17 DEF DedupLife, Remembered
  <2>18. ASSUME NEW i \in 1 .. Len(arrived'), Out(i)
         PROVE  \/ arrived'[i].at + Window <= now
                \/ \E s \in op'.seen : s.key = arrived'[i].key /\ s.at >= arrived'[i].at + Window
    <3>1. CASE i = n
      <4>1. ~old /\ op'.seen = entries
        BY <2>2, <2>11, <2>18, <3>1 DEF OpIs
      <4> DEFINE s == [key |-> key, at |-> now + Window]
      <4>2. s \in op'.seen /\ s.key = key /\ s.at = now + Window
        BY <4>1 DEF entries
      <4>3. s.at >= arrived'[i].at + Window
        BY <2>1, <2>5, <3>1, <4>2
      <4> QED
        BY <2>5, <3>1, <4>2, <4>3
    <3>2. CASE i \in 1 .. Len(arrived)
      <4>1. arrived'[i] = arrived[i] /\ WasEmitted(i)
        BY <2>12, <2>18, <3>2
      <4>2. CASE arrived[i].at + Window <= now
        BY <4>1, <4>2
      <4>3. ASSUME NEW s \in op.seen, s.key = arrived[i].key, s.at >= arrived[i].at + Window
            PROVE  \E t \in op'.seen : t.key = arrived[i].key /\ t.at >= arrived[i].at + Window
        <5>1. CASE s \in op'.seen
          BY <4>3, <5>1
        <5>2. CASE s \notin op'.seen
          <6>1. op'.seen = entries
            BY <2>2, <5>2 DEF OpIs
          <6>2. s.key = key
            BY <5>2, <6>1 DEF entries
          <6> DEFINE t == [key |-> key, at |-> now + Window]
          <6>3. t \in op'.seen /\ t.key = key /\ t.at = now + Window
            BY <6>1 DEF entries
          <6>4. arrived[i].at \in Nat /\ arrived[i].at <= now
            BY <3>2
          <6>5. t.at >= arrived[i].at + Window
            BY <6>3, <6>4
          <6> QED
            BY <4>3, <6>2, <6>3, <6>5
        <5> QED
          BY <5>1, <5>2
      <4> QED
        BY <2>17, <3>2, <4>1, <4>2, <4>3
    <3> QED
      BY <2>13, <3>1, <3>2
  <2>19. Remembered'
    BY <2>1, <2>9, <2>18 DEF Remembered
  <2> DEFINE FreshNow(j) ==
               \A i \in 1 .. j - 1 :
                 Out(i) /\ arrived'[i].key = arrived'[j].key => arrived'[j].at >= arrived'[i].at + Window
  <2>20. ASSUME NEW j \in 1 .. Len(arrived)
         PROVE  Out(j) <=> FreshNow(j)
    <3>1. WasEmitted(j) <=> Fresh(j)
      BY <1>3 DEF DedupLife
    <3>2. \A i \in 1 .. j - 1 : i \in 1 .. Len(arrived)
      OBVIOUS
    <3>3. Fresh(j) <=> FreshNow(j)
      BY <2>12, <3>2 DEF Fresh
    <3> QED
      BY <2>12, <3>1, <3>3
  <2>21. ~old <=> FreshNow(n)
    <3>0. n - 1 = Len(arrived)
      BY <2>6
    <3>1. ASSUME old PROVE ~FreshNow(n)
      <4>1. PICK s \in op.seen : s.key = key /\ s.at > now
        BY <3>1 DEF old
      <4>2. PICK i \in 1 .. Len(arrived) :
              Out(i) /\ arrived'[i].key = s.key /\ s.at = arrived'[i].at + Window
        BY <2>14
      <4>3. s.at \in Nat /\ ~(now >= s.at)
        BY <4>1 DEF Ops, Entries
      <4> QED
        BY <2>5, <3>0, <4>1, <4>2, <4>3
    <3>2. ASSUME ~old, NEW i \in 1 .. Len(arrived), Out(i), arrived'[i].key = key
          PROVE  now >= arrived'[i].at + Window
      <4> DEFINE a == arrived[i].at + Window
      <4>1. /\ arrived'[i] = arrived[i] /\ WasEmitted(i) /\ a \in Nat
        BY <2>12, <3>2
      <4>2. a <= now \/ \E s \in op.seen : s.key = arrived[i].key /\ s.at >= a
        BY <2>17, <4>1
      <4> HIDE DEF a
      <4>3. ASSUME NEW s \in op.seen, s.key = arrived[i].key, s.at >= a
            PROVE  a <= now
        <5>1. s.key = key
          BY <3>2, <4>1, <4>3
        <5>2. ~(s.at > now) /\ s.at \in Nat
          BY <3>2, <5>1 DEF old, Ops, Entries
        <5> QED
          BY <4>1, <4>3, <5>2
      <4>4. a <= now
        BY <4>2, <4>3
      <4>5. now >= a
        BY <4>1, <4>4
      <4> QED
        BY <4>1, <4>5 DEF a
    <3> QED
      BY <2>5, <3>0, <3>1, <3>2
  <2>22. \A j \in 1 .. Len(arrived') : Out(j) <=> FreshNow(j)
    BY <2>11, <2>13, <2>20, <2>21
  <2>23. \A j : Fresh(j)' <=> FreshNow(j)
    BY <2>9 DEF Fresh
  <2> HIDE DEF FreshNow
  <2>24. \A j \in 1 .. Len(arrived') : WasEmitted(j)' <=> Fresh(j)'
    BY <2>9, <2>22, <2>23
  <2> QED
    BY <2>16, <2>19, <2>24 DEF DedupLife
<1> QED
  BY <1>1, <1>4, <1>5, <1>6, <1>7, StepCases DEF NodeTimersInv

(* Deduplicate emits a message exactly when no message of its key was       *)
(* emitted in the window before it: a timer that fires late, or after its   *)
(* key was entered anew, forgets nothing that still counts (DedupExact).    *)
THEOREM DedupCorrect == Spec => []DedupExact
<1>1. Init => DedupInv
  <2> SUFFICES ASSUME Init PROVE DedupInv
    OBVIOUS
  <2>1. arrived = << >> /\ op.seen = {}
    BY DEF Init, NewOperator
  <2>2. Len(arrived) = 0 /\ 1 .. 0 = {}
    BY <2>1
  <2> QED
    BY <2>1, <2>2 DEF DedupInv, DedupLife, SeenForCause, Remembered
<1>2. NodeTimersInv /\ DedupInv /\ [Next]_vars => DedupInv'
  BY DedupStep
<1>3. DedupInv => DedupExact
  BY DEF DedupInv, DedupLife, Fresh, DedupExact
<1> QED
  BY <1>1, <1>2, <1>3, NodeTimersInvariant, PTL DEF Spec
=============================================================================
