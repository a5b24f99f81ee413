----------------------- MODULE CheckpointStoreProofs ------------------------
(***************************************************************************)
(* Proofs about CheckpointStore, for every set of nodes, every KeepCount   *)
(* and every number of epochs and lives: the last whole checkpoint of the  *)
(* first life survives whatever fails, and a cleanup that runs to its end  *)
(* leaves KeepCount epochs.                                                *)
(***************************************************************************)
EXTENDS CheckpointStore, EngineLemmas, FiniteSetTheorems, SequenceTheorems

-----------------------------------------------------------------------------
(* The inductive invariant. *)

(* The callback's fields agree with where it is. *)
CallbackState ==
  /\ (pc = "clean") <=> (doomed # {})
  /\ (pc = "save") <=> (todo # {})
  /\ pc # "idle" => last # 0

(* The states of the checkpoint being saved that are already on disk. *)
SavedSoFar ==
  pc = "save" => \A n \in Nodes \ todo : files[last][n] = life

(* The cleanup under way leaves KeepCount epochs. *)
KeepsEnough == pc = "clean" => Cardinality(dirs \ doomed) = KeepCount

(* In the first life no directory is ahead of the epoch counter, and the    *)
(* last whole checkpoint is neither overwritten nor doomed.                 *)
FirstLife ==
  life = 1 =>
    /\ \A e \in dirs : e <= last
    /\ saved # << >> => /\ LastSaved[2] \notin doomed
                        /\ LastSaved[2] <= last
                        /\ pc = "save" => LastSaved[2] < last

StoreInv ==
  /\ TypeOK
  /\ CallbackState /\ SavedSoFar /\ KeepsEnough
  /\ FirstLife /\ SurvivesFirstCrash

-----------------------------------------------------------------------------
(* Delete begins with a doomed epoch. *)
LEMMA MinDoomed ==
  ASSUME TypeOK, doomed # {}
  PROVE  Min(doomed) \in doomed
<1>1. doomed \in SUBSET Nat
  BY DEF TypeOK, Epochs
<1>2. \E x \in doomed : \A y \in doomed : x <= y
  BY <1>1, LeastNat
<1> QED
  BY <1>2 DEF Min

(* The epochs kept by the backend are a finite set of numbers. *)
LEMMA EpochsFinite ==
  ASSUME NEW S \in SUBSET Epochs
  PROVE  /\ IsFiniteSet(S) /\ Cardinality(S) \in Nat
         /\ \A T \in SUBSET S : IsFiniteSet(T) /\ Cardinality(T) \in Nat
                                /\ Cardinality(T) <= Cardinality(S)
<1>1. IsFiniteSet(Epochs)
  BY CheckpointStoreAssumption, FS_Interval DEF Epochs
<1>2. IsFiniteSet(S)
  BY <1>1, FS_Subset
<1> QED
  BY <1>2, FS_Subset, FS_CardinalityType

(* OldEpochs leaves the KeepCount largest epochs: those above the largest   *)
(* epoch that goes.                                                         *)
LEMMA OldEpochsKeeps ==
  ASSUME NEW S \in SUBSET Epochs, KeepCount > 0, OldEpochs(S) # {}
  PROVE  Cardinality(S \ OldEpochs(S)) = KeepCount
<1> DEFINE Above(e) == {f \in S : f > e}
           O == OldEpochs(S)
<1>1. O \in SUBSET S /\ \A e \in S : (e \in O) <=> (Cardinality(Above(e)) >= KeepCount)
  BY DEF OldEpochs
<1>2. \A e \in S : IsFiniteSet(Above(e)) /\ Cardinality(Above(e)) \in Nat
  BY EpochsFinite
<1>3. /\ \A e \in S : e \in Nat
      /\ O \in SUBSET (1 .. MaxEpoch) /\ O # {}
      /\ MaxEpoch \in Nat /\ KeepCount \in Nat
  <2>1. \A e \in Epochs : e \in Nat
    BY CheckpointStoreAssumption DEF Epochs
  <2>2. O \in SUBSET Epochs
    <3> HIDE DEF O
    <3> QED
      BY <1>1
  <2> QED
    BY <2>1, <2>2, CheckpointStoreAssumption DEF Epochs
<1>4. PICK m \in O : \A e \in O : e <= m
  <2> DEFINE id == [e \in 1 .. MaxEpoch |-> e]
  <2>1. id \in [1 .. MaxEpoch -> Nat]
    OBVIOUS
  <2>2. PICK x \in O : \A y \in O : id[y] <= id[x]
    <3> HIDE DEF id, O
    <3> QED
      BY <1>3, <2>1, LargestOf
  <2> HIDE DEF O
  <2> QED
    BY <1>3, <2>2
<1> HIDE DEF O
<1>5. m \in S /\ m \in Nat /\ Cardinality(Above(m)) >= KeepCount
  BY <1>1, <1>3, <1>4
<1>6. S \ O = Above(m)
  <2>1. ASSUME NEW f \in S, f > m
        PROVE  f \notin O
    BY <1>3, <1>4, <1>5, <2>1
  <2>2. ASSUME NEW f \in S, ~(f > m)
        PROVE  f \in O
    <3>1. Above(m) \in SUBSET Above(f)
      <4> SUFFICES ASSUME NEW g \in S, g > m PROVE g > f
        OBVIOUS
      <4> QED
        BY <1>3, <1>5, <2>2
    <3>2. Cardinality(Above(m)) <= Cardinality(Above(f))
      BY <1>2, <3>1, FS_Subset
    <3>3. Cardinality(Above(f)) >= KeepCount
      BY <1>2, <1>3, <1>5, <3>2
    <3> QED
      BY <1>1, <3>3
  <2> QED
    BY <2>1, <2>2
<1>7. Cardinality(Above(m)) <= KeepCount
  <2>1. Above(m) # {} /\ Above(m) \in SUBSET Nat
    <3>1. Above(m) \in SUBSET Nat
      BY <1>3
    <3>2. Cardinality(Above(m)) # 0
      BY <1>2, <1>3, <1>5
    <3> HIDE DEF Above
    <3> QED
      BY <3>1, <3>2, FS_EmptySet
  <2>2. PICK p \in Above(m) : \A f \in Above(m) : p <= f
    BY <2>1, LeastNat
  <2>3. p \in S /\ p \in Nat /\ p > m /\ p \notin O
    BY <1>6, <2>1, <2>2
  <2>4. Above(p) = Above(m) \ {p}
    <3>1. ASSUME NEW f \in S
          PROVE  (f > p) <=> (f > m /\ f # p)
      <4>1. f \in Nat /\ p \in Nat /\ m \in Nat
        BY <1>3, <1>5, <2>3
      <4>2. f > m => p <= f
        BY <2>2
      <4> QED
        BY <2>3, <4>1, <4>2
    <3> QED
      BY <3>1
  <2>5. Cardinality(Above(p)) = Cardinality(Above(m)) - 1
    BY <1>2, <1>5, <2>2, <2>4, FS_RemoveElement
  <2>6. ~(Cardinality(Above(p)) >= KeepCount)
    BY <1>1, <2>3
  <2> HIDE DEF Above
  <2> QED
    BY <1>2, <1>3, <1>5, <2>3, <2>5, <2>6
<1> HIDE DEF Above
<1>8. Cardinality(Above(m)) = KeepCount
  BY <1>2, <1>3, <1>5, <1>7
<1> QED
  BY <1>6, <1>8 DEF O

(* The largest epoch does not go. *)
LEMMA LargestKept ==
  ASSUME NEW S \in SUBSET Epochs, KeepCount > 0, NEW x \in S, \A e \in S : e <= x
  PROVE  x \notin OldEpochs(S)
<1>1. {f \in S : f > x} = {}
  <2>1. \A e \in S : e \in Int
    BY CheckpointStoreAssumption DEF Epochs
  <2> QED
    BY <2>1
<1>2. Cardinality({f \in S : f > x}) = 0
  BY <1>1, FS_EmptySet
<1> QED
  BY <1>2, CheckpointStoreAssumption DEF OldEpochs

-----------------------------------------------------------------------------
(* The initial states satisfy StoreInv. *)
LEMMA InitStoreInv == Init => StoreInv
<1> SUFFICES ASSUME Init PROVE StoreInv
  OBVIOUS
<1> USE CheckpointStoreAssumption DEF Init
<1>1. TypeOK
  <2>1. NoFiles \in [Nodes -> 0 .. MaxLife]
    BY DEF NoFiles
  <2>2. life \in 1 .. MaxLife /\ last \in 0 .. MaxEpoch
    OBVIOUS
  <2>3. saved \in Seq((1 .. MaxLife) \X Epochs)
    OBVIOUS
  <2>4. \A e \in Epochs \ dirs : files[e] = NoFiles
    OBVIOUS
  <2> QED
    BY <2>1, <2>2, <2>3, <2>4 DEF TypeOK
<1>2. CallbackState /\ SavedSoFar /\ KeepsEnough /\ FirstLife /\ SurvivesFirstCrash
  BY DEF CallbackState, SavedSoFar, KeepsEnough, FirstLife, SurvivesFirstCrash,
         LastSavedSurvives
<1> QED
  BY <1>1, <1>2 DEF StoreInv

(* CheckpointComplete keeps StoreInv. *)
LEMMA CheckpointCompleteStoreInv ==
  ASSUME StoreInv, CheckpointComplete
  PROVE  StoreInv'
<1> USE CheckpointStoreAssumption DEF StoreInv, CheckpointComplete
<1>1. TypeOK'
  BY DEF TypeOK
<1>2. CallbackState' /\ SavedSoFar' /\ KeepsEnough'
  BY DEF TypeOK, CallbackState, SavedSoFar, KeepsEnough
<1>3. last \in Nat /\ \A e \in dirs : e \in Nat
  BY DEF TypeOK, Epochs
<1>4. saved # << >> => LastSaved[2] \in Nat
  BY DEF TypeOK, LastSaved, Epochs
<1>5. FirstLife'
  BY <1>3, <1>4 DEF FirstLife, LastSaved
<1>6. SurvivesFirstCrash'
  BY <1>3 DEF TypeOK, SurvivesFirstCrash, LastSavedSurvives, LastSaved
<1> QED
  BY <1>1, <1>2, <1>5, <1>6

(* Saving one state, before the last one and with it. *)
LEMMA SaveStoreInv ==
  ASSUME StoreInv, NEW n \in Nodes, Save(n)
  PROVE  StoreInv'
<1> USE CheckpointStoreAssumption
<1>1. /\ pc = "save" /\ n \in todo /\ todo' = todo \ {n} /\ dirs' = dirs \cup {last}
      /\ life' = life /\ last' = last
      /\ last \in Epochs /\ last \in Nat /\ life \in 1 .. MaxLife /\ doomed = {}
  BY DEF Save, StoreInv, TypeOK, CallbackState, Epochs
<1>2. /\ files' \in [Epochs -> [Nodes -> 0 .. MaxLife]]
      /\ \A e \in Epochs : \A m \in Nodes :
           files'[e][m] = IF e = last /\ m = n THEN life ELSE files[e][m]
      /\ \A e \in Epochs \ {last} : files'[e] = files[e]
  <2>1. files' = [files EXCEPT ![last] = [files[last] EXCEPT ![n] = life]]
    BY DEF Save
  <2>2. files \in [Epochs -> [Nodes -> 0 .. MaxLife]]
    BY DEF StoreInv, TypeOK
  <2>3. [files[last] EXCEPT ![n] = life] \in [Nodes -> 0 .. MaxLife]
    BY <1>1, <2>2
  <2> QED
    BY <1>1, <2>1, <2>2, <2>3
<1>3. \A e \in Epochs \ dirs' : files'[e] = NoFiles
  BY <1>1, <1>2 DEF StoreInv, TypeOK
<1>4. \A m \in Nodes \ todo' : files'[last][m] = life
  BY <1>1, <1>2 DEF StoreInv, SavedSoFar
<1>5. dirs' \in SUBSET Epochs /\ todo' \in SUBSET Nodes
  BY <1>1 DEF StoreInv, TypeOK
<1>6. CASE todo' # {}
  <2>1. UNCHANGED <<pc, doomed, saved>>
    BY <1>6 DEF Save
  <2>2. TypeOK'
    BY <1>1, <1>2, <1>3, <1>5, <2>1 DEF StoreInv, TypeOK
  <2>3. CallbackState' /\ SavedSoFar' /\ KeepsEnough'
    BY <1>1, <1>4, <1>6, <2>1 DEF StoreInv, CallbackState, SavedSoFar, KeepsEnough
  <2>4. FirstLife'
    BY <1>1, <2>1 DEF StoreInv, FirstLife, LastSaved
  <2>5. SurvivesFirstCrash'
    <3> SUFFICES ASSUME life = 1 \/ (life = 2 /\ last = 0), saved # << >>, NEW m \in Nodes
                 PROVE  files'[LastSaved[2]][m] = LastSaved[1]
      BY <1>1, <2>1 DEF SurvivesFirstCrash, LastSavedSurvives, LastSaved
    <3>1. life = 1 /\ LastSaved[2] < last
      BY <1>1 DEF Epochs, StoreInv, FirstLife
    <3>2. LastSaved[2] \in Epochs
      BY DEF StoreInv, TypeOK, LastSaved
    <3>3. files[LastSaved[2]][m] = LastSaved[1]
      BY DEF StoreInv, SurvivesFirstCrash, LastSavedSurvives
    <3> QED
      BY <1>1, <1>2, <3>1, <3>2, <3>3 DEF Epochs
  <2> QED
    BY <2>2, <2>3, <2>4, <2>5 DEF StoreInv
<1>7. CASE todo' = {}
  <2> DEFINE old == IF KeepCount > 0 THEN OldEpochs(dirs') ELSE {}
  <2>1. /\ doomed' = old
        /\ pc' = IF old = {} THEN "idle" ELSE "clean"
        /\ saved' = Append(saved, <<life, last>>)
    BY <1>7 DEF Save, AfterSaves
  <2>2. old \in SUBSET dirs'
    BY DEF OldEpochs
  <2>3. saved' \in Seq((1 .. MaxLife) \X Epochs) /\ saved' # << >>
        /\ LastSaved' = <<life, last>>
    BY <1>1, <2>1 DEF StoreInv, TypeOK, LastSaved
  <2>4. TypeOK'
    BY <1>1, <1>2, <1>3, <1>5, <2>1, <2>2, <2>3 DEF StoreInv, TypeOK
  <2>5. CallbackState' /\ SavedSoFar'
    BY <1>1, <1>7, <2>1 DEF StoreInv, CallbackState, SavedSoFar, Epochs
  <2>6. KeepsEnough'
    <3> SUFFICES ASSUME old # {}
                 PROVE  Cardinality(dirs' \ old) = KeepCount
      BY <2>1 DEF KeepsEnough
    <3> QED
      BY <1>5, OldEpochsKeeps
  <2>7. FirstLife'
    <3> SUFFICES ASSUME life = 1
                 PROVE  /\ \A e \in dirs' : e <= last
                        /\ last \notin old
      BY <1>1, <2>1, <2>3 DEF FirstLife
    <3>1. \A e \in dirs' : e <= last
      BY <1>1 DEF StoreInv, FirstLife
    <3>2. last \notin old
      BY <1>1, <1>5, <3>1, LargestKept
    <3> QED
      BY <3>1, <3>2
  <2>8. SurvivesFirstCrash'
    BY <1>1, <1>4, <1>7, <2>3 DEF SurvivesFirstCrash, LastSavedSurvives
  <2> QED
    BY <2>4, <2>5, <2>6, <2>7, <2>8 DEF StoreInv
<1> QED
  BY <1>6, <1>7

(* SaveFails keeps StoreInv. *)
LEMMA SaveFailsStoreInv ==
  ASSUME StoreInv, SaveFails
  PROVE  StoreInv'
<1> USE CheckpointStoreAssumption DEF StoreInv, SaveFails
<1>1. last \in Epochs /\ last \in Nat /\ doomed = {}
  BY DEF TypeOK, CallbackState, Epochs
<1>2. TypeOK'
  BY <1>1 DEF TypeOK
<1>3. CallbackState' /\ SavedSoFar' /\ KeepsEnough'
  BY <1>1 DEF CallbackState, SavedSoFar, KeepsEnough
<1>4. FirstLife'
  BY <1>1 DEF FirstLife, LastSaved
<1>5. SurvivesFirstCrash'
  BY DEF SurvivesFirstCrash, LastSavedSurvives, LastSaved
<1> QED
  BY <1>2, <1>3, <1>4, <1>5

(* Removing files of the smallest doomed epoch touches no other epoch. *)
LEMMA RemoveSomeFiles ==
  ASSUME TypeOK, doomed # {}, RemoveSome
  PROVE  /\ files' \in [Epochs -> [Nodes -> 0 .. MaxLife]]
         /\ \A e \in Epochs \ {Min(doomed)} : files'[e] = files[e]
         /\ Min(doomed) \in doomed /\ Min(doomed) \in dirs
<1> DEFINE d == Min(doomed)
<1>1. d \in doomed /\ d \in dirs /\ d \in Epochs
  BY MinDoomed DEF TypeOK
<1>2. PICK gone \in SUBSET Nodes :
        files' = [files EXCEPT ![d] = [n \in Nodes |-> IF n \in gone THEN 0 ELSE files[d][n]]]
  BY DEF RemoveSome
<1> DEFINE some == [n \in Nodes |-> IF n \in gone THEN 0 ELSE files[d][n]]
<1>3. some \in [Nodes -> 0 .. MaxLife]
  <2>1. files[d] \in [Nodes -> 0 .. MaxLife] /\ 0 \in 0 .. MaxLife
    BY <1>1, CheckpointStoreAssumption DEF TypeOK
  <2> QED
    BY <2>1
<1> HIDE DEF d, some
<1> QED
  BY <1>1, <1>2, <1>3 DEF TypeOK, some, d

(* Delete keeps StoreInv. *)
LEMMA DeleteStoreInv ==
  ASSUME StoreInv, Delete
  PROVE  StoreInv' /\ (doomed' = {} => Cardinality(dirs') = KeepCount)
<1> DEFINE d == Min(doomed)
<1>1. pc = "clean" /\ doomed # {} /\ todo = {} /\ last # 0
  BY DEF StoreInv, CallbackState, Delete
<1>2. d \in doomed /\ d \in dirs /\ d \in Epochs
  BY <1>1, MinDoomed DEF StoreInv, TypeOK
<1>3. /\ dirs' = dirs \ {d} /\ doomed' = doomed \ {d}
      /\ files' = [files EXCEPT ![d] = NoFiles]
      /\ pc' = IF doomed' = {} THEN "idle" ELSE "clean"
      /\ UNCHANGED <<life, last, todo, saved>>
  BY DEF Delete
<1> HIDE DEF d
<1>4. NoFiles \in [Nodes -> 0 .. MaxLife]
  BY CheckpointStoreAssumption DEF NoFiles
<1>5. /\ files' \in [Epochs -> [Nodes -> 0 .. MaxLife]]
      /\ \A e \in Epochs : files'[e] = IF e = d THEN NoFiles ELSE files[e]
  BY <1>2, <1>3, <1>4 DEF StoreInv, TypeOK
<1>6. TypeOK'
  BY <1>1, <1>3, <1>5 DEF StoreInv, TypeOK
<1>7. dirs' \ doomed' = dirs \ doomed
  BY <1>2, <1>3
<1>8. Cardinality(dirs' \ doomed') = KeepCount
  BY <1>1, <1>7 DEF StoreInv, KeepsEnough
<1>9. doomed' = {} => Cardinality(dirs') = KeepCount
  <2>1. doomed' = {} => dirs' \ doomed' = dirs'
    OBVIOUS
  <2> QED
    BY <1>8, <2>1
<1>10. CallbackState' /\ SavedSoFar' /\ KeepsEnough'
  BY <1>1, <1>3, <1>8 DEF CallbackState, SavedSoFar, KeepsEnough
<1>11. FirstLife'
  BY <1>1, <1>3 DEF StoreInv, FirstLife, LastSaved
<1>12. SurvivesFirstCrash'
  <2> SUFFICES ASSUME life = 1 \/ (life = 2 /\ last = 0), saved # << >>, NEW n \in Nodes
               PROVE  files'[LastSaved[2]][n] = LastSaved[1]
    BY <1>3 DEF SurvivesFirstCrash, LastSavedSurvives, LastSaved
  <2>1. LastSaved[2] \notin doomed
    BY <1>1 DEF StoreInv, FirstLife
  <2>2. LastSaved[2] \in Epochs
    BY DEF StoreInv, TypeOK, LastSaved
  <2>3. files[LastSaved[2]][n] = LastSaved[1]
    BY DEF StoreInv, SurvivesFirstCrash, LastSavedSurvives
  <2> QED
    BY <1>2, <1>5, <2>1, <2>2, <2>3
<1> QED
  BY <1>6, <1>9, <1>10, <1>11, <1>12 DEF StoreInv

(* DeleteFails keeps StoreInv. *)
LEMMA DeleteFailsStoreInv ==
  ASSUME StoreInv, DeleteFails
  PROVE  StoreInv'
<1>1. pc = "clean" /\ doomed # {} /\ todo = {} /\ last # 0 /\ RemoveSome
  BY DEF StoreInv, CallbackState, DeleteFails
<1>2. pc' = "idle" /\ doomed' = {} /\ UNCHANGED <<dirs, life, last, todo, saved>>
  BY DEF DeleteFails
<1>3. /\ files' \in [Epochs -> [Nodes -> 0 .. MaxLife]]
      /\ \A e \in Epochs \ {Min(doomed)} : files'[e] = files[e]
      /\ Min(doomed) \in doomed /\ Min(doomed) \in dirs
  BY <1>1, RemoveSomeFiles DEF StoreInv
<1>4. TypeOK'
  BY <1>2, <1>3 DEF StoreInv, TypeOK
<1>5. CallbackState' /\ SavedSoFar' /\ KeepsEnough'
  BY <1>1, <1>2 DEF CallbackState, SavedSoFar, KeepsEnough
<1>6. FirstLife'
  BY <1>2 DEF StoreInv, FirstLife, LastSaved
<1>7. SurvivesFirstCrash'
  <2> SUFFICES ASSUME life = 1 \/ (life = 2 /\ last = 0), saved # << >>, NEW n \in Nodes
               PROVE  files'[LastSaved[2]][n] = LastSaved[1]
    BY <1>2 DEF SurvivesFirstCrash, LastSavedSurvives, LastSaved
  <2>1. LastSaved[2] \notin doomed
    BY <1>1 DEF StoreInv, FirstLife
  <2>2. LastSaved[2] \in Epochs
    BY DEF StoreInv, TypeOK, LastSaved
  <2>3. files[LastSaved[2]][n] = LastSaved[1]
    BY DEF StoreInv, SurvivesFirstCrash, LastSavedSurvives
  <2> QED
    BY <1>3, <2>1, <2>2, <2>3
<1> QED
  BY <1>4, <1>5, <1>6, <1>7 DEF StoreInv

(* A crash in the first life, also inside a cleanup, leaves the checkpoint. *)
LEMMA RestartStoreInv ==
  ASSUME StoreInv, Restart
  PROVE  StoreInv'
<1>1. /\ life < MaxLife /\ life' = life + 1 /\ last' = 0 /\ pc' = "idle" /\ todo' = {}
      /\ doomed' = {} /\ UNCHANGED <<dirs, saved>>
      /\ IF pc = "clean" THEN RemoveSome ELSE UNCHANGED files
  BY DEF Restart
<1>2. life \in Nat /\ life >= 1 /\ MaxLife \in Nat /\ MaxEpoch \in Nat
  BY CheckpointStoreAssumption DEF StoreInv, TypeOK
<1>3. /\ files' \in [Epochs -> [Nodes -> 0 .. MaxLife]]
      /\ \A e \in Epochs \ doomed : files'[e] = files[e]
      /\ \A e \in Epochs \ dirs : files'[e] = files[e]
  <2>1. CASE pc = "clean"
    <3>1. doomed # {} /\ RemoveSome
      BY <1>1, <2>1 DEF StoreInv, CallbackState
    <3> QED
      BY <3>1, RemoveSomeFiles DEF StoreInv
  <2>2. CASE pc # "clean"
    BY <1>1, <2>2 DEF StoreInv, TypeOK
  <2> QED
    BY <2>1, <2>2
<1>4. TypeOK'
  BY <1>1, <1>2, <1>3 DEF StoreInv, TypeOK
<1>5. CallbackState' /\ SavedSoFar' /\ KeepsEnough'
  BY <1>1 DEF CallbackState, SavedSoFar, KeepsEnough
<1>6. FirstLife'
  BY <1>1, <1>2 DEF FirstLife
<1>7. SurvivesFirstCrash'
  <2> SUFFICES ASSUME life = 1, saved # << >>, NEW n \in Nodes
               PROVE  files'[LastSaved[2]][n] = LastSaved[1]
    BY <1>1, <1>2 DEF SurvivesFirstCrash, LastSavedSurvives, LastSaved
  <2>1. LastSaved[2] \notin doomed
    BY DEF StoreInv, FirstLife
  <2>2. LastSaved[2] \in Epochs
    BY DEF StoreInv, TypeOK, LastSaved
  <2>3. files[LastSaved[2]][n] = LastSaved[1]
    BY DEF StoreInv, SurvivesFirstCrash, LastSavedSurvives
  <2> QED
    BY <1>3, <2>1, <2>2, <2>3
<1> QED
  BY <1>4, <1>5, <1>6, <1>7 DEF StoreInv

(* A stuttering step keeps StoreInv. *)
LEMMA StutterStoreInv ==
  ASSUME StoreInv, UNCHANGED vars
  PROVE  StoreInv'
<1>1. TypeOK' /\ CallbackState' /\ SavedSoFar' /\ KeepsEnough'
  BY DEF StoreInv, vars, TypeOK, CallbackState, SavedSoFar, KeepsEnough
<1>2. FirstLife' /\ SurvivesFirstCrash'
  BY DEF StoreInv, vars, FirstLife, SurvivesFirstCrash, LastSavedSurvives, LastSaved
<1> QED
  BY <1>1, <1>2 DEF StoreInv

-----------------------------------------------------------------------------
(* Every reachable state satisfies the inductive invariant. *)
THEOREM SpecStoreInv == Spec => []StoreInv
<1>1. StoreInv /\ [Next]_vars => StoreInv'
  BY CheckpointCompleteStoreInv, SaveStoreInv, SaveFailsStoreInv, DeleteStoreInv,
     DeleteFailsStoreInv, RestartStoreInv, StutterStoreInv DEF Next
<1> QED
  BY <1>1, InitStoreInv, PTL DEF Spec

(* The types of the files and of the callback; a file is always in a        *)
(* directory that ListEpochs finds.                                         *)
THEOREM CheckpointStoreTypeOK == Spec => []TypeOK
<1>1. StoreInv => TypeOK
  BY DEF StoreInv
<1> QED
  BY <1>1, SpecStoreInv, PTL

(* The last checkpoint saved as a whole in the first life of the process is *)
(* on disk as a whole throughout that life and until the next life completes*)
(* a checkpoint, whatever Save, RemoveAll or the process itself fails at.   *)
THEOREM FirstCrashSurvived == Spec => []SurvivesFirstCrash
<1>1. StoreInv => SurvivesFirstCrash
  BY DEF StoreInv
<1> QED
  BY <1>1, SpecStoreInv, PTL

(* A run of cleanupOldCheckpoints that is not cut short leaves exactly      *)
(* KeepCount epochs, for every KeepCount and however many earlier cleanups  *)
(* failed.                                                                  *)
THEOREM CleanupLeavesKeepCount == Spec => CleanupKeeps
<1>1. StoreInv /\ [Next]_vars =>
        [pc = "clean" /\ doomed' = {} /\ dirs' # dirs => Cardinality(dirs') = KeepCount]_vars
  <2> SUFFICES ASSUME StoreInv, [Next]_vars, pc = "clean", doomed' = {}, dirs' # dirs
               PROVE  Cardinality(dirs') = KeepCount
    OBVIOUS
  <2>1. Delete
    BY DEF Next, CheckpointComplete, SaveFails, DeleteFails, Restart, Save, vars
  <2> QED
    BY <2>1, DeleteStoreInv
<1> QED
  BY <1>1, SpecStoreInv, PTL DEF Spec, CleanupKeeps
=============================================================================
