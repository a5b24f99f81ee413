-------------------------- MODULE CheckpointStore ---------------------------
(***************************************************************************)
(* The persistence of checkpoints (checkpoint_manager.go,                  *)
(* checkpoint_backend.go and the callback that Build installs).  The       *)
(* callback runs on the controller's goroutine, one epoch at a time; the   *)
(* application may ask for the latest epoch at any moment, and the process *)
(* may die between any two file operations.  A process that is started     *)
(* again on the same directory numbers its epochs from 1 again: stopEpoch  *)
(* is a field of the new Pipeline.                                         *)
(*                                                                         *)
(* The state of a node in a checkpoint is represented by the life of the   *)
(* process that took it.  CollectState always precedes SaveCheckpoint with *)
(* the states of all nodes, so the map nodeStates needs no variable.       *)
(***************************************************************************)
EXTENDS Naturals, FiniteSets, FiniteSetsExt, Sequences

CONSTANTS
  Nodes,
  MaxEpoch,   \* bound: checkpoints per life of the process
  MaxLife,    \* bound: lives of the process
  KeepCount,  \* KeepCount of the manager; 0 keeps all
  Faults      \* may the file system fail, or the process die?

ASSUME CheckpointStoreAssumption ==
  /\ IsFiniteSet(Nodes) /\ Nodes # {}
  /\ MaxEpoch \in Nat \ {0} /\ MaxLife \in Nat \ {0} /\ KeepCount \in Nat
  /\ Faults \in BOOLEAN

VARIABLES
  dirs,    \* the epochs that have a directory
  files,   \* per epoch and node: the life whose state the file holds, 0 for no file
  life,    \* the current life of the process
  last,    \* the last epoch completed in this life
  pc,      \* the callback: "idle", "save" or "clean"
  todo,    \* the nodes whose state has still to be saved
  doomed,  \* the epochs that cleanup has still to delete
  saved    \* history: the checkpoints whose states were all saved, <<life, epoch>>

vars == <<dirs, files, life, last, pc, todo, doomed, saved>>

Epochs == 1 .. MaxEpoch
NoFiles == [n \in Nodes |-> 0]

Init ==
  /\ dirs = {}
  /\ files = [e \in Epochs |-> NoFiles]
  /\ life = 1
  /\ last = 0
  /\ pc = "idle"
  /\ todo = {}
  /\ doomed = {}
  /\ saved = << >>

-----------------------------------------------------------------------------
(* onCheckpointComplete: the states are collected and SaveCheckpoint begins. *)
CheckpointComplete ==
  /\ pc = "idle"
  /\ last < MaxEpoch
  /\ last' = last + 1
  /\ pc' = "save"
  /\ todo' = Nodes
  /\ UNCHANGED <<dirs, files, life, doomed, saved>>

(* Mutant of OldEpochs: one epoch too many goes. *)
OneTooMany(epochs) ==
  {e \in epochs : Cardinality({f \in epochs : f > e}) + 1 >= KeepCount}

(* cleanupOldCheckpoints: all but the KeepCount largest epochs go. *)
OldEpochs(epochs) ==
  {e \in epochs : Cardinality({f \in epochs : f > e}) >= KeepCount}

(* The last state is saved: clean up if KeepCount says so, and return. *)
AfterSaves ==
  LET old == IF KeepCount > 0 THEN OldEpochs(dirs') ELSE {}
  IN  /\ doomed' = old
      /\ pc' = IF old = {} THEN "idle" ELSE "clean"

(* LocalDiskBackend.Save of one node's state: the directory, then a         *)
(* temporary file that is renamed.  The nodes come in the order of a map.   *)
Save(n) ==
  /\ pc = "save" /\ n \in todo
  /\ dirs' = dirs \cup {last}
  /\ files' = [files EXCEPT ![last][n] = life]
  /\ todo' = todo \ {n}
  /\ IF todo' = {}
     THEN AfterSaves /\ saved' = Append(saved, <<life, last>>)
     ELSE UNCHANGED <<pc, doomed, saved>>
  /\ UNCHANGED <<life, last>>

(* Mutant of SaveFails: the error is ignored and cleanup runs. *)
FailsAndCleans ==
  /\ Faults
  /\ pc = "save"
  /\ dirs' = dirs \cup {last}
  /\ todo' = {}
  /\ AfterSaves
  /\ UNCHANGED <<files, life, last, saved>>

(* A Save fails, with or without having made the directory; SaveCheckpoint  *)
(* returns the error, which is logged.                                      *)
SaveFails ==
  /\ Faults
  /\ pc = "save"
  /\ dirs' \in {dirs, dirs \cup {last}}
  /\ pc' = "idle"
  /\ todo' = {}
  /\ UNCHANGED <<files, life, last, doomed, saved>>

(* LocalDiskBackend.Delete of the smallest doomed epoch removes its files   *)
(* and the directory.                                                       *)
Delete ==
  /\ pc = "clean"
  /\ LET e == Min(doomed)
     IN  /\ dirs' = dirs \ {e}
         /\ files' = [files EXCEPT ![e] = NoFiles]
         /\ doomed' = doomed \ {e}
  /\ pc' = IF doomed' = {} THEN "idle" ELSE "clean"
  /\ UNCHANGED <<life, last, todo, saved>>

(* RemoveAll fails, or the process dies inside it, with some files removed. *)
RemoveSome ==
  \E gone \in SUBSET Nodes :
    files' = [files EXCEPT ![Min(doomed)] = [n \in Nodes |-> IF n \in gone THEN 0 ELSE @[n]]]

DeleteFails ==
  /\ Faults
  /\ pc = "clean"
  /\ RemoveSome
  /\ pc' = "idle"
  /\ doomed' = {}
  /\ UNCHANGED <<dirs, life, last, todo, saved>>

(* The process ends or dies, and is started again on the same directory. *)
Restart ==
  /\ life < MaxLife
  /\ pc = "idle" \/ Faults
  /\ life' = life + 1
  /\ last' = 0
  /\ pc' = "idle"
  /\ todo' = {}
  /\ doomed' = {}
  /\ IF pc = "clean" THEN RemoveSome ELSE UNCHANGED files
  /\ UNCHANGED <<dirs, saved>>

Next ==
  \/ CheckpointComplete \/ SaveFails \/ Delete \/ DeleteFails \/ Restart
  \/ \E n \in Nodes : Save(n)

Spec == Init /\ [][Next]_vars

-----------------------------------------------------------------------------
(* LatestEpoch, 0 for none; RestoreNodes leaves out the nodes without a file. *)
LatestEpoch == IF dirs = {} THEN 0 ELSE Max(dirs)

(* The files of epoch e are those of one whole checkpoint. *)
Whole(e) == \E l \in 1 .. life : \A n \in Nodes : files[e][n] = l

(* The types of the files and of the callback; files are in directories. *)
TypeOK ==
  /\ dirs \subseteq Epochs /\ doomed \subseteq dirs
  /\ files \in [Epochs -> [Nodes -> 0 .. MaxLife]]
  /\ \A e \in Epochs \ dirs : files[e] = NoFiles
  /\ life \in 1 .. MaxLife /\ last \in 0 .. MaxEpoch
  /\ pc \in {"idle", "save", "clean"} /\ todo \subseteq Nodes
  /\ saved \in Seq((1 .. MaxLife) \X Epochs)

LastSaved == saved[Len(saved)]

(* The last checkpoint that was saved as a whole is on disk as a whole: the *)
(* manager retains the KeepCount most recent ones (checkpoint_manager.go).  *)
LastSavedSurvives ==
  saved # << >> => \A n \in Nodes : files[LastSaved[2]][n] = LastSaved[1]

(* So it is in the first life of the process and, whenever that life ends,  *)
(* until the next one completes a checkpoint, whatever fails: SaveCheckpoint*)
(* deletes old epochs only after the last state of a newer one is saved.    *)
SurvivesFirstCrash == life = 1 \/ (life = 2 /\ last = 0) => LastSavedSurvives

(* A cleanup that runs to its end leaves exactly KeepCount epochs, also     *)
(* when earlier ones failed and left theirs behind.                         *)
CleanupKeeps ==
  [][pc = "clean" /\ doomed' = {} /\ dirs' # dirs => Cardinality(dirs') = KeepCount]_vars

(* LatestEpoch returns "the most recent persisted checkpoint epoch"         *)
(* (checkpoint_manager.go): restoring it gives every node the state of one  *)
(* checkpoint.                                                              *)
LatestIsWhole ==
  pc = "idle" /\ dirs # {} => Whole(LatestEpoch)
=============================================================================
