----------------------------- MODULE FlashBlock -----------------------------
(***************************************************************************)
(* application/config/FlashBlock.cpp: the six RAM caches (FlashBlock        *)
(* objects) between the subjects of the controller and flash.  Only         *)
(* ConfigTask touches the caches once the system runs; the subjects belong  *)
(* to the other tasks.                                                      *)
(*                                                                         *)
(* Abstractions.  A subject's data is one number, counted up by each change *)
(* so that "older" and "newer" can be told apart; 0 is the factory default. *)
(* Flash holds one image per block, replaced at one instant: what module    *)
(* FlashControl shows of the two flash blocks behind it.  A layout that     *)
(* does not match the subject list (ids, lengths, versions) is left out:    *)
(* an image is there and loads, or it is not there.                         *)
(***************************************************************************)
EXTENDS Integers

CONSTANTS
  Subjects,   (* the non-volatile subjects of the instance                 *)
  MaxValue,   (* bounds the changes of one subject                         *)
  MaxFaults,  (* bounds the failures of the flash between two power cycles *)
  NONE        (* no valid image                                            *)

Blocks == {"config", "log", "gsc", "noBoot", "userLog1", "userLog2"}

(* The block each subject is listed in; one subject per kind is enough to   *)
(* tell the blocks apart.                                                   *)
BlockOf == [config |-> "config", gsc |-> "gsc", noBoot |-> "noBoot",
            log |-> "log", alarmLog |-> "log",
            series1 |-> "userLog1", series5 |-> "userLog2"]

SubjectsOf(b) == {s \in Subjects : BlockOf[s] = b}
Value == 0 .. MaxValue
Default == 0

ASSUME SubjectsAssumption ==
  /\ Subjects \subseteq DOMAIN BlockOf /\ NONE \notin Subjects
  /\ MaxValue \in Nat
  /\ MaxFaults \in Nat
  /\ \A b \in Blocks : NONE \notin [SubjectsOf(b) -> Value]

VARIABLES
  subject,   (* the data of the subjects, in RAM                           *)
  cache,     (* mpBlockData of the six blocks                              *)
  modified,  (* mModified of each block                                    *)
  errors,    (* mErrorFlags of each block                                  *)
  flash,     (* the valid image of each block                              *)
  faults     (* history: flash failures since power-on                     *)

CacheImage(b) == [s \in SubjectsOf(b) |-> cache[s]]
StoredIn(image, s) == IF image = NONE THEN Default ELSE image[s]
Stored(s) == StoredIn(flash[BlockOf[s]], s)

(* The errors flags of a block whose LoadFromFlash just ran.                *)
LoadErrors(b) == IF flash[b] = NONE THEN {"load"} ELSE {}

(* SaveToCache for each subject of S.                                       *)
SaveToCache(S) ==
  /\ cache' = [s \in Subjects |-> IF s \in S THEN subject[s] ELSE cache[s]]
  /\ modified' = [b \in Blocks |->
       modified[b] \/ \E s \in S \cap SubjectsOf(b) : cache[s] # subject[s]]

(* SaveToFlash, when SaveData returned true.                                *)
SaveSucceeds(b) ==
  /\ flash' = [flash EXCEPT ![b] = CacheImage(b)]
  /\ errors' = [errors EXCEPT ![b] = @ \ {"save"}]
  /\ modified' = [modified EXCEPT ![b] = FALSE]
  /\ UNCHANGED <<subject, cache, faults>>

(* SaveToFlash, when SaveData returned false: the old image is still there, *)
(* or the new one is (only the erase of the old one failed).                *)
SaveFails(b) ==
  /\ faults < MaxFaults
  /\ faults' = faults + 1
  /\ \/ UNCHANGED flash
     \/ flash' = [flash EXCEPT ![b] = CacheImage(b)]
  /\ UNCHANGED <<subject, cache, modified, errors>>

(* LoadAllSubjectsFromCache at the end of a failed SaveToFlash: a valid     *)
(* image replaces what the subjects hold.                                   *)
Reloaded(b) ==
  [s \in Subjects |-> IF s \in SubjectsOf(b) /\ flash[b] # NONE
                      THEN flash[b][s] ELSE subject[s]]

(* SaveAllSubjectsToCache and the rest of the failed SaveToFlash: it resets *)
(* the error flags and clears mModified, whatever the subjects hold by now. *)
RestoreEnds(b) ==
  /\ cache' = [s \in Subjects |-> IF s \in SubjectsOf(b) THEN subject[s] ELSE cache[s]]
  /\ errors' = [errors EXCEPT ![b] = LoadErrors(b) \cup {"save"}]
  /\ modified' = [modified EXCEPT ![b] = FALSE]
  /\ UNCHANGED <<subject, flash, faults>>

(* The objects as the constructor and LoadFromFlash leave them at power-on. *)
InitBlocks ==
  /\ flash = [b \in Blocks |-> NONE]
  /\ subject = [s \in Subjects |-> Default] /\ cache = subject
  /\ modified = [b \in Blocks |-> TRUE]
  /\ errors = [b \in Blocks |-> {"load"}]
  /\ faults = 0

LoadAll ==
  /\ subject' = [s \in Subjects |-> StoredIn(flash'[BlockOf[s]], s)]
  /\ cache' = subject'
  /\ modified' = [b \in Blocks |-> TRUE]
  /\ errors' = [b \in Blocks |-> LoadErrors(b)']
  /\ faults' = 0

BlocksOK ==
  /\ subject \in [Subjects -> Value] /\ cache \in [Subjects -> Value]
  /\ modified \in [Blocks -> BOOLEAN]
  /\ errors \in [Blocks -> SUBSET {"load", "save"}]
  /\ DOMAIN flash = Blocks
  /\ \A b \in Blocks : flash[b] = NONE \/ flash[b] \in [SubjectsOf(b) -> Value]
  /\ faults \in 0 .. MaxFaults
=============================================================================
