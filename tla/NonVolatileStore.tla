-------------------------- MODULE NonVolatileStore --------------------------
(***************************************************************************)
(* What FlashControl promises for one save ID: a single cell that survives  *)
(* power failures.  A save replaces its value at one instant between its    *)
(* call and its end (a return or a power failure), or not at all; nothing   *)
(* else but an erase changes it.  An erase is not so kind: power that fails *)
(* inside it may leave a damaged value that still reads as valid, because   *)
(* FlashControl::EraseFlashBlock erases without clearing the code first.    *)
(***************************************************************************)
CONSTANTS
  Image,    (* what can be saved                                           *)
  NONE,     (* the cell is empty                                           *)
  DAMAGED   (* the cell holds something nobody saved                       *)

VARIABLES
  value,    (* what reading returns                                        *)
  saving,   (* the image of the save in progress, or NONE                  *)
  erasing   (* an erase is in progress                                     *)

vars == <<value, saving, erasing>>

Init == value = NONE /\ saving = NONE /\ erasing = FALSE

BeginSave(image) ==
  /\ saving = NONE /\ ~erasing
  /\ saving' = image
  /\ UNCHANGED <<value, erasing>>

Commit ==
  /\ saving # NONE
  /\ value' = saving
  /\ UNCHANGED <<saving, erasing>>

EndSave ==
  /\ saving # NONE
  /\ value' \in {value, saving}
  /\ saving' = NONE
  /\ UNCHANGED erasing

BeginErase ==
  /\ saving = NONE /\ ~erasing
  /\ erasing' = TRUE
  /\ UNCHANGED <<value, saving>>

Erase ==
  /\ erasing
  /\ value' \in Image \cup {NONE, DAMAGED}
  /\ erasing' \in BOOLEAN
  /\ UNCHANGED saving

Next ==
  \/ \E image \in Image : BeginSave(image)
  \/ Commit \/ EndSave \/ BeginErase \/ Erase

Spec == Init /\ [][Next]_vars

=============================================================================
