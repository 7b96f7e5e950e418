-------------------------- MODULE InterLockedCtrl --------------------------
(***************************************************************************)
(* InterLockedCtrl (src/application/InterLockedCtrl): a pit is locked by a  *)
(* request (from a text message or the bus) or a digital input, for at most *)
(* the time in mpInterLockTimeout, until it is released or ignores locks.   *)
(*                                                                         *)
(* RunSubTask is one action: what it reads is set by tasks of lower         *)
(* priority, and it clears the flag of its timer after it has stopped the   *)
(* timer or set it again.  mpInterLockTimeRemain is for the display only.   *)
(***************************************************************************)
EXTENDS Integers

CONSTANTS
  Timeouts,   (* values given to mpInterLockTimeout                        *)
  Longest     (* its maximum, 24 hours                                     *)

ASSUME InterLockedAssumption == Timeouts \subseteq Nat /\ Longest \in Nat

Off == -1     (* of a timer that does not run                              *)

VARIABLES
  locked,     (* mpInterLocked, kept in the flash                          *)
  timeout,    (* mpInterLockTimeout, kept in the flash                     *)
  timer,      (* INTERLOCKED_TIMEOUT_TIMER                                 *)
  timerFlag,  (* mInterLockTimeoutTimerFlag                                *)
  updated,    (* the subject pointers that are updated                     *)
  run,        (* mRunRequestedFlag                                         *)
  ignore,     (* mpInterLockIgnore                                         *)
  digIn       (* mpInterlockDigInRequest is active                         *)

lockVars == <<locked, timeout, timer, timerFlag, updated, run, ignore, digIn>>

Subject == {"timeout", "request", "off", "digIn"}

(* Mutant: a lock from before is not timed.                                 *)
LockStart_NoTimer(l, t) ==
  /\ locked' = l /\ timeout' = t /\ timer' = Off
  /\ timerFlag' = FALSE /\ updated' = {} /\ run' = TRUE /\ digIn' = FALSE
  /\ UNCHANGED ignore

(* InitSubTask, with what was kept; a lock gets its whole time again.       *)
LockStart(l, t) ==
  /\ locked' = l /\ timeout' = t
  /\ timer' = IF l THEN t ELSE Off
  /\ timerFlag' = FALSE /\ updated' = {} /\ run' = TRUE /\ digIn' = FALSE
  /\ UNCHANGED ignore

LockInit ==
  /\ locked = FALSE /\ timeout \in Timeouts /\ timer = Off /\ timerFlag = FALSE
  /\ updated = {} /\ run = TRUE /\ ignore = FALSE /\ digIn = FALSE

LockTypeOK ==
  /\ {locked, timerFlag, run, ignore, digIn} \subseteq BOOLEAN
  /\ timeout \in Nat /\ timer \in Nat \cup {Off}
  /\ updated \subseteq Subject

-----------------------------------------------------------------------------
(* RunSubTask.                                                              *)

DigInOn  == "digIn" \in updated /\ digIn /\ ~ignore
DigInOff == "digIn" \in updated /\ ~digIn /\ ~ignore

(* Another time begins the period of a lock anew.                           *)
OnRequest ==
  ~ignore /\ (DigInOn \/ "request" \in updated \/ ("timeout" \in updated /\ locked))

OffRequest == DigInOff \/ "off" \in updated

(* The requests are forgotten, and off takes priority over on.              *)
Released == ignore \/ OffRequest

Holds ==
  /\ ~Released
  /\ OnRequest \/ (locked /\ ~timerFlag)

(* Mutant: the timer is stopped by off, and set by a request in the same    *)
(* run.                                                                     *)
NewTimer_OnWins ==
  IF OnRequest THEN timeout' ELSE IF Released THEN Off ELSE timer

NewTimer ==
  IF Released THEN Off ELSE IF OnRequest THEN timeout' ELSE timer

(* SetValueAsPercent of a digital input notifies this sub task again.       *)
RunLock ==
  /\ run
  /\ timeout' = IF DigInOn THEN Longest ELSE timeout
  /\ run' = (timeout' # timeout)
  /\ updated' = (IF timeout' # timeout THEN {"timeout"} ELSE {})
                  \cup (IF ignore THEN updated \cap {"digIn"} ELSE {})
  /\ timer' = NewTimer /\ timerFlag' = FALSE
  /\ locked' = Holds
  /\ UNCHANGED <<ignore, digIn>>

-----------------------------------------------------------------------------
(* Update: a timeout, and subjects that get another value or an event.      *)

LockTimeOut ==
  /\ timer = 0
  /\ timer' = Off /\ timerFlag' = TRUE /\ run' = TRUE
  /\ UNCHANGED <<locked, timeout, updated, ignore, digIn>>

Notified(s) ==
  /\ updated' = updated \cup {s} /\ run' = TRUE
  /\ UNCHANGED <<locked, timer, timerFlag>>

SetTimeout(t) ==
  IF t = timeout THEN UNCHANGED lockVars
  ELSE timeout' = t /\ Notified("timeout") /\ UNCHANGED <<ignore, digIn>>

SetEvent(s) == Notified(s) /\ UNCHANGED <<timeout, ignore, digIn>>

SetDigIn == digIn' = ~digIn /\ Notified("digIn") /\ UNCHANGED <<timeout, ignore>>

SetIgnore ==
  /\ ignore' = ~ignore /\ run' = TRUE
  /\ UNCHANGED <<locked, timeout, timer, timerFlag, updated, digIn>>

-----------------------------------------------------------------------------
(* No lock is for ever: its timer runs, or its timeout is about to be seen. *)
(* So it is after requests, releases and new times in any order, and after  *)
(* a power cycle (InterLockedCtrl.cpp:91-106, :113-195).  And a pit that is *)
(* not locked has no timer, which could end a later lock too early          *)
(* (:161-191).                                                              *)
LockIsTimed ==
  /\ locked => timer # Off \/ (timerFlag /\ run)
  /\ ~locked => timer = Off

=============================================================================
