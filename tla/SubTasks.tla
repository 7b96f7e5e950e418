------------------------------ MODULE SubTasks ------------------------------
(***************************************************************************)
(* The event kernel of src/util that runs the controllers: a TaskCtrlEvent  *)
(* task takes sub tasks from its queue and runs them; a data point that     *)
(* changes notifies its observers, and each of them marks its SubjectPtr as *)
(* updated and asks to be run unless it already did (mRunRequestedFlag).    *)
(*                                                                         *)
(* NotifyObservers holds off task switches (OS_EnterRegion), so the Update  *)
(* of one observer is one step (ReqRun may have to wait for the semaphore   *)
(* of the queue, so the whole notification is not).  What a sub task does   *)
(* in RunSubTask with its own members is not protected: each access to a    *)
(* flag is a step, and a task of higher priority (Preempting) may come in   *)
(* between.  Sub tasks write data points too (Inside): that is done when    *)
(* RunSubTask goes on.  All others write while the kernel task is in its    *)
(* OS_Delay.                                                                *)
(*                                                                         *)
(* Abstractions.  A sub task is what it observes: its RunSubTask looks at   *)
(* every subject once, after IsUpdated() said so (Flagged) or always.  Main *)
(* initialises the sub tasks before the tasks start.                        *)
(***************************************************************************)
EXTENDS Integers, Sequences, FiniteSets

CONSTANTS
  SubTask, Subject, Writer,
  Observers,   (* Subject -> the sub tasks subscribed to it                *)
  Flagged,     (* sub tasks that read a subject only if IsUpdated()        *)
  Unguarded,   (* sub tasks whose Update does not use mRunRequestedFlag    *)
  Preempting,  (* writers of higher priority than the kernel task          *)
  Inside,      (* writers that are the sub tasks of the kernel task        *)
  Writes,      (* Writer -> the subjects it changes                        *)
  Capacity,    (* of mSubTaskQueue (250 in the code)                       *)
  MaxValue     (* bounds the changes of one subject                        *)

ASSUME SubTasksAssumption ==
  /\ IsFiniteSet(SubTask)
  /\ Observers \in [Subject -> SUBSET SubTask]
  /\ Flagged \subseteq SubTask /\ Unguarded \subseteq SubTask
  /\ Preempting \subseteq Writer /\ Inside \subseteq Writer \ Preempting
  /\ Writes \in [Writer -> SUBSET Subject]
  /\ Capacity \in Nat /\ MaxValue \in Nat

VARIABLES
  inited,   (* sub tasks whose InitSubTask was called                      *)
  queue,    (* mSubTaskQueue                                               *)
  runReq,   (* mRunRequestedFlag of each sub task                          *)
  updated,  (* m_updated of each SubjectPtr                                *)
  value,    (* the data points                                             *)
  seen,     (* history: the value each sub task read last                  *)
  wiped,    (* history: <<s, j>> if IsUpdated of s, asked for j, has taken  *)
            (* the last mark of Update and returned false                  *)
  writing,  (* the subject each writer has assigned                        *)
  left,     (* its observers that the writer has yet to notify             *)
  pc, cur,  (* where the kernel task is, and in which sub task             *)
  todo,     (* the subjects RunSubTask has yet to look at                  *)
  at, rc    (* the subject it looks at, and what IsUpdated returns         *)

kernel == <<pc, cur, todo, at, rc>>
vars == <<inited, queue, runReq, updated, value, seen, wiped, writing, left, kernel>>

Observed(s) == {j \in Subject : s \in Observers[j]}
Queued(s) == \E i \in 1 .. Len(queue) : queue[i] = s

(* Fifo::write: a full queue drops the element and says nothing.            *)
Enqueue(q, s) == IF Len(q) < Capacity THEN Append(q, s) ELSE q

(* The flag may hold anything before InitSubTask: not every constructor     *)
(* gives it a value.                                                        *)
Init ==
  /\ inited = {} /\ queue = <<>>
  /\ runReq \in [SubTask -> BOOLEAN]
  /\ updated = [s \in SubTask |-> [j \in Subject |-> FALSE]]
  /\ value = [j \in Subject |-> 0]
  /\ seen = [s \in SubTask |-> [j \in Subject |-> 0]]
  /\ wiped = {}
  /\ writing \in [Writer -> Subject] /\ left = [w \in Writer |-> {}]
  /\ \A w \in Writer : Writes[w] # {} => writing[w] \in Writes[w]
  /\ pc = "delay" /\ cur \in SubTask
  /\ todo = {} /\ at \in Subject /\ rc = FALSE

(* Mutant: InitSubTask sets the flag and does not ask to be run.            *)
InitSubTask_NoRequest(s) ==
  /\ s \notin inited /\ inited' = inited \cup {s}
  /\ runReq' = [runReq EXCEPT ![s] = TRUE]
  /\ UNCHANGED <<queue, updated, value, seen, wiped, writing, left, kernel>>

(* InitSubTask of a typical controller: the request does not ask whether    *)
(* the sub task is queued already.  Some also set their updated flags.      *)
InitSubTask(s) ==
  /\ s \notin inited /\ \A w \in Writer : left[w] = {}
  /\ inited' = inited \cup {s}
  /\ runReq' = [runReq EXCEPT ![s] = TRUE]
  /\ queue' = Enqueue(queue, s)
  /\ \/ UNCHANGED updated
     \/ updated' = [updated EXCEPT ![s] = [j \in Subject |-> TRUE]]
  /\ UNCHANGED <<value, seen, wiped, writing, left, kernel>>

-----------------------------------------------------------------------------
(* The writers: SetValue of a data point, then NotifyObservers.             *)

(* Before OS_Start only Main writes; it stands for one of those that need   *)
(* the kernel task to be in its delay.                                      *)
MayRun(w) ==
  \/ w \in Preempting /\ inited = SubTask
  \/ w \in Inside /\ pc = "check"
  \/ w \notin Preempting \cup Inside /\ pc = "delay"

SetValue(w, j) ==
  /\ MayRun(w) /\ j \in Writes[w] /\ left[w] = {} /\ value[j] < MaxValue
  /\ value' = [value EXCEPT ![j] = @ + 1]
  /\ writing' = [writing EXCEPT ![w] = j]
  /\ left' = [left EXCEPT ![w] = Observers[j]]
  /\ UNCHANGED <<inited, queue, runReq, updated, seen, wiped, kernel>>

(* Update of the observer s.                                                *)
Update(w, s) ==
  /\ MayRun(w) /\ s \in left[w]
  /\ left' = [left EXCEPT ![w] = @ \ {s}]
  /\ updated' = [updated EXCEPT ![s][writing[w]] = TRUE]
  /\ wiped' = wiped \ {<<s, writing[w]>>}
  /\ IF s \in Unguarded \/ ~runReq[s]
     THEN runReq' = [runReq EXCEPT ![s] = TRUE] /\ queue' = Enqueue(queue, s)
     ELSE UNCHANGED <<runReq, queue>>
  /\ UNCHANGED <<inited, value, seen, writing, kernel>>

-----------------------------------------------------------------------------
(* The kernel task: TaskCtrlEvent::RunSubTasks, again and again.            *)

(* The end of OS_Delay, which is also how the task begins.                  *)
Wake ==
  /\ pc = "delay" /\ inited = SubTask
  /\ pc' = "next"
  /\ UNCHANGED <<inited, queue, runReq, updated, value, seen, wiped, writing, left, cur, todo, at, rc>>

Delay ==
  /\ pc = "next" /\ queue = <<>>
  /\ pc' = "delay"
  /\ UNCHANGED <<inited, queue, runReq, updated, value, seen, wiped, writing, left, cur, todo, at, rc>>

NextSubTask ==
  /\ pc = "next" /\ queue # <<>>
  /\ cur' = Head(queue) /\ queue' = Tail(queue)
  /\ todo' = Observed(cur')
  /\ pc' = "clear"
  /\ UNCHANGED <<inited, runReq, updated, value, seen, wiped, writing, left, at, rc>>

(* Mutant: the flag stays set.                                              *)
ClearRequest_Forgotten ==
  /\ pc = "clear" /\ pc' = "check"
  /\ UNCHANGED <<inited, queue, runReq, updated, value, seen, wiped, writing, left, cur, todo, at, rc>>

(* The first statement of RunSubTask.                                       *)
ClearRequest ==
  /\ pc = "clear" /\ pc' = "check"
  /\ runReq' = [runReq EXCEPT ![cur] = FALSE]
  /\ UNCHANGED <<inited, queue, updated, value, seen, wiped, writing, left, cur, todo, at, rc>>

(* The sub task is inside SetValue.                                         *)
Writing == \E w \in Inside : left[w] # {}

(* Look(j): the next subject, in any order; IsUpdated is two steps.         *)
Look(j) ==
  /\ pc = "check" /\ j \in todo /\ ~Writing
  /\ todo' = todo \ {j} /\ at' = j
  /\ IF cur \in Flagged
     THEN pc' = "reset" /\ rc' = updated[cur][j]
     ELSE pc' = "get" /\ UNCHANGED rc
  /\ UNCHANGED <<inited, queue, runReq, updated, value, seen, wiped, writing, left, cur>>

ResetUpdated ==
  /\ pc = "reset" /\ pc' = (IF rc THEN "get" ELSE "check")
  /\ updated' = [updated EXCEPT ![cur][at] = FALSE]
  /\ wiped' = (IF updated[cur][at] /\ ~rc THEN wiped \cup {<<cur, at>>} ELSE wiped)
  /\ UNCHANGED <<inited, queue, runReq, value, seen, writing, left, cur, todo, at, rc>>

GetValue ==
  /\ pc = "get" /\ pc' = "check"
  /\ seen' = [seen EXCEPT ![cur][at] = value[at]]
  /\ wiped' = wiped \ {<<cur, at>>}
  /\ UNCHANGED <<inited, queue, runReq, updated, value, writing, left, cur, todo, at, rc>>

Return ==
  /\ pc = "check" /\ todo = {} /\ ~Writing /\ pc' = "next"
  /\ UNCHANGED <<inited, queue, runReq, updated, value, seen, wiped, writing, left, cur, todo, at, rc>>

RunSubTasks ==
  \/ Wake \/ Delay \/ NextSubTask \/ ClearRequest \/ (\E j \in Subject : Look(j))
  \/ ResetUpdated \/ GetValue \/ Return

-----------------------------------------------------------------------------
Next ==
  \/ \E s \in SubTask : InitSubTask(s)
  \/ \E w \in Writer, j \in Subject : SetValue(w, j)
  \/ \E w \in Writer, s \in SubTask : Update(w, s)
  \/ RunSubTasks

Spec == Init /\ [][Next]_vars

(* Main initialises all sub tasks; a task inside NotifyObservers goes on,   *)
(* one of lower priority in one of the 10 ms that the kernel task waits     *)
(* again and again; the kernel task runs whenever it is its turn.           *)
FairSpec ==
  /\ Spec
  /\ \A s \in SubTask : WF_vars(InitSubTask(s))
  /\ \A w \in Writer : SF_vars(\E s \in SubTask : Update(w, s))
  /\ WF_vars(RunSubTasks)

-----------------------------------------------------------------------------
(* Types of all variables.                                                  *)
TypeOK ==
  /\ inited \in SUBSET SubTask
  /\ queue \in Seq(SubTask)
  /\ runReq \in [SubTask -> BOOLEAN]
  /\ updated \in [SubTask -> [Subject -> BOOLEAN]]
  /\ value \in [Subject -> 0 .. MaxValue]
  /\ seen \in [SubTask -> [Subject -> 0 .. MaxValue]]
  /\ wiped \subseteq SubTask \X Subject
  /\ writing \in [Writer -> Subject]
  /\ left \in [Writer -> SUBSET SubTask]
  /\ pc \in {"delay", "next", "clear", "check", "reset", "get"}
  /\ cur \in SubTask /\ todo \in SUBSET Subject
  /\ at \in Subject /\ rc \in BOOLEAN

(* A sub task that says it has asked to be run will be run: it is in the    *)
(* queue or about to clear its flag.  If a request were lost the flag would *)
(* keep every later one away ("some subtasks may never be called            *)
(* afterwards", TaskCtrlEvent.h:101).                                       *)
RequestIsQueued ==
  \A s \in inited : runReq[s] => Queued(s) \/ (cur = s /\ pc = "clear")

(* With the flag a sub task is in the queue twice at most (once because its *)
(* InitSubTask does not look at the flag), so when all use it, a queue with *)
(* room for two entries of each never drops one.                            *)
AtMostTwice ==
  \A i, k, l \in 1 .. Len(queue) :
    i # k /\ k # l /\ i # l /\ queue[i] = queue[k] /\ queue[k] = queue[l]
      => queue[i] \in Unguarded

(* The running sub task will still read the value of j.                     *)
WillRead(s, j) ==
  /\ cur = s
  /\ \/ pc \in {"clear", "check", "reset", "get"} /\ j \in todo
          /\ (s \in Flagged => updated[s][j])
     \/ pc = "get" /\ at = j
     \/ pc = "reset" /\ at = j /\ rc

(* No change of a data point passes a sub task by: if it has not read the   *)
(* value, it is being notified, or asked to run and marked as updated, or   *)
(* running and will read it.  The one exception is a notification that      *)
(* preempts IsUpdated between its read and its write (SubjectPtr.h:293-297): *)
(* its mark is gone although IsUpdated returned false, so the sub task runs *)
(* once more and does not look; the next notification makes up for it.      *)
NoUpdateLost ==
  \A j \in Subject : \A s \in Observers[j] \cap inited :
    value[j] # seen[s][j] =>
      \/ \E w \in Writer : writing[w] = j /\ s \in left[w]
      \/ Queued(s) /\ (s \in Flagged => updated[s][j])
      \/ WillRead(s, j)
      \/ <<s, j>> \in wiped

(* Every sub task reads every change in the end, but for that exception.    *)
UpdateIsSeen ==
  \A j \in Subject : \A s \in Observers[j] :
    value[j] # seen[s][j] ~> (value[j] = seen[s][j] \/ <<s, j>> \in wiped)

=============================================================================
