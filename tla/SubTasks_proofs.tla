--------------------------- MODULE SubTasks_proofs ---------------------------
(***************************************************************************)
(* A queue with room for two entries of each sub task loses no request, and *)
(* no change of a data point passes a sub task by, for every set of sub     *)
(* tasks, subjects and writers and every subscription, when all sub tasks   *)
(* use mRunRequestedFlag.                                                   *)
(***************************************************************************)
EXTENDS SubTasks, FiniteSetTheorems, TLAPS

(* The queue has two places for each sub task: one for its InitSubTask.     *)
Roomy == Unguarded = {} /\ 2 * Cardinality(SubTask) <= Capacity

-----------------------------------------------------------------------------
(* How often a sub task is in a queue.                                      *)

Absent(q, s) == \A i \in 1 .. Len(q) : q[i] # s
Once(q, s) == \A i, k \in 1 .. Len(q) : q[i] = s /\ q[k] = s => i = k
Twice(q, s) ==
  \A i, k, l \in 1 .. Len(q) :
    q[i] = s /\ q[k] = s /\ q[l] = s => i = k \/ k = l \/ i = l

(* A new last element: one more for it, the same for the others.            *)
LEMMA AppendCounts ==
  ASSUME NEW q \in Seq(SubTask), NEW s \in SubTask, NEW t \in SubTask
  PROVE  LET r == Append(q, s) IN
         /\ Len(r) = Len(q) + 1 /\ r \in Seq(SubTask)
         /\ \E i \in 1 .. Len(r) : r[i] = s
         /\ (\E i \in 1 .. Len(q) : q[i] = t) => \E i \in 1 .. Len(r) : r[i] = t
         /\ Absent(q, s) => Once(r, s)
         /\ Once(q, s) => Twice(r, s)
         /\ t # s /\ Absent(q, t) => Absent(r, t)
         /\ t # s /\ Once(q, t) => Once(r, t)
         /\ t # s /\ Twice(q, t) => Twice(r, t)
<1> DEFINE r == Append(q, s)
<1>1. Len(r) = Len(q) + 1 /\ r \in Seq(SubTask) /\ Len(q) \in Nat
  OBVIOUS
<1>2. r[Len(q) + 1] = s /\ \A i \in 1 .. Len(q) : r[i] = q[i]
  OBVIOUS
<1>3. \A i \in 1 .. Len(r) : i \in 1 .. Len(q) \/ i = Len(q) + 1
  BY <1>1
<1>4. 1 .. Len(q) \subseteq 1 .. Len(r) /\ Len(q) + 1 \in 1 .. Len(r)
  BY <1>1
<1> HIDE DEF r
<1>5. Absent(q, s) => Once(r, s)
  BY <1>2, <1>3 DEF Absent, Once
<1>6. Once(q, s) => Twice(r, s)
  BY <1>2, <1>3 DEF Once, Twice
<1>7. t # s /\ Absent(q, t) => Absent(r, t)
  BY <1>2, <1>3 DEF Absent
<1>8. t # s /\ Once(q, t) => Once(r, t)
  BY <1>2, <1>3 DEF Once
<1>9. t # s /\ Twice(q, t) => Twice(r, t)
  BY <1>2, <1>3 DEF Twice
<1> QED
  BY <1>1, <1>2, <1>4, <1>5, <1>6, <1>7, <1>8, <1>9 DEF r

(* The head gone: one less for it, the same for the others.                 *)
LEMMA TailCounts ==
  ASSUME NEW q \in Seq(SubTask), q # <<>>, NEW t \in SubTask
  PROVE  LET r == Tail(q) IN
         /\ r \in Seq(SubTask) /\ Head(q) \in SubTask
         /\ t # Head(q) /\ (\E i \in 1 .. Len(q) : q[i] = t)
              => \E i \in 1 .. Len(r) : r[i] = t
         /\ Once(q, Head(q)) => Absent(r, Head(q))
         /\ Twice(q, Head(q)) => Once(r, Head(q))
         /\ Absent(q, t) => Absent(r, t)
         /\ Once(q, t) => Once(r, t)
         /\ Twice(q, t) => Twice(r, t)
<1> DEFINE r == Tail(q)
<1>1. /\ Len(q) \in Nat /\ Len(q) > 0 /\ Len(r) = Len(q) - 1
      /\ r \in Seq(SubTask) /\ Head(q) \in SubTask /\ q[1] = Head(q)
  OBVIOUS
<1>2. \A i \in 1 .. Len(r) : r[i] = q[i + 1]
  OBVIOUS
<1>3. \A i \in 1 .. Len(r) : i \in Int /\ i + 1 \in 1 .. Len(q) /\ i + 1 # 1
  BY <1>1
<1>4. \A i \in 1 .. Len(q) : i = 1 \/ (i - 1 \in 1 .. Len(r) /\ (i - 1) + 1 = i)
  BY <1>1
<1>5. 1 \in 1 .. Len(q)
  BY <1>1
<1> HIDE DEF r
<1>6. t # Head(q) /\ (\E i \in 1 .. Len(q) : q[i] = t) => \E i \in 1 .. Len(r) : r[i] = t
  BY <1>1, <1>2, <1>4
<1>7. Once(q, Head(q)) => Absent(r, Head(q))
  BY <1>1, <1>2, <1>3, <1>5 DEF Once, Absent
<1>8. Twice(q, Head(q)) => Once(r, Head(q))
  <2> SUFFICES ASSUME Twice(q, Head(q)), NEW i \in 1 .. Len(r), NEW k \in 1 .. Len(r),
                      r[i] = Head(q), r[k] = Head(q)
               PROVE  i = k
    BY DEF Once
  <2>1. q[i + 1] = Head(q) /\ q[k + 1] = Head(q) /\ q[1] = Head(q)
    BY <1>1, <1>2
  <2>2. i + 1 = k + 1
    BY <2>1, <1>3, <1>5 DEF Twice
  <2> QED
    BY <2>2, <1>3
<1>9. Absent(q, t) => Absent(r, t)
  BY <1>2, <1>3 DEF Absent
<1>10. Once(q, t) => Once(r, t)
  <2> SUFFICES ASSUME Once(q, t), NEW i \in 1 .. Len(r), NEW k \in 1 .. Len(r),
                      r[i] = t, r[k] = t
               PROVE  i = k
    BY DEF Once
  <2>1. i + 1 = k + 1
    BY <1>2, <1>3 DEF Once
  <2> QED
    BY <2>1, <1>3
<1>11. Twice(q, t) => Twice(r, t)
  <2> SUFFICES ASSUME Twice(q, t), NEW i \in 1 .. Len(r), NEW k \in 1 .. Len(r),
                      NEW l \in 1 .. Len(r), r[i] = t, r[k] = t, r[l] = t
               PROVE  i = k \/ k = l \/ i = l
    BY DEF Twice
  <2>1. i + 1 = k + 1 \/ k + 1 = l + 1 \/ i + 1 = l + 1
    BY <1>2, <1>3 DEF Twice
  <2> QED
    BY <2>1, <1>3
<1> QED
  BY <1>1, <1>6, <1>7, <1>8, <1>9, <1>10, <1>11 DEF r

LEMMA IntervalSize ==
  ASSUME NEW n \in Nat
  PROVE  IsFiniteSet(1 .. n) /\ Cardinality(1 .. n) = n
<1>1. 1 \in Int /\ n \in Int
  OBVIOUS
<1>2. /\ IsFiniteSet(1 .. n)
      /\ Cardinality(1 .. n) = IF 1 > n THEN 0 ELSE n - 1 + 1
  BY <1>1, FS_Interval, Zenon
<1> QED
  BY <1>2

(* A queue in which nobody is more than twice has two entries of each at    *)
(* most: an entry is told by its sub task and whether it is the first.      *)
LEMMA TwiceIsBounded ==
  ASSUME NEW q \in Seq(SubTask), \A s \in SubTask : Twice(q, s)
  PROVE  Len(q) <= 2 * Cardinality(SubTask)
<1> DEFINE Second(i) == \E k \in 1 .. i - 1 : q[k] = q[i]
           Name == [i \in 1 .. Len(q) |-> <<q[i], IF Second(i) THEN 2 ELSE 1>>]
<1>1. IsFiniteSet(SubTask) /\ Cardinality(SubTask) \in Nat
  BY SubTasksAssumption, FS_CardinalityType
<1>2. IsFiniteSet(1 .. 2) /\ Cardinality(1 .. 2) = 2
  BY IntervalSize
<1>3. /\ IsFiniteSet(SubTask \X (1 .. 2))
      /\ Cardinality(SubTask \X (1 .. 2)) = Cardinality(SubTask) * 2
  BY <1>1, <1>2, FS_Product
<1>4. IsFiniteSet(1 .. Len(q)) /\ Cardinality(1 .. Len(q)) = Len(q) /\ Len(q) \in Nat
  <2>1. Len(q) \in Nat
    OBVIOUS
  <2> QED
    BY <2>1, IntervalSize
<1>5. Name \in [1 .. Len(q) -> SubTask \X (1 .. 2)]
  OBVIOUS
<1>6. ASSUME NEW i \in 1 .. Len(q), NEW k \in 1 .. Len(q), Name[i] = Name[k], i < k
      PROVE  FALSE
  <2>1. q[i] = q[k] /\ q[i] \in SubTask /\ (Second(i) <=> Second(k))
    BY <1>6
  <2>2. Second(k)
    BY <2>1, <1>6, <1>4
  <2>3. PICK l \in 1 .. i - 1 : q[l] = q[i]
    BY <2>1, <2>2
  <2>4. l \in 1 .. Len(q) /\ l # i /\ l # k /\ i # k
    BY <1>6, <1>4
  <2> QED
    BY <2>1, <2>3, <2>4 DEF Twice
<1>7. ASSUME NEW i \in 1 .. Len(q), NEW k \in 1 .. Len(q), i # k
      PROVE  Name[i] # Name[k]
  <2>1. i < k \/ k < i
    BY <1>7
  <2> QED
    BY <2>1, <1>6
<1> HIDE DEF Name
<1>8. ~(Cardinality(SubTask \X (1 .. 2)) < Cardinality(1 .. Len(q)))
  BY <1>3, <1>4, <1>5, <1>7, FS_PigeonHole
<1> QED
  BY <1>1, <1>3, <1>4, <1>8

(* A roomy queue has room for a sub task that is in it once.                *)
LEMMA Room ==
  ASSUME Roomy, NEW q \in Seq(SubTask), NEW s \in SubTask, Once(q, s),
         \A t \in SubTask : Twice(q, t)
  PROVE  Enqueue(q, s) = Append(q, s)
<1>1. Append(q, s) \in Seq(SubTask) /\ Len(Append(q, s)) = Len(q) + 1 /\ Len(q) \in Nat
  OBVIOUS
<1>2. \A t \in SubTask : Twice(Append(q, s), t)
  BY AppendCounts
<1>3. Len(q) + 1 <= 2 * Cardinality(SubTask)
  BY <1>1, <1>2, TwiceIsBounded
<1>4. Cardinality(SubTask) \in Nat /\ Capacity \in Nat
  BY SubTasksAssumption, FS_CardinalityType
<1> QED
  BY <1>1, <1>3, <1>4 DEF Roomy, Enqueue

-----------------------------------------------------------------------------
(* The inductive invariant of the queue.  A sub task that is yet to be      *)
(* initialised, or has been taken from the queue and has not cleared its    *)
(* flag, can still be requested by someone who does not see the flag.       *)

Taken(s) == cur = s /\ pc = "clear"
Slack(s) == s \notin inited \/ Taken(s)

QueueInv ==
  /\ pc # "delay" => inited = SubTask
  /\ \A s \in SubTask : Twice(queue, s)
  /\ \A s \in SubTask : Slack(s) \/ ~runReq[s] => Once(queue, s)
  /\ \A s \in SubTask : Slack(s) /\ ~runReq[s] => Absent(queue, s)
  /\ RequestIsQueued

LEMMA InitTypeOK == Init => TypeOK
<1>1. 0 \in 0 .. MaxValue
  BY SubTasksAssumption
<1>2. <<>> \in Seq(SubTask) /\ {} \in SUBSET SubTask
  OBVIOUS
<1>3. ASSUME Init PROVE TypeOK
  <2>1. seen \in [SubTask -> [Subject -> 0 .. MaxValue]] /\ value \in [Subject -> 0 .. MaxValue]
    BY <1>1, <1>3 DEF Init
  <2>2. updated \in [SubTask -> [Subject -> BOOLEAN]] /\ left \in [Writer -> SUBSET SubTask]
    BY <1>2, <1>3 DEF Init
  <2>3. rc \in BOOLEAN /\ pc \in {"delay", "next", "clear", "check", "reset", "get"}
    BY <1>3 DEF Init
  <2>4. wiped \subseteq SubTask \X Subject
    BY <1>3 DEF Init
  <2> QED
    BY <1>2, <1>3, <2>1, <2>2, <2>3, <2>4 DEF Init, TypeOK
<1> QED
  BY <1>3

LEMMA InitQueueInv == Init => QueueInv
<1> SUFFICES ASSUME Init PROVE QueueInv
  OBVIOUS
<1>1. queue = <<>> /\ Len(queue) = 0 /\ 1 .. Len(queue) = {}
  BY DEF Init
<1> QED
  BY <1>1 DEF Init, QueueInv, Twice, Once, Absent, RequestIsQueued

LEMMA EnqueueType ==
  ASSUME NEW q \in Seq(SubTask), NEW s \in SubTask
  PROVE  Enqueue(q, s) \in Seq(SubTask)
BY DEF Enqueue

LEMMA NextTypeOK == TypeOK /\ [Next]_vars => TypeOK'
<1> SUFFICES ASSUME TypeOK, [Next]_vars PROVE TypeOK'
  OBVIOUS
<1> USE SubTasksAssumption DEF TypeOK, kernel
<1>1. ASSUME NEW s \in SubTask, InitSubTask(s) PROVE TypeOK'
  <2>1. inited' \in SUBSET SubTask /\ queue' \in Seq(SubTask)
    BY <1>1, EnqueueType DEF InitSubTask
  <2>2. runReq' \in [SubTask -> BOOLEAN]
    <3>1. runReq' = [runReq EXCEPT ![s] = TRUE]
      BY <1>1 DEF InitSubTask
    <3> QED
      BY <3>1
  <2>3. updated' \in [SubTask -> [Subject -> BOOLEAN]]
    <3>1. \/ UNCHANGED updated
          \/ updated' = [updated EXCEPT ![s] = [j \in Subject |-> TRUE]]
      BY <1>1 DEF InitSubTask
    <3> QED
      BY <3>1
  <2>4. UNCHANGED <<value, seen, wiped, writing, left, pc, cur, todo, at, rc>>
    BY <1>1 DEF InitSubTask
  <2>5. /\ value' \in [Subject -> 0 .. MaxValue]
        /\ seen' \in [SubTask -> [Subject -> 0 .. MaxValue]]
        /\ wiped' \subseteq SubTask \X Subject
        /\ writing' \in [Writer -> Subject] /\ left' \in [Writer -> SUBSET SubTask]
    BY <2>4
  <2>6. /\ pc' \in {"delay", "next", "clear", "check", "reset", "get"}
        /\ cur' \in SubTask /\ todo' \in SUBSET Subject
        /\ at' \in Subject /\ rc' \in BOOLEAN
    BY <2>4
  <2> QED
    BY <2>1, <2>2, <2>3, <2>5, <2>6, Zenon
<1>2. ASSUME NEW w \in Writer, NEW j \in Subject, SetValue(w, j) PROVE TypeOK'
  <2>1. /\ value[j] + 1 \in 0 .. MaxValue /\ value' = [value EXCEPT ![j] = value[j] + 1]
        /\ writing' = [writing EXCEPT ![w] = j] /\ left' = [left EXCEPT ![w] = Observers[j]]
        /\ Observers[j] \in SUBSET SubTask
    BY <1>2 DEF SetValue
  <2>2. value' \in [Subject -> 0 .. MaxValue]
    BY <2>1
  <2>3. writing' \in [Writer -> Subject] /\ left' \in [Writer -> SUBSET SubTask]
    BY <2>1
  <2>4. UNCHANGED <<inited, queue, runReq, updated, seen, wiped, pc, cur, todo, at, rc>>
    BY <1>2 DEF SetValue
  <2> QED
    BY <2>2, <2>3, <2>4, Zenon
<1>3. ASSUME NEW w \in Writer, NEW s \in SubTask, Update(w, s) PROVE TypeOK'
  <2>1. queue' \in Seq(SubTask) /\ runReq' \in [SubTask -> BOOLEAN]
    <3>1. Enqueue(queue, s) \in Seq(SubTask)
      BY EnqueueType
    <3>2. CASE s \in Unguarded \/ ~runReq[s]
      <4>1. queue' = Enqueue(queue, s) /\ runReq' = [runReq EXCEPT ![s] = TRUE]
        BY <1>3, <3>2 DEF Update
      <4> QED
        BY <3>1, <4>1
    <3>3. CASE ~(s \in Unguarded \/ ~runReq[s])
      <4>1. UNCHANGED <<runReq, queue>>
        BY <1>3, <3>3 DEF Update
      <4> QED
        BY <4>1
    <3> QED
      BY <3>2, <3>3
  <2>2. left' \in [Writer -> SUBSET SubTask]
    BY <1>3 DEF Update
  <2>3. updated' \in [SubTask -> [Subject -> BOOLEAN]]
    <3> DEFINE row == [updated[s] EXCEPT ![writing[w]] = TRUE]
    <3>1. row \in [Subject -> BOOLEAN] /\ updated' = [updated EXCEPT ![s] = row]
      BY <1>3 DEF Update
    <3> HIDE DEF row
    <3> QED
      BY <3>1
  <2>4. wiped' \subseteq SubTask \X Subject
    BY <1>3 DEF Update
  <2>5. UNCHANGED <<inited, value, seen, writing, pc, cur, todo, at, rc>>
    BY <1>3 DEF Update
  <2> QED
    BY <2>1, <2>2, <2>3, <2>4, <2>5, Zenon
<1>4. CASE Wake
  BY <1>4 DEF Wake
<1>5. CASE Delay
  BY <1>5 DEF Delay
<1>6. CASE NextSubTask
  <2>1. queue \in Seq(SubTask) /\ queue # <<>> /\ cur' = Head(queue) /\ queue' = Tail(queue)
    BY <1>6 DEF NextSubTask
  <2>2. cur' \in SubTask /\ queue' \in Seq(SubTask)
    BY <2>1
  <2>3. todo' \in SUBSET Subject /\ pc' \in {"delay", "next", "clear", "check", "reset", "get"}
    BY <1>6 DEF NextSubTask, Observed
  <2>4. UNCHANGED <<inited, runReq, updated, value, seen, wiped, writing, left, at, rc>>
    BY <1>6 DEF NextSubTask
  <2> QED
    BY <2>2, <2>3, <2>4
<1>7. CASE ClearRequest
  BY <1>7 DEF ClearRequest
<1>8. ASSUME NEW j \in Subject, Look(j) PROVE TypeOK'
  BY <1>8 DEF Look
<1>9. CASE ResetUpdated
  <2>1. wiped' \subseteq SubTask \X Subject
    BY <1>9 DEF ResetUpdated
  <2>2. updated' \in [SubTask -> [Subject -> BOOLEAN]]
    <3> DEFINE row == [updated[cur] EXCEPT ![at] = FALSE]
    <3>1. row \in [Subject -> BOOLEAN] /\ updated' = [updated EXCEPT ![cur] = row]
      BY <1>9 DEF ResetUpdated
    <3> HIDE DEF row
    <3> QED
      BY <3>1
  <2>3. UNCHANGED <<inited, queue, runReq, value, seen, writing, left, cur, todo, at, rc>>
        /\ pc' \in {"get", "check"}
    BY <1>9 DEF ResetUpdated
  <2> QED
    BY <2>1, <2>2, <2>3
<1>10. CASE GetValue
  BY <1>10 DEF GetValue
<1>11. CASE Return
  BY <1>11 DEF Return
<1>12. CASE UNCHANGED vars
  BY <1>12 DEF vars
<1> QED
  BY <1>1, <1>2, <1>3, <1>4, <1>5, <1>6, <1>7, <1>8, <1>9, <1>10, <1>11, <1>12
     DEF Next, RunSubTasks

(* All variables have their types, whatever the queue does.                 *)
THEOREM TypeCorrect == Spec => []TypeOK
<1> QED
  BY InitTypeOK, NextTypeOK, PTL DEF Spec

(* A step that neither touches the queue and the flags nor begins or ends   *)
(* the run of a sub task.                                                   *)
LEMMA QueueStutter ==
  ASSUME QueueInv, UNCHANGED <<inited, queue, runReq, cur>>,
         (pc' = "delay" => pc = "delay" \/ inited = SubTask),
         (pc = "delay" /\ pc' # "delay") => inited = SubTask,
         pc # "clear", pc' # "clear"
  PROVE  QueueInv'
<1>1. \A s \in SubTask : ~Taken(s) /\ ~Taken(s)' /\ (Slack(s) <=> Slack(s)')
  BY DEF Taken, Slack
<1>2. RequestIsQueued'
  BY DEF QueueInv, RequestIsQueued, Queued
<1> QED
  BY <1>1, <1>2 DEF QueueInv

(* The same when only a request for s is added.                             *)
LEMMA QueueAppend ==
  ASSUME TypeOK, QueueInv, Roomy, NEW s \in SubTask,
         queue' = Enqueue(queue, s), runReq' = [runReq EXCEPT ![s] = TRUE],
         UNCHANGED <<cur, pc>>,
         \/ UNCHANGED inited /\ ~runReq[s]
         \/ s \notin inited /\ inited' = inited \cup {s} /\ pc = "delay"
  PROVE  QueueInv'
<1>1. queue \in Seq(SubTask) /\ Once(queue, s) /\ \A t \in SubTask : Twice(queue, t)
  BY DEF TypeOK, QueueInv, Slack
<1>2. queue' = Append(queue, s)
  BY <1>1, Room
<1>3. pc' # "delay" => inited' = SubTask
  BY DEF QueueInv, TypeOK
<1>4. \A t \in SubTask \ {s} : runReq'[t] = runReq[t] /\ (Slack(t) <=> Slack(t)')
  BY DEF TypeOK, Slack, Taken
<1>5. runReq'[s] = TRUE
  BY DEF TypeOK
<1>6. \A t \in SubTask : Twice(queue', t)
  BY <1>1, <1>2, AppendCounts
<1>7. ASSUME Slack(s)' PROVE Once(queue', s)
  <2>1. Slack(s) /\ ~runReq[s]
    BY <1>7 DEF Slack, Taken, TypeOK
  <2> QED
    BY <2>1, <1>1, <1>2, AppendCounts DEF QueueInv
<1>8. ASSUME NEW t \in SubTask, t # s
      PROVE  /\ Slack(t)' \/ ~runReq'[t] => Once(queue', t)
             /\ Slack(t)' /\ ~runReq'[t] => Absent(queue', t)
  BY <1>1, <1>2, <1>4, <1>8, AppendCounts DEF QueueInv
<1>9. RequestIsQueued'
  <2>1. Queued(s)'
    BY <1>1, <1>2, AppendCounts DEF Queued
  <2>2. ASSUME NEW t \in SubTask, t # s, t \in inited', runReq'[t]
        PROVE  Queued(t)' \/ (cur' = t /\ pc' = "clear")
    <3>1. t \in inited /\ runReq[t]
      BY <2>2, <1>4
    <3>2. Queued(t) \/ (cur = t /\ pc = "clear")
      BY <3>1 DEF QueueInv, RequestIsQueued
    <3> QED
      BY <3>2, <1>1, <1>2, AppendCounts DEF Queued
  <2>3. inited' \subseteq SubTask
    BY DEF TypeOK
  <2> QED
    BY <2>1, <2>2, <2>3 DEF RequestIsQueued
<1> QED
  BY <1>3, <1>5, <1>6, <1>7, <1>8, <1>9 DEF QueueInv

LEMMA NextQueueInv ==
  ASSUME Roomy, TypeOK, QueueInv, [Next]_vars
  PROVE  QueueInv'
<1> USE DEF kernel
<1>1. ASSUME NEW s \in SubTask, InitSubTask(s) PROVE QueueInv'
  <2>1. pc = "delay"
    BY <1>1 DEF InitSubTask, QueueInv
  <2> QED
    BY <1>1, <2>1, QueueAppend DEF InitSubTask
<1>2. ASSUME NEW w \in Writer, NEW j \in Subject, SetValue(w, j) PROVE QueueInv'
  BY <1>2 DEF SetValue, QueueInv, RequestIsQueued, Queued, Slack, Taken
<1>3. ASSUME NEW w \in Writer, NEW s \in SubTask, Update(w, s) PROVE QueueInv'
  <2>1. CASE ~runReq[s]
    BY <1>3, <2>1, QueueAppend DEF Update
  <2>2. CASE runReq[s]
    <3>1. UNCHANGED <<runReq, queue>>
      BY <1>3, <2>2 DEF Update, Roomy
    <3> QED
      BY <1>3, <3>1 DEF Update, QueueInv, RequestIsQueued, Queued, Slack, Taken
  <2> QED
    BY <2>1, <2>2
<1>4. CASE Wake
  BY <1>4, QueueStutter DEF Wake
<1>5. CASE Delay
  <2>1. inited = SubTask
    BY <1>5 DEF Delay, QueueInv
  <2> QED
    BY <1>5, <2>1, QueueStutter DEF Delay
<1>6. CASE NextSubTask
  <2>1. /\ queue \in Seq(SubTask) /\ queue # <<>> /\ queue' = Tail(queue)
        /\ cur' = Head(queue) /\ pc = "next" /\ pc' = "clear"
        /\ UNCHANGED <<inited, runReq>> /\ inited = SubTask
    BY <1>6 DEF NextSubTask, TypeOK, QueueInv
  <2>2. \A t \in SubTask : Twice(queue', t)
    BY <2>1, TailCounts DEF QueueInv
  <2>3. ASSUME NEW t \in SubTask
        PROVE  /\ Slack(t)' \/ ~runReq'[t] => Once(queue', t)
               /\ Slack(t)' /\ ~runReq'[t] => Absent(queue', t)
    <3>1. CASE t = Head(queue)
      BY <2>1, <3>1, TailCounts DEF QueueInv, Slack, Taken
    <3>2. CASE t # Head(queue)
      BY <2>1, <3>2, TailCounts DEF QueueInv, Slack, Taken
    <3> QED
      BY <3>1, <3>2
  <2>4. RequestIsQueued'
    <3> SUFFICES ASSUME NEW t \in SubTask, runReq[t], t # Head(queue)
                 PROVE  Queued(t)'
      BY <2>1 DEF RequestIsQueued
    <3>1. \E i \in 1 .. Len(queue) : queue[i] = t
      BY <2>1 DEF QueueInv, RequestIsQueued, Queued
    <3> QED
      BY <2>1, <3>1, TailCounts DEF Queued
  <2> QED
    BY <2>1, <2>2, <2>3, <2>4 DEF QueueInv
<1>7. CASE ClearRequest
  <2>1. /\ pc = "clear" /\ pc' = "check" /\ runReq' = [runReq EXCEPT ![cur] = FALSE]
        /\ UNCHANGED <<inited, queue, cur>> /\ inited = SubTask /\ cur \in SubTask
    BY <1>7 DEF ClearRequest, QueueInv, TypeOK
  <2>2. Once(queue, cur)
    BY <2>1 DEF QueueInv, Slack, Taken
  <2>3. ASSUME NEW t \in SubTask
        PROVE  ~Slack(t)' /\ (~runReq'[t] => t = cur \/ ~runReq[t])
    BY <2>1 DEF Slack, Taken, TypeOK
  <2>4. RequestIsQueued'
    BY <2>1 DEF QueueInv, RequestIsQueued, Queued, TypeOK
  <2> QED
    BY <2>1, <2>2, <2>3, <2>4 DEF QueueInv
<1>8. ASSUME NEW j \in Subject, Look(j) PROVE QueueInv'
  BY <1>8, QueueStutter DEF Look
<1>9. CASE ResetUpdated
  BY <1>9, QueueStutter DEF ResetUpdated
<1>10. CASE GetValue
  BY <1>10, QueueStutter DEF GetValue
<1>11. CASE Return
  BY <1>11, QueueStutter DEF Return
<1>12. CASE UNCHANGED vars
  BY <1>12 DEF vars, QueueInv, RequestIsQueued, Queued, Slack, Taken
<1> QED
  BY <1>1, <1>2, <1>3, <1>4, <1>5, <1>6, <1>7, <1>8, <1>9, <1>10, <1>11, <1>12
     DEF Next, RunSubTasks

(* No request is lost: a sub task whose mRunRequestedFlag is set is in the  *)
(* queue or about to clear the flag.                                        *)
THEOREM RequestsAreQueued ==
  ASSUME Roomy
  PROVE  Spec => []RequestIsQueued
<1>1. Init => TypeOK /\ QueueInv
  BY InitTypeOK, InitQueueInv
<1>2. TypeOK /\ QueueInv /\ [Next]_vars => TypeOK' /\ QueueInv'
  BY NextTypeOK, NextQueueInv
<1>3. QueueInv => RequestIsQueued
  BY DEF QueueInv
<1> QED
  BY <1>1, <1>2, <1>3, PTL DEF Spec

(* With the flag a sub task is in the queue twice at most.                  *)
THEOREM NobodyThrice ==
  ASSUME Roomy
  PROVE  Spec => []AtMostTwice
<1>1. Init => TypeOK /\ QueueInv
  BY InitTypeOK, InitQueueInv
<1>2. TypeOK /\ QueueInv /\ [Next]_vars => TypeOK' /\ QueueInv'
  BY NextTypeOK, NextQueueInv
<1>3. TypeOK /\ QueueInv => AtMostTwice
  BY DEF QueueInv, TypeOK, AtMostTwice, Twice
<1> QED
  BY <1>1, <1>2, <1>3, PTL DEF Spec

-----------------------------------------------------------------------------
(* The inductive invariant of the changes.                                  *)

(* The ways in which a change of j that s has not read is on its way, or    *)
(* waits for the next notification because IsUpdated took its mark.         *)
Notifying(s, j) == \E w \in Writer : writing[w] = j /\ s \in left[w]
Requested(s, j) == Queued(s) /\ (s \in Flagged => updated[s][j])
OnItsWay(s, j) ==
  IF s \in inited
  THEN Notifying(s, j) \/ Requested(s, j) \/ WillRead(s, j) \/ <<s, j>> \in wiped
  ELSE Notifying(s, j) \/ updated[s][j]

UpdateInv ==
  /\ \A w \in Writer : left[w] \subseteq Observers[writing[w]]
  /\ \A w \in Writer : left[w] # {} => writing[w] \in Writes[w]
  /\ pc = "clear" => todo = Observed(cur)
  /\ pc = "reset" => at \notin todo /\ cur \in Flagged
  /\ \A j \in Subject : \A s \in Observers[j] :
       value[j] # seen[s][j] => OnItsWay(s, j)

LEMMA InitUpdateInv == Init => UpdateInv
BY SubTasksAssumption DEF Init, UpdateInv

(* What does not touch the kernel task and the queue keeps a change on its  *)
(* way on its way; likewise what only adds to the queue.                    *)
LEMMA StaysOnItsWay ==
  ASSUME NEW s \in SubTask, NEW j \in Subject, OnItsWay(s, j),
         Notifying(s, j) => Notifying(s, j)' \/ (updated'[s][j] /\ Queued(s)')
                                 \/ (updated'[s][j] /\ WillRead(s, j)')
                                 \/ (updated'[s][j] /\ s \notin inited'),
         Queued(s) => Queued(s)',
         updated[s][j] => updated'[s][j],
         <<s, j>> \in wiped => <<s, j>> \in wiped',
         UNCHANGED <<inited, kernel>>
  PROVE  OnItsWay(s, j)'
BY DEF OnItsWay, Requested, WillRead, kernel

LEMMA EnqueueKeeps ==
  ASSUME NEW q \in Seq(SubTask), NEW s \in SubTask, NEW t \in SubTask,
         \E i \in 1 .. Len(q) : q[i] = t
  PROVE  \E i \in 1 .. Len(Enqueue(q, s)) : Enqueue(q, s)[i] = t
<1>1. CASE Len(q) < Capacity
  BY <1>1, AppendCounts DEF Enqueue
<1>2. CASE ~(Len(q) < Capacity)
  BY <1>2 DEF Enqueue
<1> QED
  BY <1>1, <1>2

LEMMA InitSubTaskUpdates ==
  ASSUME Roomy, TypeOK, QueueInv, UpdateInv, QueueInv',
         NEW s \in SubTask, InitSubTask(s)
  PROVE  UpdateInv'
<1> USE DEF kernel
<1>1. /\ s \notin inited /\ pc = "delay" /\ pc' = "delay" /\ inited' = inited \cup {s}
      /\ UNCHANGED <<value, seen, wiped, writing, left, kernel>> /\ runReq'[s] /\ queue' = Enqueue(queue, s)
  BY DEF InitSubTask, QueueInv, TypeOK
<1>2. Queued(s)'
  BY <1>1 DEF QueueInv, RequestIsQueued
<1>3. \A t \in SubTask, j \in Subject : updated[t][j] => updated'[t][j]
  BY DEF InitSubTask, TypeOK
<1>4. ASSUME NEW j \in Subject, NEW t \in Observers[j], value'[j] # seen'[t][j]
      PROVE  OnItsWay(t, j)'
  <2>1. OnItsWay(t, j) /\ t \in SubTask
    BY <1>1, <1>4, SubTasksAssumption DEF UpdateInv
  <2>2. CASE t = s
    BY <1>1, <1>2, <1>3, <2>1, <2>2 DEF OnItsWay, Requested, Notifying
  <2>3. CASE t # s
    <3>1. Queued(t) => Queued(t)'
      BY <1>1, <2>1, EnqueueKeeps DEF Queued, TypeOK
    <3> QED
      BY <1>1, <1>3, <2>1, <2>3, <3>1 DEF OnItsWay, Requested, Notifying, WillRead
  <2> QED
    BY <2>2, <2>3
<1> QED
  BY <1>1, <1>4 DEF UpdateInv

LEMMA SetValueUpdates ==
  ASSUME TypeOK, UpdateInv, NEW w \in Writer, NEW i \in Subject, SetValue(w, i)
  PROVE  UpdateInv'
<1> USE DEF kernel
<1>1. /\ left[w] = {} /\ i \in Writes[w] /\ writing' = [writing EXCEPT ![w] = i]
      /\ left' = [left EXCEPT ![w] = Observers[i]]
      /\ value' = [value EXCEPT ![i] = value[i] + 1]
      /\ UNCHANGED <<inited, queue, runReq, updated, seen, wiped, kernel>>
  BY DEF SetValue
<1>2. \A v \in Writer : /\ left'[v] \subseteq Observers[writing'[v]]
                        /\ left'[v] # {} => writing'[v] \in Writes[v]
  BY <1>1 DEF TypeOK, UpdateInv
<1>3. ASSUME NEW j \in Subject, NEW t \in Observers[j], value'[j] # seen'[t][j]
      PROVE  OnItsWay(t, j)'
  <2>1. CASE j = i
    <3>1. Notifying(t, j)'
      BY <1>1, <2>1 DEF Notifying, TypeOK
    <3> QED
      BY <3>1 DEF OnItsWay
  <2>2. CASE j # i
    <3>1. OnItsWay(t, j)
      BY <1>1, <1>3, <2>2 DEF UpdateInv, TypeOK
    <3>2. Notifying(t, j) => Notifying(t, j)'
      BY <1>1, <2>2 DEF Notifying, TypeOK
    <3> QED
      BY <1>1, <3>1, <3>2 DEF OnItsWay, Requested, WillRead, Queued
  <2> QED
    BY <2>1, <2>2
<1> QED
  BY <1>1, <1>2, <1>3 DEF UpdateInv, Observed

LEMMA UpdateUpdates ==
  ASSUME Roomy, TypeOK, QueueInv, QueueInv', UpdateInv,
         NEW w \in Writer, NEW s \in SubTask, Update(w, s)
  PROVE  UpdateInv'
<1> USE DEF kernel
<1> DEFINE i == writing[w]
<1>1. /\ s \in left[w] /\ left' = [left EXCEPT ![w] = left[w] \ {s}]
      /\ updated' = [updated EXCEPT ![s][i] = TRUE] /\ i \in Subject
      /\ wiped' = wiped \ {<<s, i>>}
      /\ UNCHANGED <<inited, value, seen, writing, kernel>>
  BY DEF Update, TypeOK
<1>2. \/ queue' = Enqueue(queue, s) /\ runReq' = [runReq EXCEPT ![s] = TRUE]
      \/ UNCHANGED <<queue, runReq>> /\ runReq[s]
  BY DEF Update
<1>3. \A v \in Writer : /\ left'[v] \subseteq Observers[writing'[v]]
                        /\ left'[v] # {} => writing'[v] \in Writes[v]
  BY <1>1 DEF TypeOK, UpdateInv
<1>4. \A t \in SubTask, j \in Subject :
        /\ updated[t][j] => updated'[t][j]
        /\ updated'[t][j] /\ ~updated[t][j] => t = s /\ j = i
  BY <1>1 DEF TypeOK
<1>5. updated'[s][i] /\ s \in Observers[i]
  BY <1>1 DEF TypeOK, UpdateInv
<1>6. \A t \in SubTask, j \in Subject :
        ~(t = s /\ j = i) /\ <<t, j>> \in wiped => <<t, j>> \in wiped'
  BY <1>1
<1>7. \A t \in SubTask : Queued(t) => Queued(t)'
  <2>1. CASE queue' = Enqueue(queue, s)
    BY <2>1, EnqueueKeeps DEF Queued, TypeOK
  <2>2. CASE UNCHANGED queue
    BY <2>2 DEF Queued
  <2> QED
    BY <1>2, <2>1, <2>2
<1>8. runReq'[s]
  BY <1>2 DEF TypeOK
<1>9. ASSUME NEW j \in Subject, NEW t \in Observers[j], value'[j] # seen'[t][j]
      PROVE  OnItsWay(t, j)'
  <2>1. OnItsWay(t, j) /\ t \in SubTask
    BY <1>1, <1>9, SubTasksAssumption DEF UpdateInv
  <2>2. CASE t = s /\ j = i
    <3>1. s \in inited => Queued(s)' \/ (cur = s /\ pc = "clear")
      BY <1>1, <1>8 DEF QueueInv, RequestIsQueued
    <3>2. pc = "clear" /\ cur = s => WillRead(s, i)'
      BY <1>1, <1>5 DEF UpdateInv, Observed, WillRead
    <3> QED
      BY <1>1, <1>5, <2>2, <3>1, <3>2 DEF OnItsWay, Requested
  <2>3. CASE ~(t = s /\ j = i)
    <3>1. Notifying(t, j) => Notifying(t, j)'
      BY <1>1, <2>3 DEF Notifying, TypeOK
    <3> QED
      BY <1>1, <1>4, <1>6, <1>7, <2>1, <2>3, <3>1, StaysOnItsWay
  <2> QED
    BY <2>2, <2>3
<1> QED
  BY <1>1, <1>3, <1>9 DEF UpdateInv

(* A step of the kernel task changes neither the values nor the             *)
(* notifications.                                                           *)
LEMMA KernelUpdates ==
  ASSUME TypeOK, QueueInv, UpdateInv, RunSubTasks
  PROVE  UpdateInv'
<1>1. UNCHANGED <<inited, value, writing, left>>
  BY DEF RunSubTasks, Wake, Delay, NextSubTask, ClearRequest, Look, ResetUpdated,
         GetValue, Return
<1>2. \A t \in SubTask, j \in Subject : Notifying(t, j) => Notifying(t, j)'
  BY <1>1 DEF Notifying
<1>3. inited = SubTask
  BY DEF QueueInv, RunSubTasks, Wake, Delay, NextSubTask, ClearRequest, Look,
         ResetUpdated, GetValue, Return
<1>4. \A v \in Writer : /\ left'[v] \subseteq Observers[writing'[v]]
                        /\ left'[v] # {} => writing'[v] \in Writes[v]
  BY <1>1 DEF UpdateInv
<1>5. pc' = "clear" => todo' = Observed(cur')
  BY DEF RunSubTasks, Wake, Delay, NextSubTask, ClearRequest, Look, ResetUpdated,
         GetValue, Return, Observed
<1>6. pc' = "reset" => at' \notin todo' /\ cur' \in Flagged
  BY DEF RunSubTasks, Wake, Delay, NextSubTask, ClearRequest, Look, ResetUpdated,
         GetValue, Return
<1>7. ASSUME NEW j \in Subject, NEW t \in Observers[j], value'[j] # seen'[t][j]
      PROVE  OnItsWay(t, j)'
  <2>1. t \in SubTask /\ t \in inited /\ t \in inited' /\ cur \in SubTask
    BY <1>1, <1>3, SubTasksAssumption DEF TypeOK
  <2>2. value[j] # seen[t][j] =>
          Notifying(t, j) \/ Requested(t, j) \/ WillRead(t, j) \/ <<t, j>> \in wiped
    BY <2>1 DEF UpdateInv, OnItsWay
  <2> DEFINE Stays == <<t, j>> \in wiped => <<t, j>> \in wiped'
  <2>3. SUFFICES ASSUME ~Notifying(t, j)', <<t, j>> \notin wiped'
                 PROVE  Requested(t, j)' \/ WillRead(t, j)'
    BY <2>1 DEF OnItsWay
  <2>13. Stays
    <3>1. CASE ~GetValue
      BY <3>1 DEF RunSubTasks, Wake, Delay, NextSubTask, ClearRequest, Look,
                  ResetUpdated, Return
    <3>2. CASE GetValue
      <4>1. seen' = [seen EXCEPT ![cur][at] = value[at]] /\ wiped' = wiped \ {<<cur, at>>}
        BY <3>2 DEF GetValue
      <4>2. ~(t = cur /\ j = at)
        BY <1>1, <1>7, <2>1, <4>1 DEF TypeOK
      <4> QED
        BY <4>1, <4>2
    <3> QED
      BY <3>1, <3>2
  <2>4. ~Notifying(t, j) /\ <<t, j>> \notin wiped
    BY <1>2, <2>1, <2>3, <2>13
  <2>5. CASE Wake
    BY <1>1, <1>7, <2>2, <2>4, <2>5 DEF Wake, Requested, Queued, WillRead
  <2>6. CASE Delay
    BY <1>1, <1>7, <2>2, <2>4, <2>6 DEF Delay, Requested, Queued, WillRead
  <2>7. CASE NextSubTask
    <3>1. /\ queue \in Seq(SubTask) /\ queue # <<>> /\ queue' = Tail(queue)
          /\ cur' = Head(queue) /\ pc = "next" /\ pc' = "clear"
          /\ todo' = Observed(cur') /\ UNCHANGED <<seen, updated>>
      BY <2>7 DEF NextSubTask, TypeOK
    <3>2. Requested(t, j)
      BY <1>1, <1>7, <2>2, <2>4, <3>1 DEF WillRead
    <3>3. CASE t = Head(queue)
      BY <1>7, <3>1, <3>2, <3>3 DEF Requested, WillRead, Observed
    <3>4. CASE t # Head(queue)
      BY <2>1, <3>1, <3>2, <3>4, TailCounts DEF Requested, Queued
    <3> QED
      BY <3>3, <3>4
  <2>8. CASE ClearRequest
    BY <1>1, <1>7, <2>2, <2>4, <2>8 DEF ClearRequest, Requested, Queued, WillRead
  <2>9. ASSUME NEW k \in Subject, Look(k) PROVE Requested(t, j)' \/ WillRead(t, j)'
    BY <1>1, <1>7, <2>2, <2>4, <2>9 DEF Look, Requested, Queued, WillRead
  <2>10. CASE ResetUpdated
    <3>1. /\ pc = "reset" /\ pc' = (IF rc THEN "get" ELSE "check")
          /\ updated' = [updated EXCEPT ![cur][at] = FALSE]
          /\ UNCHANGED <<queue, seen, cur, todo, at>>
          /\ at \notin todo /\ cur \in Flagged
          /\ (updated[cur][at] /\ ~rc => <<cur, at>> \in wiped')
      BY <2>10 DEF ResetUpdated, UpdateInv
    <3>2. Requested(t, j) \/ WillRead(t, j)
      BY <1>1, <1>7, <2>2, <2>4, <3>1
    <3>3. CASE t = cur /\ j = at
      BY <2>3, <3>1, <3>2, <3>3 DEF Requested, WillRead
    <3>4. CASE ~(t = cur /\ j = at)
      <4>1. updated'[t][j] = updated[t][j]
        BY <2>1, <3>1, <3>4 DEF TypeOK
      <4> QED
        BY <3>1, <3>2, <3>4, <4>1 DEF Requested, WillRead, Queued
    <3> QED
      BY <3>3, <3>4
  <2>11. CASE GetValue
    <3>1. /\ pc = "get" /\ pc' = "check" /\ seen' = [seen EXCEPT ![cur][at] = value[at]]
          /\ UNCHANGED <<queue, updated, cur, todo, at>>
      BY <2>11 DEF GetValue
    <3>2. ~(t = cur /\ j = at)
      BY <1>1, <1>7, <2>1, <3>1 DEF TypeOK
    <3>3. seen'[t][j] = seen[t][j]
      BY <2>1, <3>1, <3>2 DEF TypeOK
    <3> QED
      BY <1>1, <1>7, <2>2, <2>4, <3>1, <3>2, <3>3 DEF Requested, WillRead, Queued
  <2>12. CASE Return
    BY <1>1, <1>7, <2>2, <2>4, <2>12 DEF Return, Requested, Queued, WillRead
  <2> QED
    BY <2>5, <2>6, <2>7, <2>8, <2>9, <2>10, <2>11, <2>12 DEF RunSubTasks
<1> QED
  BY <1>4, <1>5, <1>6, <1>7 DEF UpdateInv

LEMMA NextUpdateInv ==
  ASSUME Roomy, TypeOK, QueueInv, UpdateInv, [Next]_vars
  PROVE  UpdateInv'
<1>1. QueueInv'
  BY NextQueueInv
<1>2. CASE UNCHANGED vars
  BY <1>2 DEF vars, kernel, UpdateInv, Observed, OnItsWay, Notifying, Requested,
              WillRead, Queued
<1> QED
  BY <1>1, <1>2, InitSubTaskUpdates, SetValueUpdates, UpdateUpdates, KernelUpdates DEF Next

(* No change of a data point passes a sub task by: it is being notified, or *)
(* marked and in the queue, or running and about to read the new value, or  *)
(* its mark came between the read and the write of IsUpdated.               *)
THEOREM ChangesArrive ==
  ASSUME Roomy
  PROVE  Spec => []NoUpdateLost
<1>1. Init => TypeOK /\ QueueInv /\ UpdateInv
  BY InitTypeOK, InitQueueInv, InitUpdateInv
<1>2. TypeOK /\ QueueInv /\ UpdateInv /\ [Next]_vars => TypeOK' /\ QueueInv' /\ UpdateInv'
  BY NextTypeOK, NextQueueInv, NextUpdateInv
<1>3. UpdateInv => NoUpdateLost
  BY DEF UpdateInv, NoUpdateLost, OnItsWay, Notifying, Requested
<1> QED
  BY <1>1, <1>2, <1>3, PTL DEF Spec

=============================================================================
