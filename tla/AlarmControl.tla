---------------------------- MODULE AlarmControl ----------------------------
(***************************************************************************)
(* AlarmControl with the alarm log and the alarm relays                     *)
(* (application/alarm/AlarmControl.cpp, AlarmLog.cpp, AlarmRelay.cpp) over  *)
(* the error sources (datapoint/AlarmDataPoint.h).                          *)
(*                                                                         *)
(* A run of the sub task is one action: it holds the semaphore of the log   *)
(* until it comes to the relays, PowerDownTask takes that semaphore too,    *)
(* and whoever else calls SetErrorPresent is another sub task of the same   *)
(* task or of lower priority.  One of lower priority (Outside) may be       *)
(* preempted by this sub task between the change and the notification.      *)
(*                                                                         *)
(* Abstractions.  The log is kept without its acknowledged and empty        *)
(* elements: they are departed, or never arrived, so that nothing but the   *)
(* search for an element to delete looks at them, and all that is asked     *)
(* there is whether there is one.  Power comes back after an orderly power  *)
(* down; a log that was saved at an earlier moment is the log of that       *)
(* moment.  One pump, no pump groups; no texts, times and snapshots.        *)
(***************************************************************************)
EXTENDS Integers, Sequences, SequencesExt

CONSTANTS
  Sources,     (* mErrorSourceVector: the error sources in their order      *)
  PumpSource,  (* those whose erroneous unit is the pump                    *)
  Outside,     (* those set by tasks of lower priority                      *)
  Critical, HighLevel,  (* by their alarm id                               *)
  CustomFor,   (* source -> what is configured for the custom relay         *)
  Relay,       (* the alarm relays in use                                  *)
  LogSize,     (* ALARM_LOG_SIZE, 24                                        *)
  MaxEvents    (* bounds the errors and commands                           *)

Source == ToSet(Sources)
State == {"READY", "WARNING", "ALARM"}

ASSUME AlarmControlAssumption ==
  /\ Sources \in Seq(Source) /\ IsInjective(Sources)
  /\ PumpSource \subseteq Source /\ Outside \subseteq Source
  /\ Critical \subseteq Source /\ HighLevel \subseteq Source
  /\ CustomFor \in [Source -> SUBSET {"WARNING", "ALARM"}]
  /\ Relay \subseteq {"CUSTOM", "HIGH_LEVEL", "CRITICAL", "ALL_ALARMS",
                      "ALL_ALARMS_AND_WARNINGS"}
  /\ LogSize \in Nat \ {0} /\ MaxEvents \in Nat

VARIABLES
  dp,         (* source -> [error, alarm, active, auto]: mErrorPresent,     *)
              (* mAlarmPresent, mActive, AutoAcknowledge                   *)
  unnotified, (* sources that have changed and not yet notified             *)
  vector,     (* mAlarmDpErrorVector                                       *)
  marks,      (* what IsUpdated will report: sources, "mode", "reset",      *)
              (* "clear"                                                   *)
  changed,    (* mAlarmDpErrorUpdatedVector                                *)
  enabled,    (* the pump is installed and not disabled                    *)
  timer,      (* RESET_ALARM_DELAY_TIMER runs                              *)
  requested,  (* mReqTaskTimeFlag                                          *)
  log,        (* the unacknowledged elements, the newest first             *)
  unack,      (* mDpHasUnAckAlarms                                         *)
  relay,      (* relay -> [list, auto, manual, reset, out]                 *)
  lost,       (* history: sources without the element they should have     *)
  silenced,   (* history: relay -> sources taken off its list by a reset    *)
  held,       (* history: relays on, to be acknowledged by hand            *)
  gone,       (* history: no error since the last reset was asked for       *)
  events      (* errors and commands so far                                *)

history == <<lost, silenced, held, gone>>
vars == <<dp, unnotified, vector, marks, changed, enabled, timer, requested, log, unack,
          relay, history, events>>

-----------------------------------------------------------------------------
(* AlarmDataPoint.                                                          *)

ErrorPresent(d) == IF d.active THEN d.error ELSE "READY"
AlarmPresent(d) == IF d.active THEN d.alarm ELSE "READY"

(* SetErrorPresent: an alarm to be acknowledged by hand stays.              *)
Reported(d, e) ==
  [d EXCEPT !.error = e, !.alarm = IF d.auto \/ @ # "ALARM" THEN e ELSE @]

(* SetDataPointActive.                                                      *)
Activated(d, a) ==
  IF a /\ ~d.active THEN Reported([d EXCEPT !.active = TRUE], d.error)
  ELSE [d EXCEPT !.active = a]

(* Update, when the configuration changes.                                  *)
Configured(d, a) ==
  [d EXCEPT !.auto = a, !.alarm = IF a THEN ErrorPresent(d) ELSE @]

-----------------------------------------------------------------------------
(* AlarmLog.                                                                *)

Active(l, s) == {i \in 1 .. Len(l) : l[i].source = s /\ ~l[i].departed}

(* ErrorDepartured.                                                         *)
Departed(l, s, e) ==
  [i \in 1 .. Len(l) |->
     IF l[i].source = s /\ (e = "READY" \/ (e = "WARNING" /\ l[i].type = "ALARM"))
     THEN [l[i] EXCEPT !.departed = TRUE] ELSE l[i]]

(* The element that has to go when none is acknowledged: SYSTEM_MODE_READY  *)
(* has the value of ALARM_STATE_ALARM.  0 if there is none.                 *)
Oldest(found) == Max(found \cup {0})
Victim(l) ==
  LET alarm == Oldest({i \in DOMAIN l : l[i].type = "ALARM"})
  IN  IF alarm # 0 THEN alarm ELSE Oldest({i \in DOMAIN l : l[i].departed})

(* Mutant: departed elements count as present.                              *)
Present_Departed(l, s, e) == \E i \in 1 .. Len(l) : l[i].source = s /\ l[i].type = e

Present(l, s, e) == \E i \in Active(l, s) : l[i].type = e

(* PutAlarmLogElement for an error e that is not READY: the log, and the    *)
(* sources that have lost an element.                                       *)
Put(l, s, e) ==
  LET new == [source |-> s, type |-> e, departed |-> FALSE]
      v == Victim(l)
  IN  IF Present(l, s, e) THEN [log |-> l, lost |-> {}]
      ELSE IF Len(l) < LogSize THEN [log |-> <<new>> \o l, lost |-> {}]
      ELSE IF v # 0 THEN [log |-> <<new>> \o RemoveAt(l, v), lost |-> {l[v].source} \ {s}]
      ELSE [log |-> l, lost |-> {s}]

(* The log after a pass over its elements: those at the places K stay.      *)
Kept(l, K) ==
  LET kept[i \in 0 .. Len(l)] ==
        IF i = 0 THEN <<>> ELSE IF i \in K THEN Append(kept[i - 1], l[i]) ELSE kept[i - 1]
  IN  kept[Len(l)]

(* ResetAlarmLog.  Warnings are always acknowledged automatically.          *)
ResetManual(l) == Kept(l, {i \in DOMAIN l : ~l[i].departed})
ResetAutomatic(l, d) ==
  Kept(l, {i \in DOMAIN l : ~(l[i].departed /\ (l[i].type = "WARNING" \/ d[l[i].source].auto))})

(* ClearAlarmLog.                                                           *)
Cleared(l) == Kept(l, {i \in DOMAIN l : ~l[i].departed})

HasUnAckAlarms(l) == \E i \in 1 .. Len(l) : l[i].type = "ALARM"

-----------------------------------------------------------------------------
(* AlarmRelay.                                                              *)

(* UpdateAlarmRelayLists: the relays an error is added to.                  *)
Activates(s, d) ==
  LET e == ErrorPresent(d)
  IN  IF e = "READY" \/ AlarmPresent(d) # e THEN {}
      ELSE {r \in Relay : \/ r = "CUSTOM" /\ e \in CustomFor[s]
                          \/ r = "HIGH_LEVEL" /\ s \in HighLevel
                          \/ r = "CRITICAL" /\ s \in Critical
                          \/ r = "ALL_ALARMS" /\ e = "ALARM"
                          \/ r = "ALL_ALARMS_AND_WARNINGS"}

(* RemoveCustom, RemoveWhenNoAlarm, RemoveWhenReady.                        *)
Stays(r, s, d) ==
  LET a == AlarmPresent(d)
  IN  CASE r = "CUSTOM" -> a \in CustomFor[s]
        [] r = "ALL_ALARMS" -> a = "ALARM"
        [] OTHER -> a # "READY"

(* Mutant: the manual acknowledgement is not remembered.                    *)
Checked_NoLatch(r, y, d) ==
  LET kept == IF y.auto THEN {s \in y.list : Stays(r, s, d[s])} ELSE y.list
      list == IF y.reset THEN {} ELSE kept
      manual == ~y.auto /\ ~y.reset /\ kept # {}
  IN  [y EXCEPT !.list = list, !.manual = manual, !.reset = FALSE,
                !.out = (list # {} \/ manual)]

(* CheckAlarmList, for the list and the data points of the moment.          *)
Checked(r, y, d) ==
  LET kept == IF y.auto THEN {s \in y.list : Stays(r, s, d[s])} ELSE y.list
      list == IF y.reset THEN {} ELSE kept
      manual == ~y.auto /\ ~y.reset /\ (y.manual \/ kept # {})
  IN  [y EXCEPT !.list = list, !.manual = manual, !.reset = FALSE,
                !.out = (list # {} \/ manual)]

-----------------------------------------------------------------------------
(* The sub task.                                                            *)

(* InitSubTask; PowerDown closes all elements that a power cut left open.   *)
ClosedLog(l) == ResetManual([i \in 1 .. Len(l) |-> [l[i] EXCEPT !.departed = TRUE]])

Fresh(auto) == [error |-> "READY", alarm |-> "READY", active |-> TRUE, auto |-> auto]

Init ==
  /\ dp \in [Source -> {Fresh(TRUE), Fresh(FALSE)}]
  /\ unnotified = {} /\ vector = [s \in Source |-> "READY"]
  /\ marks = {"mode"} /\ changed = {} /\ enabled \in BOOLEAN /\ timer = FALSE
  /\ requested = TRUE /\ log = <<>> /\ unack = FALSE
  /\ relay \in [Relay -> [list : {{}}, auto : BOOLEAN, manual : {FALSE}, reset : {FALSE},
                          out : {FALSE}]]
  /\ lost = {} /\ silenced = [r \in Relay |-> {}] /\ held = {} /\ gone = {}
  /\ events = 0

(* Power down and power up: the configuration and mpManualAckAlarmPresent   *)
(* are kept.                                                                *)
Restart ==
  /\ dp' = [s \in Source |-> Fresh(dp[s].auto)]
  /\ unnotified' = {} /\ vector' = [s \in Source |-> "READY"]
  /\ marks' = {"mode"} /\ changed' = {} /\ timer' = FALSE /\ requested' = TRUE
  /\ log' = ClosedLog(log) /\ unack' = HasUnAckAlarms(log')
  /\ relay' = [r \in Relay |-> [relay[r] EXCEPT !.list = {}, !.reset = FALSE, !.out = FALSE]]
  /\ lost' = {} /\ silenced' = [r \in Relay |-> {}] /\ gone' = {}
  /\ UNCHANGED <<enabled, held, events>>

(* A new state e of the source s, for the log z.log.                        *)
NewAlarmEvent(z, s, e) ==
  LET l == Departed(z.log, s, e)
      p == IF e = "READY" THEN [log |-> l, lost |-> {}] ELSE Put(l, s, e)
  IN  [log |-> p.log, lost |-> (z.lost \ {s}) \cup p.lost]

(* The loop over the error sources: those in news have a new state.         *)
AfterEvents(z, news, d) ==
  LET after[i \in 0 .. Len(Sources)] ==
        IF i = 0 THEN z
        ELSE IF Sources[i] \in news
             THEN NewAlarmEvent(after[i - 1], Sources[i], ErrorPresent(d[Sources[i]]))
             ELSE after[i - 1]
  IN  after[Len(Sources)]

(* Update for a source: the data point is d.                                *)
Differing(d) == {s \in Source : ErrorPresent(d[s]) # vector[s]}

RunSubTask ==
  /\ requested
  /\ LET d1 == [s \in Source |-> IF "mode" \in marks /\ s \in PumpSource
                                 THEN Activated(dp[s], enabled) ELSE dp[s]]
         toggled == {s \in Source : d1[s].active # dp[s].active}
         due == (marks \cap Source) \cup toggled
         news == due \cap Differing(d1)
         (* An error that came and went since the last run.                 *)
         past == {s \in (due \ news) \cap changed : ErrorPresent(d1[s]) = "READY"}
         d2 == [s \in Source |-> IF s \in past THEN [d1[s] EXCEPT !.alarm = "READY"] ELSE d1[s]]
         d3 == [s \in Source |-> IF "reset" \in marks /\ ErrorPresent(d2[s]) = "READY"
                                 THEN [d2[s] EXCEPT !.alarm = "READY"] ELSE d2[s]]
         again == {s \in Source : d3[s].alarm # d1[s].alarm}
         logged == AfterEvents([log |-> log, lost |-> lost], news, d1)
         l2 == IF "reset" \in marks THEN ResetManual(logged.log) ELSE logged.log
         l3 == IF "clear" \in marks THEN Cleared(l2) ELSE l2
         added(r) == {s \in news : r \in Activates(s, d1[s])}
     IN  /\ dp' = d3
         /\ vector' = [s \in Source |-> IF s \in due THEN ErrorPresent(d1[s]) ELSE vector[s]]
         /\ changed' = (changed \ due) \cup ((again \cap Differing(d3)) \ due)
         /\ marks' = again
         /\ requested' = (again \cup toggled # {})
         /\ log' = ResetAutomatic(l3, d3)
         /\ unack' = IF log' # log THEN HasUnAckAlarms(log') ELSE unack
         /\ relay' = [r \in Relay |->
                        Checked(r, [relay[r] EXCEPT !.list = @ \cup added(r)], d3)]
         /\ lost' = logged.lost
         /\ silenced' = [r \in Relay |->
                           {s \in IF relay[r].reset THEN Source ELSE silenced[r] \ added(r) :
                              Stays(r, s, d3[s])}]
         /\ held' = {r \in Relay : /\ ~relay[r].auto /\ ~relay[r].reset
                                   /\ r \in held \/ relay'[r].out}
  /\ UNCHANGED <<unnotified, enabled, timer, gone, events>>

-----------------------------------------------------------------------------
(* What the others do, and Update.                                          *)

Event == events < MaxEvents /\ events' = events + 1

Notified(new) ==
  /\ marks' = marks \cup new
  /\ changed' = changed \cup (new \cap Differing(dp'))
  /\ requested' = TRUE

SetErrorPresent(s, e) ==
  /\ Event /\ s \notin unnotified
  /\ dp' = [dp EXCEPT ![s] = Reported(@, e)] /\ dp' # dp
  /\ IF s \in Outside THEN unnotified' = unnotified \cup {s} /\ UNCHANGED <<marks, changed, requested>>
                      ELSE Notified({s}) /\ UNCHANGED unnotified
  /\ gone' = (IF e = "READY" THEN gone ELSE gone \ {s})
  /\ UNCHANGED <<vector, enabled, timer, log, unack, relay, lost, silenced, held>>

NotifyObservers(s) ==
  /\ s \in unnotified /\ unnotified' = unnotified \ {s}
  /\ UNCHANGED dp /\ Notified({s})
  /\ UNCHANGED <<vector, enabled, timer, log, unack, relay, history, events>>

SetAutoAcknowledge(s, a) ==
  /\ Event /\ s \notin unnotified /\ dp[s].auto # a
  /\ dp' = [dp EXCEPT ![s] = Configured(@, a)]
  /\ Notified({s})
  /\ UNCHANGED <<unnotified, vector, enabled, timer, log, unack, relay, history>>

SetPumpOprMode ==
  /\ Event /\ enabled' = ~enabled
  /\ UNCHANGED dp /\ Notified({"mode"})
  /\ UNCHANGED <<unnotified, vector, timer, log, unack, relay, history>>

(* Mutant: no second reset.                                                 *)
ResetAlarms_Once ==
  /\ Event /\ UNCHANGED dp /\ Notified({"reset"})
  /\ gone' = {s \in Source : dp[s].error = "READY"}
  /\ UNCHANGED <<unnotified, vector, enabled, timer, log, unack, relay, lost, silenced, held>>

(* The second reset comes half a second after the first.                    *)
ResetAlarms ==
  /\ Event /\ UNCHANGED dp /\ Notified({"reset"}) /\ timer' = TRUE
  /\ gone' = {s \in Source : dp[s].error = "READY"}
  /\ UNCHANGED <<unnotified, vector, enabled, log, unack, relay, lost, silenced, held>>

(* By then a notification that was under way is complete.                   *)
ResetDelayTimeOut ==
  /\ timer /\ unnotified = {} /\ timer' = FALSE
  /\ UNCHANGED dp /\ Notified({"reset"})
  /\ UNCHANGED <<unnotified, vector, enabled, log, unack, relay, history, events>>

ClearAlarmLog ==
  /\ Event /\ UNCHANGED dp /\ Notified({"clear"})
  /\ UNCHANGED <<unnotified, vector, enabled, timer, log, unack, relay, history>>

(* AlarmRelay::Update.                                                      *)
ResetRelay(r) ==
  /\ Event /\ relay' = [relay EXCEPT ![r].reset = TRUE] /\ requested' = TRUE
  /\ UNCHANGED <<dp, unnotified, vector, marks, changed, enabled, timer, log, unack, history>>

SetRelayAck(r) ==
  /\ Event /\ relay' = [relay EXCEPT ![r].auto = ~@] /\ requested' = TRUE
  /\ UNCHANGED <<dp, unnotified, vector, marks, changed, enabled, timer, log, unack, history>>

Next ==
  \/ RunSubTask \/ Restart
  \/ \E s \in Source, e \in State : SetErrorPresent(s, e)
  \/ \E s \in Source : NotifyObservers(s)
  \/ \E s \in Source, a \in BOOLEAN : SetAutoAcknowledge(s, a)
  \/ SetPumpOprMode \/ ResetAlarms \/ ResetDelayTimeOut \/ ClearAlarmLog
  \/ \E r \in Relay : ResetRelay(r) \/ SetRelayAck(r)

Spec == Init /\ [][Next]_vars

-----------------------------------------------------------------------------
TypeOK ==
  /\ dp \in [Source -> [error : State, alarm : State, active : BOOLEAN, auto : BOOLEAN]]
  /\ unnotified \in SUBSET Outside /\ vector \in [Source -> State]
  /\ marks \in SUBSET (Source \cup {"mode", "reset", "clear"}) /\ changed \in SUBSET Source
  /\ enabled \in BOOLEAN /\ timer \in BOOLEAN /\ requested \in BOOLEAN /\ unack \in BOOLEAN
  /\ log \in Seq([source : Source, type : {"WARNING", "ALARM"}, departed : BOOLEAN])
  /\ Len(log) <= LogSize
  /\ relay \in [Relay -> [list : SUBSET Source, auto : BOOLEAN, manual : BOOLEAN,
                          reset : BOOLEAN, out : BOOLEAN]]
  /\ lost \in SUBSET Source /\ silenced \in [Relay -> SUBSET Source]
  /\ held \in SUBSET Relay /\ gone \in SUBSET Source /\ events \in 0 .. MaxEvents

AtRest == ~requested /\ unnotified = {}

(* An element without a departure time stands for an error that is there:   *)
(* an alarm for an alarm, a warning for a warning or an alarm, also after a *)
(* power failure that left elements open, and for a pump that is disabled.  *)
ActiveIsPresent ==
  AtRest => \A i \in 1 .. Len(log) :
    LET e == ErrorPresent(dp[log[i].source])
    IN  ~log[i].departed => e = "ALARM" \/ (e = "WARNING" /\ log[i].type = "WARNING")

(* Each error that is present is in the log, once, unless the log was full  *)
(* of unacknowledged elements.                                              *)
ErrorIsLogged ==
  AtRest => \A s \in Source \ lost :
    LET e == ErrorPresent(dp[s])
    IN  e # "READY" =>
          \E i \in Active(log, s) : log[i].type = e /\ \A k \in Active(log, s) :
            log[k].type = e => k = i

(* mDpHasUnAckAlarms tells whether there is an alarm to acknowledge.        *)
UnackIsShown ==
  AtRest => (unack <=> \E i \in 1 .. Len(log) : log[i].type = "ALARM")

(* Log, data points and what is shown of them agree (AlarmControl.cpp:230,  *)
(* AlarmLog.cpp:140-340): the three properties above.                       *)
LogFitsErrors == ActiveIsPresent /\ ErrorIsLogged /\ UnackIsShown

(* The sources whose alarms switch a relay on.                              *)
Concerns(r) ==
  CASE r = "CUSTOM" -> {s \in Source : "ALARM" \in CustomFor[s]}
    [] r = "HIGH_LEVEL" -> HighLevel
    [] r = "CRITICAL" -> Critical
    [] OTHER -> Source

(* No alarm without its relays until they are reset, whichever state it     *)
(* came from, whatever was acknowledged or reconfigured or switched off     *)
(* meanwhile (but for the sources set from Outside, see the README).        *)
RelayOnForAlarm ==
  AtRest => \A r \in Relay : \A s \in Concerns(r) \ (silenced[r] \cup Outside) :
    ErrorPresent(dp[s]) = "ALARM" => relay[r].out

(* A relay acknowledged automatically is off without an alarm of its kind.  *)
RelayOffWithout ==
  AtRest => \A r \in Relay :
    relay[r].auto /\ relay[r].out => \E s \in Source : Stays(r, s, dp[s])

(* A relay to be acknowledged by hand stays on until it is, also when power *)
(* goes down in between.                                                    *)
RelayHolds == AtRest => \A r \in held : relay[r].out \/ relay[r].auto

(* The relays are on when and as long as they should be                     *)
(* (AlarmRelay.cpp:86-205): the three properties above.                     *)
RelaysFitAlarms == RelayOnForAlarm /\ RelayOffWithout /\ RelayHolds

(* After a reset (and its repetition) an error that had gone before and has *)
(* not come back is neither in the log nor shown.                           *)
ResetIsComplete ==
  AtRest /\ ~timer => \A s \in gone :
    AlarmPresent(dp[s]) = "READY" /\ \A i \in 1 .. Len(log) : log[i].source # s

(* "Delete oldest alarm event which is a warning" (AlarmLog.cpp:238): an    *)
(* alarm that stays present does not lose its element to a new one as long   *)
(* as there is a warning that could go instead.                              *)
WarningsGoFirst ==
  [][\A s \in Source :
       /\ Present(log, s, "ALARM") /\ ErrorPresent(dp[s]) = "ALARM" /\ dp'[s] = dp[s]
       /\ \E i \in 1 .. Len(log) : log[i].type = "WARNING" /\ Contains(log', log[i])
       => Present(log', s, "ALARM")]_<<log, dp>>

=============================================================================
