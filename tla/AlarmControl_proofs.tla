------------------------ MODULE AlarmControl_proofs ------------------------
(***************************************************************************)
(* Proofs about the alarm log, the resets and the alarm relays, for any      *)
(* number of sources and relays, any assignment of the one to the other, any *)
(* size of the log and any number of errors, resets, reconfigurations and    *)
(* power failures.                                                           *)
(***************************************************************************)
EXTENDS AlarmControl, FiniteSetTheorems, TLAPS

-----------------------------------------------------------------------------
DpType == [error : State, alarm : State, active : BOOLEAN, auto : BOOLEAN]

RelayType == [list : SUBSET Source, auto : BOOLEAN, manual : BOOLEAN, reset : BOOLEAN,
              out : BOOLEAN]

(* An alarm that is present is shown as present.                            *)
Shown(d) == d.active /\ d.error = "ALARM" => d.alarm = "ALARM"

Types ==
  /\ dp \in [Source -> DpType] /\ vector \in [Source -> State]
  /\ relay \in [Relay -> RelayType]
  /\ enabled \in BOOLEAN /\ requested \in BOOLEAN
  /\ marks \in SUBSET (Source \cup {"mode", "reset", "clear"})
  /\ unnotified \in SUBSET Outside /\ silenced \in [Relay -> SUBSET Source]
  /\ held \in SUBSET Relay

(* What AlarmControl does not know of a data point, it is marked for.       *)
MarkInv ==
  /\ marks # {} => requested
  /\ \A s \in Source : ErrorPresent(dp[s]) # vector[s] => s \in marks \cup unnotified

(* An alarm it knows of is on the list of its relays, or silenced.          *)
ListInv ==
  \A r \in Relay :
    /\ relay[r].list # {} => relay[r].out
    /\ \A s \in Concerns(r) \ Outside :
         vector[s] = "ALARM" => s \in relay[r].list \cup silenced[r]

HeldInv ==
  \A r \in held : relay[r].manual /\ (~requested => relay[r].out \/ relay[r].auto)

RelayInv ==
  /\ Types /\ \A s \in Source : Shown(dp[s])
  /\ MarkInv /\ ListInv /\ HeldInv /\ RelayOffWithout

-----------------------------------------------------------------------------
(* The data points.                                                         *)
LEMMA ReportedFits ==
  ASSUME NEW d \in DpType, NEW e \in State
  PROVE  LET x == Reported(d, e)
         IN  x \in DpType /\ Shown(x) /\ x.error = e /\ x.active = d.active /\ x.auto = d.auto
<1> DEFINE a == IF d.auto \/ d.alarm # "ALARM" THEN e ELSE d.alarm
           x == [d EXCEPT !.error = e, !.alarm = a]
<1>1. a \in State /\ (e = "ALARM" => a = "ALARM")
  BY DEF DpType
<1>2. Reported(d, e) = x
  BY DEF Reported, DpType
<1> HIDE DEF a
<1>3. x \in DpType /\ x.error = e /\ x.alarm = a /\ x.active = d.active /\ x.auto = d.auto
  BY <1>1 DEF DpType
<1> QED
  BY <1>1, <1>2, <1>3 DEF Shown

LEMMA ActivatedFits ==
  ASSUME NEW d \in DpType, Shown(d), NEW a \in BOOLEAN
  PROVE  LET x == Activated(d, a)
         IN  x \in DpType /\ Shown(x) /\ x.error = d.error
<1>1. CASE a /\ ~d.active
  <2> DEFINE w == [d EXCEPT !.active = a]
  <2>1. a = TRUE
    BY <1>1, Zenon
  <2>2. Activated(d, a) = Reported(w, d.error)
    BY <1>1, <2>1, Zenon DEF Activated
  <2>3. w \in DpType /\ d.error \in State
    BY DEF DpType
  <2> HIDE DEF w
  <2> QED
    BY <2>2, <2>3, ReportedFits
<1>2. CASE ~(a /\ ~d.active)
  <2>1. Activated(d, a) = [d EXCEPT !.active = a]
    BY <1>2 DEF Activated
  <2>2. /\ [d EXCEPT !.active = a] \in DpType /\ [d EXCEPT !.active = a].error = d.error
        /\ [d EXCEPT !.active = a].alarm = d.alarm /\ [d EXCEPT !.active = a].active = a
    BY DEF DpType
  <2> QED
    BY <1>2, <2>1, <2>2 DEF Shown
<1> QED
  BY <1>1, <1>2

LEMMA ConfiguredFits ==
  ASSUME NEW d \in DpType, Shown(d), NEW a \in BOOLEAN
  PROVE  LET x == Configured(d, a)
         IN  x \in DpType /\ Shown(x) /\ x.error = d.error /\ x.active = d.active
<1> DEFINE e == IF a THEN ErrorPresent(d) ELSE d.alarm
           x == [d EXCEPT !.auto = a, !.alarm = e]
<1>1. e \in State /\ (d.active /\ d.error = "ALARM" => e = "ALARM")
  BY DEF DpType, ErrorPresent, Shown, State
<1>2. Configured(d, a) = x
  BY DEF Configured, DpType
<1> HIDE DEF e
<1>3. x \in DpType /\ x.error = d.error /\ x.active = d.active /\ x.alarm = e
  BY <1>1 DEF DpType
<1> QED
  BY <1>1, <1>2, <1>3 DEF Shown

(* AlarmPresent of a data point without error is taken back.                *)
LEMMA TakenBackFits ==
  ASSUME NEW d \in DpType, ErrorPresent(d) = "READY"
  PROVE  LET x == [d EXCEPT !.alarm = "READY"]
         IN  x \in DpType /\ Shown(x) /\ ErrorPresent(x) = ErrorPresent(d)
<1> DEFINE x == [d EXCEPT !.alarm = "READY"]
<1>1. x \in DpType /\ x.error = d.error /\ x.active = d.active
  BY DEF DpType, State
<1> QED
  BY <1>1 DEF Shown, ErrorPresent

-----------------------------------------------------------------------------
(* The relays.                                                              *)
LEMMA CheckedFits ==
  ASSUME NEW r \in Relay, NEW y \in RelayType, NEW d
  PROVE  LET x == Checked(r, y, d)
         IN  /\ x \in RelayType /\ x.auto = y.auto
             /\ x.list # {} => x.out
             /\ \A s \in y.list : ~y.reset /\ Stays(r, s, d[s]) => s \in x.list
             /\ x.auto /\ x.out => \E s \in Source : Stays(r, s, d[s])
             /\ ~y.auto /\ ~y.reset /\ (y.manual \/ x.out) => x.manual /\ x.out
<1> DEFINE kept == IF y.auto THEN {s \in y.list : Stays(r, s, d[s])} ELSE y.list
           list == IF y.reset THEN {} ELSE kept
           manual == ~y.auto /\ ~y.reset /\ (y.manual \/ kept # {})
           out == (list # {} \/ manual)
           x == Checked(r, y, d)
<1>1. list \in SUBSET Source /\ manual \in BOOLEAN /\ out \in BOOLEAN
  BY DEF RelayType
<1>2. PICK m \in BOOLEAN, o \in BOOLEAN, n \in BOOLEAN : m = manual /\ o = out /\ n = FALSE
  BY <1>1, Zenon
<1>3. x = [y EXCEPT !.list = list, !.manual = m, !.reset = n, !.out = o]
  BY <1>2, Zenon DEF Checked
<1>4. (m <=> manual) /\ (o <=> out)
  BY <1>2, Zenon
<1> HIDE DEF x, list, manual, out
<1>5. x \in RelayType /\ x.auto = y.auto /\ x.list = list /\ x.manual = m /\ x.out = o
  BY <1>1, <1>3 DEF RelayType
<1>6. /\ x.list # {} => x.out
      /\ \A s \in y.list : ~y.reset /\ Stays(r, s, d[s]) => s \in x.list
      /\ ~y.auto /\ ~y.reset /\ (y.manual \/ x.out) => x.manual /\ x.out
  BY <1>4, <1>5 DEF list, manual, out
<1>7. ASSUME x.auto, x.out
      PROVE  \E s \in Source : Stays(r, s, d[s])
  <2>1. y.auto /\ list # {}
    BY <1>4, <1>5, <1>7 DEF manual, out
  <2>2. PICK s \in list : Stays(r, s, d[s])
    BY <2>1 DEF list
  <2> QED
    BY <1>1, <2>2
<1> QED
  BY <1>5, <1>6, <1>7 DEF x

(* An alarm keeps its relays on, and is put on their lists when it is new.  *)
LEMMA AlarmStays ==
  ASSUME NEW r \in Relay, NEW s \in Concerns(r), NEW d \in DpType, Shown(d), ErrorPresent(d) = "ALARM"
  PROVE  Stays(r, s, d) /\ r \in Activates(s, d)
<1>1. AlarmPresent(d) = "ALARM"
  BY DEF ErrorPresent, AlarmPresent, Shown
<1>2. r \in {"CUSTOM", "HIGH_LEVEL", "CRITICAL", "ALL_ALARMS", "ALL_ALARMS_AND_WARNINGS"}
  BY AlarmControlAssumption
<1> QED
  BY <1>1, <1>2 DEF Concerns, Stays, Activates

-----------------------------------------------------------------------------
(* The run.                                                                 *)
LEMMA RunRelayInv ==
  ASSUME RelayInv, RunSubTask
  PROVE  RelayInv'
<1> DEFINE d1 == [s \in Source |-> IF "mode" \in marks /\ s \in PumpSource
                                   THEN Activated(dp[s], enabled) ELSE dp[s]]
           toggled == {s \in Source : d1[s].active # dp[s].active}
           due == (marks \cap Source) \cup toggled
           news == due \cap Differing(d1)
           past == {s \in (due \ news) \cap changed : ErrorPresent(d1[s]) = "READY"}
           d2 == [s \in Source |-> IF s \in past THEN [d1[s] EXCEPT !.alarm = "READY"] ELSE d1[s]]
           d3 == [s \in Source |-> IF "reset" \in marks /\ ErrorPresent(d2[s]) = "READY"
                                   THEN [d2[s] EXCEPT !.alarm = "READY"] ELSE d2[s]]
           again == {s \in Source : d3[s].alarm # d1[s].alarm}
           added(r) == {s \in news : r \in Activates(s, d1[s])}
           y(r) == [relay[r] EXCEPT !.list = @ \cup added(r)]
<1>1. /\ dp' = d3
      /\ vector' = [s \in Source |-> IF s \in due THEN ErrorPresent(d1[s]) ELSE vector[s]]
      /\ marks' = again
      /\ requested' = (again \cup toggled # {})
      /\ relay' = [r \in Relay |-> Checked(r, y(r), d3)]
      /\ silenced' = [r \in Relay |->
                        {s \in IF relay[r].reset THEN Source ELSE silenced[r] \ added(r) :
                           Stays(r, s, d3[s])}]
      /\ held' = {r \in Relay : /\ ~relay[r].auto /\ ~relay[r].reset
                                /\ r \in held \/ relay'[r].out}
      /\ unnotified' = unnotified /\ enabled' = enabled
  BY DEF RunSubTask
<1>2. ASSUME NEW s \in Source
      PROVE  /\ d1[s] \in DpType /\ Shown(d1[s])
             /\ s \notin due => ErrorPresent(d1[s]) = ErrorPresent(dp[s])
  <2>1. /\ dp[s] \in DpType /\ Shown(dp[s]) /\ enabled \in BOOLEAN
        /\ d1[s] = IF "mode" \in marks /\ s \in PumpSource THEN Activated(dp[s], enabled) ELSE dp[s]
    BY DEF RelayInv, Types
  <2> HIDE DEF d1
  <2>2. d1[s] \in DpType /\ Shown(d1[s]) /\ d1[s].error = dp[s].error
    BY <2>1, ActivatedFits
  <2> QED
    BY <2>2 DEF ErrorPresent
<1> HIDE DEF d1
<1>3. ASSUME NEW s \in Source
      PROVE  d3[s] \in DpType /\ Shown(d3[s]) /\ ErrorPresent(d3[s]) = ErrorPresent(d1[s])
  <2>1. d2[s] \in DpType /\ Shown(d2[s]) /\ ErrorPresent(d2[s]) = ErrorPresent(d1[s])
    <3>1. CASE s \in past
      <4>1. d2[s] = [d1[s] EXCEPT !.alarm = "READY"] /\ ErrorPresent(d1[s]) = "READY"
        BY <3>1
      <4> QED
        BY <1>2, <4>1, TakenBackFits
    <3>2. CASE s \notin past
      BY <1>2, <3>2
    <3> QED
      BY <3>1, <3>2
  <2> HIDE DEF d2
  <2>2. CASE "reset" \in marks /\ ErrorPresent(d2[s]) = "READY"
    <3>1. d3[s] = [d2[s] EXCEPT !.alarm = "READY"]
      BY <2>2
    <3> QED
      BY <2>1, <2>2, <3>1, TakenBackFits
  <2>3. CASE ~("reset" \in marks /\ ErrorPresent(d2[s]) = "READY")
    BY <2>1, <2>3
  <2> QED
    BY <2>2, <2>3
<1>4. d3 \in [Source -> DpType]
  BY <1>3
<1> HIDE DEF d3, toggled, again
<1>5. /\ toggled \subseteq Source /\ again \subseteq Source /\ due \subseteq Source /\ news \subseteq Source
  BY DEF toggled, again
<1>6. \A s \in Source : s \notin due => s \notin marks
  OBVIOUS
<1> HIDE DEF due
<1>7. \A s \in due : s \in news <=> ErrorPresent(d1[s]) # vector[s]
  BY <1>5 DEF Differing
<1> HIDE DEF news, added
<1>8. ASSUME NEW r \in Relay
      PROVE  y(r) \in RelayType /\ y(r).list = relay[r].list \cup added(r) /\ y(r).auto = relay[r].auto
             /\ y(r).reset = relay[r].reset /\ y(r).manual = relay[r].manual
  <2>1. relay[r] \in RelayType /\ added(r) \subseteq Source
    BY <1>5 DEF RelayInv, Types, added
  <2> QED
    BY <2>1 DEF RelayType
<1> HIDE DEF y
<1>9. ASSUME NEW r \in Relay
      PROVE  LET x == relay'[r]
             IN  /\ x \in RelayType /\ x.auto = relay[r].auto
                 /\ x.list # {} => x.out
                 /\ \A s \in relay[r].list \cup added(r) :
                      ~relay[r].reset /\ Stays(r, s, d3[s]) => s \in x.list
                 /\ x.auto /\ x.out => \E s \in Source : Stays(r, s, d3[s])
                 /\ ~x.auto /\ ~relay[r].reset /\ (relay[r].manual \/ x.out) => x.manual /\ x.out
  <2>1. relay'[r] = Checked(r, y(r), d3)
    BY <1>1
  <2> QED
    BY <1>8, <2>1, CheckedFits
<1>10. Types'
  <2>1. vector' \in [Source -> State]
    <3>1. \A s \in Source : ErrorPresent(d1[s]) \in State
      BY <1>2 DEF ErrorPresent, DpType, State
    <3> QED
      BY <1>1, <3>1 DEF RelayInv, Types
  <2>2. relay' \in [Relay -> RelayType]
    <3>1. relay' = [r \in Relay |-> relay'[r]]
      BY <1>1
    <3> QED
      BY <1>9, <3>1
  <2>3. silenced' \in [Relay -> SUBSET Source]
    BY <1>1 DEF RelayInv, Types
  <2>4. held' \in SUBSET Relay /\ requested' \in BOOLEAN /\ dp' \in [Source -> DpType]
    BY <1>1, <1>4
  <2> QED
    BY <1>1, <1>5, <2>1, <2>2, <2>3, <2>4 DEF RelayInv, Types
<1>11. \A s \in Source : Shown(dp'[s])
  BY <1>1, <1>3
<1>12. MarkInv'
  <2>1. marks' # {} => requested'
    <3>1. requested' <=> again \cup toggled # {}
      BY <1>1, Zenon
    <3> QED
      BY <1>1, <3>1
  <2>2. ASSUME NEW s \in Source, ErrorPresent(dp'[s]) # vector'[s]
        PROVE  s \in unnotified'
    <3>1. s \notin due
      BY <1>1, <1>3, <2>2
    <3> QED
      BY <1>1, <1>2, <1>3, <1>6, <2>2, <3>1 DEF RelayInv, MarkInv
  <2> QED
    BY <2>1, <2>2 DEF MarkInv
<1>13. ListInv'
  <2>1. SUFFICES ASSUME NEW r \in Relay, NEW s \in Concerns(r) \ Outside, vector'[s] = "ALARM",
                        s \notin silenced'[r]
                 PROVE  s \in relay'[r].list
    BY <1>9 DEF ListInv
  <2>2. s \in Source
    BY AlarmControlAssumption DEF Concerns
  <2>3. ErrorPresent(d1[s]) = "ALARM"
    <3>1. CASE s \in due
      BY <1>1, <2>1, <2>2, <3>1
    <3>2. CASE s \notin due
      <4>1. vector[s] = "ALARM" /\ ErrorPresent(d1[s]) = ErrorPresent(dp[s]) /\ s \notin marks
        BY <1>1, <1>2, <1>6, <2>1, <2>2, <3>2
      <4> QED
        BY <2>1, <2>2, <4>1 DEF RelayInv, MarkInv, Types
    <3> QED
      BY <3>1, <3>2
  <2>4. Stays(r, s, d3[s]) /\ r \in Activates(s, d1[s])
    BY <1>2, <1>3, <2>1, <2>2, <2>3, AlarmStays
  <2>5. ~relay[r].reset /\ s \notin silenced[r] \ added(r)
    BY <1>1, <2>1, <2>2, <2>4
  <2>6. s \in relay[r].list \cup added(r)
    <3>1. CASE s \in news
      BY <2>4, <3>1 DEF added
    <3>2. CASE s \notin news
      <4>1. vector[s] = "ALARM"
        BY <1>1, <1>7, <2>1, <2>2, <2>3, <3>2
      <4> QED
        BY <2>1, <2>5, <4>1 DEF RelayInv, ListInv
    <3> QED
      BY <3>1, <3>2
  <2> QED
    BY <1>9, <2>4, <2>5, <2>6
<1>14. HeldInv'
  <2>1. SUFFICES ASSUME NEW r \in held'
                 PROVE  relay'[r].manual /\ relay'[r].out
    BY DEF HeldInv
  <2>2. r \in Relay /\ ~relay[r].auto /\ ~relay[r].reset /\ (r \in held \/ relay'[r].out)
    BY <1>1, <2>1
  <2>3. relay[r].manual \/ relay'[r].out
    BY <2>2 DEF RelayInv, HeldInv
  <2> QED
    BY <1>9, <2>2, <2>3
<1>15. RelayOffWithout'
  BY <1>1, <1>9 DEF RelayOffWithout
<1> QED
  BY <1>10, <1>11, <1>12, <1>13, <1>14, <1>15 DEF RelayInv

-----------------------------------------------------------------------------
(* Everything else.                                                         *)
LEMMA FreshFits ==
  ASSUME NEW a \in BOOLEAN
  PROVE  Fresh(a) \in DpType /\ Shown(Fresh(a)) /\ ErrorPresent(Fresh(a)) = "READY"
<1>1. PICK t \in BOOLEAN : t = TRUE
  OBVIOUS
<1> DEFINE x == [error |-> "READY", alarm |-> "READY", active |-> t, auto |-> a]
<1>2. Fresh(a) = x
  BY <1>1, Zenon DEF Fresh
<1>3. x \in DpType /\ Shown(x) /\ ErrorPresent(x) = "READY"
  BY DEF DpType, State, Shown, ErrorPresent
<1> QED
  BY <1>2, <1>3

LEMMA InitRelayInv == Init => RelayInv
<1> SUFFICES ASSUME Init PROVE RelayInv
  OBVIOUS
<1>1. \A s \in Source : dp[s] \in DpType /\ Shown(dp[s]) /\ ErrorPresent(dp[s]) = "READY"
  <2>1. \A s \in Source : \E a \in BOOLEAN : dp[s] = Fresh(a)
    <3>1. TRUE \in BOOLEAN /\ FALSE \in BOOLEAN
      OBVIOUS
    <3>2. \A s \in Source : dp[s] = Fresh(TRUE) \/ dp[s] = Fresh(FALSE)
      BY DEF Init
    <3> QED
      BY <3>1, <3>2, Zenon
  <2> QED
    BY <2>1, FreshFits
<1>2. /\ dp \in [Source -> DpType]
  <2>1. dp = [s \in Source |-> dp[s]]
    BY DEF Init
  <2> QED
    BY <1>1, <2>1
<1>3. /\ relay \in [Relay -> RelayType] /\ \A r \in Relay : relay[r].list = {}
  <2> DEFINE R == [list : {{}}, auto : BOOLEAN, manual : {FALSE}, reset : {FALSE}, out : {FALSE}]
  <2>1. \A y \in R : y \in RelayType /\ y.list = {}
    BY DEF RelayType
  <2>2. relay \in [Relay -> R]
    BY DEF Init
  <2> HIDE DEF R
  <2> QED
    BY <2>1, <2>2
<1>4. /\ vector = [s \in Source |-> "READY"] /\ marks = {"mode"} /\ enabled \in BOOLEAN
      /\ requested = TRUE /\ unnotified = {} /\ held = {} /\ silenced = [r \in Relay |-> {}]
  BY DEF Init
<1>5. Types
  BY <1>2, <1>3, <1>4 DEF Types, State
<1>6. MarkInv /\ ListInv /\ HeldInv
  <2>1. \A r \in Relay : Concerns(r) \subseteq Source
    BY AlarmControlAssumption DEF Concerns
  <2> QED
    BY <1>1, <1>3, <1>4, <2>1 DEF MarkInv, ListInv, HeldInv
<1>7. RelayOffWithout
  BY <1>4 DEF RelayOffWithout, AtRest
<1> QED
  BY <1>1, <1>5, <1>6, <1>7 DEF RelayInv

LEMMA RestartRelayInv ==
  ASSUME RelayInv, Restart
  PROVE  RelayInv'
<1>1. \A s \in Source : dp'[s] \in DpType /\ Shown(dp'[s]) /\ ErrorPresent(dp'[s]) = "READY"
  <2>1. \A s \in Source : dp[s].auto \in BOOLEAN /\ dp'[s] = Fresh(dp[s].auto)
    BY DEF RelayInv, Types, DpType, Restart
  <2> QED
    BY <2>1, FreshFits
<1>2. dp' \in [Source -> DpType]
  <2>1. dp' = [s \in Source |-> dp'[s]]
    BY DEF Restart
  <2> QED
    BY <1>1, <2>1
<1>3. /\ relay' \in [Relay -> RelayType]
      /\ \A r \in Relay : relay'[r].list = {} /\ relay'[r].manual = relay[r].manual
  <2>1. \A x \in RelayType : LET z == [x EXCEPT !.list = {}, !.reset = FALSE, !.out = FALSE]
                             IN  z \in RelayType /\ z.list = {} /\ z.manual = x.manual
    BY DEF RelayType
  <2>2. relay' = [r \in Relay |-> [relay[r] EXCEPT !.list = {}, !.reset = FALSE, !.out = FALSE]]
    BY DEF Restart
  <2>3. relay \in [Relay -> RelayType]
    BY DEF RelayInv, Types
  <2>4. \A r \in Relay : relay'[r] \in RelayType /\ relay'[r].list = {}
                         /\ relay'[r].manual = relay[r].manual
    BY <2>1, <2>2, <2>3
  <2>5. relay' = [r \in Relay |-> relay'[r]]
    BY <2>2
  <2> QED
    BY <2>4, <2>5
<1>4. /\ vector' = [s \in Source |-> "READY"] /\ marks' = {"mode"} /\ enabled' = enabled
      /\ requested' = TRUE /\ unnotified' = {} /\ held' = held /\ silenced' = [r \in Relay |-> {}]
  BY DEF Restart
<1>5. Types'
  BY <1>2, <1>3, <1>4 DEF RelayInv, Types, State
<1>6. MarkInv' /\ ListInv' /\ HeldInv'
  <2>1. \A r \in Relay : Concerns(r) \subseteq Source
    BY AlarmControlAssumption DEF Concerns
  <2>2. \A r \in held : r \in Relay
    BY DEF RelayInv, Types
  <2> QED
    BY <1>1, <1>3, <1>4, <2>1, <2>2 DEF MarkInv, ListInv, HeldInv, RelayInv
<1>7. RelayOffWithout'
  BY <1>4 DEF RelayOffWithout, AtRest
<1> QED
  BY <1>1, <1>5, <1>6, <1>7 DEF RelayInv

(* A data point changes, is notified, or is asked about.                    *)
LEMMA NotifyRelayInv ==
  ASSUME RelayInv, dp' \in [Source -> DpType], \A s \in Source : Shown(dp'[s]),
         unnotified' \in SUBSET Outside, marks' \in SUBSET (Source \cup {"mode", "reset", "clear"}),
         marks \cup unnotified \subseteq marks' \cup unnotified',
         \A s \in Source : ErrorPresent(dp'[s]) # ErrorPresent(dp[s]) => s \in marks' \cup unnotified',
         requested' = TRUE \/ (requested' = requested /\ marks' = marks /\ unnotified' # {}),
         enabled' \in BOOLEAN, UNCHANGED <<vector, relay, silenced, held>>
  PROVE  RelayInv'
<1>1. Types'
  BY DEF RelayInv, Types
<1>2. MarkInv' /\ ListInv'
  BY DEF RelayInv, MarkInv, ListInv
<1>3. HeldInv'
  BY DEF RelayInv, HeldInv
<1>4. RelayOffWithout'
  BY DEF RelayOffWithout, AtRest
<1> QED
  BY <1>1, <1>2, <1>3, <1>4 DEF RelayInv

LEMMA ErrorRelayInv ==
  ASSUME RelayInv, NEW s \in Source, NEW e \in State, SetErrorPresent(s, e)
  PROVE  RelayInv'
<1>1. Reported(dp[s], e) \in DpType /\ Shown(Reported(dp[s], e))
  BY ReportedFits DEF RelayInv, Types
<1>2. dp' = [dp EXCEPT ![s] = Reported(dp[s], e)]
  BY DEF SetErrorPresent
<1>3. /\ dp' \in [Source -> DpType] /\ \A o \in Source : Shown(dp'[o])
      /\ \A o \in Source : ErrorPresent(dp'[o]) # ErrorPresent(dp[o]) => o = s
  BY <1>1, <1>2 DEF RelayInv, Types
<1>4. CASE s \in Outside
  <2>1. unnotified' = unnotified \cup {s} /\ marks' = marks /\ requested' = requested
    BY <1>4 DEF SetErrorPresent
  <2> QED
    BY <1>3, <1>4, <2>1, NotifyRelayInv DEF SetErrorPresent, RelayInv, Types
<1>5. CASE s \notin Outside
  <2>1. unnotified' = unnotified /\ marks' = marks \cup {s} /\ requested' = TRUE
    BY <1>5 DEF SetErrorPresent, Notified
  <2> QED
    BY <1>3, <2>1, NotifyRelayInv DEF SetErrorPresent, RelayInv, Types
<1> QED
  BY <1>4, <1>5

LEMMA AutoRelayInv ==
  ASSUME RelayInv, NEW s \in Source, NEW a \in BOOLEAN, SetAutoAcknowledge(s, a)
  PROVE  RelayInv'
<1> DEFINE x == Configured(dp[s], a)
<1>1. x \in DpType /\ Shown(x) /\ x.error = dp[s].error /\ x.active = dp[s].active
  BY ConfiguredFits DEF RelayInv, Types
<1>2. dp' = [dp EXCEPT ![s] = x]
  BY DEF SetAutoAcknowledge
<1> HIDE DEF x
<1>3. /\ dp' \in [Source -> DpType] /\ \A o \in Source : Shown(dp'[o])
      /\ \A o \in Source : ErrorPresent(dp'[o]) = ErrorPresent(dp[o])
  BY <1>1, <1>2 DEF RelayInv, Types, ErrorPresent
<1>4. unnotified' = unnotified /\ marks' = marks \cup {s} /\ requested' = TRUE
  BY DEF SetAutoAcknowledge, Notified
<1>5. UNCHANGED <<vector, enabled, relay, silenced, held>>
  BY DEF SetAutoAcknowledge, history
<1> QED
  BY <1>3, <1>4, <1>5, NotifyRelayInv DEF RelayInv, Types

LEMMA CommandRelayInv ==
  ASSUME RelayInv,
         \/ SetPumpOprMode \/ ResetAlarms \/ ResetDelayTimeOut \/ ClearAlarmLog
         \/ \E s \in Source : NotifyObservers(s)
  PROVE  RelayInv'
<1>1. /\ dp' = dp /\ requested' = TRUE /\ enabled' \in BOOLEAN
      /\ vector' = vector /\ relay' = relay /\ silenced' = silenced /\ held' = held
  BY DEF RelayInv, Types, SetPumpOprMode, ResetAlarms, ResetDelayTimeOut, ClearAlarmLog, NotifyObservers,
     Notified, history
<1>2. /\ unnotified' \in SUBSET Outside /\ marks' \in SUBSET (Source \cup {"mode", "reset", "clear"})
      /\ marks \cup unnotified \subseteq marks' \cup unnotified'
  BY DEF RelayInv, Types, SetPumpOprMode, ResetAlarms, ResetDelayTimeOut, ClearAlarmLog, NotifyObservers,
     Notified
<1>3. dp' \in [Source -> DpType] /\ \A s \in Source : Shown(dp'[s])
  BY <1>1 DEF RelayInv, Types
<1>4. \A s \in Source : ErrorPresent(dp'[s]) = ErrorPresent(dp[s])
  BY <1>1
<1> QED
  BY <1>1, <1>2, <1>3, <1>4, NotifyRelayInv

LEMMA RelayCommandRelayInv ==
  ASSUME RelayInv, NEW r \in Relay, ResetRelay(r) \/ SetRelayAck(r)
  PROVE  RelayInv'
<1>1. \E b \in BOOLEAN : relay' = [relay EXCEPT ![r].reset = b] \/ relay' = [relay EXCEPT ![r].auto = b]
  <2>1. CASE ResetRelay(r)
    <3>1. relay' = [relay EXCEPT ![r].reset = TRUE] /\ TRUE \in BOOLEAN
      BY <2>1, Zenon DEF ResetRelay
    <3> QED
      BY <3>1, Zenon
  <2>2. CASE SetRelayAck(r)
    <3>1. relay' = [relay EXCEPT ![r].auto = ~relay[r].auto]
      BY <2>2, Zenon DEF SetRelayAck
    <3>2. (~relay[r].auto) \in BOOLEAN
      OBVIOUS
    <3> QED
      BY <3>1, <3>2, Zenon
  <2> QED
    BY <2>1, <2>2
<1>2. relay \in [Relay -> RelayType]
  BY DEF RelayInv, Types
<1>3. /\ relay' \in [Relay -> RelayType]
      /\ \A q \in Relay : /\ relay'[q].list = relay[q].list /\ relay'[q].out = relay[q].out
                          /\ relay'[q].manual = relay[q].manual
  BY <1>1, <1>2 DEF RelayType
<1>4. /\ requested' = TRUE /\ dp' = dp /\ unnotified' = unnotified /\ vector' = vector
      /\ marks' = marks /\ enabled' = enabled /\ silenced' = silenced /\ held' = held
  BY DEF ResetRelay, SetRelayAck, history
<1>5. Types'
  BY <1>3, <1>4 DEF RelayInv, Types
<1>6. MarkInv' /\ ListInv' /\ HeldInv'
  BY <1>3, <1>4 DEF RelayInv, Types, MarkInv, ListInv, HeldInv
<1>7. RelayOffWithout'
  BY <1>4 DEF RelayOffWithout, AtRest
<1> QED
  BY <1>4, <1>5, <1>6, <1>7 DEF RelayInv

LEMMA NextRelayInv == RelayInv /\ [Next]_vars => RelayInv'
<1>1. RelayInv /\ UNCHANGED vars => RelayInv'
  BY DEF RelayInv, Types, MarkInv, ListInv, HeldInv, RelayOffWithout, AtRest, vars, history
<1> QED
  BY <1>1, RunRelayInv, RestartRelayInv, ErrorRelayInv, AutoRelayInv, CommandRelayInv, RelayCommandRelayInv
     DEF Next
-----------------------------------------------------------------------------
(* Induction over an interval, for a set: the least interval 0 .. i with i  *)
(* outside the set is minimal among the subsets of 0 .. n.                  *)
LEMMA IntervalInduction ==
  ASSUME NEW n \in Nat, NEW X, 0 \in X, \A i \in 0 .. n - 1 : i \in X => i + 1 \in X
  PROVE  \A i \in 0 .. n : i \in X
<1> DEFINE N == 0 .. n
           R == StrictSubsetOrdering(N)
           T == {I \in SUBSET N : \E i \in N : i \notin X /\ I = 0 .. i}
<1> SUFFICES ASSUME NEW k \in N, k \notin X PROVE FALSE
  OBVIOUS
<1>1. IsFiniteSet(N)
  BY FS_Interval
<1>2. IsWellFoundedOn(R, SUBSET N)
  BY <1>1, FS_StrictSubsetOrderingWellFounded, FS_FiniteSubsetsOfFinite
<1>3. 0 .. k \in T
  OBVIOUS
<1>4. PICK I \in T : \A J \in T : ~(<<J, I>> \in R)
  <2> HIDE DEF R, T
  <2>1. T \subseteq SUBSET N
    BY DEF T
  <2> QED
    BY <1>2, <1>3, <2>1, WFMin
<1>5. PICK i \in N : i \notin X /\ I = 0 .. i
  BY <1>4
<1>6. i # 0 /\ i - 1 \in 0 .. n - 1 /\ (i - 1) + 1 = i
  BY <1>5
<1>7. i - 1 \in N /\ i - 1 \notin X
  BY <1>5, <1>6
<1>8. 0 .. (i - 1) \in SUBSET N /\ 0 .. (i - 1) \in T
  BY <1>7
<1>9. <<0 .. (i - 1), I>> \in R
  <2>1. 0 .. (i - 1) \subseteq I /\ 0 .. (i - 1) # I /\ I \in SUBSET N
    BY <1>5, <1>6
  <2> QED
    BY <1>8, <2>1 DEF StrictSubsetOrdering
<1> QED
  BY <1>4, <1>8, <1>9

(* A recursive function over 0 .. n that adds one place at a time exists.   *)
Steps(n, S, step) == \A i \in 1 .. n, x \in S : step[i][x] \in S
Recurs(f, n, S, base, step) ==
  f \in [0 .. n -> S] /\ f[0] = base /\ \A i \in 1 .. n : f[i] = step[i][f[i - 1]]

LEMMA Recursion ==
  ASSUME NEW n \in Nat, NEW S, NEW base \in S, NEW step, Steps(n, S, step)
  PROVE  \E f : Recurs(f, n, S, base, step)
<1> USE DEF Steps
<1> DEFINE Up(m, f) == f[0] = base /\ \A i \in 1 .. m : f[i] = step[i][f[i - 1]]
           X == {m \in 0 .. n : \E f \in [0 .. m -> S] : Up(m, f)}
<1>1. 0 \in X
  <2> DEFINE f == [i \in 0 .. 0 |-> base]
  <2>1. f \in [0 .. 0 -> S] /\ Up(0, f)
    OBVIOUS
  <2> HIDE DEF f
  <2> QED
    BY <2>1
<1>2. ASSUME NEW m \in 0 .. n - 1, m \in X
      PROVE  m + 1 \in X
  <2>1. PICK f \in [0 .. m -> S] : Up(m, f)
    BY <1>2
  <2> DEFINE g == [i \in 0 .. m + 1 |-> IF i = m + 1 THEN step[m + 1][f[m]] ELSE f[i]]
  <2>2. f[m] \in S /\ m + 1 \in 1 .. n
    OBVIOUS
  <2>3. g \in [0 .. m + 1 -> S]
    BY <2>2
  <2>4. \A i \in 0 .. m : g[i] = f[i]
    OBVIOUS
  <2>5. g[m + 1] = step[m + 1][f[m]]
    OBVIOUS
  <2> HIDE DEF g
  <2>6. Up(m + 1, g)
    <3>1. g[0] = base
      BY <2>1, <2>4
    <3>2. ASSUME NEW i \in 1 .. m + 1
          PROVE  g[i] = step[i][g[i - 1]]
      <4>1. i - 1 \in 0 .. m /\ g[i - 1] = f[i - 1]
        BY <2>4
      <4>2. CASE i = m + 1
        BY <2>5, <4>1, <4>2
      <4>3. CASE i # m + 1
        <5>1. i \in 1 .. m /\ i \in 0 .. m
          BY <4>3
        <5> QED
          BY <2>1, <2>4, <4>1, <5>1
      <4> QED
        BY <4>2, <4>3
    <3> QED
      BY <3>1, <3>2
  <2> QED
    BY <2>2, <2>3, <2>6
<1> HIDE DEF X
<1>3. n \in X
  <2>1. n \in 0 .. n
    OBVIOUS
  <2> QED
    BY <1>1, <1>2, <2>1, IntervalInduction
<1> QED
  BY <1>3 DEF X, Recurs

(* What stays in the log: the elements at the places K, each once.          *)
Keeps(r, l, E, K, Q) ==
  /\ r \in Seq(E) /\ Len(r) <= Len(l)
  /\ \A a \in 1 .. Len(r) : \E i \in K : r[a] = l[i]
  /\ \A i \in K : \E a \in 1 .. Len(r) : r[a] = l[i]
  /\ (\A i, k \in 1 .. Len(l) : l[i] \in Q /\ l[k] \in Q => i = k)
       => \A a, b \in 1 .. Len(r) : r[a] \in Q /\ r[b] \in Q => a = b

LEMMA KeptFits ==
  ASSUME NEW E, NEW l \in Seq(E), NEW K \in SUBSET (1 .. Len(l)), NEW Q
  PROVE  Keeps(Kept(l, K), l, E, K, Q)
<1> USE DEF Keeps
<1> DEFINE n == Len(l)
           More(y, i) == IF i \in K THEN Append(y, l[i]) ELSE y
           Is(f) == f = [i \in 0 .. n |->
                           IF i = 0 THEN <<>> ELSE IF i \in K THEN Append(f[i - 1], l[i]) ELSE f[i - 1]]
           kept == CHOOSE f : Is(f)
           Once == \A i, k \in 1 .. n : l[i] \in Q /\ l[k] \in Q => i = k
           Fits(y, i) ==
             /\ y \in Seq(E) /\ Len(y) <= i
             /\ \A a \in 1 .. Len(y) : \E j \in K : j <= i /\ y[a] = l[j]
             /\ \A j \in K : j <= i => \E a \in 1 .. Len(y) : y[a] = l[j]
             /\ Once => \A a, b \in 1 .. Len(y) : y[a] \in Q /\ y[b] \in Q => a = b
<1>1. n \in Nat /\ \A i \in 1 .. n : l[i] \in E
  OBVIOUS
<1>2. \E f : Is(f)
  <2> DEFINE S == Seq(E)
             step == [i \in 1 .. n |-> [y \in S |-> More(y, i)]]
  <2>1. /\ <<>> \in S /\ Steps(n, S, step)
        /\ \A i \in 1 .. n, y \in S : step[i][y] = More(y, i)
    BY <1>1 DEF Steps
  <2> HIDE DEF step, S, More, Is
  <2>2. PICK f : Recurs(f, n, S, <<>>, step)
    BY <1>1, <2>1, Recursion
  <2> USE DEF More, Is
  <2>3. ASSUME NEW i \in 1 .. n
        PROVE  f[i] = More(f[i - 1], i)
    <3>1. i - 1 \in 0 .. n
      BY <1>1
    <3> QED
      BY <2>1, <2>2, <3>1 DEF Recurs
  <2>4. Is(f)
    <3>1. \A i \in 0 .. n : i = 0 \/ i \in 1 .. n
      BY <1>1
    <3> QED
      BY <2>2, <2>3, <3>1 DEF Recurs
  <2> QED
    BY <2>4
<1>3. Is(kept)
  BY <1>2
<1>4. Kept(l, K) = kept[n]
  BY DEF Kept
<1> HIDE DEF kept
<1>5. kept[0] = <<>> /\ \A i \in 1 .. n : kept[i] = More(kept[i - 1], i)
  <2>1. 0 \in 0 .. n /\ \A i \in 1 .. n : i \in 0 .. n /\ i # 0
    BY <1>1
  <2> QED
    BY <1>3, <2>1
<1>6. Fits(kept[0], 0)
  BY <1>1, <1>5
<1>7. ASSUME NEW m \in 0 .. n - 1, Fits(kept[m], m)
      PROVE  Fits(kept[m + 1], m + 1)
  <2> DEFINE y == kept[m]
             z == kept[m + 1]
  <2>1. m + 1 \in 1 .. n /\ (m + 1) - 1 = m /\ m \in Nat
    BY <1>1
  <2>2. z = More(y, m + 1)
    BY <1>5, <2>1
  <2> SUFFICES Fits(z, m + 1)
    OBVIOUS
  <2> HIDE DEF z, y
  <2>3. Fits(y, m)
    BY <1>7 DEF y
  <2>4. \A j \in K : j \in Nat /\ (j <= m + 1 <=> j <= m \/ j = m + 1) /\ (j <= m => j # m + 1)
    BY <1>1, <2>1
  <2>5. CASE m + 1 \notin K
    <3>1. z = y
      BY <2>2, <2>5
    <3>2. \A j \in K : j <= m + 1 <=> j <= m
      BY <2>4, <2>5
    <3>3. Len(y) <= m + 1
      BY <2>1, <2>3
    <3> QED
      BY <2>3, <3>1, <3>2, <3>3
  <2>6. CASE m + 1 \in K
    <3>1. z = Append(y, l[m + 1]) /\ l[m + 1] \in E
      BY <1>1, <2>1, <2>2, <2>6
    <3>2. /\ z \in Seq(E) /\ Len(z) = Len(y) + 1 /\ Len(y) \in Nat
          /\ z[Len(y) + 1] = l[m + 1] /\ \A a \in 1 .. Len(y) : z[a] = y[a]
      BY <2>3, <3>1
    <3>3. /\ \A a \in 1 .. Len(z) : a \in 1 .. Len(y) \/ a = Len(y) + 1
          /\ \A a \in 1 .. Len(y) : a \in 1 .. Len(z)
          /\ Len(y) + 1 \in 1 .. Len(z)
      BY <3>2
    <3>4. Len(z) <= m + 1
      BY <2>1, <2>3, <3>2
    <3>5. \A a \in 1 .. Len(z) : \E j \in K : j <= m + 1 /\ z[a] = l[j]
      BY <2>1, <2>3, <2>4, <2>6, <3>2, <3>3
    <3>6. \A j \in K : j <= m + 1 => \E a \in 1 .. Len(z) : z[a] = l[j]
      BY <2>3, <2>4, <3>2, <3>3
    <3>7. ASSUME Once, NEW a \in 1 .. Len(z), NEW b \in 1 .. Len(z), z[a] \in Q, z[b] \in Q
          PROVE  a = b
      <4>1. ASSUME NEW c \in 1 .. Len(y), y[c] \in Q, l[m + 1] \in Q
            PROVE  FALSE
        <5>1. PICK j \in K : j <= m /\ y[c] = l[j]
          BY <2>3, <4>1
        <5>2. j \in 1 .. n /\ j # m + 1
          BY <2>4, <5>1
        <5> QED
          BY <2>1, <3>7, <4>1, <5>1, <5>2
      <4> QED
        BY <2>3, <3>2, <3>3, <3>7, <4>1
    <3> QED
      BY <3>2, <3>4, <3>5, <3>6, <3>7
  <2> QED
    BY <2>5, <2>6
<1> DEFINE X == {i \in 0 .. n : Fits(kept[i], i)}
<1>8. 0 \in X /\ \A i \in 0 .. n - 1 : i \in X => i + 1 \in X
  <2>1. \A i \in 0 .. n - 1 : i \in 0 .. n /\ i + 1 \in 0 .. n
    BY <1>1
  <2>2. 0 \in 0 .. n
    BY <1>1
  <2> HIDE DEF Fits
  <2> QED
    BY <1>6, <1>7, <2>1, <2>2
<1> HIDE DEF X
<1>9. n \in X
  <2>1. n \in 0 .. n
    BY <1>1
  <2> QED
    BY <1>1, <1>8, <2>1, IntervalInduction
<1>10. Fits(kept[n], n)
  BY <1>9 DEF X
<1> QED
  BY <1>4, <1>10

-----------------------------------------------------------------------------
(* The log.                                                                 *)
Element == [source : Source, type : {"WARNING", "ALARM"}, departed : BOOLEAN]

(* A log l for errors v that are known: no element is open without its      *)
(* error, none is there twice, and only the sources in missing may lack     *)
(* theirs.                                                                  *)
Open(x, v) == ~x.departed => v[x.source] = "ALARM" \/ (v[x.source] = "WARNING" /\ x.type = "WARNING")
IsFor(x, s, e) == x.source = s /\ x.type = e /\ ~x.departed
LogFits(l, missing, v) ==
  /\ l \in Seq(Element) /\ Len(l) <= LogSize
  /\ \A i \in 1 .. Len(l) : Open(l[i], v)
  /\ \A s \in Source, e \in {"WARNING", "ALARM"} : \A i, k \in 1 .. Len(l) :
       IsFor(l[i], s, e) /\ IsFor(l[k], s, e) => i = k
  /\ \A s \in Source \ missing : v[s] # "READY" => \E i \in 1 .. Len(l) : IsFor(l[i], s, v[s])

(* The oldest of the elements found is one of them.                         *)
LEMMA OldestFits ==
  ASSUME NEW n \in Nat, NEW found \in SUBSET (1 .. n)
  PROVE  Oldest(found) \in found \cup {0}
<1> DEFINE F == found \cup {0}
           Greatest(m) == \E x \in F : x <= m /\ \A y \in F : y <= m => y <= x
           X == {m \in 0 .. n : Greatest(m)}
<1>1. F \subseteq Nat /\ \A y \in F : y <= n
  OBVIOUS
<1> HIDE DEF F
<1>2. Greatest(0)
  <2>1. 0 \in F /\ \A y \in F : y <= 0 => y <= 0
    BY DEF F
  <2> QED
    BY <2>1
<1>3. ASSUME NEW m \in 0 .. n - 1, Greatest(m)
      PROVE  Greatest(m + 1)
  <2>1. CASE m + 1 \in F
    BY <1>1, <2>1
  <2>2. CASE m + 1 \notin F
    <3>1. PICK x \in F : x <= m /\ \A y \in F : y <= m => y <= x
      BY <1>3
    <3>2. x <= m + 1 /\ \A y \in F : y <= m + 1 => y <= m
      BY <1>1, <2>2, <3>1
    <3> QED
      BY <3>1, <3>2
  <2> QED
    BY <2>1, <2>2
<1>4. 0 \in X /\ \A i \in 0 .. n - 1 : i \in X => i + 1 \in X
  <2>1. 0 \in 0 .. n /\ \A i \in 0 .. n - 1 : i \in 0 .. n /\ i + 1 \in 0 .. n
    OBVIOUS
  <2> HIDE DEF Greatest
  <2> QED
    BY <1>2, <1>3, <2>1
<1> HIDE DEF X
<1>5. n \in X
  <2>1. n \in 0 .. n
    OBVIOUS
  <2> QED
    BY <1>4, <2>1, IntervalInduction
<1>6. \E x \in F : \A y \in F : x >= y
  <2>1. PICK x \in F : x <= n /\ \A y \in F : y <= n => y <= x
    BY <1>5 DEF X
  <2> QED
    BY <1>1, <2>1
<1>7. Max(F) \in F
  BY <1>6 DEF Max
<1> QED
  BY <1>7 DEF Oldest, F

LEMMA VictimFits ==
  ASSUME NEW l \in Seq(Element)
  PROVE  Victim(l) = 0 \/ Victim(l) \in 1 .. Len(l)
<1> DEFINE A == {i \in DOMAIN l : l[i].type = "ALARM"}
           D == {i \in DOMAIN l : l[i].departed}
<1>1. Len(l) \in Nat /\ A \in SUBSET (1 .. Len(l)) /\ D \in SUBSET (1 .. Len(l))
  OBVIOUS
<1>2. Victim(l) = IF Oldest(A) # 0 THEN Oldest(A) ELSE Oldest(D)
  BY DEF Victim
<1> HIDE DEF A, D
<1>3. Oldest(A) \in A \cup {0} /\ Oldest(D) \in D \cup {0}
  BY <1>1, OldestFits
<1> QED
  BY <1>1, <1>2, <1>3

(* A new element in front, with and without the loss of another one.        *)
LEMMA InFront ==
  ASSUME NEW l \in Seq(Element), NEW x \in Element
  PROVE  LET r == <<x>> \o l
         IN  /\ r \in Seq(Element) /\ Len(r) = Len(l) + 1 /\ r[1] = x
             /\ \A i \in 1 .. Len(l) : r[i + 1] = l[i]
OBVIOUS

LEMMA Without ==
  ASSUME NEW l \in Seq(Element), NEW v \in 1 .. Len(l)
  PROVE  LET r == RemoveAt(l, v)
         IN  /\ r \in Seq(Element) /\ Len(r) = Len(l) - 1
             /\ \A i \in 1 .. Len(r) : r[i] = l[IF i < v THEN i ELSE i + 1]
<1> DEFINE a == SubSeq(l, 1, v - 1)
           b == SubSeq(l, v + 1, Len(l))
           r == a \o b
<1>1. Len(l) \in Nat /\ v \in Nat /\ v <= Len(l) /\ v >= 1
  OBVIOUS
<1>2. a \in Seq(Element) /\ Len(a) = v - 1 /\ \A i \in 1 .. v - 1 : a[i] = l[i]
  BY <1>1
<1>3. b \in Seq(Element) /\ Len(b) = Len(l) - v /\ \A i \in 1 .. Len(l) - v : b[i] = l[i + v]
  BY <1>1
<1> HIDE DEF a, b
<1>4. /\ r \in Seq(Element) /\ Len(r) = Len(a) + Len(b)
      /\ \A i \in 1 .. Len(a) : r[i] = a[i]
      /\ \A i \in Len(a) + 1 .. Len(a) + Len(b) : r[i] = b[i - Len(a)]
  <2>1. a \in Seq(Element) /\ b \in Seq(Element)
    BY <1>2, <1>3
  <2> QED
    BY <2>1
<1> HIDE DEF r
<1>5. ASSUME NEW i \in 1 .. Len(r)
      PROVE  r[i] = l[IF i < v THEN i ELSE i + 1]
  <2>1. CASE i < v
    <3>1. i \in 1 .. v - 1
      BY <1>1, <1>5, <2>1
    <3> QED
      BY <1>2, <1>4, <2>1, <3>1
  <2>2. CASE ~(i < v)
    <3>1. /\ i \in Len(a) + 1 .. Len(a) + Len(b)
          /\ i - Len(a) \in 1 .. Len(l) - v /\ (i - Len(a)) + v = i + 1
      BY <1>1, <1>2, <1>3, <1>4, <1>5, <2>2
    <3>2. r[i] = b[i - Len(a)]
      BY <1>4, <3>1
    <3> QED
      BY <1>3, <2>2, <3>1, <3>2
  <2> QED
    BY <2>1, <2>2
<1>6. r = RemoveAt(l, v)
  BY DEF RemoveAt, r, a, b
<1>7. Len(r) = Len(l) - 1
  BY <1>1, <1>2, <1>3, <1>4
<1> QED
  BY <1>4, <1>5, <1>6, <1>7

(* An error departs, entirely or from alarm to warning.                     *)
LEMMA DepartedFits ==
  ASSUME NEW l, NEW missing \in SUBSET Source, NEW v \in [Source -> State],
         NEW s \in Source, NEW e \in State, LogFits(l, missing, v)
  PROVE  LET r == Departed(l, s, e)
         IN  /\ LogFits(r, missing \cup {s}, [v EXCEPT ![s] = e])
             /\ Len(r) = Len(l) /\ \A i \in 1 .. Len(r) : r[i].source = l[i].source
<1> DEFINE r == Departed(l, s, e)
           w == [v EXCEPT ![s] = e]
           Hit(x) == x.source = s /\ (e = "READY" \/ (e = "WARNING" /\ x.type = "ALARM"))
<1>1. l \in Seq(Element) /\ Len(l) \in Nat /\ \A i \in 1 .. Len(l) : l[i] \in Element
  BY DEF LogFits
<1>2. \A x \in Element : LET y == [x EXCEPT !.departed = TRUE]
                         IN  y \in Element /\ y.source = x.source /\ y.type = x.type /\ y.departed
  BY DEF Element
<1>3. r = [i \in 1 .. Len(l) |-> IF Hit(l[i]) THEN [l[i] EXCEPT !.departed = TRUE] ELSE l[i]]
  BY DEF Departed
<1> HIDE DEF r
<1>4. ASSUME NEW i \in 1 .. Len(l)
      PROVE  /\ r[i] \in Element /\ r[i].source = l[i].source /\ r[i].type = l[i].type
             /\ ~r[i].departed => ~l[i].departed /\ ~Hit(l[i])
             /\ ~Hit(l[i]) => r[i] = l[i]
  <2>1. r[i] = IF Hit(l[i]) THEN [l[i] EXCEPT !.departed = TRUE] ELSE l[i]
    BY <1>3
  <2> HIDE DEF Hit
  <2> QED
    BY <1>1, <1>2, <2>1
<1>5. r \in Seq(Element) /\ Len(r) = Len(l)
  BY <1>1, <1>3, <1>4
<1>6. w[s] = e /\ \A o \in Source : o # s => w[o] = v[o]
  OBVIOUS
<1> HIDE DEF w
<1>7. \A i \in 1 .. Len(r) : Open(r[i], w)
  <2> SUFFICES ASSUME NEW i \in 1 .. Len(r), ~r[i].departed
               PROVE  w[r[i].source] = "ALARM" \/ (w[r[i].source] = "WARNING" /\ r[i].type = "WARNING")
    BY DEF Open
  <2>1. Open(l[i], v) /\ ~l[i].departed /\ ~Hit(l[i]) /\ r[i] = l[i] /\ l[i] \in Element
    BY <1>1, <1>4, <1>5 DEF LogFits
  <2>2. l[i].source \in Source /\ l[i].type \in {"WARNING", "ALARM"}
    BY <2>1 DEF Element
  <2>3. CASE l[i].source = s
    BY <1>6, <2>1, <2>2, <2>3 DEF State
  <2>4. CASE l[i].source # s
    BY <1>6, <2>1, <2>2, <2>4 DEF Open
  <2> QED
    BY <2>3, <2>4
<1>8. ASSUME NEW o \in Source, NEW t \in {"WARNING", "ALARM"}, NEW i \in 1 .. Len(r), NEW k \in 1 .. Len(r),
             IsFor(r[i], o, t), IsFor(r[k], o, t)
      PROVE  i = k
  <2>1. IsFor(l[i], o, t) /\ IsFor(l[k], o, t)
    BY <1>4, <1>5, <1>8 DEF IsFor
  <2> QED
    BY <1>5, <2>1 DEF LogFits
<1>9. ASSUME NEW o \in Source \ (missing \cup {s}), w[o] # "READY"
      PROVE  \E i \in 1 .. Len(r) : IsFor(r[i], o, w[o])
  <2>1. w[o] = v[o]
    BY <1>6
  <2>2. PICK i \in 1 .. Len(l) : IsFor(l[i], o, v[o])
    BY <1>9, <2>1 DEF LogFits
  <2>3. r[i] = l[i]
    BY <1>4, <2>2 DEF IsFor
  <2> QED
    BY <1>5, <2>1, <2>2, <2>3
<1>10. Len(r) <= LogSize
  BY <1>5 DEF LogFits
<1>11. LogFits(r, missing \cup {s}, w)
  BY <1>5, <1>7, <1>8, <1>9, <1>10 DEF LogFits
<1> QED
  BY <1>4, <1>5, <1>11 DEF r, w

(* r is x in front of what stays of l: the element at i was at h[i], and    *)
(* only elements of s and of sources in dropped are gone.                   *)
Renews(r, h, x, l, s, dropped) ==
  /\ r \in Seq(Element) /\ Len(r) \in 1 .. LogSize /\ r[1] = x
  /\ h \in [2 .. Len(r) -> 1 .. Len(l)]
  /\ \A i \in 2 .. Len(r) : r[i] = l[h[i]]
  /\ \A i, k \in 2 .. Len(r) : h[i] = h[k] => i = k
  /\ \A i \in 1 .. Len(l) : l[i].source \in dropped \cup {s} \/ \E k \in 2 .. Len(r) : h[k] = i

LEMMA NewFits ==
  ASSUME NEW l, NEW missing \in SUBSET Source, NEW v \in [Source -> State], NEW s \in Source,
         LogFits(l, missing \cup {s}, v), v[s] # "READY",
         NEW x \in Element, IsFor(x, s, v[s]), \A i \in 1 .. Len(l) : ~IsFor(l[i], s, v[s]),
         NEW dropped \in SUBSET (Source \ {s}), NEW r, NEW h, Renews(r, h, x, l, s, dropped)
  PROVE  LogFits(r, (missing \ {s}) \cup dropped, v)
<1> USE DEF Renews
<1>1. \A i \in 1 .. Len(r) : i = 1 \/ i \in 2 .. Len(r)
  OBVIOUS
<1>2. 1 \in 1 .. Len(r) /\ \A i \in 2 .. Len(r) : i \in 1 .. Len(r)
  OBVIOUS
<1>3. v[s] \in {"WARNING", "ALARM"}
  BY DEF State
<1>4. Open(x, v)
  BY <1>3 DEF Open, IsFor
<1>5. \A i \in 1 .. Len(r) : Open(r[i], v)
  BY <1>1, <1>4 DEF LogFits
<1>6. ASSUME NEW o \in Source, NEW t \in {"WARNING", "ALARM"}, NEW i \in 1 .. Len(r), NEW k \in 1 .. Len(r),
             IsFor(r[i], o, t), IsFor(r[k], o, t)
      PROVE  i = k
  <2>1. CASE o = s /\ t = v[s]
    BY <1>1, <1>6, <2>1
  <2>2. CASE ~(o = s /\ t = v[s])
    <3>1. ~IsFor(x, o, t)
      BY <2>2 DEF IsFor
    <3>2. i \in 2 .. Len(r) /\ k \in 2 .. Len(r)
      BY <1>1, <1>6, <3>1
    <3>3. IsFor(l[h[i]], o, t) /\ IsFor(l[h[k]], o, t)
      BY <1>6, <3>2
    <3>4. h[i] \in 1 .. Len(l) /\ h[k] \in 1 .. Len(l)
      BY <3>2
    <3>5. h[i] = h[k]
      BY <3>3, <3>4 DEF LogFits
    <3> QED
      BY <3>2, <3>5
  <2> QED
    BY <2>1, <2>2
<1>7. ASSUME NEW o \in Source \ ((missing \ {s}) \cup dropped), v[o] # "READY"
      PROVE  \E i \in 1 .. Len(r) : IsFor(r[i], o, v[o])
  <2>1. CASE o = s
    BY <1>2, <2>1
  <2>2. CASE o # s
    <3>1. PICK i \in 1 .. Len(l) : IsFor(l[i], o, v[o])
      BY <1>7, <2>2 DEF LogFits
    <3>2. l[i].source = o
      BY <3>1 DEF IsFor
    <3>3. PICK k \in 2 .. Len(r) : h[k] = i
      BY <1>7, <2>2, <3>2
    <3> QED
      BY <1>2, <3>1, <3>3
  <2> QED
    BY <2>1, <2>2
<1> QED
  BY <1>5, <1>6, <1>7 DEF LogFits

(* PutAlarmLogElement: the element is there, or added, or takes the place   *)
(* of another one, or there is no place.                                    *)
Added(p, l, missing, v, s) ==
  /\ p.lost \in SUBSET Source /\ LogFits(p.log, (missing \ {s}) \cup p.lost, v)
  /\ \A i \in 1 .. Len(p.log) :
       p.log[i].source = s \/ \E k \in 1 .. Len(l) : p.log[i].source = l[k].source

LEMMA PutFits ==
  ASSUME NEW l, NEW missing \in SUBSET Source, NEW v \in [Source -> State], NEW s \in Source,
         LogFits(l, missing \cup {s}, v), v[s] # "READY"
  PROVE  Added(Put(l, s, v[s]), l, missing, v, s)
<1> USE DEF Added
<1> DEFINE e == v[s]
           new == [source |-> s, type |-> e, departed |-> FALSE]
           u == Victim(l)
           There == Present(l, s, e)
           p == Put(l, s, e)
           From(r) == \A i \in 1 .. Len(r) :
                        r[i].source = s \/ \E k \in 1 .. Len(l) : r[i].source = l[k].source
<1>1. /\ l \in Seq(Element) /\ Len(l) \in Nat /\ Len(l) <= LogSize /\ LogSize \in Nat \ {0}
      /\ \A i \in 1 .. Len(l) : l[i] \in Element
  BY AlarmControlAssumption DEF LogFits
<1>2. e \in {"WARNING", "ALARM"}
  BY DEF State
<1>3. new \in Element /\ IsFor(new, s, e) /\ new.source = s
  BY <1>2 DEF Element, IsFor
<1>4. There <=> \E i \in 1 .. Len(l) : IsFor(l[i], s, e)
  BY DEF Present, Active, IsFor
<1>5. p = IF There THEN [log |-> l, lost |-> {}]
          ELSE IF Len(l) < LogSize THEN [log |-> <<new>> \o l, lost |-> {}]
          ELSE IF u # 0 THEN [log |-> <<new>> \o RemoveAt(l, u), lost |-> {l[u].source} \ {s}]
          ELSE [log |-> l, lost |-> {s}]
  BY DEF Put
<1>6. u = 0 \/ u \in 1 .. Len(l)
  BY <1>1, VictimFits
<1> HIDE DEF e, new, u, There, p
<1>7. CASE There
  <2>1. p.log = l /\ p.lost = {}
    BY <1>5, <1>7
  <2>2. LogFits(l, missing \ {s}, v)
    <3>1. ASSUME NEW o \in Source \ (missing \ {s}), v[o] # "READY"
          PROVE  \E i \in 1 .. Len(l) : IsFor(l[i], o, v[o])
      <4>1. CASE o = s
        BY <1>4, <1>7, <4>1 DEF e
      <4>2. CASE o # s
        BY <3>1, <4>2 DEF LogFits
      <4> QED
        BY <4>1, <4>2
    <3> QED
      BY <3>1 DEF LogFits
  <2>3. (missing \ {s}) \cup {} = missing \ {s}
    OBVIOUS
  <2> QED
    BY <2>1, <2>2, <2>3 DEF p, e
<1>8. CASE ~There /\ Len(l) < LogSize
  <2> DEFINE r == <<new>> \o l
             h == [i \in 2 .. Len(r) |-> i - 1]
  <2>1. p.log = r /\ p.lost = {}
    BY <1>5, <1>8
  <2>2. /\ r \in Seq(Element) /\ Len(r) = Len(l) + 1 /\ r[1] = new
        /\ \A i \in 1 .. Len(l) : r[i + 1] = l[i]
    BY <1>1, <1>3, InFront
  <2> HIDE DEF r
  <2>3. ASSUME NEW i \in 2 .. Len(r)
        PROVE  i - 1 \in 1 .. Len(l) /\ (i - 1) + 1 = i /\ h[i] = i - 1 /\ r[i] = l[h[i]]
    <3>1. i - 1 \in 1 .. Len(l) /\ (i - 1) + 1 = i
      BY <1>1, <2>2
    <3>2. h[i] = i - 1
      OBVIOUS
    <3> QED
      BY <2>2, <3>1, <3>2
  <2>4. h \in [2 .. Len(r) -> 1 .. Len(l)]
    BY <2>3
  <2>5. ASSUME NEW i \in 1 .. Len(l)
        PROVE  i + 1 \in 2 .. Len(r) /\ h[i + 1] = i
    BY <1>1, <2>2
  <2>6. Len(r) \in 1 .. LogSize
    BY <1>1, <1>8, <2>2
  <2> HIDE DEF h
  <2>7. \A i, k \in 2 .. Len(r) : h[i] = h[k] => i = k
    BY <2>3
  <2>8. \A i \in 1 .. Len(l) : \E k \in 2 .. Len(r) : h[k] = i
    BY <2>5
  <2>9. \A i \in 1 .. Len(l) : ~IsFor(l[i], s, e)
    BY <1>4, <1>8
  <2>10. {} \in SUBSET (Source \ {s})
    OBVIOUS
  <2>11. LogFits(r, (missing \ {s}) \cup {}, v)
    <3>1. Renews(r, h, new, l, s, {})
      BY <2>2, <2>3, <2>4, <2>6, <2>7, <2>8 DEF Renews
    <3> QED
      BY <1>3, <2>9, <2>10, <3>1, NewFits DEF e
  <2>12. From(r)
    <3> SUFFICES ASSUME NEW i \in 1 .. Len(r)
                 PROVE  r[i].source = s \/ \E k \in 1 .. Len(l) : r[i].source = l[k].source
      OBVIOUS
    <3>1. CASE i = 1
      BY <1>3, <2>2, <3>1
    <3>2. CASE i # 1
      <4>1. i \in 2 .. Len(r)
        BY <3>2
      <4> QED
        BY <2>3, <4>1
    <3> QED
      BY <3>1, <3>2
  <2> QED
    BY <2>1, <2>11, <2>12 DEF p, e
<1>9. CASE ~There /\ ~(Len(l) < LogSize) /\ u # 0
  <2> DEFINE w == RemoveAt(l, u)
             r == <<new>> \o w
             At(i) == IF i < u THEN i ELSE i + 1
             h == [i \in 2 .. Len(r) |-> At(i - 1)]
             d == {l[u].source} \ {s}
  <2>1. p.log = r /\ p.lost = d
    BY <1>5, <1>9
  <2>2. /\ u \in 1 .. Len(l) /\ w \in Seq(Element) /\ Len(w) = Len(l) - 1
        /\ \A i \in 1 .. Len(w) : w[i] = l[At(i)]
    BY <1>1, <1>6, <1>9, Without
  <2> HIDE DEF w
  <2>3. /\ r \in Seq(Element) /\ Len(r) = Len(w) + 1 /\ r[1] = new
        /\ \A i \in 1 .. Len(w) : r[i + 1] = w[i]
    BY <1>3, <2>2, InFront
  <2> HIDE DEF r
  <2>4. Len(l) = LogSize /\ Len(r) = Len(l) /\ Len(r) \in 1 .. LogSize
    BY <1>1, <1>9, <2>2, <2>3
  <2>5. ASSUME NEW i \in 2 .. Len(r)
        PROVE  h[i] \in 1 .. Len(l) /\ h[i] = At(i - 1) /\ r[i] = l[h[i]]
    <3>1. i - 1 \in 1 .. Len(w) /\ (i - 1) + 1 = i
      BY <1>1, <2>2, <2>3
    <3>2. h[i] = At(i - 1)
      OBVIOUS
    <3>3. At(i - 1) \in 1 .. Len(l)
      BY <1>1, <2>2, <3>1
    <3>4. r[i] = w[i - 1] /\ w[i - 1] = l[At(i - 1)]
      BY <2>2, <2>3, <3>1
    <3> QED
      BY <3>2, <3>3, <3>4
  <2>6. h \in [2 .. Len(r) -> 1 .. Len(l)]
    BY <2>5
  <2> HIDE DEF h
  <2>7. \A i, k \in 2 .. Len(r) : h[i] = h[k] => i = k
    <3> SUFFICES ASSUME NEW i \in 2 .. Len(r), NEW k \in 2 .. Len(r), h[i] = h[k] PROVE i = k
      OBVIOUS
    <3>1. At(i - 1) = At(k - 1)
      BY <2>5
    <3> QED
      BY <2>2, <3>1
  <2>8. ASSUME NEW i \in 1 .. Len(l)
        PROVE  l[i].source \in d \cup {s} \/ \E k \in 2 .. Len(r) : h[k] = i
    <3>1. CASE i = u
      BY <3>1
    <3>2. CASE i < u
      <4>1. i + 1 \in 2 .. Len(r) /\ At((i + 1) - 1) = i
        BY <1>1, <2>2, <2>4, <3>2
      <4> QED
        BY <2>5, <4>1
    <3>3. CASE i > u
      <4>1. i \in 2 .. Len(r) /\ At(i - 1) = i
        BY <1>1, <2>2, <2>4, <3>3
      <4> QED
        BY <2>5, <4>1
    <3>4. i = u \/ i < u \/ i > u
      BY <2>2
    <3> QED
      BY <3>1, <3>2, <3>3, <3>4
  <2>9. \A i \in 1 .. Len(l) : ~IsFor(l[i], s, e)
    BY <1>4, <1>9
  <2>10. d \in SUBSET (Source \ {s})
    BY <1>1, <2>2 DEF Element
  <2> HIDE DEF d, At
  <2>11. LogFits(r, (missing \ {s}) \cup d, v)
    <3>1. Renews(r, h, new, l, s, d)
      BY <2>3, <2>4, <2>5, <2>6, <2>7, <2>8 DEF Renews
    <3> QED
      BY <1>3, <2>9, <2>10, <3>1, NewFits DEF e
  <2>12. From(r)
    <3> SUFFICES ASSUME NEW i \in 1 .. Len(r)
                 PROVE  r[i].source = s \/ \E k \in 1 .. Len(l) : r[i].source = l[k].source
      OBVIOUS
    <3>1. CASE i = 1
      BY <1>3, <2>3, <3>1
    <3>2. CASE i # 1
      <4>1. i \in 2 .. Len(r)
        BY <3>2
      <4> QED
        BY <2>5, <4>1
    <3> QED
      BY <3>1, <3>2
  <2> QED
    BY <2>1, <2>10, <2>11, <2>12 DEF p, e
<1>10. CASE ~There /\ ~(Len(l) < LogSize) /\ u = 0
  <2>1. p.log = l /\ p.lost = {s}
    BY <1>5, <1>10
  <2>2. (missing \ {s}) \cup {s} = missing \cup {s}
    OBVIOUS
  <2> QED
    BY <2>1, <2>2 DEF p, e
<1> QED
  BY <1>7, <1>8, <1>9, <1>10 DEF p, e

(* One round of the loop.                                                   *)
Logged(n, z, v, s, e) ==
  /\ n.lost \in SUBSET Source /\ LogFits(n.log, n.lost, [v EXCEPT ![s] = e])
  /\ \A i \in 1 .. Len(n.log) : \/ n.log[i].source = s /\ e # "READY"
                                \/ \E k \in 1 .. Len(z.log) : n.log[i].source = z.log[k].source

LEMMA EventFits ==
  ASSUME NEW z, NEW v \in [Source -> State], NEW s \in Source, NEW e \in State,
         z.lost \in SUBSET Source, LogFits(z.log, z.lost, v)
  PROVE  Logged(NewAlarmEvent(z, s, e), z, v, s, e)
<1> USE DEF Logged
<1> DEFINE l == Departed(z.log, s, e)
           w == [v EXCEPT ![s] = e]
           m == z.lost \ {s}
           n == NewAlarmEvent(z, s, e)
<1>1. /\ LogFits(l, z.lost \cup {s}, w)
      /\ Len(l) = Len(z.log) /\ \A i \in 1 .. Len(l) : l[i].source = z.log[i].source
  BY DepartedFits
<1>2. w \in [Source -> State] /\ w[s] = e /\ m \in SUBSET Source
  OBVIOUS
<1>3. CASE e = "READY"
  <2>1. n = [log |-> l, lost |-> m \cup {}]
    BY <1>3 DEF NewAlarmEvent
  <2>2. n.log = l /\ n.lost = m
    BY <2>1
  <2> HIDE DEF l, w, n
  <2>3. LogFits(l, m, w)
    BY <1>1, <1>2, <1>3 DEF LogFits
  <2> QED
    BY <1>1, <1>2, <2>2, <2>3 DEF w, n
<1>4. CASE e # "READY"
  <2> DEFINE p == Put(l, s, e)
  <2>1. n = [log |-> p.log, lost |-> m \cup p.lost]
    BY <1>4 DEF NewAlarmEvent
  <2>2. n.log = p.log /\ n.lost = m \cup p.lost
    BY <2>1
  <2> HIDE DEF l, w, n
  <2>3. (m \cup {s}) = z.lost \cup {s} /\ m \ {s} = m
    OBVIOUS
  <2>4. /\ p.lost \in SUBSET Source /\ LogFits(p.log, (m \ {s}) \cup p.lost, w)
        /\ \A i \in 1 .. Len(p.log) :
             p.log[i].source = s \/ \E k \in 1 .. Len(l) : p.log[i].source = l[k].source
    <3>1. LogFits(l, m \cup {s}, w)
      BY <1>1, <2>3
    <3> DEFINE q == Put(l, s, w[s])
    <3> HIDE DEF m
    <3>2. Added(q, l, m, w, s)
      BY <1>2, <1>4, <3>1, PutFits
    <3>3. q = p
      BY <1>2
    <3> HIDE DEF p, q
    <3> QED
      BY <3>2, <3>3 DEF Added
  <2> HIDE DEF m, p
  <2>5. n.lost \in SUBSET Source /\ LogFits(n.log, n.lost, w)
    BY <1>2, <2>2, <2>3, <2>4
  <2>6. \A i \in 1 .. Len(n.log) :
          n.log[i].source = s \/ \E k \in 1 .. Len(z.log) : n.log[i].source = z.log[k].source
    BY <1>1, <2>2, <2>4
  <2> QED
    BY <1>4, <2>5, <2>6 DEF n, w
<1> QED
  BY <1>3, <1>4

(* The loop over the error sources: afterwards the log fits what is known   *)
(* then, and has nothing more of a source without an error.                 *)
Known(v, news, d) == [s \in Source |-> IF s \in news THEN ErrorPresent(d[s]) ELSE v[s]]

AllLogged(r, z, v, news, d) ==
  /\ r.lost \in SUBSET Source /\ LogFits(r.log, r.lost, Known(v, news, d))
  /\ \A i \in 1 .. Len(r.log) : \/ \E s \in news : r.log[i].source = s /\ ErrorPresent(d[s]) # "READY"
                                \/ \E k \in 1 .. Len(z.log) : r.log[i].source = z.log[k].source

LEMMA AfterEventsFits ==
  ASSUME NEW z \in [log : Seq(Element), lost : SUBSET Source], NEW v \in [Source -> State],
         LogFits(z.log, z.lost, v), NEW news \in SUBSET Source, NEW d \in [Source -> DpType]
  PROVE  AllLogged(AfterEvents(z, news, d), z, v, news, d)
<1> USE DEF AllLogged
<1> DEFINE n == Len(Sources)
           Z == [log : Seq(Element), lost : SUBSET Source]
           More(y, i) == IF Sources[i] \in news
                         THEN NewAlarmEvent(y, Sources[i], ErrorPresent(d[Sources[i]])) ELSE y
           Is(f) == f = [i \in 0 .. n |->
                           IF i = 0 THEN z
                           ELSE IF Sources[i] \in news
                                THEN NewAlarmEvent(f[i - 1], Sources[i], ErrorPresent(d[Sources[i]]))
                                ELSE f[i - 1]]
           after == CHOOSE f : Is(f)
           W(i) == [s \in Source |-> IF s \in news /\ \E k \in 1 .. i : Sources[k] = s
                                     THEN ErrorPresent(d[s]) ELSE v[s]]
           From(y) == \A i \in 1 .. Len(y.log) :
                        \/ \E s \in news : y.log[i].source = s /\ ErrorPresent(d[s]) # "READY"
                        \/ \E k \in 1 .. Len(z.log) : y.log[i].source = z.log[k].source
           Fits(y, i) == y.lost \in SUBSET Source /\ LogFits(y.log, y.lost, W(i)) /\ From(y)
<1>1. n \in Nat /\ Source = {Sources[i] : i \in 1 .. n}
  <2>1. Sources \in Seq(Source)
    BY AlarmControlAssumption
  <2>2. n \in Nat /\ DOMAIN Sources = 1 .. n
    BY <2>1
  <2> QED
    BY <2>2 DEF Source, ToSet
<1>2. \A s \in Source : ErrorPresent(d[s]) \in State
  BY DEF ErrorPresent, DpType, State
<1>3. \A i \in 1 .. n : Sources[i] \in Source /\ ErrorPresent(d[Sources[i]]) \in State
  BY <1>1, <1>2
<1>4. \E f : Is(f)
  <2> DEFINE S == {y \in Z : \E w \in [Source -> State] : LogFits(y.log, y.lost, w)}
             step == [i \in 1 .. n |-> [y \in S |-> More(y, i)]]
  <2>1. z \in S
    OBVIOUS
  <2>2. ASSUME NEW i \in 1 .. n, NEW y \in S
        PROVE  More(y, i) \in S
    <3>1. CASE Sources[i] \in news
      <4> DEFINE s == Sources[i]
                 e == ErrorPresent(d[s])
                 x == NewAlarmEvent(y, s, e)
      <4>1. s \in Source /\ e \in State
        BY <1>3
      <4>2. PICK w \in [Source -> State] : LogFits(y.log, y.lost, w)
        OBVIOUS
      <4>3. y.lost \in SUBSET Source
        OBVIOUS
      <4> HIDE DEF s, e
      <4>4. x.lost \in SUBSET Source /\ LogFits(x.log, x.lost, [w EXCEPT ![s] = e])
        BY <4>1, <4>2, <4>3, EventFits DEF Logged
      <4>5. x = [log |-> x.log, lost |-> x.lost]
        BY DEF NewAlarmEvent
      <4>6. [w EXCEPT ![s] = e] \in [Source -> State]
        BY <4>1
      <4> HIDE DEF x
      <4>7. x \in S
        BY <4>4, <4>5, <4>6 DEF LogFits
      <4> QED
        BY <3>1, <4>7 DEF x, s, e
    <3>2. CASE Sources[i] \notin news
      BY <3>2
    <3> QED
      BY <3>1, <3>2
  <2> HIDE DEF S, More, Is, after
  <2>3. Steps(n, S, step) /\ \A i \in 1 .. n, y \in S : step[i][y] = More(y, i)
    BY <2>2 DEF Steps
  <2> HIDE DEF step
  <2>4. PICK f : Recurs(f, n, S, z, step)
    BY <1>1, <2>1, <2>3, Recursion
  <2>5. ASSUME NEW i \in 1 .. n
        PROVE  f[i] = More(f[i - 1], i)
    <3>1. i - 1 \in 0 .. n
      BY <1>1
    <3> QED
      BY <2>3, <2>4, <3>1 DEF Recurs
  <2>6. Is(f)
    <3>1. \A i \in 0 .. n : i = 0 \/ i \in 1 .. n
      BY <1>1
    <3> QED
      BY <2>4, <2>5, <3>1 DEF Recurs, Is, More
  <2> QED
    BY <2>6
<1>5. Is(after)
  BY <1>4
<1>6. AfterEvents(z, news, d) = after[n]
  BY DEF AfterEvents
<1> HIDE DEF after
<1>7. after[0] = z /\ \A i \in 1 .. n : after[i] = More(after[i - 1], i)
  <2>1. 0 \in 0 .. n /\ \A i \in 1 .. n : i \in 0 .. n /\ i # 0
    BY <1>1
  <2> QED
    BY <1>5, <2>1
<1>8. Fits(after[0], 0)
  <2>1. W(0) = v
    OBVIOUS
  <2>2. z.lost \in SUBSET Source /\ From(z)
    OBVIOUS
  <2> HIDE DEF W, From
  <2> QED
    BY <1>7, <2>1, <2>2
<1>9. ASSUME NEW m \in 0 .. n - 1, Fits(after[m], m)
      PROVE  Fits(after[m + 1], m + 1)
  <2> DEFINE y == after[m]
             x == after[m + 1]
             s == Sources[m + 1]
             e == ErrorPresent(d[s])
  <2> SUFFICES Fits(x, m + 1)
    OBVIOUS
  <2>1. m + 1 \in 1 .. n /\ (m + 1) - 1 = m /\ m \in Nat
    BY <1>1
  <2>2. x = IF s \in news THEN NewAlarmEvent(y, s, e) ELSE y
    BY <1>7, <2>1
  <2>3. s \in Source /\ e \in State
    BY <1>3, <2>1
  <2>4. \A k \in 1 .. m + 1 : k \in 1 .. m \/ k = m + 1
    BY <2>1
  <2>5. \A k \in 1 .. m : k \in 1 .. m + 1
    BY <2>1
  <2>6. W(m) \in [Source -> State]
    BY <1>2
  <2>7. Fits(y, m)
    BY <1>9
  <2>8. CASE s \in news
    <3>1. W(m + 1) = [W(m) EXCEPT ![s] = e]
      <4>1. \A o \in Source : (\E k \in 1 .. m + 1 : Sources[k] = o)
                            <=> (o = s \/ \E k \in 1 .. m : Sources[k] = o)
        BY <2>1, <2>4, <2>5
      <4> HIDE DEF s
      <4> QED
        BY <2>3, <2>8, <4>1
    <3> HIDE DEF W, x, y, s, e
    <3>2. x = NewAlarmEvent(y, s, e)
      BY <2>2, <2>8
    <3>3. Logged(x, y, W(m), s, e)
      <4> DEFINE w == W(m)
      <4>1. w \in [Source -> State] /\ y.lost \in SUBSET Source /\ LogFits(y.log, y.lost, w)
        BY <2>6, <2>7
      <4> HIDE DEF w
      <4>2. Logged(x, y, w, s, e)
        BY <2>3, <3>2, <4>1, EventFits
      <4> QED
        BY <4>2 DEF w
    <3>4. e = ErrorPresent(d[s])
      BY DEF e
    <3>5. ASSUME NEW i \in 1 .. Len(x.log)
          PROVE  \/ \E o \in news : x.log[i].source = o /\ ErrorPresent(d[o]) # "READY"
                 \/ \E k \in 1 .. Len(z.log) : x.log[i].source = z.log[k].source
      <4>1. CASE x.log[i].source = s /\ e # "READY"
        BY <2>8, <3>4, <4>1
      <4>2. CASE \E k \in 1 .. Len(y.log) : x.log[i].source = y.log[k].source
        <5>1. PICK k \in 1 .. Len(y.log) : x.log[i].source = y.log[k].source
          BY <4>2
        <5>2. \/ \E o \in news : y.log[k].source = o /\ ErrorPresent(d[o]) # "READY"
              \/ \E j \in 1 .. Len(z.log) : y.log[k].source = z.log[j].source
          BY <2>7
        <5> QED
          BY <5>1, <5>2
      <4> QED
        BY <3>3, <4>1, <4>2 DEF Logged
    <3> QED
      BY <3>1, <3>3, <3>5 DEF Logged
  <2>9. CASE s \notin news
    <3>1. W(m + 1) = W(m)
      <4>1. \A o \in news : (\E k \in 1 .. m + 1 : Sources[k] = o) <=> (\E k \in 1 .. m : Sources[k] = o)
        BY <2>1, <2>4, <2>5, <2>9
      <4> QED
        BY <4>1
    <3> HIDE DEF W, x, y, s, e
    <3> QED
      BY <2>2, <2>7, <2>9, <3>1
  <2> QED
    BY <2>8, <2>9
<1> DEFINE X == {i \in 0 .. n : Fits(after[i], i)}
<1>10. 0 \in X /\ \A i \in 0 .. n - 1 : i \in X => i + 1 \in X
  <2>1. 0 \in 0 .. n /\ \A i \in 0 .. n - 1 : i \in 0 .. n /\ i + 1 \in 0 .. n
    BY <1>1
  <2> HIDE DEF Fits
  <2> QED
    BY <1>8, <1>9, <2>1
<1> HIDE DEF X
<1>11. n \in X
  <2>1. n \in 0 .. n
    BY <1>1
  <2> QED
    BY <1>1, <1>10, <2>1, IntervalInduction
<1>12. Fits(after[n], n)
  BY <1>11 DEF X
<1>13. W(n) = Known(v, news, d)
  BY <1>1 DEF Known
<1> HIDE DEF W
<1> QED
  BY <1>6, <1>12, <1>13

(* A reset takes departed elements away only.                               *)
LEMMA KeptLogFits ==
  ASSUME NEW l, NEW missing, NEW v \in [Source -> State], LogFits(l, missing, v),
         NEW K \in SUBSET (1 .. Len(l)), \A i \in (1 .. Len(l)) \ K : l[i].departed
  PROVE  LET r == Kept(l, K)
         IN  LogFits(r, missing, v) /\ \A a \in 1 .. Len(r) : \E i \in K : r[a] = l[i]
<1> DEFINE r == Kept(l, K)
<1>1. l \in Seq(Element)
  BY DEF LogFits
<1>2. \A Q : Keeps(r, l, Element, K, Q)
  BY <1>1, KeptFits
<1> HIDE DEF r
<1>3. /\ r \in Seq(Element) /\ Len(r) <= Len(l)
      /\ \A a \in 1 .. Len(r) : \E i \in K : r[a] = l[i]
      /\ \A i \in K : \E a \in 1 .. Len(r) : r[a] = l[i]
  BY <1>2 DEF Keeps
<1>4. Len(r) <= LogSize /\ \A a \in 1 .. Len(r) : r[a] \in Element
  <2>1. r \in Seq(Element)
    BY <1>3
  <2>2. \A a \in 1 .. Len(r) : r[a] \in Element
    BY <2>1
  <2> QED
    BY <1>1, <1>3, <2>2, AlarmControlAssumption DEF LogFits
<1>5. \A a \in 1 .. Len(r) : Open(r[a], v)
  BY <1>3 DEF LogFits
<1>6. ASSUME NEW s \in Source, NEW e \in {"WARNING", "ALARM"}, NEW a \in 1 .. Len(r), NEW b \in 1 .. Len(r),
             IsFor(r[a], s, e), IsFor(r[b], s, e)
      PROVE  a = b
  <2> DEFINE Q == {x \in Element : IsFor(x, s, e)}
  <2>1. \A i, k \in 1 .. Len(l) : l[i] \in Q /\ l[k] \in Q => i = k
    BY DEF LogFits
  <2>2. r[a] \in Q /\ r[b] \in Q
    <3>1. r[a] \in Element /\ r[b] \in Element
      BY <1>4, <1>6
    <3> QED
      BY <1>6, <3>1
  <2> HIDE DEF Q
  <2> QED
    BY <1>2, <2>1, <2>2 DEF Keeps
<1>7. ASSUME NEW s \in Source \ missing, v[s] # "READY"
      PROVE  \E a \in 1 .. Len(r) : IsFor(r[a], s, v[s])
  <2>1. PICK i \in 1 .. Len(l) : IsFor(l[i], s, v[s])
    BY <1>7 DEF LogFits
  <2>2. i \in K
    BY <2>1 DEF IsFor
  <2> QED
    BY <1>3, <2>1, <2>2
<1>8. LogFits(r, missing, v)
  BY <1>3, <1>4, <1>5, <1>6, <1>7 DEF LogFits
<1> QED
  BY <1>3, <1>8 DEF r

(* The resets and the clearing in a run.                                    *)
Shorter(r, l, missing, v) ==
  LogFits(r, missing, v) /\ \A a \in 1 .. Len(r) : \E i \in 1 .. Len(l) : r[a] = l[i]

LEMMA ResetsFit ==
  ASSUME NEW l, NEW missing, NEW v \in [Source -> State], LogFits(l, missing, v)
  PROVE  /\ LogFits(ResetManual(l), missing, v)
         /\ \A a \in 1 .. Len(ResetManual(l)) :
              \E i \in 1 .. Len(l) : ResetManual(l)[a] = l[i] /\ ~l[i].departed
         /\ Cleared(l) = ResetManual(l)
         /\ \A d : Shorter(ResetAutomatic(l, d), l, missing, v)
<1>1. l \in Seq(Element) /\ DOMAIN l = 1 .. Len(l)
  BY DEF LogFits
<1>2. /\ LogFits(ResetManual(l), missing, v)
      /\ \A a \in 1 .. Len(ResetManual(l)) : \E i \in 1 .. Len(l) : ResetManual(l)[a] = l[i] /\ ~l[i].departed
  <2> DEFINE K == {i \in DOMAIN l : ~l[i].departed}
  <2>1. K \in SUBSET (1 .. Len(l)) /\ \A i \in (1 .. Len(l)) \ K : l[i].departed
    BY <1>1
  <2>2. \A i \in K : i \in 1 .. Len(l) /\ ~l[i].departed
    BY <1>1
  <2>3. ResetManual(l) = Kept(l, K)
    BY DEF ResetManual
  <2> HIDE DEF K
  <2>4. LogFits(Kept(l, K), missing, v) /\ \A a \in 1 .. Len(Kept(l, K)) : \E i \in K : Kept(l, K)[a] = l[i]
    BY <2>1, KeptLogFits
  <2> QED
    BY <2>2, <2>3, <2>4
<1>3. ASSUME NEW d
      PROVE  Shorter(ResetAutomatic(l, d), l, missing, v)
  <2> DEFINE K == {i \in DOMAIN l : ~(l[i].departed /\ (l[i].type = "WARNING" \/ d[l[i].source].auto))}
  <2>1. K \in SUBSET (1 .. Len(l)) /\ \A i \in (1 .. Len(l)) \ K : l[i].departed
    BY <1>1
  <2>2. ResetAutomatic(l, d) = Kept(l, K)
    BY DEF ResetAutomatic
  <2> HIDE DEF K
  <2>3. LogFits(Kept(l, K), missing, v) /\ \A a \in 1 .. Len(Kept(l, K)) : \E i \in K : Kept(l, K)[a] = l[i]
    BY <2>1, KeptLogFits
  <2> QED
    BY <2>1, <2>2, <2>3 DEF Shorter
<1>4. Cleared(l) = ResetManual(l)
  BY DEF Cleared, ResetManual
<1> QED
  BY <1>2, <1>3, <1>4

-----------------------------------------------------------------------------
(* The log at all times: what it says of the errors that AlarmControl       *)
(* knows of.                                                                *)
LogInv ==
  /\ lost \in SUBSET Source /\ LogFits(log, lost, vector)
  /\ unack \in BOOLEAN /\ (unack <=> HasUnAckAlarms(log))

(* A source in gone is out of the log, or a reset will still come for it:   *)
(* the second one, or one that finds it departed.                           *)
OutOfLog(s) == \A i \in 1 .. Len(log) : log[i].source # s
GoneInv ==
  \A s \in gone :
    /\ s \in Source /\ dp[s].error = "READY"
    /\ dp[s].alarm = "READY" \/ "reset" \in marks
    /\ \/ OutOfLog(s) \/ timer
       \/ "reset" \in marks /\ (vector[s] # "READY" => s \in marks)

LEMMA ActivatedStaysReady ==
  ASSUME NEW d \in DpType, d.error = "READY", d.alarm = "READY", NEW a \in BOOLEAN
  PROVE  Activated(d, a).alarm = "READY"
BY DEF DpType, Activated, Reported

LEMMA RunLogInv ==
  ASSUME RelayInv, LogInv, GoneInv, RunSubTask
  PROVE  LogInv' /\ GoneInv'
<1> DEFINE d1 == [s \in Source |-> IF "mode" \in marks /\ s \in PumpSource
                                   THEN Activated(dp[s], enabled) ELSE dp[s]]
           toggled == {s \in Source : d1[s].active # dp[s].active}
           due == (marks \cap Source) \cup toggled
           news == due \cap Differing(d1)
           past == {s \in (due \ news) \cap changed : ErrorPresent(d1[s]) = "READY"}
           d2 == [s \in Source |-> IF s \in past THEN [d1[s] EXCEPT !.alarm = "READY"] ELSE d1[s]]
           d3 == [s \in Source |-> IF "reset" \in marks /\ ErrorPresent(d2[s]) = "READY"
                                   THEN [d2[s] EXCEPT !.alarm = "READY"] ELSE d2[s]]
           z == [log |-> log, lost |-> lost]
           r == AfterEvents(z, news, d1)
           l2 == IF "reset" \in marks THEN ResetManual(r.log) ELSE r.log
           l3 == IF "clear" \in marks THEN Cleared(l2) ELSE l2
<1>1. /\ dp' = d3
      /\ vector' = [s \in Source |-> IF s \in due THEN ErrorPresent(d1[s]) ELSE vector[s]]
      /\ log' = ResetAutomatic(l3, d3)
      /\ unack' = IF log' # log THEN HasUnAckAlarms(log') ELSE unack
      /\ lost' = r.lost
      /\ gone' = gone /\ timer' = timer
  BY DEF RunSubTask
<1>2. ASSUME NEW s \in Source
      PROVE  /\ d1[s] \in DpType /\ d1[s].error = dp[s].error
             /\ dp[s].error = "READY" /\ dp[s].alarm = "READY" => d1[s].alarm = "READY"
  <2>1. /\ dp[s] \in DpType /\ Shown(dp[s]) /\ enabled \in BOOLEAN
        /\ d1[s] = IF "mode" \in marks /\ s \in PumpSource THEN Activated(dp[s], enabled) ELSE dp[s]
    BY DEF RelayInv, Types
  <2> HIDE DEF d1
  <2>2. CASE "mode" \in marks /\ s \in PumpSource
    BY <2>1, <2>2, ActivatedFits, ActivatedStaysReady
  <2>3. CASE ~("mode" \in marks /\ s \in PumpSource)
    BY <2>1, <2>3
  <2> QED
    BY <2>2, <2>3
<1>3. d1 \in [Source -> DpType]
  BY <1>2
<1> HIDE DEF d1
<1>4. ASSUME NEW s \in Source, dp[s].error = "READY"
      PROVE  /\ ErrorPresent(d1[s]) = "READY" /\ d3[s].error = "READY"
             /\ "reset" \in marks \/ dp[s].alarm = "READY" => d3[s].alarm = "READY"
  <2>1. d1[s] \in DpType /\ d1[s].error = "READY" /\ (dp[s].alarm = "READY" => d1[s].alarm = "READY")
    BY <1>2, <1>4
  <2>2. \A x \in DpType : LET y == [x EXCEPT !.alarm = "READY"]
                          IN  y \in DpType /\ y.error = x.error /\ y.alarm = "READY"
    BY DEF DpType, State
  <2>3. /\ d2[s] \in DpType /\ d2[s].error = "READY"
        /\ dp[s].alarm = "READY" => d2[s].alarm = "READY"
    <3>1. d2[s] = [d1[s] EXCEPT !.alarm = "READY"] \/ d2[s] = d1[s]
      OBVIOUS
    <3> HIDE DEF d2
    <3> QED
      BY <2>1, <2>2, <3>1
  <2> HIDE DEF d2
  <2>4. ErrorPresent(d2[s]) = "READY" /\ ErrorPresent(d1[s]) = "READY"
    BY <2>1, <2>3 DEF ErrorPresent
  <2>5. CASE "reset" \in marks
    <3>1. d3[s] = [d2[s] EXCEPT !.alarm = "READY"]
      BY <2>4, <2>5
    <3> HIDE DEF d3
    <3> QED
      BY <2>2, <2>3, <2>4, <2>5, <3>1
  <2>6. CASE "reset" \notin marks
    <3>1. d3[s] = d2[s]
      BY <2>6
    <3> HIDE DEF d3
    <3> QED
      BY <2>3, <2>4, <2>6, <3>1
  <2> QED
    BY <2>5, <2>6
<1>5. /\ news \in SUBSET Source /\ due \in SUBSET Source
      /\ \A s \in due : s \notin news => ErrorPresent(d1[s]) = vector[s]
  BY DEF Differing
<1>6. \A s \in Source : s \in marks => s \in due
  OBVIOUS
<1>7. \A s \in news : s \in due
  OBVIOUS
<1> HIDE DEF d3, due, news
<1>8. vector \in [Source -> State] /\ vector' = Known(vector, news, d1)
  BY <1>1, <1>5, <1>7 DEF RelayInv, Types, Known
<1>9. vector' \in [Source -> State]
  <2>1. \A s \in Source : ErrorPresent(d1[s]) \in State
    BY <1>3 DEF ErrorPresent, DpType, State
  <2> QED
    BY <1>1, <1>8, <2>1
<1>10. /\ r.lost \in SUBSET Source /\ LogFits(r.log, r.lost, vector')
       /\ \A i \in 1 .. Len(r.log) : \/ \E s \in news : r.log[i].source = s /\ ErrorPresent(d1[s]) # "READY"
                                     \/ \E k \in 1 .. Len(log) : r.log[i].source = log[k].source
  <2>1. z \in [log : Seq(Element), lost : SUBSET Source] /\ z.log = log /\ z.lost = lost
    BY DEF LogInv, LogFits
  <2>2. LogFits(z.log, z.lost, vector)
    BY <2>1 DEF LogInv
  <2>3. AllLogged(r, z, vector, news, d1)
    <3> HIDE DEF z
    <3> QED
      BY <1>3, <1>5, <1>8, <2>1, <2>2, AfterEventsFits
  <2> HIDE DEF r
  <2> QED
    BY <1>8, <2>3 DEF AllLogged
<1> HIDE DEF r
<1>11. /\ LogFits(l2, r.lost, vector')
       /\ \A a \in 1 .. Len(l2) :
            \E i \in 1 .. Len(r.log) : l2[a] = r.log[i] /\ ("reset" \in marks => ~r.log[i].departed)
  <2>1. CASE "reset" \in marks
    <3>1. l2 = ResetManual(r.log)
      BY <2>1
    <3> HIDE DEF l2
    <3> QED
      BY <1>9, <1>10, <3>1, ResetsFit
  <2>2. CASE "reset" \notin marks
    BY <1>10, <2>2
  <2> QED
    BY <2>1, <2>2
<1> HIDE DEF l2
<1>12. LogFits(l3, r.lost, vector') /\ \A a \in 1 .. Len(l3) : \E i \in 1 .. Len(l2) : l3[a] = l2[i]
  <2>1. CASE "clear" \in marks
    <3>1. l3 = ResetManual(l2)
      BY <1>9, <1>11, <2>1, ResetsFit
    <3> HIDE DEF l3
    <3> QED
      BY <1>9, <1>11, <3>1, ResetsFit
  <2>2. CASE "clear" \notin marks
    BY <1>11, <2>2
  <2> QED
    BY <2>1, <2>2
<1> HIDE DEF l3
<1>13. LogFits(log', r.lost, vector') /\ \A a \in 1 .. Len(log') : \E i \in 1 .. Len(l3) : log'[a] = l3[i]
  <2> DEFINE l4 == ResetAutomatic(l3, d3)
  <2>1. Shorter(l4, l3, r.lost, vector')
    BY <1>9, <1>12, ResetsFit, Zenon
  <2>2. log' = l4
    BY <1>1
  <2> HIDE DEF l4
  <2> QED
    BY <2>1, <2>2 DEF Shorter
<1>14. ASSUME NEW a \in 1 .. Len(log')
       PROVE  \E i \in 1 .. Len(r.log) : log'[a] = r.log[i] /\ ("reset" \in marks => ~r.log[i].departed)
  <2>1. PICK j \in 1 .. Len(l3) : log'[a] = l3[j]
    BY <1>13
  <2>2. PICK k \in 1 .. Len(l2) : l3[j] = l2[k]
    BY <1>12
  <2> QED
    BY <1>11, <2>1, <2>2
<1>15. LogInv'
  <2>1. lost' \in SUBSET Source /\ LogFits(log', lost', vector')
    BY <1>1, <1>10, <1>13
  <2>2. unack' \in BOOLEAN /\ (unack' <=> HasUnAckAlarms(log'))
    <3>1. CASE log' = log
      <4>1. unack' = unack
        BY <1>1, <3>1
      <4> QED
        BY <3>1, <4>1 DEF LogInv
    <3>2. CASE log' # log
      <4>1. unack' = HasUnAckAlarms(log')
        BY <1>1, <3>2
      <4>2. HasUnAckAlarms(log') \in BOOLEAN
        BY DEF HasUnAckAlarms
      <4> QED
        BY <4>1, <4>2
    <3> QED
      BY <3>1, <3>2
  <2> QED
    BY <2>1, <2>2 DEF LogInv, HasUnAckAlarms
<1>16. ASSUME NEW s \in gone'
       PROVE  /\ s \in Source /\ dp'[s].error = "READY"
              /\ dp'[s].alarm = "READY"
              /\ OutOfLog(s)' \/ timer'
  <2>1. s \in Source /\ dp[s].error = "READY" /\ (dp[s].alarm = "READY" \/ "reset" \in marks)
    BY <1>1, <1>16 DEF GoneInv
  <2>2. dp'[s].error = "READY" /\ dp'[s].alarm = "READY" /\ ErrorPresent(d1[s]) = "READY"
    BY <1>1, <1>4, <2>1
  <2>3. CASE OutOfLog(s)
    <3>1. \A i \in 1 .. Len(r.log) : r.log[i].source # s
      BY <1>10, <2>2, <2>3 DEF OutOfLog
    <3> QED
      BY <1>14, <2>1, <2>2, <3>1 DEF OutOfLog
  <2>4. CASE "reset" \in marks /\ (vector[s] # "READY" => s \in marks)
    <3>1. vector'[s] = "READY"
      BY <1>1, <1>6, <2>1, <2>2, <2>4
    <3>2. ASSUME NEW a \in 1 .. Len(log'), log'[a].source = s
          PROVE  FALSE
      <4>1. ~log'[a].departed /\ Open(log'[a], vector')
        BY <1>13, <1>14, <2>4 DEF LogFits
      <4> QED
        BY <3>1, <3>2, <4>1 DEF Open
    <3> QED
      BY <2>1, <2>2, <3>2 DEF OutOfLog
  <2> QED
    BY <1>1, <1>16, <2>1, <2>2, <2>3, <2>4 DEF GoneInv
<1> QED
  BY <1>15, <1>16 DEF GoneInv

LEMMA EmptyLogFits ==
  ASSUME vector' = [s \in Source |-> "READY"], log' = <<>>, lost' = {},
         unack' = HasUnAckAlarms(log'), gone' = {}
  PROVE  LogInv' /\ GoneInv'
<1>1. log' \in Seq(Element) /\ Len(log') = 0
  OBVIOUS
<1>2. LogFits(log', lost', vector')
  BY <1>1, AlarmControlAssumption DEF LogFits
<1>3. unack' = FALSE /\ ~HasUnAckAlarms(log')
  BY <1>1 DEF HasUnAckAlarms
<1> QED
  BY <1>2, <1>3 DEF LogInv, GoneInv, HasUnAckAlarms

LEMMA InitLogInv == Init => LogInv /\ GoneInv
<1> SUFFICES ASSUME Init PROVE LogInv /\ GoneInv
  OBVIOUS
<1>1. log = <<>> /\ lost = {} /\ gone = {} /\ unack = FALSE /\ vector = [s \in Source |-> "READY"]
  BY DEF Init
<1>2. log \in Seq(Element) /\ Len(log) = 0
  BY <1>1
<1>3. LogFits(log, lost, vector)
  BY <1>1, <1>2, AlarmControlAssumption DEF LogFits
<1>4. ~HasUnAckAlarms(log)
  BY <1>2 DEF HasUnAckAlarms
<1> QED
  BY <1>1, <1>3, <1>4 DEF LogInv, GoneInv

(* A power failure leaves no open elements, and the unacknowledged ones     *)
(* that are closed are acknowledged.                                        *)
LEMMA RestartLogInv ==
  ASSUME LogInv, Restart
  PROVE  LogInv' /\ GoneInv'
<1> DEFINE c == [i \in 1 .. Len(log) |-> [log[i] EXCEPT !.departed = TRUE]]
           K == {i \in DOMAIN c : ~c[i].departed}
<1>1. log \in Seq(Element)
  BY DEF LogInv, LogFits
<1>2. \A i \in 1 .. Len(log) : c[i] \in Element /\ c[i].departed
  <2>1. \A x \in Element : [x EXCEPT !.departed = TRUE] \in Element /\ [x EXCEPT !.departed = TRUE].departed
    BY DEF Element
  <2>2. \A i \in 1 .. Len(log) : log[i] \in Element
    BY <1>1
  <2> QED
    BY <2>1, <2>2
<1>3. c \in Seq(Element) /\ DOMAIN c = 1 .. Len(log) /\ DOMAIN c = 1 .. Len(c)
  BY <1>1, <1>2
<1>4. log' = Kept(c, K)
  BY DEF Restart, ClosedLog, ResetManual
<1> HIDE DEF c
<1>5. K = {}
  BY <1>2, <1>3
<1>6. Keeps(Kept(c, {}), c, Element, {}, {})
  <2>1. {} \in SUBSET (1 .. Len(c))
    OBVIOUS
  <2> QED
    BY <1>3, <2>1, KeptFits
<1>7. log' = <<>>
  <2>1. log' \in Seq(Element) /\ \A a \in 1 .. Len(log') : FALSE
    BY <1>4, <1>5, <1>6 DEF Keeps
  <2> QED
    BY <2>1
<1>8. vector' = [s \in Source |-> "READY"] /\ lost' = {} /\ unack' = HasUnAckAlarms(log') /\ gone' = {}
  BY DEF Restart
<1> QED
  BY <1>7, <1>8, EmptyLogFits

(* Nothing but a run and a power failure touches the log.                   *)
LEMMA LogStays ==
  ASSUME LogInv, UNCHANGED <<log, lost, vector, unack>>
  PROVE  LogInv'
BY DEF LogInv, HasUnAckAlarms

LEMMA GoneStays ==
  ASSUME GoneInv, gone' \in SUBSET gone, marks \in SUBSET marks', UNCHANGED <<timer, log, vector>>,
         \A s \in gone' : dp'[s].error = "READY" /\ (dp[s].alarm = "READY" => dp'[s].alarm = "READY")
  PROVE  GoneInv'
BY DEF GoneInv, OutOfLog

LEMMA ErrorLogInv ==
  ASSUME RelayInv, LogInv, GoneInv, NEW s \in Source, NEW e \in State, SetErrorPresent(s, e)
  PROVE  LogInv' /\ GoneInv'
<1>1. /\ dp' = [dp EXCEPT ![s] = Reported(dp[s], e)] /\ dp \in [Source -> DpType]
      /\ gone' = IF e = "READY" THEN gone ELSE gone \ {s}
      /\ UNCHANGED <<timer, log, lost, vector, unack>>
  BY DEF SetErrorPresent, RelayInv, Types
<1>2. marks \in SUBSET marks'
  BY DEF SetErrorPresent, Notified
<1>3. e = "READY" => /\ Reported(dp[s], e).error = "READY"
                     /\ dp[s].alarm = "READY" => Reported(dp[s], e).alarm = "READY"
  <2>1. dp[s] \in DpType
    BY <1>1
  <2> QED
    BY <2>1 DEF Reported, DpType
<1>4. ASSUME NEW o \in gone'
      PROVE  dp'[o].error = "READY" /\ (dp[o].alarm = "READY" => dp'[o].alarm = "READY")
  <2>1. o \in gone /\ o \in Source /\ dp[o].error = "READY" /\ (o = s => e = "READY")
    BY <1>1, <1>4 DEF GoneInv
  <2>2. CASE o = s
    <3>1. dp'[o] = Reported(dp[s], e)
      BY <1>1, <2>2
    <3> QED
      BY <1>3, <2>1, <2>2, <3>1
  <2>3. CASE o # s
    <3>1. dp'[o] = dp[o]
      BY <1>1, <2>1, <2>3
    <3> QED
      BY <2>1, <3>1
  <2> QED
    BY <2>2, <2>3
<1>5. gone' \in SUBSET gone
  BY <1>1
<1> QED
  BY <1>1, <1>2, <1>4, <1>5, LogStays, GoneStays

LEMMA AutoLogInv ==
  ASSUME RelayInv, LogInv, GoneInv, NEW s \in Source, NEW a \in BOOLEAN, SetAutoAcknowledge(s, a)
  PROVE  LogInv' /\ GoneInv'
<1>1. /\ dp' = [dp EXCEPT ![s] = Configured(dp[s], a)] /\ dp \in [Source -> DpType]
      /\ marks' = marks \cup {s}
      /\ UNCHANGED <<gone, timer, log, lost, vector, unack>>
  BY DEF SetAutoAcknowledge, Notified, RelayInv, Types, history
<1>2. ASSUME dp[s].error = "READY"
      PROVE  /\ Configured(dp[s], a).error = "READY"
             /\ dp[s].alarm = "READY" => Configured(dp[s], a).alarm = "READY"
  <2>1. dp[s] \in DpType
    BY <1>1
  <2>2. ErrorPresent(dp[s]) = "READY"
    BY <1>2 DEF ErrorPresent
  <2>3. Configured(dp[s], a) = [dp[s] EXCEPT !.auto = a, !.alarm = IF a THEN "READY" ELSE dp[s].alarm]
    BY <2>1, <2>2 DEF Configured, DpType
  <2> QED
    BY <1>2, <2>1, <2>3 DEF DpType
<1>3. ASSUME NEW o \in gone'
      PROVE  dp'[o].error = "READY" /\ (dp[o].alarm = "READY" => dp'[o].alarm = "READY")
  <2>1. o \in Source /\ dp[o].error = "READY"
    BY <1>1, <1>3 DEF GoneInv
  <2>2. CASE o = s
    <3>1. dp'[o] = Configured(dp[s], a)
      BY <1>1, <2>2
    <3> QED
      BY <1>2, <2>1, <2>2, <3>1
  <2>3. CASE o # s
    <3>1. dp'[o] = dp[o]
      BY <1>1, <2>1, <2>3
    <3> QED
      BY <2>1, <3>1
  <2> QED
    BY <2>2, <2>3
<1> QED
  BY <1>1, <1>3, LogStays, GoneStays

(* The reset and its repetition.                                            *)
LEMMA ResetLogInv ==
  ASSUME RelayInv, LogInv, GoneInv, ResetAlarms \/ ResetDelayTimeOut
  PROVE  LogInv' /\ GoneInv'
<1>1. UNCHANGED <<dp, log, lost, vector, unack>> /\ marks' = marks \cup {"reset"}
  BY DEF ResetAlarms, ResetDelayTimeOut, Notified, history
<1>2. CASE ResetAlarms
  <2>1. timer' = TRUE /\ gone' = {s \in Source : dp[s].error = "READY"}
    BY <1>2 DEF ResetAlarms
  <2> QED
    BY <1>1, <2>1, LogStays DEF GoneInv
<1>3. CASE ResetDelayTimeOut
  <2>1. unnotified = {} /\ gone' = gone
    BY <1>3 DEF ResetDelayTimeOut, history
  <2>2. \A s \in gone : s \in Source /\ ErrorPresent(dp[s]) = "READY" /\ (vector[s] # "READY" => s \in marks)
    BY <2>1 DEF GoneInv, ErrorPresent, RelayInv, MarkInv
  <2> QED
    BY <1>1, <2>1, <2>2, LogStays DEF GoneInv
<1> QED
  BY <1>2, <1>3

LEMMA OtherLogInv ==
  ASSUME LogInv, GoneInv,
         \/ SetPumpOprMode \/ ClearAlarmLog \/ UNCHANGED vars
         \/ \E s \in Source : NotifyObservers(s)
         \/ \E r \in Relay : ResetRelay(r) \/ SetRelayAck(r)
  PROVE  LogInv' /\ GoneInv'
<1>1. UNCHANGED <<dp, log, lost, vector, unack, timer, gone>> /\ marks \in SUBSET marks'
  BY DEF SetPumpOprMode, ClearAlarmLog, NotifyObservers, ResetRelay, SetRelayAck, Notified, history, vars
<1>2. \A s \in gone' : dp'[s].error = "READY" /\ (dp[s].alarm = "READY" => dp'[s].alarm = "READY")
  BY <1>1 DEF GoneInv
<1> QED
  BY <1>1, <1>2, LogStays, GoneStays

AlarmInv == RelayInv /\ LogInv /\ GoneInv

LEMMA NextAlarmInv == AlarmInv /\ [Next]_vars => AlarmInv'
<1> SUFFICES ASSUME RelayInv, LogInv, GoneInv, [Next]_vars PROVE LogInv' /\ GoneInv'
  BY NextRelayInv DEF AlarmInv
<1>1. CASE RunSubTask
  BY <1>1, RunLogInv
<1>2. CASE Restart
  BY <1>2, RestartLogInv
<1>3. CASE \E s \in Source, e \in State : SetErrorPresent(s, e)
  BY <1>3, ErrorLogInv
<1>4. CASE \E s \in Source, a \in BOOLEAN : SetAutoAcknowledge(s, a)
  BY <1>4, AutoLogInv
<1>5. CASE ResetAlarms \/ ResetDelayTimeOut
  BY <1>5, ResetLogInv
<1>6. CASE \/ SetPumpOprMode \/ ClearAlarmLog \/ UNCHANGED vars
           \/ \E s \in Source : NotifyObservers(s)
           \/ \E r \in Relay : ResetRelay(r) \/ SetRelayAck(r)
  BY <1>6, OtherLogInv
<1> QED
  BY <1>1, <1>2, <1>3, <1>4, <1>5, <1>6 DEF Next

(* The inductive invariant: relays, log and resets.                         *)
THEOREM AlarmInvariant == Spec => []AlarmInv
<1>1. Init => AlarmInv
  BY InitRelayInv, InitLogInv DEF AlarmInv
<1> QED
  BY <1>1, NextAlarmInv, PTL DEF Spec

-----------------------------------------------------------------------------
(* When AlarmControl has nothing to do, an open element of the log stands   *)
(* for an error that is there; each error that is present has exactly one,  *)
(* unless the log was full of unacknowledged elements; and                  *)
(* mDpHasUnAckAlarms tells whether there is an alarm to acknowledge         *)
(* (AlarmControl.cpp:230, AlarmLog.cpp:140-340).                            *)
THEOREM LogFollowsErrors == Spec => []LogFitsErrors
<1>1. ASSUME AlarmInv
      PROVE  LogFitsErrors
  <2> USE <1>1 DEF AlarmInv
  <2>1. ASSUME AtRest, NEW s \in Source
        PROVE  vector[s] = ErrorPresent(dp[s])
    BY <2>1 DEF AtRest, RelayInv, MarkInv
  <2>2. /\ LogFits(log, lost, vector) /\ log \in Seq(Element) /\ vector \in [Source -> State]
        /\ unack <=> HasUnAckAlarms(log)
    BY DEF LogInv, LogFits, RelayInv, Types
  <2>3. ActiveIsPresent
    <3> SUFFICES ASSUME AtRest, NEW i \in 1 .. Len(log), ~log[i].departed
                 PROVE  \/ ErrorPresent(dp[log[i].source]) = "ALARM"
                        \/ ErrorPresent(dp[log[i].source]) = "WARNING" /\ log[i].type = "WARNING"
      BY DEF ActiveIsPresent
    <3>1. log[i] \in Element /\ Open(log[i], vector)
      BY <2>2 DEF LogFits
    <3>2. log[i].source \in Source
      BY <3>1 DEF Element
    <3> QED
      BY <2>1, <3>1, <3>2 DEF Open
  <2>4. ErrorIsLogged
    <3> SUFFICES ASSUME AtRest, NEW s \in Source \ lost, ErrorPresent(dp[s]) # "READY"
                 PROVE  \E i \in Active(log, s) : log[i].type = ErrorPresent(dp[s]) /\
                          \A k \in Active(log, s) : log[k].type = ErrorPresent(dp[s]) => k = i
      BY DEF ErrorIsLogged
    <3> DEFINE e == vector[s]
    <3>1. e = ErrorPresent(dp[s]) /\ e \in {"WARNING", "ALARM"}
      BY <2>1, <2>2 DEF State
    <3> HIDE DEF e
    <3>2. PICK i \in 1 .. Len(log) : IsFor(log[i], s, e)
      BY <2>2, <3>1 DEF LogFits, e
    <3>3. \A k \in Active(log, s) : k \in 1 .. Len(log) /\ (log[k].type = e => IsFor(log[k], s, e))
      BY DEF Active, IsFor
    <3>4. i \in Active(log, s) /\ log[i].type = e
      BY <3>2 DEF Active, IsFor
    <3>5. \A k \in 1 .. Len(log) : IsFor(log[k], s, e) => k = i
      BY <2>2, <3>1, <3>2 DEF LogFits
    <3> QED
      BY <3>1, <3>3, <3>4, <3>5
  <2>5. UnackIsShown
    BY <2>2 DEF UnackIsShown, HasUnAckAlarms
  <2> QED
    BY <2>3, <2>4, <2>5 DEF LogFitsErrors
<1> QED
  BY <1>1, AlarmInvariant, PTL

(* A reset with its repetition half a second later takes every error that   *)
(* had gone and has not come back out of the log and off the alarms shown,  *)
(* wherever the notification of its departure was when the reset came       *)
(* (AlarmControl.cpp:230-357, :585).                                        *)
THEOREM ResetsAreComplete == Spec => []ResetIsComplete
<1>1. ASSUME AlarmInv
      PROVE  ResetIsComplete
  <2> SUFFICES ASSUME AtRest, ~timer, NEW s \in gone
               PROVE  AlarmPresent(dp[s]) = "READY" /\ OutOfLog(s)
    BY DEF ResetIsComplete, OutOfLog
  <2>1. marks = {}
    BY <1>1 DEF AlarmInv, RelayInv, MarkInv, AtRest
  <2> QED
    BY <1>1, <2>1 DEF AlarmInv, GoneInv, AlarmPresent
<1> QED
  BY <1>1, AlarmInvariant, PTL

(* An alarm has its relays on until it is reset, but for sources set from   *)
(* tasks of lower priority; a relay that is acknowledged automatically is   *)
(* off without an alarm of its kind; and one that is acknowledged by hand    *)
(* stays on until it is, also over a power failure (AlarmRelay.cpp:86-205,   *)
(* AlarmControl.cpp:230-357).                                               *)
THEOREM RelaysFollowAlarms == Spec => []RelaysFitAlarms
<1>1. ASSUME RelayInv
      PROVE  RelaysFitAlarms
  <2>1. RelayOnForAlarm
    <3>1. SUFFICES ASSUME ~requested, unnotified = {}, NEW r \in Relay,
                          NEW s \in Concerns(r) \ (silenced[r] \cup Outside),
                          ErrorPresent(dp[s]) = "ALARM"
                   PROVE  relay[r].out
      BY DEF RelayOnForAlarm, AtRest
    <3>2. s \in Source
      BY AlarmControlAssumption DEF Concerns
    <3>3. vector[s] = "ALARM"
      BY <1>1, <3>1, <3>2 DEF RelayInv, MarkInv
    <3> QED
      BY <1>1, <3>1, <3>3 DEF RelayInv, ListInv
  <2>2. RelayHolds
    BY <1>1 DEF RelayInv, HeldInv, RelayHolds, AtRest
  <2> QED
    BY <1>1, <2>1, <2>2 DEF RelaysFitAlarms, RelayInv
<1> QED
  BY <1>1, InitRelayInv, NextRelayInv, PTL DEF Spec

-----------------------------------------------------------------------------
(* The types, with the length of the log within LogSize: for any number of  *)
(* sources and relays and any size of the log.                              *)
RestTypes == changed \in SUBSET Source /\ timer \in BOOLEAN /\ events \in 0 .. MaxEvents

THEOREM TypeCorrect == Spec => []TypeOK
<1>1. Init => RestTypes
  <2> SUFFICES ASSUME Init PROVE RestTypes
    OBVIOUS
  <2>1. changed = {} /\ timer \in BOOLEAN /\ events = 0
    BY Zenon DEF Init
  <2>2. 0 \in 0 .. MaxEvents
    BY AlarmControlAssumption
  <2>3. {} \in SUBSET Source
    BY Zenon
  <2> QED
    BY <2>1, <2>2, <2>3, Zenon DEF RestTypes
<1>2. ASSUME RestTypes, Types, [Next]_vars
      PROVE  RestTypes'
  <2> USE <1>2 DEF RestTypes
  <2>1. ASSUME NEW new, Notified(new)
        PROVE  changed' \in SUBSET Source
    BY <2>1 DEF Notified, Differing
  <2>2. ASSUME Event
        PROVE  events' \in 0 .. MaxEvents
    BY <2>2, AlarmControlAssumption DEF Event
  <2>3. CASE RunSubTask
    <3>1. PICK due, d3, again : changed' = (changed \ due) \cup ((again \cap Differing(d3)) \ due)
      BY <2>3, Zenon DEF RunSubTask
    <3>2. changed' \in SUBSET Source
      BY <3>1 DEF Differing
    <3> QED
      BY <2>3, <3>2 DEF RunSubTask
  <2>4. CASE Restart
    <3>1. changed' = {} /\ timer' = FALSE /\ events' = events
      BY <2>4, Zenon DEF Restart
    <3> QED
      BY <3>1
  <2>5. CASE \E s \in Source, e \in State : SetErrorPresent(s, e)
    BY <2>1, <2>2, <2>5 DEF SetErrorPresent
  <2>6. CASE \E s \in Source : NotifyObservers(s)
    BY <2>1, <2>6 DEF NotifyObservers
  <2>7. CASE \E s \in Source, a \in BOOLEAN : SetAutoAcknowledge(s, a)
    BY <2>1, <2>2, <2>7 DEF SetAutoAcknowledge
  <2>8. CASE SetPumpOprMode \/ ResetAlarms \/ ResetDelayTimeOut \/ ClearAlarmLog
    BY <2>1, <2>2, <2>8 DEF SetPumpOprMode, ResetAlarms, ResetDelayTimeOut, ClearAlarmLog, history
  <2>9. CASE \E r \in Relay : ResetRelay(r) \/ SetRelayAck(r)
    BY <2>2, <2>9 DEF ResetRelay, SetRelayAck
  <2>10. CASE UNCHANGED vars
    BY <2>10 DEF vars
  <2> QED
    BY <2>3, <2>4, <2>5, <2>6, <2>7, <2>8, <2>9, <2>10, <1>2 DEF Next
<1>3. AlarmInv => Types
  BY DEF AlarmInv, RelayInv
<1>4. AlarmInv /\ RestTypes => TypeOK
  BY DEF AlarmInv, RelayInv, Types, DpType, RelayType, LogInv, LogFits, Element, GoneInv,
         RestTypes, TypeOK
<1> QED
  BY <1>1, <1>2, <1>3, <1>4, AlarmInvariant, PTL DEF Spec
=============================================================================
