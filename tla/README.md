# Verification of the pump controller firmware

TLA+ models, TLC runs and TLAPS proofs for the firmware of the waste-water pump
controller in `src/` (Grundfos Dedicated Controls, C++ on embOS). `PROJECT.json`
holds the machine-readable part: components, runs, mutants, the map from
definitions to source lines, hazards, findings and theorems.

How to run (from this directory):

    tlc -workers 2 -config Pump_pit.cfg MCPump.tla     # one run
    tlapm Pump_proofs.tla                              # one proof module

Contents: [1 the system](#1-the-system) ·
[2 the models](#2-the-models-and-the-code) ·
[3 the runs](#3-the-runs) ·
[4 the proofs](#4-the-proofs) ·
[5 findings and observations](#5-findings-and-observations) ·
[6 not modelled](#6-what-is-not-modelled-and-why) ·
[7 what is left](#7-what-is-left)

## 1. The system

The controller empties a pit with up to six pumps. Everything that matters is a
*data point* (a `Subject`): measured values, configuration, requests, alarms.
*Controllers* (`SubTask`s) subscribe to data points, are asked to run when one
of them changes, and write others. A few embOS tasks run the controllers:

| task | priority | what it runs |
|---|---|---|
| PowerDownTask | 250 | one-shot reaction to the power-down interrupt |
| SwTimerTask | 245 | delivers the timeouts of all software timers |
| InterCom | 200 | bytes to and from the IO boards |
| ControllerEvents | 180 | `TaskCtrlEvent`: most controllers, among them all pumps |
| ControllerPeriodic | 150 | `TaskCtrlPeriodic`: controllers that run by the clock |
| GeniApp | 120 | the bus to SCADA, the display and remote units |
| DisplayEvent | 110 | user interface |
| LowPrioPeriodic | 10 | logging, web |
| ConfigTask | 5 | `ConfigControl`: saves changed data points to flash |

(`main.cpp:338-347`, `ConfigControl.cpp:74,127`, `PowerDown.cpp:189`.)

### The components

For each: its state, operations, whom it talks to, what is hard, and what makes
it correct.

**FlashControl** (`application/config/FlashControl.cpp`, over
`application/driver/c1648.c`). *State:* a pair of flash blocks per save ID, each
a header with a valid code and the data. *Operations:* `Init`, `SaveData`,
`ReadData`, `IsBlockValid`, `EraseFlashBlock`. *Called by* FlashBlock, and by
Factory for an erase at boot. *Hard:* power fails between any two bus commands,
programming and erasing fail, saving is retried over half-programmed words.
*Correct if* there is always one image and it is the last one committed.

**FlashBlock** (`FlashBlock.cpp`). *State:* a RAM cache of one block, a mark that
it is modified, error flags. *Operations:* `SaveToCache`, `SaveToFlash`,
`LoadFromFlash`, `SaveAllSubjectsToCache`. *Hard:* a failed save reloads the
cache from flash while subjects go on changing. *Correct if* what the cache
holds and flash does not is marked as modified.

**ConfigControl and power down** (`ConfigControl.cpp`, `driver/PowerDown.cpp`).
*State:* a queue of changed subjects, a handful of flags, two timers, one
event bit. *Operations:* `Update` (from every task), `Run`/`Doit` of ConfigTask,
`Boot`, `PowerDown`, `SaveLogSeriesToFlash`. *Hard:* ConfigTask is preempted
between any two steps by everyone; power goes down at any of them; a factory
boot overtakes pending saves. *Correct if* every change reaches flash, power
down loses nothing it need not lose, and an erased block stays erased.

**Event kernel** (`util/Subject.cpp`, `SubjectPtr.h`, `SubTask.cpp`,
`TaskCtrl.cpp`, `TaskCtrlEvent.cpp`, `fifo.h`). *State:* observers per subject,
`m_updated` per pointer, a request flag per sub task, a bounded queue. *Hard:*
writers of higher and lower priority, and sub tasks themselves, notify while
the kernel task moves a sub task through its flags; flags are tested and cleared
in two steps; a full queue drops silently. *Correct if* no change passes an
observer by.

**SwTimer, SwTimerTask** (`util/SwTimer.cpp`, `SwTimerTask.cpp`). *State:* per timer
the running part of at most 32000 ms, the parts and the remainder to come, whether it
is started; a queue of timeouts that the operating system's callback fills and
SwTimerTask empties. *Hard:* a timer is stopped, restarted or given another period
while a part or its timeout is under way; the calls write several members with interrupts on, so
the callback may come between any two of them. *Correct if* a timer that runs expires
once, after its period, and no timeout stays in the queue.

**Pump** (`application/controller/Pump.cpp`). *State:* installed, enabled, the
operation mode, five timers with their timeout flags, contactor alarm; shared by
all pumps: three delay flags and `mLastEvent`. *Inputs:* requests of level
control, SCADA and digital inputs, frequency drive, contactor feedback,
configuration. *Outputs:* relays, operation mode, ready, available. *Hard:* each
pump has its own timers and all share the flags; pumps are removed, disabled and
reconfigured in any state. *Correct if* starts and stops keep their distance,
no delay lasts for ever, and a pump that should be off is off.

**LevelCtrl** (`LevelCtrl/LevelCtrl.cpp`). *State:* what the last pass found, the
after-run timer, faults. *Operations:* `RunSubTask` every 10 ms: from the sensor or
the float switches to the pumps the level asks for. *Hard:* sensor and switches fail
or disagree at any moment; every data point it writes lets the events task preempt
it. *Correct if* a high level is pumped whatever fails, and a dry pit is left alone.

**PumpCtrl** (`PumpCtrl/PumpCtrl.cpp`). *State:* the last choice, the pump in
temporary stop. *Operations:* `RunSubTask`: which pumps run, from the requests of
LevelCtrl, **DailyEmptyingCtrl**, **FoamDrain** and anti-seizing, by running time,
within the limits of groups and pit. *Hard:* manual pumps count against the limits,
running pumps must not be exchanged for nothing, temporary stops meet everything
else. *Correct if* the choice respects all limits at once and takes no pump away
without a reason.

**AlarmDelay** (`alarm/AlarmDelay.cpp`, with `BoolInputAlarmCtrl`). *State:* two timers
with their flags. *Hard:* a timer is stopped while its timeout is on its way.
*Correct if* the data point ends up with the error its input shows.

**AlarmControl, alarm log, alarm relays** (`alarm/AlarmControl.cpp`, `AlarmLog.cpp`,
`AlarmEvent.cpp`, `AlarmRelay.cpp`). *State:* the last error of each source and a
mark that it changed, the log, the alarms of each relay, resets under way. *Hard:*
sources notify from above and below while the update runs; the log fills up; resets
meet new errors; power goes down. *Correct if* every error is logged once, relays
and log agree with it, and a reset acknowledges all there is and nothing later.

**InterLockMasterCtrl, InterLockedCtrl** (`InterLockedCtrl/`). A pit with a level
alarm locks the pit that pumps into it by text messages (`Sms/SmsCtrl.cpp`). *State:*
of the master: unlocked, wants to lock, locked, and the timer of the next reminder;
of the other: locked, for how long, the timer. *Hard:* messages are lost, late or
reordered; either pit may lose its power; requests, releases and timeouts meet in
one run. *Correct if* the other pit stays locked while it should, and not for ever.

**FloatSwitchCtrl, AntiBlockingCtrl, MixerCtrl, VfdCtrl, LoggingCtrl, the rest of Sms,
GENIbus, drivers, display, web**: listed with status and reason in `PROJECT.json`.

### How they interact

A change is `DataPoint::SetValue` → `Subject::NotifyObservers` → `Update` of each
observer, in the caller's task. Controllers turn it into `ReqTaskTime`; the
kernel calls `RunSubTask` later. ConfigControl is an observer of every stored
data point and turns it into a queue entry for ConfigTask. Timers call `Update`
from SwTimerTask. Power down is an interrupt that wakes PowerDownTask, which switches off lights
and display, closes the alarm log (`AlarmControl::PowerDown`), calls
`ConfigControl::PowerDown` and waits for ConfigTask's answer.

## 2. The models and the code

A definition `Name_What` is a mutant of the definition `Name` that follows it:
the same operation with a plausible mistake. Each run must report a violation of
each of its properties under the mutant that `PROJECT.json` names for it.

| module | models | proofs |
|---|---|---|
| `NonVolatileStore` | abstract: one cell that survives power failures | |
| `FlashControl` | FlashControl over the flash driver, command by command | `FlashControl_proofs` |
| `FlashBlock` | the block caches, as operators and actions ConfigControl uses | |
| `ConfigControl` | ConfigTask, its callers, timers, boot, power down | `ConfigControl_proofs` |
| `SubTasks` | the event kernel | `SubTasks_proofs` |
| `Pump` | the pumps of one pit | `Pump_proofs` |
| `SwTimer` | the software timers and SwTimerTask | `AlarmDelay_proofs` |
| `AlarmDelay` | a single alarm's controller, over `SwTimer` | `AlarmDelay_proofs` |
| `AlarmControl` | alarm sources, log, relays, resets, power down | `AlarmControl_proofs` |
| `PitData` | the data points that the controllers of a pit share | |
| `LevelCtrl`, `DailyEmptyingCtrl`, `FoamDrain`, `PumpCtrl` | one controller each | |
| `Pit` | these four with the rest of the pit | `Pit_proofs` |
| `SmsNet` | a text message from one pit to another | |
| `InterLockMasterCtrl`, `InterLockedCtrl` | one controller each | |
| `InterLock` | two pits, over `SmsNet` | `InterLock_proofs` |
| `MC…` | the constants of the TLC runs | |

### FlashControl

One save ID, that is two blocks; the six IDs are independent. `flash` maps block
and word address to what the word reads as; one action is one bus command
(`FlashSingleProgram`, `FlashBlockErase`), because that is where power fails.
Programming can only clear bits: a word that was not erased before becomes
"torn" (`Programmed`, `CutWord`). `PowerFail` cuts the command in progress
and forgets all RAM; `PowerOn` and `InitFlash` are the boot. A chip failure leaves
the word or block torn; `faults` counts failures within a call, up to
`MaxFaults`. `SaveData … EraseOldAgain` follow the loop at `:205-227` and
`WriteValidCode` at `:454-479`; `NextTry` and `TryFailed` are the two ways through
the bottom of the loop. `ImplementsStore` says that it all behaves as
`NonVolatileStore`: a save replaces the value at one instant or not at all.

Left out: the software version word (programmed, its result ignored, never
decides anything), the layout of the data.

### FlashBlock and ConfigControl

`subject`, `cache`, `flash` are the three copies of a value; a value is a
counter that grows with each change, so "lost" is "smaller than". The subjects
are one per kind of storage: `config`, `gsc`, `noBoot` (settings, saved when
signalled), `log` and `alarmLog` (saved by timer), `series1`, `series5` (log
series: copied, not notified). `BlockOf` stands for the data tables.

`pc` is the position of ConfigTask in `Run` and `Doit` (labels in source order),
`step` its position in `SaveToFlash`, since a caller may come between any two
accesses to shared state. ConfigTask has the lowest priority, so while a caller
is inside `Update` (`updating`) it stands still; `PowerDown` raises it above
the callers (`:514`), and from then on none holds it up. `PowerCycle` cuts power
anywhere and restarts from flash. `Boot`, `PowerDown`, `SaveLogSeriesToFlash` and
the timers are actions of their own. The history variables `owed` and `inTime`
record what power down found.

FlashBlock sees FlashControl as what `NonVolatileStore` promises: a save commits,
or fails with the old or the new image in place.

### SubTasks

Writers change data points and notify (`SetValue`, then one `Update` per
observer: `NotifyObservers` holds off task switches for each `Update` but `ReqRun`
can wait for the queue's semaphore). The kernel task's steps are one access to a
shared flag each: `NextSubTask` (read the queue), `ClearRequest`, `Look` (the
read in `IsUpdated`), `ResetUpdated` (its write), `GetValue`. A mark set between `Look` and
`ResetUpdated` is gone although `IsUpdated` returned false: the history `wiped` remembers it. Writers are of three
kinds: `Preempting` (a task of higher priority, anywhere), `Inside` (the running sub
task itself), others (only while the kernel task waits). Sub tasks are of two
kinds twice over: those that ask `IsUpdated` (`Flagged`), and those that request
to run without a flag (`Unguarded`: AlarmControl, Clock, FoamDrain, DPMaxCtrl …).
The flag may start with any value: not every constructor sets it.

### Pump

`SetInput` and `SetConfig` are everything others write into the data points a pump
reads. `RunSubTask` is two steps, `Configure` (new configuration, number of pumps,
enable; then the delay timeouts, `:249-464`) and `Operate` (start or stop, relays,
contactor alarm, `:465-730`) or `Skip`, because the timer task may set a timeout
flag between them. Pumps of a pit run one after the other in the same task. A
`Tick` is one second for all timers: it counts them down, sets the timeout flags
and requests the pumps. `since` is history. Two conditions on scheduling are
distinguished by `Prompt`: TRUE means the kernel serves all queued pumps
within a second (the usual case), FALSE allows any delay.

### SwTimer and AlarmDelay

A timer is a record: its period in parts (`Chunk` is the 32000 ms of one embOS
timer) and a remainder, what is left of them, and the embOS timer's own countdown.
`Clock` is the interrupt: `Tick` lets time pass, and the callback (`RealCallback`) loads the
next part or, in `RealTimeOut`, puts the timer into the queue. SwTimerTask's loop is
`WaitEvent`, `ReadTimeOut`, `EndOfList`; a timeout that is read notifies the observer.

Nothing disables interrupts in `SwTimer.cpp`, so a call is a row of steps. `StartSwTimer`, `StopSwTimer`,
`RetriggerSwTimer` and `SetSwTimerPeriod` are the first step of each; `op` says which comes next, and
`Continue` does it: `WriteUnit`, `WriteValue`, `WriteCount`, `WriteLast`, `SetTimerPeriod`, `TestStarted`,
`RetriggerTimer`, `WriteStarted`, in the order of the lines. Ticks and callbacks of
any timer come between them. Two things are joined. The reads of `OS_GetTimerStatus` in `StopSwTimer`, and in
`StartSwTimer` of an expired timer, belong to the embOS call before: a timer that does not run has no
callback, so nothing can change the answer. Where it can be stale (`:139`, `:185`) `WriteStarted` is a
step of its own, which may set `mTimerStarted` after the timeout has cleared it. And `mMs`, `mSec` and `mMin`, which follow
the value, are no members of the record: a repetition that comes while `SetSwTimerPeriod` has written
the value and not yet `mSec` or `mMin` leaves the counter `Unset`, that is any number. `Unset` is also the
`mMsPrescaler` of a timer that was created with a period of one part (`:94-98`).

Two variables are history. `age` is how long the timer has run since it was set going. `cut` says that,
when it was set last, a callback came after the counter was loaded and before `OS_RetriggerTimer`: the callback takes
a part of the new period away, and the timeout is early by that part. The properties say that this
is the only way for a timer to be wrong. Timers belong to their users, who make actions of these steps.
The lengths of the parts (`Second`, `HalfMinute`) are constants: only the order of periods and parts matters.

`AlarmDelay` is one user: the two timers of an alarm and a warning, `Begin`,
`CheckErrorTimers`, `EvaluateInput`, then `UpdateAlarmDataPoint` in the order of
`:279-365`, each step, inside the calls of its timers too (`UseTimer`), open to a timeout from above. A third timer stands for all
other users of the queue. `Together` FALSE is a bound: either that other user acts, or the input and the
configuration change, not both in one behaviour.

### AlarmControl

`source` errors are set and cleared by their controllers (`SetError`), from tasks above
and below; an update goes through the sources one by one (`RunSubTask`, `:230-330`)
and is preempted between them. The log is a sequence of elements, each with its source and what it was when it
came and went; relays hold the alarms that have not gone or not been acknowledged.
`Reset` is done twice, the second time by a timer (`:375`). `Outside` are sources that
notify from below the events task. `PowerDown` closes the log, and a restart gets back
what was saved.

### Pit

`PitData` holds the data points and `asked`, the sub tasks of the events task that are
to run; a data point that changes asks for its subscribers. LevelCtrl's pass is
`Sense`, `Evaluate`, `Detect` and one `Steer` per pump, with the events task in
between (when `Evaluate` changes what is under the lowest stop level, or its quality, DailyEmptyingCtrl is not only asked for but
has its SubjectPtr marked, `HearsUnder`, without which it would not end at `:159-167`); the other controllers run in one action, as nothing of higher priority writes what
they read. PumpCtrl's run is one expression per step of the source: the requests
(`Wish`), alternation (`Alternated`), the reduction to maxima (`Reduced`), anti-seizing, groups
(`Apart`), totals (`InTotal`). `Pump.tla` is left out here: a pump does as told some
time later, or is run by hand. A configuration says what `plays` in it, so that each pit
has the disturbances that meet and no others.

### InterLock

Both `RunSubTask`s are one action: what they read is written from below, except for the
timer's flag, whose race is in `FlagCleared`. A message carries its command, its time
and its age. `SmsNet` loses, delays and reorders: it stands for the buffer
of SmsCtrl, two modems and the network. `HandleSmsIn` is two steps, time and event,
as the controller it notifies runs in between. `hold` is history: "held" while the
messages of one lock have all come in order and within `Delay`, and nobody in the other pit
went against them. The state of the master after a start is any value (5).

## 3. The runs

All "pass" runs finish without error; each "violation" run shows one disagreement
between a comment and the code.

| run | question | bounds |
|---|---|---|
| `flash_store` | Do the two blocks implement one cell, whatever power and chip do? | 1 data word, two values; `RETRY_CNT` = 5 as in the code; 2 chip failures per call; any number of power failures |
| `config_save` | Is a change ever forgotten, what does power down lose, and does every change reach flash? | a setting and the log; one change each; power down and cuts anywhere |
| `config_boot` | Does ConfigTask sleep on work, does an erased block stay erased, does the alarm agree with the errors, when boots meet a failing flash and an overflowing queue? | the alarm log and a log series, queue of 1, one flash failure, a boot that erases the log |
| `subtasks_run` | Are requests and changes kept when anyone notifies at any moment, and does every observer see every change? | 2 sub tasks, one of which asks `IsUpdated` and has no request flag; 2 data points, the one it asks for written from above and below the kernel task; 3 writers, 2 changes, queue of 8 |
| `pump_pit` | Do starts and stops keep apart, does every pump do as asked in the end? | 2 pumps, delays 1..3 s with start-stop-start the longest |
| `pump_one` | Disabling, removing, reconfiguring, flush, drive, contactor | 1 pump, delays 1..2 s, the task arbitrarily late |
| `pump_reversal` | *violation*: a start after a stop waits for start-stop-start | 2 pumps |
| `alarm_delay` | Do timers expire once and on time, and does the alarm end up as its input is? | delays of a part with remainder and of two whole parts; another user's timer, used once (5 ms, 1 minute, 1 ms repeated), or changes of input and configuration; queue of 3 |
| `alarm_control` | Do log, relays and resets agree with the errors, also over power down? | a pump's alarm with manual acknowledgement and a source from outside, log of 2, 4 changes |
| `alarm_full` | *violation*: a full log drops warnings before alarms | the same |
| `pit` | Do the controllers of a pit together keep limits, leave a dry pit and pump a high level? | 12 pits of one to three pumps, one or two groups; levels 0..3 |
| `interlock` | Does the other pit stay locked, and not for ever? | 2 messages under way, which take up to 2 ticks or are late; a tick is half a minute, `Early` 4, timeouts 6, 7 and 8; one event from outside per tick |

**Why the bounds are enough.** *flash:* data words are all treated alike, one
suffices to distinguish old, new and torn; the retry loop is at its real length,
so both halves around the re-erase (`RETRY_CNT/2`) are explored; two failures are
the most for which the guarantee is meant (see 5). *config:* a second change of a
subject between the steps is the same event as the first one (only `cache #
subject` counts); a setting, the log and a series are the three ways of being
saved, and they do not share marks: the series, and the alarm log, whose timeout is a flag of
its own, are in `config_boot`; a queue of one makes every second change an overflow. *subtasks:* the races are
between one sub task and one writer; the second sub task keeps the queue and the
flags of another apart; what the one that asks `IsUpdated` observes is written by a task of higher priority too, so the race
inside `IsUpdated` happens; the sub task without
request flag may be queued as often as it is notified, and 8 is room for that.
*pump:* two pumps are the smallest pit in which a pump's timer ends another's
delay; delays of 1 to 3 give every order of expiries. *alarm_delay:* the parts are
2 ticks, so delays of 3 and 4 are a part with a remainder and two whole parts, and a stale timer that was not yet set (1 ms, a single
part) comes before either; one call of the other user, interrupted anywhere, is enough to cut a period short or
to keep SwTimerTask busy, and its effect on the controller, through queue and task, is that of its timeout. *alarm_control:* a log
of two is full with one alarm of each source. *pit:* one pump is enough for
sensor against switches and for foam; two are the smallest group
with alternation, three the smallest pit with groups of different size; four levels give dry,
one pump, two pumps and high. *interlock:* the times keep the order they have in
the code (`Delay + Minute <= Early < timeout`); a second message under way is what a
reminder meets; one input per tick can come at any moment of it, and the invariants were also
checked with two.

**Deadlock** is checked in all runs but those of SubTasks, Pump and AlarmDelay: their changes are bounded,
or the inputs at rest, and a kernel with an empty queue, or timers none of which runs, rightly do nothing.

**Fairness.** `flash_store`: a call that has begun goes on (`WF(Command)`): ConfigTask
is never suspended for ever. `config_save` (`TimerSpec`): ConfigTask runs when it can
(`WF(ConfigTask)`; all others block sooner or later), a notification that has begun
ends (`WF(Update)`), the timers expire. The log timer is assumed only as often as it is
needed, namely while the log's cache is modified: without that the cyclic timer, whose
`Doit` saves every modified block, would hide a missing signal for settings, by saving them
an hour later; the property is about the signal. Nothing is assumed about callers.
`subtasks_run`: `Main` initialises every sub task, the kernel task runs when it
can, and a writer inside `NotifyObservers` gets on: strongly fair, since a task of
lower priority is enabled only in the kernel's recurring 10 ms wait. `pump_pit`:
time passes and queued pumps run. `alarm_delay`: the clock and SwTimerTask run (it has
the second highest priority), and the controller runs strongly fairly, as timeouts preempt
it again and again. `pit`: LevelCtrl has its turn every 10 ms (strong, since the events task
preempts it), a sub task that is asked for runs, the start-up delay ends, an ordered
pump starts. `interlock`: both sub tasks run when asked to, timeouts are delivered, time passes,
`HandleSmsIn` comes to its end; no message has to arrive and no input has to stop, except as
the properties say.

What the properties say is in the comments that precede them in the modules; the
mutants in `PROJECT.json` say which mistake each of them catches.

## 4. The proofs

TLAPS proves these for every value of the constants; the runs above show the
same definitions on small instances.

| theorem | for all | under |
|---|---|---|
| `FlashControl_proofs!TypeCorrect`, `NothingIsLost` | lengths and values of data, number of retries, power failures | `MaxFaults <= RetryCnt \div 2` |
| `FlashControl_proofs!ItIsAStore` | the same: the detailed module implements the abstract one | the same |
| `FlashControl_proofs!ReturnsAreTrue` | the same | also `RetryCnt >= 3`, so that a try is left after the re-erase (the code has 5) |
| `SubTasks_proofs!TypeCorrect` | sets of sub tasks, data points, writers | |
| `SubTasks_proofs!RequestsAreQueued`, `NobodyThrice`, `ChangesArrive` | the same, and all they write | request flags in use; room for two entries of each sub task |
| `Pump_proofs!TypeCorrect`, `EveryDelayEnds` | numbers of pumps, delays, schedules | |
| `Pump_proofs!DisabledPumpsAreOff`, `RelaysAlwaysAgree`, `FaultsAreCleared` | numbers of pumps, inputs, schedules | |
| `Pump_proofs!EventsAreApart` | delays, orders of starts and stops of one or two pumps | `PlainPit`: start-stop-start is the longest delay, no pump is disabled, reconfigured or overruled by a digital input, the kernel is not a second late |
| `ConfigControl_proofs!TypeCorrect`, `NeverSleepsOnWork`, `AlarmAgreesWithErrors`, `LogSeriesAreInSync` | selections of subjects, queue sizes, numbers of changes and failures | |
| `ConfigControl_proofs!BootedBlocksStayErased` | the same, and any set of blocks per boot | |
| `ConfigControl_proofs!ChangesAreRemembered`, `PowerDownIsSafe` | the same | `[](Len(queue) < QueueSize)`: the queue always has room |
| `AlarmDelay_proofs!TypeCorrect`, `TimersAlwaysFit`, `TimeoutsAreOnTime` | numbers of timers, lengths of the parts, units, periods, interruptions of every call | |
| `AlarmDelay_proofs!ErrorsFitInputs` | the same | no more timers than the queue of SwTimerTask has room |
| `AlarmControl_proofs!TypeCorrect`, `LogFollowsErrors`, `ResetsAreComplete` | numbers of sources, sizes of the log, any order of errors, resets, reconfigurations and power failures | |
| `AlarmControl_proofs!RelaysFollowAlarms` | the same, numbers of relays, assignments | |
| `Pit_proofs!TypeCorrect`, `LimitsAreKept`, `HighLevelIsAnswered`, `DryPitsAreLeft`, `TurnsAreKept` | numbers of pumps, one or two groups, limits, levels, switches | `PitAssumption`: limits in the ranges that NoOfPumpsInGroupsCtrl keeps |
| `InterLock_proofs!TypeCorrect` | buffer sizes, times, numbers of inputs | |
| `InterLock_proofs!LocksAreReminded` | the same, and any state of the master at the start | |
| `InterLock_proofs!LocksAreTimed` | the same | |
| `InterLock_proofs!LocksLast` | the same | `TimesAssumption`: `Delay + Minute <= Early`, and timeouts in their range |

Constants are assumed to be what the named `ASSUME` of each module says.

**NothingIsLost.** `NothingLost` (reading returns the old or the new data) is not
inductive: it does not say why a step is safe. `IInv` adds where a save is:
`OldThere` (the other block is valid and holds `before`) until the new code is
complete, `NewThere` from then on, and in between `Kept`, one of both; and the
data programmed so far equals the buffer. The delicate step is `reErase`, at try
`RetryCnt \div 2`, which erases the write block: it is safe only if the old code
is still there. `Paid(try)` keeps the accounts: up to the
re-erase every failed try has cost a chip failure, unless a word of the write block is
`Stuck`, and then the new block never became complete and the old code was not
touched. Reaching the re-erase with the old code gone would therefore take more than
`RetryCnt \div 2` failures. With one failure more TLC finds the loss.

**ItIsAStore.** The mapping is `StoreValue`, `StoreSaving`, `StoreErasing`: what a boot would
read now, the data of the save in progress, and whether an erase is. Every command of
`SaveData` either keeps what is read or replaces it by the new data, and once the new data is
read no later command takes it back (`CommandCommits`), so a save commits once. That needs
`NoneAssumption`: no data is mistaken for an empty block.

**ReturnsAreTrue.** `IInv` alone does not say that a save with few faults ends well. `ReturnInv` adds
the budget from the other side: a failed try has cost a chip failure or met a word that was stuck before, and
after the re-erase no word is stuck unless the chip fails again (`StaysFree`). With at least one
try left after the re-erase, a save that returns failure has seen a chip failure. An erase
without one leaves no valid code, also when it runs before `Init` and finds both blocks valid.

**RequestsAreQueued, NobodyThrice.** `QueueInv` counts entries: at most two of each
sub task, at most one if its flag is clear or it has *slack* (not yet initialised,
or taken from the queue with its flag not yet cleared), none if both. The two come
from `InitSubTask`, which queues without looking at the flag. `TwiceIsBounded` turns
that into a length by the pigeonhole theorem, so the queue drops nothing.

**ChangesArrive.** `UpdateInv`: an unread change is *on its way*, in one of five
stages (its writer will notify; the sub task is queued and marked; the running sub
task will read it; it is marked and not yet initialised, and `InitSubTask` will
queue it; or its mark is `wiped`), and each step keeps it there or hands it on. Nothing is assumed of who
writes what: only `ResetUpdated` can wipe a mark, and the next notification takes it up again.

**EveryDelayEnds.** `DelayInv`: a pump with a timeout flag is queued
(`TimeOutQueued`), and every active delay has a running timer or a flag (`Ending`). The step that matters is `Configure`, which clears flags and
delays together; any other pump's timer is left alone.

**DisabledPumpsAreOff.** `OutputInv`: what a pump does not know, it is marked for
(`Knows`), a mark means it is queued, and the outputs of a pump that knows
itself to be off are off. It takes in all ways of disabling and removing, in any
order with the rest.

**EventsAreApart.** The timer of either pump ends a delay for both (finding 1), so that a start is apart from the last one needs
a reason why no old timer is left to end the new delay. `ApartInv` gives it for what a
pump's timers have left (`Left`: time, or 0 for a flag not yet seen). The pump that acted last has its own delay
running for at least what is missing of it, and the other has none that could end it (`LastRuns`): a start of one pump sets its
start-start and its reversal timer together, so the first never outlasts the second (`OwnFits`); a pump that turned
back while its own delay still runs makes every event wait until that is over (`Back`), and the delay of one that
turned later ends after it (`Turned`). `SameTick` is the case of equal delays,
where both timers may end in one tick and the order in which the pumps see them matters. The steps are first
reduced to what they do to this view (`Happens`, `Handles`, `Elapses`), then
shown to be such steps. Three pumps, a shorter reversal delay, a disabled pump, a digital input or a
late kernel each break it, as TLC shows (see 5): the hypotheses are not there for the prover.

**RelaysAlwaysAgree, FaultsAreCleared.** Both follow from what a pump that is neither queued
nor between `Configure` and `Operate` left behind in its last run: `RelayInv` says that its relays fit
what it sees now, `FaultInv` that its contactor alarm has the reset timed or flagged. Whatever disturbs
one of them, a configuration, a drive that is taken away, a timeout, queues the pump: the proof goes through
all of them.

**TimersAlwaysFit, TimeoutsAreOnTime.** A period is counted down in parts that embOS can time, and any
step of a call may be interrupted. `TimerInv` holds of every timer: `Fits` relates its record to how far the call on it
is (`op`), member by member: `CountFits`, `LastFits` and `PeriodFits` say what is already written for the new period,
and what callbacks may have done to it since. `AgeFits` is the sum: the
time run so far and what the clock has yet to do (`Left`) is at most the whole period (`Whole`),
and equal to it unless `cut`. Every step of a call has its lemma (`CountStepFits`, `LastStepFits`, `PeriodStepFits`, `GoFits`), and so have the
callbacks (`NextPartFits`, `LastPartFits`, `ExpiredFits`, `RepeatedFits`) and the tick. The step where the sum is
made is `RetriggerTimer`: the embOS timer starts with what the members say by then, which is the whole period if no callback took a
part of it (`GoesWhole`, on the lemma `Parts` on division).

**ErrorsFitInputs.** A timeout passes from the call that starts it to the timer, to the queue, and to the flag of
its controller, and the controller's answer depends on which it sees. `Coming` says that one of
these holds it; `FlagInv` and `FreshInv` tie the flags to the run that reads them. `mTimerStarted` may be stale, since
`WriteStarted` may come after the timeout: `StaleInv` says that the error then shows what the timer was for, so
that the controller, which starts no timer that says it runs, need not. `UseInv` says in which steps a timer is in use,
`StopInv` that one that is not wanted is stopped, and `PendInv` that what the run found
present is shown or coming. Whatever is not a step of the controller `LeavesAlone` its timers (`Background`).
A timeout must not be dropped on the way: `QueueInv` says that no timer is in the queue twice, because
time stands still until SwTimerTask has emptied it, so the queue has room (`DueHasRoom`, by the
pigeonhole theorem) if there are no more timers than `Room`. The code may have more timers than
that, so the condition is a real one.

**RelaysFollowAlarms.** `MarkInv`: what AlarmControl does not know of a source it is marked for.
`ListInv`: an alarm it knows is on the lists of its relays or was silenced. `HeldInv`: a
relay acknowledged by hand is held while it has to be. None of them depends on what the log
drops or keeps, so the loops over the log do not come into this proof.

**LogFollowsErrors, ResetsAreComplete.** `LogFitsErrors` is about moments of rest; `LogFits` is what the log
says at all times of the errors AlarmControl *knows* of (`vector`): no open element without its error,
no error twice, and none missing but of the sources that were pushed out. Each operation of the log keeps it:
`DepartedFits` and `PutFits` (together `EventFits`) for one event, `AfterEventsFits` for the
loop over the error sources, `KeptLogFits` for a pass that removes elements, which it may do only to departed ones. The two
loops are recursive functions on an interval; `Recursion` and `IntervalInduction` state for them, with sets in the
place of predicates, what a theorem with an operator parameter would say, and rest on the library's
theorem that a non-empty set of subsets of a finite set has a smallest one. At rest `MarkInv` makes `vector` the errors themselves.
`GoneInv` is why one reset is not enough: a source that has gone is out of the log, or its departure is known or marked
and a reset marked, or the timer of the second reset still runs, which does not expire before the
notification that was under way is complete.

**LimitsAreKept, HighLevelIsAnswered, DryPitsAreLeft, TurnsAreKept.** Half of it is arithmetic of one run
of PumpCtrl. "The first k pumps of S" by any order has k pumps, or all of S, or none (`FirstByCount`, by
a bijection between the pumps of S and their ranks); from that each stage has its lemma: what alternation goes on with
and fills up (`AlternatedParts`), what the reduction leaves (`ReducedParts`), what anti-seizing may add
(`AntiSeizingFits`), one turn of the loop (`TurnFits`), the groups apart (`ApartFits`), and the totals (`TotalFits`).
They compose into `ResultFits`, `ResultAtHighLevel` and `ResultKeepsTurn`, which hold in any typed state. A pump that
resumes may belong to the other group, since the code does not ask: the lemmas hold all the same. The other half is `PitInv`:
`RefInv` follows the reference through a pass of LevelCtrl, with the pumps already steered as loop variable;
`HighInv` and `DryInv` say what the last run of PumpCtrl made of it; `DailyInv` that DailyEmptyingCtrl, unless it is asked
for, has served the level under the lowest stop level; and `NothingIsMissed` that
no step changes what PumpCtrl reads without asking it to run. `FoamInv`: before the sensor is
ready nothing drains foam, without which `FoamNeedsSensor` is not inductive.

**NeverSleepsOnWork.** One event bit stands for many reasons, and ConfigTask clears it
before it looks at them. For each kind of work there is a conjunct (`QueueInv`, `BootInv`,
`AlarmInv`, `SavedInv`) that says: the bit is set, or the caller in `Update` has yet to set it,
or ConfigTask has yet to come, in this pass, to the line that takes up such work. The last
case is a set of labels of `pc` per kind, so the proof is the order of the lines in `Run`
and `Doit`, checked against every caller at every label.

**ChangesAreRemembered.** `FlagInv` keeps the marks of the blocks, and `Remembered` follows
each subject: its cache is equal, or it is queued, or in the hands of its caller or of
ConfigTask. The queue needs room because `Update` drops an entry silently if there is none;
`config_boot`, whose queue is one entry long, is where this happens.

**PowerDownIsSafe.** `KeptInv` follows a value that power down owes: queued, then in the
cache of a modified block, then in flash. What is still queued has the last pass to come, what is
in the cache the save of its block in this pass (`Awaits`). There may be no last pass: then the
pass before it, or the load at power-on, has to have left nothing to do (`LoadedInv`, `LogInv`).

**BootedBlocksStayErased, AlarmAgreesWithErrors, LogSeriesAreInSync.** `BootedInv`: between a boot and the
restart ConfigTask passes no line at which it saves, unless power goes down. `ShownInv`, with `StartInv` for
the first pass, relates the alarm, the error flags and the line ConfigTask is at.
`SeriesInv`: a log series that is not in flash has its block marked, and ConfigTask is at the
save of the first block, or the second is still announced in `mNextLogBlockToSave`.

**LocksLast.** That the other pit is locked says nothing of the time. `Wait` is the time until
the next message: until the next reminder is sent and has taken the longest it may,
or until the first one under way arrives at the latest. `MasterInv` says that a reminder is timed
or about to be sent, `RecallInv` that the timer is short enough for every timeout in range, and
`HoldInv` that what holds the lock, be it the timer, the time set but not yet loaded, or
the time of a message, is longer than `Wait`. Every step either lets both run down together
or begins both anew; the assumption is what makes a new one long enough.

**Only model-checked.** Liveness (`CallsEnd`, `ChangesReachFlash`, `PowerDownCompletes`, `UpdateIsSeen`, `DoesAsAsked`,
`ErrorSettles`, `HighLevelIsPumped`, `LockEnds`): fairness and ENABLED are out of the prover's reach. Every
invariant and action property of a passing run is proved. The type invariants that are proved
for FlashControl, ConfigControl, SubTasks, Pump, InterLock and AlarmControl are not repeated in the runs.

## 5. Findings and observations

The two findings are in `PROJECT.json` with their run:

1. A pump's timer ends a start-stop-start delay that another pump began (`pump_reversal`).
2. A full alarm log does not drop warnings first, since it compares the type of an element
   with a constant of another enumeration (`alarm_full`).

Observations made while modelling, some with a scratch run, none claimed as a finding:

*Flash.* `EraseFlashBlock` does not clear the valid code before it erases: a power cut
can leave a damaged image that reads as valid (`DAMAGED` in `NonVolatileStore`). The error
returns of the driver (`c1648.c:131-138,221-224`) leave its semaphore taken.

*Config.* A save reported as failed may have stored the new data (the power failed or the chip
failed after the commit), while the error text says the previous data is kept. A power down just
after the log test of `Doit` (`:760`) loses the log. The alarm log that waits for its delay
timer is not saved at power down, by design (`:753`). A failed save reloads the old image over newer values in the cache and clears
`mModified` (`FlashBlock.cpp:863`). A boot's failed save raises no alarm until the next event.
The `Doit` at `:229` does not test `mOkToSaveFlag`, against the comment at `:483`: after a
factory boot, power down writes again (hence `~powerDown` in `BootKeepsErased`). A boot that
is followed by power down inside `Doit` is never executed. `LogSeriesCtrl`'s
request to save (`LogSeriesCtrl.cpp:359`) can be overwritten at `:798,808`. `size()` of the queue is
read without its semaphore (`:791`).

*Kernel.* `IsUpdated` drops a mark that is set between its read and its write
(`SubjectPtr.h:293-297`), when a task of higher priority notifies, against the comment at `:264-266`. Such pairs exist:
`StartPumpCnt.cpp:127` (priority 10) asks `IsUpdated` of what Pump (180) writes,
`AlarmSlipPoint.cpp:177` in the display task does the like. The sub task runs all the same, but does not look.
`NoUpdateLost` and `UpdateIsSeen` name this as their one exception (`wiped`). `TaskCtrlEvent.h:98-103` gives the queue a size that was measured (202 of 250);
with sub tasks that have no request flag no bound can be given.

*Pump.* `EventsApart` holds for two pumps when start-stop-start is the longest
delay (`EventsAreApart`). With three pumps, with a shorter one, when a pump is disabled and enabled again, after a
start by a digital input, or when the kernel is more than a second late it fails, for the reason of finding 1. A change of the number of
pumps sets a running pump to stopped without a stop event (`:408`). A pump that is disabled
with its contactor alarm pending keeps the alarm, since the timeout is looked at only
after the skip (`:461-464,710-713`). A timeout flag set between the two steps clears a
delay begun in the second. `Pump_test` expects a reinstalled pump to be started, but uninstalling
clears `enable` (`:399`).

*Timers and alarm delays.* A callback between the reload of a counter (`SwTimer.cpp:162`, `:177`, `:182`, `:208-229`) and
`OS_RetriggerTimer` (`:184`, `:235`) counts the fresh counter down, and the timeout of the new period is early by a part: 1, 30 or
32 s. It needs a timer that is retriggered or set while it runs, in the ms in which one of its parts ends. The test at `:233` and
the retrigger at `:235` are not one step either: a timer that expires between them is set going
though its user saw the old timeout. `WriteStarted` (`:185`) may leave `mTimerStarted` TRUE for a timer that has expired; a
`SetSwTimerPeriod` that repeats (`:233`) makes a stopped timer run with `mTimerStarted` FALSE.
The constructor with a period of up to 32000 ms leaves `mMsPrescaler`
unset, so that `GetSwTimerValue` of such a timer, created and only started, says anything (it is left out of `ValueIsRemaining`).
More than 62 timers use a queue of 50. `StartSwTimer` of an expired timer does nothing
until `RetriggerSwTimer`. A period that is a multiple of 32000 ms ends with an embOS period of 0, outside what
embOS allows: `TimeoutOnTime` states the lateness (`Extra`), the length `ZeroPeriod` is a constant.
A timer that expires between `CheckErrorTimers` and `StopSwTimer` leaves its flag, which raises
the next error without delay, against the comment at `AlarmDelay.cpp:361-364`.

*Alarms.* An alarm that found the log full is never logged later, as the update has taken note of it
(`AlarmControl.cpp:253`). Alarm and back to warning in one update leaves AlarmPresent at alarm
without an element (`:255-263`). A reset while a warning is present acknowledges the element
of the alarm that was but leaves AlarmPresent. An alarm that flickers in a source of lower priority
between two notifications leaves its relay off (hence `Outside` in `RelayOnForAlarm`). An alarm that came
and went while its pump was disabled appears as AlarmPresent when the pump is enabled, without an
element. `ResetAlarmLog(AUTOMATIC)` marks the log as changed in every pass while a warning
that has gone is in it.

*Pit.* `ShiftRefs` computes with unsigned numbers: for 3, 5 and 6 pumps it is no rotation
(`PumpCtrl.cpp:1094`, modelled as it is). The total maximum may leave a group under its minimum
(`:443`, see `WithinLimits`), and as it takes the highest numbers it may stop a running pump of the second
group for one that has just been chosen (see `NoNeedlessChange`). A run of PumpCtrl between the end of a temporary stop and the start
of the pump may alternate to another one, against the comment at `:255`. `CheckTempStop` does
not ask whether its pump is in the first group. `AdvancedFlowCtrl.cpp:751-753` says that
SetQuality does not notify, and it does (`DataPoint.h:107-110`). Daily emptying does not look at the
quality of the level: once the sensor has failed it goes on until its longest time, where foam draining stops; a digital input that is
triggered again and again prolongs it. A request that is due in the pass of the time-out is lost.
StartPumpCnt misses starts shorter than its second. The start-up delay wraps above 131 s (`:825`).

*Interlock.* `mInterLockMasterState` is never given a value: with memory that happens to be zero it
is ILMS_UNLOCKED, otherwise the master may be dead until it is switched on again. The conditions at
`InterLockMasterCtrl.cpp:123` are joined by `||`, so marks of later settings stay and cause
another message after the next run. A lock is given its whole time again at each power on. A
digital input sets the time to 24 hours for good, and while locks are ignored its mark stays
and acts when they no longer are. A new telephone number does not release the pit of
the old one. Two masters may lock one pit, and AUTO of one releases it for both. The branch of
the least recall time is never used in the range of the timeouts.

## 6. What is not modelled and why

`PROJECT.json` lists every component with its reason. In short: floating-point control
loops and estimates (VfdCtrl, FlowAndVolume, counters) are out of TLC's reach; drivers,
GENIbus tables, display and web are I/O and mapping; vendored code is not the program's
own; `Subscribe` happens only before the tasks start.

Within the modelled components: units and texts of alarms, bells, SMS and LED of AlarmControl; the
level alarms and the float-only mode of LevelCtrl; application modes other than automatic in
PumpCtrl; the sender of SmsCtrl, whose partner is a modem task outside `src/`. FloatSwitchCtrl has
the shape of LevelCtrl without a sensor; AntiBlockingCtrl and MixerCtrl are sequential state machines that
nobody else writes to.

## 7. What is left

The order so far is that in which a mistake would hurt: lost configuration (FlashControl, FlashBlock,
ConfigControl), lost events (SubTasks), the wrong pump (Pump, then Pit), missed alarms (SwTimer, AlarmDelay,
AlarmControl), and pits that lock each other (InterLock).

Open, in this order: a composition of `Pump` into `Pit`; FloatSwitchCtrl in the place of LevelCtrl.
