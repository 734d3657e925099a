-------------------------- MODULE RoutineScheduler -------------------------
(***************************************************************************)
(* The scheduler of one routine: the slot it plans, runs it starts at a    *)
(* slot, late, or when asked, their end (told by the run's record and by   *)
(* its subagent), the notification, the time limit, being switched off and *)
(* on, and the stop and the crash of the process. What it knows is saved   *)
(* in two files, the routines' state and the task records, each on its own *)
(* and some time after the change.                                         *)
(*                                                                         *)
(* Time is counted in looks of the scheduler (TICK_MS). A run is done by a *)
(* subagent or triaged by the orchestrator; both are seen from outside.    *)
(***************************************************************************)
EXTENDS Naturals, FiniteSets

CONSTANTS
    Schedules,     \* the schedules the file may have
    Uses,          \* how a run starts: "subagent", "triage", "unavailable"
    Endings,       \* how turns may end, of "done", "failed", "waiting_user"
    MaxWork,       \* MAX_ROUTINE_RUN_MS
    ExtraRuns,     \* EXTRA_RUNS_PER_DAY
    MaxTime,       \* bound on the clock
    MaxRuns,       \* bound on runs
    MaxSleep,      \* the longest sleep of the machine
    MaxStops, MaxCrashes, MaxSwitches, \* bounds on stops, crashes and switches
    Nil

VARIABLES
    now,
    schedule,    \* the file: a period, or Nil while paused or invalid
    state,       \* the routine's state in memory
    savedState,  \* and on disk
    record,      \* the runs' badges in memory
    savedRecord, \* and on disk
    live,        \* the scheduler's map of runs
    agent,       \* who is on each run: "none", "triage", "working", "closing"
    begun,       \* how many runs there are
    mode,        \* "starting", "running", "stopped"
    enabled,     \* the agent is switched on
    wake,        \* when the timer goes off, Nil while the scheduler isn't active
    interrupted, resuming, \* what a restart found and is picking up
    notices,     \* how often each run's end was notified
    worked,      \* how long each run worked in its first turn, since it was adopted
    lastSlot,    \* the last slot a run was started for; Nil once one had two,
                 \* or had passed while the agent was off
    onSince,     \* when it was last switched on
    stops, crashes, switches

books == <<state, record, live, notices>>
savedFiles == <<savedState, savedRecord>>
routineVars ==
    <<now, schedule, books, savedFiles, agent, begun, mode, enabled, wake, interrupted, resuming,
      worked, lastSlot, onSince, stops, crashes, switches>>

RunIds == 1 .. MaxRuns
Finished == {"done", "failed", "cancelled", "ignored", "waiting_user"}
Resumable == {"working", "waiting_approval"}
Active == Resumable \cup {"triaging"}
Statuses == {"none"} \cup Active \cup Finished
Workers == {"none", "triage", "working", "closing"}

LastRun == [run : RunIds, status : Statuses, finished : BOOLEAN, notified : BOOLEAN]
LiveRun == [finished : BOOLEAN, timedOut : BOOLEAN, since : Nat, paused : Nat,
            pausedSince : Nat \cup {Nil}]

ASSUME RoutinesAssumption ==
    /\ Schedules \subseteq Nat \ {0}
    /\ Uses \subseteq {"subagent", "triage", "unavailable"}
    /\ Endings \subseteq Finished \ {"cancelled"}
    /\ {MaxWork, ExtraRuns, MaxRuns, MaxSleep} \subseteq Nat
    /\ Nil \notin Nat \cup LastRun \cup LiveRun

(* The first slot after a time.                                            *)
NextRunAfter(period, t) == period * (t \div period + 1)

Blank == [key |-> Nil, next |-> Nil, last |-> Nil, extra |-> 0]
Fresh == [finished |-> FALSE, timedOut |-> FALSE, since |-> now, paused |-> 0, pausedSince |-> Nil]

(* What changes without an await in between.                               *)
Books == [state |-> state, record |-> record, live |-> live, notices |-> notices]
Keep(b) == state' = b.state /\ record' = b.record /\ live' = b.live /\ notices' = b.notices

IsWorking(r) == agent[r] = "working"

(* The first turn of a run in the scheduler's map hasn't ended.            *)
Going(b, r) == b.live[r] # Nil /\ ~b.live[r].finished
IsRunning(b) == \E r \in RunIds : Going(b, r)

-----------------------------------------------------------------------------

(* The end of a turn: of the latest run, it is recorded every time and     *)
(* notified once.                                                          *)
Finalize(b, r, s) ==
    LET ended == IF b.live[r] = Nil THEN b ELSE [b EXCEPT !.live[r].finished = TRUE]
        last == b.state.last
    IN IF last = Nil \/ last.run # r THEN ended
       ELSE [ended EXCEPT
               !.state.last = [run |-> r, status |-> s, finished |-> TRUE, notified |-> TRUE],
               !.notices[r] = IF ~last.notified /\ s \notin {"cancelled", "ignored"}
                              THEN @ + 1 ELSE @]

(* Time spent waiting for approval.                                        *)
Paused(b, r, s) ==
    IF b.live[r] = Nil THEN b
    ELSE IF s = "waiting_approval"
         THEN [b EXCEPT !.live[r].pausedSince = IF @ = Nil THEN now ELSE @]
         ELSE IF b.live[r].pausedSince = Nil THEN b
         ELSE [b EXCEPT !.live[r].paused = @ + (now - b.live[r].pausedSince),
                        !.live[r].pausedSince = Nil]

(* A record's change. Of a run whose subagent still works, the subagent    *)
(* tells the end; of one stopped for its time, its failure does.           *)
OnRecord(b, r, s, working) ==
    IF s \notin Finished \/ working THEN Paused(b, r, s)
    ELSE IF b.live[r] # Nil /\ b.live[r].timedOut /\ s = "cancelled" THEN Paused(b, r, s)
    ELSE Finalize(Paused(b, r, s), r, s)

SetStatus(b, r, s, working) ==
    IF b.record[r] = s THEN b ELSE OnRecord([b EXCEPT !.record[r] = s], r, s, working)

-----------------------------------------------------------------------------

RoutinesInit ==
    /\ now = 0
    /\ schedule \in Schedules
    /\ state = Blank /\ savedState = Blank
    /\ record = [r \in RunIds |-> "none"] /\ savedRecord = record
    /\ live = [r \in RunIds |-> Nil]
    /\ agent = [r \in RunIds |-> "none"] /\ begun = 0
    /\ mode = "starting" /\ enabled \in BOOLEAN /\ wake = Nil
    /\ interrupted = {} /\ resuming = Nil
    /\ notices = [r \in RunIds |-> 0] /\ worked = [r \in RunIds |-> 0]
    /\ lastSlot = 0 /\ onSince = 0
    /\ stops = 0 /\ crashes = 0 /\ switches = 0

(* A run's place in the map and in the state.                              *)
Entered(b, r, extra) ==
    [b EXCEPT !.live[r] = Fresh,
              !.state.last = [run |-> r, status |-> "triaging",
                              finished |-> FALSE, notified |-> FALSE],
              !.state.extra = IF extra THEN @ + 1 ELSE @]

(* Whoever does it takes it, unless none of what it uses is available here.*)
Starts(b, use, extra) ==
    LET r == begun + 1
        status == CASE use = "triage" -> "triaging"
                    [] use = "subagent" -> "working"
                    [] use = "unavailable" -> "failed"
        worker == CASE use = "triage" -> "triage"
                    [] use = "subagent" -> "working"
                    [] use = "unavailable" -> "none"
    IN
    /\ Keep(SetStatus(Entered(b, r, extra), r, status, FALSE))
    /\ begun' = r
    /\ agent' = [agent EXCEPT ![r] = worker]
    /\ worked' = [worked EXCEPT ![r] = 0]

WorkingTime(run, t) ==
    t - run.since - run.paused - (IF run.pausedSince = Nil THEN 0 ELSE t - run.pausedSince)

Overdue(b) ==
    {r \in RunIds : Going(b, r) /\ ~b.live[r].timedOut /\ WorkingTime(b.live[r], now) > MaxWork}

(* The run is marked and its work closed; the failure is set once it is.   *)
Enforced(b, late) ==
    [b EXCEPT !.live =
        [r \in RunIds |-> IF r \in late THEN [@[r] EXCEPT !.timedOut = TRUE] ELSE @[r]]]

(* The next slot of the file's schedule.                                   *)
Planned(b, file) ==
    IF file = Nil THEN [b EXCEPT !.state.key = Nil, !.state.next = Nil]
    ELSE [b EXCEPT !.state.key = file, !.state.next = NextRunAfter(file, now)]

Due(b, file) ==
    file # Nil /\ b.state.key = file /\ b.state.next # Nil /\ b.state.next <= now

Armed(b) ==
    IF b.state.next # Nil /\ b.state.next < now + 1 THEN b.state.next ELSE now + 1

(* Slip: a slot starts a run though the previous one is still going.       *)
BlockedNever(b) == FALSE

Blocked(b) == IsRunning(b)

(* A look that starts nothing: what went over its time is closed, and the  *)
(* next look planned.                                                      *)
Looked(b) ==
    LET late == Overdue(b) IN
    /\ Keep(Enforced(b, late))
    /\ agent' = [r \in RunIds |-> IF r \in late THEN "closing" ELSE agent[r]]
    /\ wake' = Armed(b)
    /\ UNCHANGED <<begun, worked, lastSlot>>

(* A slot that came starts a run, after the next one is planned.           *)
SlotStarts(b, file) ==
    /\ begun < MaxRuns
    /\ lastSlot' = IF lastSlot # Nil /\ b.state.next > lastSlot /\ b.state.next > onSince
                   THEN b.state.next ELSE Nil
    /\ \E use \in Uses : Starts(Planned(b, file), use, FALSE)
    /\ wake' = Armed(Planned(b, file))

(* One look: of the schedule, the time limits, and when to look again. A   *)
(* slot is skipped while the previous run is going.                        *)
Tick(b, file) ==
    \/ ~Due(b, file) /\ Looked(IF file = Nil \/ b.state.key # file \/ b.state.next = Nil
                              THEN Planned(b, file) ELSE b)
    \/ Due(b, file) /\ Blocked(b) /\ Looked(Planned(b, file))
    \/ Due(b, file) /\ ~Blocked(b) /\ SlotStarts(b, file)

Unmoved == UNCHANGED <<now, savedFiles, interrupted, resuming, stops, crashes>>

TimerFires ==
    /\ wake # Nil /\ wake <= now
    /\ Tick(Books, schedule)
    /\ UNCHANGED <<schedule, mode, enabled, onSince, switches>> /\ Unmoved

(* The file changes, or is paused; the catalog makes the scheduler look.   *)
EditFile(file) ==
    /\ schedule # file /\ switches < MaxSwitches
    /\ schedule' = file
    /\ switches' = switches + 1
    /\ \/ wake # Nil /\ Tick(Books, file)
       \/ wake = Nil /\ UNCHANGED <<books, agent, begun, worked, lastSlot, wake>>
    /\ UNCHANGED <<mode, enabled, onSince>> /\ Unmoved

SwitchOff ==
    /\ mode # "stopped" /\ enabled /\ switches < MaxSwitches
    /\ switches' = switches + 1
    /\ enabled' = FALSE /\ wake' = Nil
    /\ UNCHANGED <<schedule, books, agent, begun, worked, lastSlot, mode, onSince>> /\ Unmoved

Rescheduled(b) == IF schedule = Nil THEN b ELSE Planned(b, schedule)

(* The user switches it on: it starts again from the next slot.            *)
SwitchOn ==
    /\ mode # "stopped" /\ ~enabled
    /\ enabled' = TRUE /\ onSince' = now
    /\ Tick(Rescheduled(Books), schedule)
    /\ UNCHANGED <<schedule, mode, switches>> /\ Unmoved

RunNow ==
    /\ mode # "stopped" /\ enabled /\ begun < MaxRuns
    /\ ~IsRunning(Books) /\ state.extra < ExtraRuns
    /\ \E use \in Uses : Starts(Books, use, TRUE)
    /\ UNCHANGED <<schedule, mode, enabled, wake, lastSlot, onSince, switches>> /\ Unmoved

-----------------------------------------------------------------------------

Elsewhere ==
    UNCHANGED <<schedule, begun, mode, enabled, wake, worked, lastSlot, onSince, switches>> /\ Unmoved

(* The orchestrator gives the run to a subagent or answers it itself.      *)
Triaged(r) ==
    /\ agent[r] = "triage"
    /\ \/ /\ agent' = [agent EXCEPT ![r] = "working"]
          /\ Keep(SetStatus(Books, r, "working", TRUE))
       \/ /\ agent' = [agent EXCEPT ![r] = "none"]
          /\ \E s \in Endings : Keep(SetStatus(Books, r, s, FALSE))
    /\ Elsewhere

(* The subagent waits for approval, goes on, or reports while its turn     *)
(* still goes.                                                             *)
Reports(r, s) ==
    /\ agent[r] = "working" /\ record[r] # s
    /\ Keep(SetStatus(Books, r, s, TRUE))
    /\ UNCHANGED agent /\ Elsewhere

(* The turn ends: the record first, the subagent's report after it.        *)
TurnEnds(r, s) ==
    /\ agent[r] = "working"
    /\ s = record[r] \/ record[r] \notin Finished
    /\ agent' = [agent EXCEPT ![r] = "none"]
    /\ Keep(Finalize(SetStatus(Books, r, s, TRUE), r, s))
    /\ Elsewhere

(* A user's reply or Retry puts a run that ended to work again.            *)
GoesOn(r) ==
    /\ mode # "stopped" /\ agent[r] = "none" /\ record[r] \in Finished
    /\ agent' = [agent EXCEPT ![r] = "working"]
    /\ Keep(SetStatus(Books, r, "working", TRUE))
    /\ Elsewhere

(* The user cancels a run that goes, or that a restart is to pick up: the  *)
(* session closes, then the record says so.                                *)
UserCancels(r) ==
    /\ mode # "stopped"
    /\ agent[r] \in {"working", "triage"} \/ record[r] \in Active
    /\ agent' = [agent EXCEPT ![r] = IF @ = "closing" THEN @ ELSE "none"]
    /\ Keep(SetStatus(Books, r, "cancelled", FALSE))
    /\ Elsewhere

(* What went over its time has closed: cancelled, then failed.             *)
TimedOut(r) ==
    /\ agent[r] = "closing"
    /\ agent' = [agent EXCEPT ![r] = "none"]
    /\ Keep(SetStatus(SetStatus(Books, r, "cancelled", FALSE), r, "failed", FALSE))
    /\ Elsewhere

-----------------------------------------------------------------------------

WorksOn(r) == IsWorking(r) /\ record[r] # "waiting_approval" /\ Going(Books, r)

Pass(n) ==
    /\ now + n <= MaxTime
    /\ now' = now + n
    /\ worked' = [r \in RunIds |-> IF WorksOn(r) THEN worked[r] + n ELSE worked[r]]
    /\ UNCHANGED <<schedule, books, savedFiles, agent, begun, mode, enabled, wake, interrupted,
                   resuming, lastSlot, onSince, stops, crashes, switches>>

(* Timers go off before the clock moves on, unless the machine sleeps.     *)
Advance == ~(wake # Nil /\ wake <= now) /\ Pass(1)
Sleep == \E n \in 2 .. MaxSleep : Pass(n)

SaveState == savedState' = state /\ savedState # state
SaveRecords == savedRecord' = record /\ savedRecord # record

(* Told apart from no save only while a crash may still come.              *)
SaveFiles ==
    /\ mode # "stopped" /\ crashes < MaxCrashes
    /\ \/ SaveState /\ UNCHANGED savedRecord
       \/ SaveRecords /\ UNCHANGED savedState
    /\ UNCHANGED <<now, schedule, books, agent, begun, mode, enabled, wake, interrupted, resuming,
                   worked, lastSlot, onSince, stops, crashes, switches>>

(* A session that is to go on with a run isn't opened any more.            *)
GivenUp(r) == SetStatus(SetStatus(Books, r, "working", FALSE), r, "failed", FALSE)

(* A stop closes the subagents, whose records keep their status, and saves *)
(* both files; a run whose journal is read by then is given up.            *)
ProcessStops ==
    /\ mode # "stopped" /\ stops < MaxStops
    /\ stops' = stops + 1
    /\ mode' = "stopped" /\ wake' = Nil
    /\ agent' = [r \in RunIds |-> "none"]
    /\ \/ UNCHANGED books
       \/ resuming # Nil /\ Keep(GivenUp(resuming))
    /\ savedState' = state' /\ savedRecord' = record'
    /\ interrupted' = {} /\ resuming' = Nil
    /\ UNCHANGED <<now, schedule, begun, enabled, worked, lastSlot, onSince, crashes, switches>>

(* Runs that were mid-triage failed; the latest run's record may have      *)
(* ended without its state.                                                *)
Reconciled(b) ==
    LET midTriage == {r \in RunIds : b.record[r] = "triaging"}
        failed == [b EXCEPT !.record = [r \in RunIds |-> IF r \in midTriage THEN "failed" ELSE @[r]]]
        last == b.state.last
        badge == failed.record[last.run]
    IN IF last # Nil /\ (last.run \in midTriage \/ (badge \in Finished /\ badge # last.status))
       THEN Finalize(failed, last.run, badge) ELSE failed

Loaded == [state |-> savedState, record |-> savedRecord, live |-> [r \in RunIds |-> Nil],
           notices |-> notices]

Restarts ==
    /\ Keep(Reconciled(Loaded))
    /\ agent' = [r \in RunIds |-> "none"]
    /\ mode' = "starting" /\ wake' = Nil
    /\ interrupted' = {r \in RunIds : savedRecord[r] \in Resumable}
    /\ resuming' = Nil
    /\ UNCHANGED <<now, schedule, savedFiles, begun, enabled, worked, lastSlot, onSince, switches>>

ProcessRestarts == mode = "stopped" /\ Restarts /\ UNCHANGED <<stops, crashes>>

ProcessCrashes ==
    /\ mode # "stopped" /\ crashes < MaxCrashes
    /\ crashes' = crashes + 1
    /\ Restarts /\ UNCHANGED stops

Adoptable(r) == state.last # Nil /\ state.last.run = r /\ ~state.last.finished

(* A run is adopted if it is the latest, unfinished one, then its journal  *)
(* is read; the action it was stopped in may forbid picking it up.         *)
ResumeBegin(r) ==
    /\ mode = "starting" /\ resuming = Nil /\ r \in interrupted
    /\ interrupted' = interrupted \ {r}
    /\ \/ record[r] \notin Resumable /\ UNCHANGED <<books, resuming>>
       \/ /\ record[r] \in Resumable
          /\ Keep(SetStatus(Books, r, "failed", IsWorking(r)))
          /\ UNCHANGED resuming
       \/ /\ record[r] \in Resumable /\ Adoptable(r)
          /\ Keep([Books EXCEPT !.live[r] = Fresh])
          /\ resuming' = r
    /\ worked' = [worked EXCEPT ![r] = 0]
    /\ UNCHANGED <<now, schedule, savedFiles, agent, begun, mode, enabled, wake, lastSlot, onSince,
                   stops, crashes, switches>>

(* The journal is read: a session goes on with the run, unless another has *)
(* begun. What is over its time by then has closed at once.                *)
ResumeEnd ==
    /\ mode = "starting" /\ resuming # Nil /\ agent[resuming] # "closing"
    /\ resuming' = Nil
    /\ \/ /\ IsWorking(resuming)
          /\ Keep(SetStatus(SetStatus(Books, resuming, "working", TRUE), resuming, "failed", TRUE))
          /\ UNCHANGED agent
       \/ /\ ~IsWorking(resuming)
          /\ Keep(SetStatus(Books, resuming, "working", FALSE))
          /\ agent' = [agent EXCEPT ![resuming] = "working"]
    /\ UNCHANGED <<now, schedule, savedFiles, begun, mode, enabled, wake, interrupted, worked, lastSlot,
                   onSince, stops, crashes, switches>>

(* Then it schedules, missed slots included, if the agent is on.           *)
StartEnds ==
    /\ mode = "starting" /\ interrupted = {} /\ resuming = Nil
    /\ mode' = "running"
    /\ \/ enabled /\ Tick(Books, schedule)
       \/ ~enabled /\ UNCHANGED <<books, agent, begun, worked, lastSlot, wake>>
    /\ UNCHANGED <<schedule, enabled, onSince, switches>> /\ Unmoved

RoutinesNext ==
    \/ TimerFires \/ SwitchOff \/ SwitchOn \/ RunNow
    \/ \E file \in Schedules \cup {Nil} : EditFile(file)
    \/ \E r \in 1 .. begun :
         \/ Triaged(r) \/ GoesOn(r) \/ UserCancels(r) \/ TimedOut(r)
         \/ \E s \in Resumable \cup Endings : Reports(r, s)
         \/ \E s \in Endings : TurnEnds(r, s)
         \/ ResumeBegin(r)
    \/ ResumeEnd \/ StartEnds
    \/ Advance \/ Sleep \/ SaveFiles \/ ProcessStops \/ ProcessRestarts \/ ProcessCrashes

RoutinesSpec == RoutinesInit /\ [][RoutinesNext]_routineVars

-----------------------------------------------------------------------------

RoutineStates ==
    [key : Nat \cup {Nil}, next : Nat \cup {Nil}, last : LastRun \cup {Nil}, extra : Nat]

(* The type of the scheduler's state; a slot is planned for a schedule, and*)
(* a routine runs no more often than a day's extra runs allow.             *)
RoutinesTypeOK ==
    /\ now \in Nat /\ schedule \in Schedules \cup {Nil}
    /\ {state, savedState} \subseteq RoutineStates
    /\ {record, savedRecord} \subseteq [RunIds -> Statuses]
    /\ live \in [RunIds -> LiveRun \cup {Nil}]
    /\ agent \in [RunIds -> Workers]
    /\ begun \in 0 .. MaxRuns
    /\ mode \in {"starting", "running", "stopped"} /\ enabled \in BOOLEAN
    /\ wake \in Nat \cup {Nil}
    /\ interrupted \subseteq RunIds /\ resuming \in RunIds \cup {Nil}
    /\ {notices, worked} \subseteq [RunIds -> Nat]
    /\ lastSlot \in Nat \cup {Nil} /\ onSince \in Nat
    /\ {stops, crashes, switches} \subseteq Nat

FirstTurn(r) == agent[r] \in {"triage", "working"} /\ Going(Books, r)

(* "A routine never has two runs at once": two whose first turn goes.      *)
NeverTwoRuns == \A r, q \in RunIds : FirstTurn(r) /\ FirstTurn(q) => r = q

(* "routine.notification goes out at most once per run": unless a crash    *)
(* came between the saves of the two files.                                *)
NotifiedOnce == crashes = 0 => \A r \in RunIds : notices[r] <= 1

Ended(r) == record[r] \in Finished /\ agent[r] = "none"
TimedOutOnce(r) == live[r] # Nil /\ live[r].timedOut

(* The end of the latest run is in the routine's state, with how it ended  *)
(* (so the next run is told), whoever told it first; of a run put to work  *)
(* again after its time limit, at least that it ended.                     *)
EndIsRecorded ==
    LET last == state.last IN
    mode # "stopped" /\ last # Nil /\ Ended(last.run)
      => last.finished /\ (last.status = record[last.run] \/ TimedOutOnce(last.run))

(* A run of which nobody is in charge any more has ended for the scheduler,*)
(* so that the next slot isn't skipped for it.                             *)
SlotIsFree == mode = "running" => \A r \in RunIds : Going(Books, r) => agent[r] # "none"

(* "A run stops after 15 minutes of working time": an active scheduler     *)
(* looks again within a tick, and once it has looked no first turn has     *)
(* worked longer.                                                          *)
WorkIsLimited ==
    wake # Nil =>
      /\ wake <= now + 1
      /\ wake > now => \A r \in RunIds : FirstTurn(r) => worked[r] <= MaxWork

(* "A slot ... runs once", and "switching the agent back on isn't missing  *)
(* anything": none starts a second run or, having passed while the agent   *)
(* was off, a first one, but for what a crash forgot.                      *)
SlotRunsOnce == crashes = 0 => lastSlot # Nil

(* The routines: never two runs of one routine, each end recorded and      *)
(* notified once, a slot that frees up, work within the limit, and a slot  *)
(* that runs once across restarts, unless it passed while it was off.      *)
RoutinesRunOnce ==
    /\ RoutinesTypeOK /\ NeverTwoRuns /\ NotifiedOnce /\ EndIsRecorded /\ SlotIsFree
    /\ WorkIsLimited /\ SlotRunsOnce

=============================================================================
