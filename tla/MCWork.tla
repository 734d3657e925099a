------------------------------- MODULE MCWork -------------------------------
(***************************************************************************)
(* The work on tasks, for TLC: triage, the watched notes, the subagents,    *)
(* the approvals and the records of tool calls. Each behaviour moves the    *)
(* variables of one part, in one of its instances, and leaves the others    *)
(* as they start.                                                           *)
(***************************************************************************)
EXTENDS ToolLedger, Sequences, FiniteSets, TLC

CONSTANTS
    Parts,   \* the parts whose behaviours the run explores
    t1, t2, c1, c2, l1, l2, q1, q2, m1, tool, send, look

VARIABLES
    part,    \* the part that moves in this behaviour
    note, told, loaded, past, rec, specs, sub, queue, previous, timer, draining, turn,
    turnSession, stopped, closing, spawning, before, unanswered, acts, tools, faults, stops,
    watchNote, inWindow, typing, notified, mem, watchDisk, running, watched, scanDue, proc,
    cause, rerun, known, asked, written, old, deletes, edits, watchStops, crashes, moves, typed,
    runs, subRun, subQueue, status, op, stage, interrupted, resuming, messages, restarts,
    policy, gateCall, verdict, via, approval, waiters, grants, saved, gateSession, gateStatus

ledgerVars ==
    <<log, disk, writing, call, done, run, session, work, process, newer, foreign>>
turnVars ==
    <<note, told, loaded, past, rec, specs, sub, queue, previous, timer, draining, turn,
      turnSession, stopped, closing, spawning, before, unanswered, acts, tools, faults, stops>>
watchVars ==
    <<watchNote, inWindow, typing, notified, mem, watchDisk, running, watched, scanDue, proc,
      cause, rerun, known, asked, written, old, deletes, edits, watchStops, crashes, moves,
      typed>>
subVars ==
    <<runs, subRun, subQueue, status, op, stage, interrupted, resuming, messages, restarts>>
gateVars ==
    <<policy, gateCall, verdict, via, approval, waiters, grants, saved, gateSession, gateStatus>>

Verdict(d, r, e, k) == [decision |-> d, risk |-> r, effectful |-> e, categories |-> k]
Sensitive == {Verdict("require_approval", 3, TRUE, {send}),
              Verdict("require_approval", 2, TRUE, {send, look})}
EveryVerdict == {Verdict("allow", 1, TRUE, {}), Verdict("allow", 1, FALSE, {}),
                 Verdict("require_approval", 2, TRUE, {send}),
                 Verdict("require_approval", 3, TRUE, {send}), Verdict("deny", 4, TRUE, {send})}
AllowOrAsk == {Verdict("allow", 1, TRUE, {}), Verdict("require_approval", 3, TRUE, {send})}

Line(t, c, a) == [text |-> t, closed |-> c, agent |-> a]
OpenOnly == {Line("a", FALSE, FALSE)}
Edited == {Line("a", FALSE, FALSE), Line("b", FALSE, FALSE), Line("a", TRUE, FALSE)}
AllKinds == {Line("", FALSE, FALSE), Line("a", FALSE, FALSE), Line("a", TRUE, FALSE),
             Line("a", FALSE, TRUE)}

-----------------------------------------------------------------------------
(* The write-ahead records of tool calls.                                  *)

LedgerInit == Init
LedgerStep ==
    /\ part = "ledger" /\ Next
    /\ UNCHANGED <<part, turnVars, watchVars, subVars, gateVars>>

-----------------------------------------------------------------------------
(* Triage turns over one or two tasks and a message.                       *)

Triage == INSTANCE Orchestrator WITH
    session <- turnSession, Tasks <- {t1}, Messages <- {m1}, Redelegates <- FALSE,
    DaysPass <- FALSE, ActsEarly <- FALSE, MaxActs <- 4, MaxTools <- 2, MaxFaults <- 0,
    MaxStops <- 0
PairOfTasks == INSTANCE Orchestrator WITH
    session <- turnSession, Tasks <- {t1, t2}, Messages <- {}, Redelegates <- FALSE,
    DaysPass <- FALSE, ActsEarly <- FALSE, MaxActs <- 3, MaxTools <- 1, MaxFaults <- 1,
    MaxStops <- 0
Restarted == INSTANCE Orchestrator WITH
    session <- turnSession, Tasks <- {t1}, Messages <- {}, Redelegates <- FALSE,
    DaysPass <- FALSE, ActsEarly <- FALSE, MaxActs <- 3, MaxTools <- 1, MaxFaults <- 1,
    MaxStops <- 2
Days == INSTANCE Orchestrator WITH
    session <- turnSession, Tasks <- {t1}, Messages <- {}, Redelegates <- TRUE,
    DaysPass <- TRUE, ActsEarly <- TRUE, MaxActs <- 3, MaxTools <- 1, MaxFaults <- 1,
    MaxStops <- 1

TurnInit ==
    CASE part = "pair" -> PairOfTasks!Init
      [] part = "restart" -> Restarted!Init
      [] part = "days" -> Days!Init
      [] OTHER -> Triage!Init
TurnStep ==
    /\ \/ part = "triage" /\ Triage!Next
       \/ part = "pair" /\ PairOfTasks!Next
       \/ part = "restart" /\ Restarted!Next
       \/ part = "days" /\ Days!Next
    /\ UNCHANGED <<part, ledgerVars, watchVars, subVars, gateVars>>

-----------------------------------------------------------------------------
(* A watched note: its tasks, moved, retyped and closed, and its prose.    *)

Edits == INSTANCE TaskWatcher WITH
    note <- watchNote, disk <- watchDisk, stops <- watchStops, Lines <- {l1, l2},
    Values <- OpenOnly, Blank <- "", Requests <- {}, ActOnExisting <- FALSE, ScanRaces <- FALSE,
    MaxIds <- 3, MaxDeletes <- 1, MaxEdits <- 4, MaxStops <- 0, MaxCrashes <- 0, MaxMoves <- 0,
    MaxTyping <- 1
EveryKind == INSTANCE TaskWatcher WITH
    note <- watchNote, disk <- watchDisk, stops <- watchStops, Lines <- {l1},
    Values <- AllKinds, Blank <- "", Requests <- {}, ActOnExisting <- TRUE, ScanRaces <- TRUE,
    MaxIds <- 3, MaxDeletes <- 0, MaxEdits <- 2, MaxStops <- 1, MaxCrashes <- 0, MaxMoves <- 1,
    MaxTyping <- 1
Offline == INSTANCE TaskWatcher WITH
    note <- watchNote, disk <- watchDisk, stops <- watchStops, Lines <- {l1}, Values <- Edited,
    Blank <- "", Requests <- {}, ActOnExisting <- FALSE, ScanRaces <- TRUE, MaxIds <- 4,
    MaxDeletes <- 0, MaxEdits <- 3, MaxStops <- 2, MaxCrashes <- 0, MaxMoves <- 1,
    MaxTyping <- 0
Prose == INSTANCE TaskWatcher WITH
    note <- watchNote, disk <- watchDisk, stops <- watchStops, Lines <- {l1}, Values <- {},
    Blank <- "", Requests <- {q1, q2}, ActOnExisting <- FALSE, ScanRaces <- FALSE, MaxIds <- 3,
    MaxDeletes <- 0, MaxEdits <- 4, MaxStops <- 1, MaxCrashes <- 1, MaxMoves <- 1,
    MaxTyping <- 0

WatchInit ==
    CASE part = "edits" -> Edits!Init
      [] part = "kinds" -> EveryKind!Init
      [] part = "offline" -> Offline!Init
      [] part = "prose" -> Prose!Init
      [] OTHER -> Edits!Init /\ watchNote = None
WatchStep ==
    /\ \/ part = "edits" /\ Edits!Next
       \/ part = "kinds" /\ EveryKind!Next
       \/ part = "offline" /\ Offline!Next
       \/ part = "prose" /\ Prose!Next
    /\ UNCHANGED <<part, ledgerVars, turnVars, subVars, gateVars>>

-----------------------------------------------------------------------------
(* Subagents that queue for one slot.                                      *)

Serially == INSTANCE Subagents WITH
    run <- subRun, queue <- subQueue, Tasks <- {t1, t2}, Callers <- {c1, c2},
    MaxConcurrent <- 1, MaxIdle <- 1, MaxRuns <- 2, MaxMessages <- 1, MaxRestarts <- 0,
    Kinds <- {"spawn", "retry", "cancel", "remove"}, Serial <- TRUE
Resumed == INSTANCE Subagents WITH
    run <- subRun, queue <- subQueue, Tasks <- {t1, t2}, Callers <- {c1}, MaxConcurrent <- 1,
    MaxIdle <- 0, MaxRuns <- 2, MaxMessages <- 1, MaxRestarts <- 1,
    Kinds <- {"spawn", "cancel"}, Serial <- TRUE

SubInit ==
    CASE part = "resumed" -> Resumed!Init
      [] OTHER -> Serially!Init
SubStep ==
    /\ \/ part = "serial" /\ Serially!Next
       \/ part = "resumed" /\ Resumed!Next
    /\ UNCHANGED <<part, ledgerVars, turnVars, watchVars, gateVars>>

-----------------------------------------------------------------------------
(* The approvals of two calls, of two tasks or of one.                     *)

Leave == INSTANCE ApprovalGate WITH
    call <- gateCall, session <- gateSession, status <- gateStatus, Tasks <- {t1},
    Calls <- {c1, c2}, TaskOf <- [c \in {c1, c2} |-> t1], ToolOf <- [c \in {c1, c2} |-> tool],
    Verdicts <- Sensitive, Settable <- {2}
Apart == INSTANCE ApprovalGate WITH
    call <- gateCall, session <- gateSession, status <- gateStatus, Tasks <- {t1, t2},
    Calls <- {c1, c2}, TaskOf <- [c \in {c1, c2} |-> IF c = c2 THEN t2 ELSE t1],
    ToolOf <- [c \in {c1, c2} |-> tool],
    Verdicts <- {Verdict("require_approval", 3, TRUE, {send})}, Settable <- {2}
Policies == INSTANCE ApprovalGate WITH
    call <- gateCall, session <- gateSession, status <- gateStatus, Tasks <- {t1},
    Calls <- {c1}, TaskOf <- [c \in {c1} |-> t1], ToolOf <- [c \in {c1} |-> tool],
    Verdicts <- EveryVerdict, Settable <- {1, 2, 3, 4}
Waits == INSTANCE ApprovalGate WITH
    call <- gateCall, session <- gateSession, status <- gateStatus, Tasks <- {t1},
    Calls <- {c1, c2}, TaskOf <- [c \in {c1, c2} |-> t1], ToolOf <- [c \in {c1, c2} |-> tool],
    Verdicts <- AllowOrAsk, Settable <- {2, 3}

GateInit ==
    CASE part = "leave" -> Leave!Init
      [] part = "apart" -> Apart!Init
      [] part = "policies" -> Policies!Init
      [] part = "waits" -> Waits!Init
      [] OTHER -> Leave!Init /\ policy = 2
GateStep ==
    /\ \/ part = "leave" /\ Leave!Next
       \/ part = "apart" /\ Apart!Next
       \/ part = "policies" /\ Policies!Next
       \/ part = "waits" /\ Waits!Next
    /\ UNCHANGED <<part, ledgerVars, turnVars, watchVars, subVars>>

-----------------------------------------------------------------------------
MCInit ==
    /\ part \in Parts
    /\ LedgerInit
    /\ TurnInit
    /\ WatchInit
    /\ SubInit
    /\ GateInit
MCNext ==
    \/ LedgerStep
    \/ TurnStep
    \/ WatchStep
    \/ SubStep
    \/ GateStep
MCVars == <<part, ledgerVars, turnVars, watchVars, subVars, gateVars>>
MCSpec == MCInit /\ [][MCNext]_MCVars

-----------------------------------------------------------------------------
(* Properties, each of the parts it is about.                               *)

(* The orchestrator: a task that shows that it is being triaged is; a      *)
(* deleted task keeps no record and no subagent; a message waits for the   *)
(* next turn; what is queued has a timer set or is looked at when the turn *)
(* under way ends; and a task triaged again keeps its earlier outcome      *)
(* unless the model acted on it.                                           *)
TriageKeepsItsWord ==
    /\ [](part = "days" => Days!TypeOK)
    /\ [](Days!NothingWaitsUnheard)
    /\ [](part \in {"triage", "restart"} =>
           /\ Triage!TriageIsUnderWay
           /\ Triage!RemovedIsGone)
    /\ [](part = "pair" => PairOfTasks!TriageIsUnderWay)
    /\ [](part = "triage" => Triage!MessageWaits)
    /\ [][part = "triage" => Triage!OutcomesKept]_turnVars
    /\ [][part = "pair" => PairOfTasks!OutcomesKept]_turnVars

(* The watcher: once everything settled, the orchestrator knows every open *)
(* task as the note has it, none that is gone, and of closed ones that     *)
(* they are; a request is handed over once and none is missed; what it     *)
(* tells is neither a task that only moved, nor a line still typed on, nor *)
(* the agent's own.                                                        *)
NotesAreHeard ==
    /\ [](part = "edits" =>
           /\ Edits!NothingIsMissed
           /\ Edits!DeletionIsTold)
    /\ [](part = "kinds" =>
           /\ EveryKind!TypeOK
           /\ EveryKind!NothingIsMissed)
    /\ [](part = "offline" =>
           /\ Offline!DeletionIsTold
           /\ Offline!ClosingIsTold)
    /\ [](part = "prose" =>
           /\ Prose!NoticedIsWaiting
           /\ Prose!RequestToldOnce
           /\ Prose!RequestIsTold)
    /\ [][part = "edits" => Edits!RemovedIsRemoved]_watchVars
    /\ [][part = "edits" => Edits!ToldWhenPaused]_watchVars
    /\ [][part = "kinds" => EveryKind!ToldIsTheirs]_watchVars

(* The subagents: no more are at work than the setting says, no task has   *)
(* two sessions that are prompted, and a task shows work exactly while a   *)
(* subagent has it.                                                        *)
SubagentsTakeTurns ==
    /\ Serially!WithinTheLimit
    /\ Serially!OneSessionPerTask
    /\ part = "serial" =>
        /\ Serially!TypeOK
        /\ Serially!BadgeIsTrue
    /\ part = "resumed" => Resumed!BadgeIsTrue

(* The approvals: a call that runs has leave, given for it or for one that *)
(* covers it, and its session is open; what waits for the user is what the *)
(* policy of the moment asks about, the task shows it, and everyone who    *)
(* waits has a timer that ends it.                                         *)
NothingRunsWithoutLeave ==
    /\ [](part = "policies" =>
           /\ Policies!TypeOK
           /\ Policies!PendingIsAskedFor)
    /\ [](part = "waits" =>
           /\ Waits!BadgeShowsTheWait
           /\ Waits!EveryWaiterHears)
    /\ [][part = "leave" => Leave!StartsWithLeave]_gateVars
    /\ [][part = "apart" => Apart!StartsWithLeave]_gateVars
    /\ [][part = "leave" => Leave!StartsWhileOpen]_gateVars
    /\ [][part = "apart" => Apart!StartsWhileOpen]_gateVars
    /\ [][part = "waits" => Waits!StartsWhileOpen]_gateVars
=============================================================================
