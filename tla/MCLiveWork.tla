----------------------------- MODULE MCLiveWork -----------------------------
(***************************************************************************)
(* What must happen in the work on tasks and in what it runs on, for TLC.   *)
(* Each behaviour moves the variables of one part and leaves the others as  *)
(* they start; each part is fair as its module says.                        *)
(***************************************************************************)
EXTENDS ApprovalGate, Sequences, TLC

CONSTANTS
    Parts,   \* the parts whose behaviours the run explores
    t1, t2, c1, c2, l1, tool, send, s1, s2, s3, Missing, Unknown, Undefined

VARIABLES
    part,    \* the part that moves in this behaviour
    runs, run, queue, subStatus, op, stage, interrupted, resuming, messages, restarts,
    note, inWindow, typing, notified, mem, disk, running, watched, scanDue, proc, cause, rerun,
    known, asked, written, old, deletes, edits, stops, crashes, moves, typed,
    turnNote, told, loaded, past, rec, specs, sub, turnQueue, previous, timer, draining, turn,
    turnSession, stopped, closing, spawning, before, unanswered, acts, tools, faults, turnStops,
    file, thread, pending, journalKnown, ids, maxSeq, disabled, journalAsked, flush, acked,
    everOnDisk, recorded, others, journalFaults, removals,
    currentState, mcpSession, mcpTools, cool, negotiated, sse, attempt, loop, mcpTimer, refreshes,
    closeStage, phase, listed, serves, notes, toolCalls

gateVars ==
    <<policy, call, verdict, via, approval, waiters, grants, saved, session, status>>
subVars ==
    <<runs, run, queue, subStatus, op, stage, interrupted, resuming, messages, restarts>>
watchVars ==
    <<note, inWindow, typing, notified, mem, disk, running, watched, scanDue, proc, cause,
      rerun, known, asked, written, old, deletes, edits, stops, crashes, moves, typed>>
turnVars ==
    <<turnNote, told, loaded, past, rec, specs, sub, turnQueue, previous, timer, draining, turn,
      turnSession, stopped, closing, spawning, before, unanswered, acts, tools, faults,
      turnStops>>
journalVars ==
    <<file, thread, pending, journalKnown, ids, maxSeq, disabled, journalAsked, flush, acked,
      everOnDisk, recorded, others, journalFaults, removals>>
mcpVars ==
    <<currentState, mcpSession, mcpTools, cool, negotiated, sse, attempt, loop, mcpTimer,
      refreshes, closeStage, phase, listed, serves, notes, toolCalls>>

Verdict(d, r, e, k) == [decision |-> d, risk |-> r, effectful |-> e, categories |-> k]
AllowOrAsk == {Verdict("allow", 1, TRUE, {}), Verdict("require_approval", 3, TRUE, {send})}
OpenOnly == {[text |-> "a", closed |-> FALSE, agent |-> FALSE]}

-----------------------------------------------------------------------------
(* The approval of a call.                                                 *)

OnTheTask == [c \in {c1} |-> t1]
WithTheTool == [c \in {c1} |-> tool]

GateInit == Init /\ (part # "answers" => policy = 2)
GateStep ==
    /\ part = "answers" /\ Next
    /\ UNCHANGED <<part, subVars, watchVars, turnVars, journalVars, mcpVars>>

-----------------------------------------------------------------------------
(* Two subagents that queue for one slot.                                  *)

Slots == INSTANCE Subagents WITH
    status <- subStatus, Tasks <- {t1, t2}, Callers <- {c1}, MaxConcurrent <- 1, MaxIdle <- 1,
    MaxRuns <- 2, MaxMessages <- 1, MaxRestarts <- 0, Kinds <- {"spawn", "cancel"},
    Serial <- FALSE

SubInit == Slots!Init
SubStep ==
    /\ part = "slots" /\ Slots!Next
    /\ UNCHANGED <<part, gateVars, watchVars, turnVars, journalVars, mcpVars>>

-----------------------------------------------------------------------------
(* A watched note.                                                         *)

Settles == INSTANCE TaskWatcher WITH
    Lines <- {l1}, Values <- OpenOnly, Blank <- "", Requests <- {}, ActOnExisting <- FALSE,
    ScanRaces <- TRUE, MaxIds <- 3, MaxDeletes <- 0, MaxEdits <- 2, MaxStops <- 1,
    MaxCrashes <- 0, MaxMoves <- 1, MaxTyping <- 1

WatchInit ==
    CASE part = "settles" -> Settles!Init
      [] OTHER -> Settles!Init /\ note = None
WatchStep ==
    /\ part = "settles" /\ Settles!Next
    /\ UNCHANGED <<part, gateVars, subVars, turnVars, journalVars, mcpVars>>

-----------------------------------------------------------------------------
(* Triage turns over a task.                                               *)

Triage == INSTANCE Orchestrator WITH
    note <- turnNote, queue <- turnQueue, session <- turnSession, stops <- turnStops,
    Tasks <- {t1}, Messages <- {}, Redelegates <- FALSE, DaysPass <- FALSE, ActsEarly <- FALSE,
    MaxActs <- 2, MaxTools <- 1, MaxFaults <- 1, MaxStops <- 1

TurnInit == Triage!Init
TurnStep ==
    /\ part = "triage" /\ Triage!Next
    /\ UNCHANGED <<part, gateVars, subVars, watchVars, journalVars, mcpVars>>

-----------------------------------------------------------------------------
(* A thread's journal, appended to by this process and by another.         *)

Written == INSTANCE JournalWriter WITH
    known <- journalKnown, asked <- journalAsked, faults <- journalFaults, MaxOurs <- 2,
    MaxOthers <- 1, MaxFaults <- 1, MaxRemovals <- 1, OtherEpochs <- {0, 1},
    OtherVersions <- {"ours"}

JournalInit == Written!Init
JournalStep ==
    /\ part = "written" /\ Written!Next
    /\ UNCHANGED <<part, gateVars, subVars, watchVars, turnVars, mcpVars>>

-----------------------------------------------------------------------------
(* The connection to a tool server, and a call that waits for it.          *)

Server == INSTANCE McpConnection WITH
    session <- mcpSession, tools <- mcpTools, timer <- mcpTimer, Sessions <- {s1, s2, s3},
    Calls <- {c1}, MaxReconnects <- 2, MaxChanges <- 0, MaxRefreshes <- 0, SseFallback <- TRUE,
    Rushed <- FALSE, Overtakes <- FALSE, ListsFail <- FALSE

McpInit == Server!McpInit
McpStep ==
    /\ part = "server" /\ Server!McpNext
    /\ UNCHANGED <<part, gateVars, subVars, watchVars, turnVars, journalVars>>

-----------------------------------------------------------------------------
MCInit ==
    /\ part \in Parts
    /\ GateInit
    /\ SubInit
    /\ WatchInit
    /\ TurnInit
    /\ JournalInit
    /\ McpInit
MCNext ==
    \/ GateStep
    \/ SubStep
    \/ WatchStep
    \/ TurnStep
    \/ JournalStep
    \/ McpStep
MCVars == <<part, gateVars, subVars, watchVars, turnVars, journalVars, mcpVars>>
MCSpec == MCInit /\ [][MCNext]_MCVars

(* The evaluator answers (the judge times out), every pending approval has *)
(* a timer, and the harness waits for the gate's promise.                  *)
GateFairness ==
    /\ WF_gateVars(part = "answers" /\ Evaluate(c1))
    /\ WF_gateVars(part = "answers" /\ Expire(c1))
    /\ WF_gateVars(part = "answers" /\ Deliver(c1))

(* Sessions open or fail to, turns end (there is a time limit on them),    *)
(* and sessions that are aborted close.                                    *)
SubagentFairness ==
    /\ \A i \in 1 .. 2 : WF_subVars(part = "slots" /\ i \in Slots!RunIds /\ Slots!Executing(i))
    /\ WF_subVars(part = "slots" /\ Slots!Continuing(c1))

(* Timers go off, storage tells of changes, and typing pauses.             *)
WatcherFairness ==
    /\ WF_watchVars(part = "settles" /\ Settles!Watching)
    /\ WF_watchVars(part = "settles" /\ Settles!Pauses)
    /\ \A i \in 1 .. 3 : WF_watchVars(part = "settles" /\ Settles!Settle(i))

(* The timer fires, sessions open, a turn ends or is timed out, subagents  *)
(* are closed, and changes of the notes settle.                            *)
TurnFairness ==
    /\ WF_turnVars(part = "triage" /\ Triage!StartDrain)
    /\ WF_turnVars(part = "triage" /\ Triage!TurnRuns)
    /\ WF_turnVars(part = "triage" /\ Triage!Background)
    /\ WF_turnVars(part = "triage" /\ Triage!Watcher)

(* The debounced flush is tried again after a failure; sessions connect,   *)
(* fail or are disposed of.                                                *)
ServiceFairness ==
    /\ WF_journalVars(part = "written" /\ Written!Flushing)
    /\ \A s \in {s1, s2, s3} : WF_mcpVars(part = "server" /\ Server!Progress(s))
    /\ WF_mcpVars(part = "server" /\ Server!BackoffEnds)
    /\ WF_mcpVars(part = "server" /\ Server!CloseEnds)

MCLiveSpec ==
    /\ MCSpec
    /\ GateFairness /\ SubagentFairness /\ WatcherFairness /\ TurnFairness /\ ServiceFairness

-----------------------------------------------------------------------------
(* Properties, each of the parts it is about.                               *)

(* What must happen: every call at the gate is answered, queues of         *)
(* subagents move and messages reach them, the watcher ends up knowing the *)
(* note, triage ends, what was appended to a journal reaches the disk, and *)
(* a tool server's connection comes to rest and its callers are released.  *)
WorkGoesOn ==
    /\ EveryCallIsAnswered
    /\ Slots!QueueMoves
    /\ Slots!MessagesAreHeard
    /\ (part = "settles" => Settles!EndsInStep)
    /\ Triage!TriageEnds
    /\ Written!EverythingIsWritten
    /\ Server!ComesToRest
    /\ Server!WaitersAreReleased
=============================================================================
