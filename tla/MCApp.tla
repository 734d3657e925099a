-------------------------------- MODULE MCApp -------------------------------
(***************************************************************************)
(* The app and the agent's files, for TLC: the editing of notes, the tool   *)
(* servers, the routines, the journal of a thread, a state file and the     *)
(* runtime that is leased. Each behaviour moves the variables of one part,  *)
(* in one of its instances, and leaves the others as they start.            *)
(***************************************************************************)
EXTENDS PersistedFile, LeasedRuntime, Connectors, RoutineScheduler, McpConnection, TLC

CONSTANTS
    Parts,   \* the parts whose behaviours the run explores

    here, moved, noFile, okay, noReply, l1, l2, Missing

VARIABLES
    part,    \* the part that moves in this behaviour
    vault, copies, mine, pending, wire, online, doc, screen, editActive, reads, page, orphans,
    answers, edits, others, fails, drops, typed, stored, seen, discarded,
    journalFile, thread, journalPending, journalKnown, ids, maxSeq, disabled, journalAsked,
    flush, acked, everOnDisk, recorded, journalOthers, journalFaults, removals

stateVars ==
    <<versions, kind, disk, aside, known, evidence, blocked, op, taken, ops, faults>>
editVars ==
    <<vault, copies, mine, pending, wire, online, doc, screen, editActive, reads, page, orphans,
      answers, edits, others, fails, drops, typed, stored, seen, discarded>>
journalVars ==
    <<journalFile, thread, journalPending, journalKnown, ids, maxSeq, disabled, journalAsked,
      flush, acked, everOnDisk, recorded, journalOthers, journalFaults, removals>>

-----------------------------------------------------------------------------
(* A state file that others write and a newer app may have written.        *)

StateInit == Init
StateStep ==
    /\ part = "saves" /\ Next
    /\ UNCHANGED <<part, editVars, routineVars, mcpVars, connectorsVars, journalVars, runtime>>

-----------------------------------------------------------------------------
(* Calls on a leased runtime, the settings changing under them.            *)

RuntimeStep ==
    /\ part = "runtime" /\ RuntimeNext
    /\ UNCHANGED <<part, stateVars, editVars, routineVars, mcpVars, connectorsVars, journalVars>>

-----------------------------------------------------------------------------
(* A note that two clients edit, move and remove.                          *)

Merges == INSTANCE NotesEditing WITH
    active <- editActive,
    Lines <- {l1, l2}, Paths <- {here}, First <- here, MaxEdits <- 2, MaxOthers <- 1,
    MaxFails <- 1, MaxReads <- 1, MaxDrops <- 0, MaxSaves <- 3, Slow <- TRUE, ReadsFail <- TRUE,
    PutsBack <- FALSE, Deletes <- TRUE, Removes <- FALSE, Renames <- FALSE, Gone <- noFile,
    Ok <- okay, Lost <- noReply
Quiet == INSTANCE NotesEditing WITH
    active <- editActive,
    Lines <- {l1, l2}, Paths <- {here}, First <- here, MaxEdits <- 2, MaxOthers <- 1,
    MaxFails <- 0, MaxReads <- 2, MaxDrops <- 1, MaxSaves <- 3, Slow <- FALSE,
    ReadsFail <- FALSE, PutsBack <- FALSE, Deletes <- TRUE, Removes <- FALSE, Renames <- FALSE,
    Gone <- noFile, Ok <- okay, Lost <- noReply
Moves == INSTANCE NotesEditing WITH
    active <- editActive,
    Lines <- {l1}, Paths <- {here, moved}, First <- here, MaxEdits <- 3, MaxOthers <- 0,
    MaxFails <- 0, MaxReads <- 2, MaxDrops <- 0, MaxSaves <- 3, Slow <- FALSE,
    ReadsFail <- FALSE, PutsBack <- FALSE, Deletes <- FALSE, Removes <- FALSE, Renames <- TRUE,
    Gone <- noFile, Ok <- okay, Lost <- noReply
Removes == INSTANCE NotesEditing WITH
    active <- editActive,
    Lines <- {l1, l2}, Paths <- {here}, First <- here, MaxEdits <- 2, MaxOthers <- 1,
    MaxFails <- 0, MaxReads <- 2, MaxDrops <- 0, MaxSaves <- 3, Slow <- FALSE,
    ReadsFail <- FALSE, PutsBack <- FALSE, Deletes <- FALSE, Removes <- TRUE, Renames <- FALSE,
    Gone <- noFile, Ok <- okay, Lost <- noReply

EditInit ==
    CASE part = "quiet" -> Quiet!Init
      [] part = "moves" -> Moves!Init
      [] part = "removes" -> Removes!Init
      [] OTHER -> Merges!Init
EditStep ==
    /\ \/ part = "merges" /\ Merges!Next
       \/ part = "quiet" /\ Quiet!Next
       \/ part = "moves" /\ Moves!Next
       \/ part = "removes" /\ Removes!Next
    /\ UNCHANGED <<part, stateVars, routineVars, mcpVars, connectorsVars, journalVars, runtime>>

-----------------------------------------------------------------------------
(* A routine due every second tick, and runs the user asks for.            *)

Limits == INSTANCE RoutineScheduler WITH
    Schedules <- {2}, Uses <- {"subagent"}, MaxStops <- 0, MaxCrashes <- 0, MaxSwitches <- 0
Stops == INSTANCE RoutineScheduler WITH
    Schedules <- {2}, ExtraRuns <- 0, MaxSleep <- 0, MaxCrashes <- 0, MaxSwitches <- 0
Asked == INSTANCE RoutineScheduler WITH
    Schedules <- {2}, MaxTime <- 2, MaxSleep <- 0, MaxCrashes <- 0, MaxSwitches <- 0
Crashes == INSTANCE RoutineScheduler WITH
    Schedules <- {2}, ExtraRuns <- 0, MaxTime <- 3, MaxSleep <- 0, MaxStops <- 0, MaxSwitches <- 0
Switches == INSTANCE RoutineScheduler WITH
    Schedules <- {2}, Uses <- {"subagent"}, ExtraRuns <- 0, MaxStops <- 0, MaxCrashes <- 0
Replans == INSTANCE RoutineScheduler WITH
    Uses <- {"subagent"}, ExtraRuns <- 0, MaxTime <- 3, MaxStops <- 0, MaxCrashes <- 0

RoutineInit ==
    RoutinesInit /\ schedule = 2 /\ (part \notin {"switches", "replans"} => enabled)
RoutineStep ==
    /\ \/ part = "limits" /\ Limits!RoutinesNext
       \/ part = "stops" /\ Stops!RoutinesNext
       \/ part = "asked" /\ Asked!RoutinesNext
       \/ part = "crash" /\ Crashes!RoutinesNext
       \/ part = "switches" /\ Switches!RoutinesNext
       \/ part = "replans" /\ Replans!RoutinesNext
    /\ UNCHANGED <<part, stateVars, editVars, mcpVars, connectorsVars, journalVars, runtime>>

-----------------------------------------------------------------------------
(* The connection to a tool server, its calls and its tools.               *)

ToolCalls == INSTANCE McpConnection WITH MaxChanges <- 0, MaxRefreshes <- 0
Tools == INSTANCE McpConnection WITH SseFallback <- FALSE

McpStep ==
    /\ \/ part = "calls" /\ ToolCalls!McpNext
       \/ part = "tools" /\ Tools!McpNext /\ UNCHANGED toolCalls
    /\ UNCHANGED <<part, stateVars, editVars, routineVars, connectorsVars, journalVars, runtime>>

-----------------------------------------------------------------------------
(* The connections to the servers of a configuration that changes.         *)

Reloading == INSTANCE Connectors WITH Postures <- {"writes"}
Specs == INSTANCE Connectors WITH Launches <- {l1}

ConnInit ==
    CASE part = "reload" -> Reloading!ConnectorsInit /\ annotates = Nothing
      [] part = "specs" -> Specs!ConnectorsInit /\ annotates = "writes"
      [] OTHER -> Reloading!ConnectorsInit /\ config = Nothing /\ annotates = Nothing
ConnStep ==
    /\ \/ part = "reload" /\ Reloading!ConnectorsNext /\ UNCHANGED held
       \/ part = "specs" /\ Specs!ConnectorsNext
    /\ UNCHANGED <<part, stateVars, editVars, routineVars, mcpVars, journalVars, runtime>>

-----------------------------------------------------------------------------
(* A thread's journal, appended to by this process and by others.          *)

Faulty == INSTANCE JournalWriter WITH
    file <- journalFile, pending <- journalPending, known <- journalKnown,
    asked <- journalAsked, others <- journalOthers, faults <- journalFaults, MaxOurs <- 2,
    MaxOthers <- 2, MaxFaults <- 2, MaxRemovals <- 0, OtherEpochs <- {0, 1},
    OtherVersions <- {"ours"}
Removed == INSTANCE JournalWriter WITH
    file <- journalFile, pending <- journalPending, known <- journalKnown,
    asked <- journalAsked, others <- journalOthers, faults <- journalFaults, MaxOurs <- 2,
    MaxOthers <- 2, MaxFaults <- 1, MaxRemovals <- 1, OtherEpochs <- {0, 1},
    OtherVersions <- {"ours", "newer"}

JournalInit ==
    CASE part = "removed" -> Removed!Init
      [] OTHER -> Faulty!Init
JournalStep ==
    /\ \/ part = "faults" /\ Faulty!Next
       \/ part = "removed" /\ Removed!Next
    /\ UNCHANGED <<part, stateVars, editVars, routineVars, mcpVars, connectorsVars, runtime>>

-----------------------------------------------------------------------------
MCInit ==
    /\ part \in Parts
    /\ StateInit
    /\ RuntimeInit
    /\ EditInit
    /\ RoutineInit
    /\ McpInit
    /\ ConnInit
    /\ JournalInit
MCNext ==
    \/ StateStep
    \/ RuntimeStep
    \/ EditStep
    \/ RoutineStep
    \/ McpStep
    \/ ConnStep
    \/ JournalStep
MCVars ==
    <<part, stateVars, runtime, editVars, routineVars, mcpVars, connectorsVars, journalVars>>
MCSpec == MCInit /\ [][MCNext]_MCVars

-----------------------------------------------------------------------------
(* Properties, each of the parts it is about.                               *)

(* The editing of notes: no edit is lost, one that is not saved yet has a  *)
(* save armed or is shown as unsaved, what is shown is what is held,       *)
(* everything at rest is saved, a removed note stays removed, and what     *)
(* others wrote is kept beside one's own.                                  *)
EditsSurvive ==
    /\ [](part = "merges" =>
           /\ Merges!TypeOK
           /\ Merges!NoEditIsLost
           /\ Merges!ShownIsHeld
           /\ Merges!UnsavedIsArmed)
    /\ [](part = "quiet" => Quiet!QuietMeansSaved)
    /\ [](part = "moves" =>
           /\ Moves!QuietMeansSaved
           /\ Moves!RemovedStaysRemoved)
    /\ [](part = "removes" =>
           /\ Removes!QuietMeansSaved
           /\ Removes!RemovedStaysRemoved)
    /\ [][part = "merges" => Merges!OthersKept]_editVars

(* The journal of a thread: what was acknowledged is on disk, no entry     *)
(* twice, in the order they were appended, and a restart reads back what   *)
(* was there.                                                              *)
JournalKeepsAll ==
    /\ part = "faults" =>
        /\ Faulty!TypeOK
        /\ Faulty!AckedIsOnDisk
    /\ Faulty!NothingTwice
    /\ Faulty!OrderKept
    /\ Faulty!RestartReadsBack
=============================================================================
