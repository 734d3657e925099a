----------------------------- MODULE ToolLedger -----------------------------
(***************************************************************************)
(* The write-ahead record of a task's tool calls in its thread's journal,  *)
(* and what a restart makes of it.                                         *)
(*                                                                         *)
(*   requested -> (the gate decides) -> started -> (runs) -> finished      *)
(*                                                                         *)
(* A call that may change something runs only once "started" is on disk.   *)
(* A start of the runtime takes a call that started and never finished for *)
(* uncertain: its task isn't resumed, and the next session the user asks   *)
(* for is told. Events reach the journal in memory at once and the disk in *)
(* batches; a crash leaves the disk.                                       *)
(*                                                                         *)
(* The app leaves a journal alone that a newer version of it wrote to: it  *)
(* writes no more to it, its calls run all the same, and the next process  *)
(* doesn't read it, so the task goes on in a new thread.                   *)
(***************************************************************************)
EXTENDS Naturals

CONSTANTS
    Calls,         \* the tool calls of one task's subagents
    Effectful,     \* those that may change something
    MaxSessions,   \* bound on the sessions of the thread
    MaxProcesses,  \* bound on the processes, one after the other
    None

ASSUME CallsAssumption == Effectful \subseteq Calls
ASSUME BoundsAssumption == MaxSessions \in Nat /\ MaxProcesses \in Nat \ {0}

VARIABLES
    log,       \* the journal of the task's thread, in memory
    disk,      \* the same on disk
    writing,   \* the append under way: the journal it writes up to
    call,      \* where each call is
    done,      \* the calls that did their work, whoever knows
    run,       \* the task's subagent
    session,   \* the sessions opened so far
    work,      \* whether the task's work is going on: its record's status
    process,   \* the processes started so far
    newer,     \* whether a newer app wrote to the journal, and the writer noticed
    foreign    \* the calls of the threads whose journal a newer app wrote to

others == <<newer, foreign>>
vars == <<log, disk, writing, call, done, run, session, work, process, others>>

(* What the journal says of a call. "told" is an interrupted call some     *)
(* session was told about: a prompt ends the list of interrupted calls.    *)
Stages == {"none", "requested", "blocked", "started", "finished", "interrupted", "told"}
Journal == [Calls -> Stages]
NewThread == [c \in Calls |-> "none"]

-----------------------------------------------------------------------------

Journaled(c, s) == log' = [log EXCEPT ![c] = s]

Init ==
    /\ log = NewThread
    /\ disk = log
    /\ writing = None
    /\ call = [c \in Calls |-> "idle"]
    /\ done = {}
    /\ run = "none"
    /\ session = 0
    /\ work = "idle"
    /\ process = 1
    /\ newer = "no"
    /\ foreign = {}

(* The user's task, a message or a Retry opens a fresh session.            *)
Kickoff ==
    /\ run = "none" /\ session < MaxSessions
    /\ run' = "starting"
    /\ session' = session + 1
    /\ work' = "working"
    /\ UNCHANGED <<log, disk, writing, call, done, process, others>>

(* The prompt is journaled right before the session gets it. A kickoff     *)
(* lists the interrupted calls that may have changed something; journaled  *)
(* prompts end the list.                                                   *)
Prompt ==
    /\ run = "starting"
    /\ run' = "running"
    /\ log' = [c \in Calls |-> IF log[c] = "interrupted" THEN "told" ELSE log[c]]
    /\ UNCHANGED <<disk, writing, call, done, session, work, process, others>>

(* A call reaches the gate.                                                *)
Request(c) ==
    /\ run = "running" /\ call[c] = "idle"
    /\ call' = [call EXCEPT ![c] = "gate"]
    /\ Journaled(c, "requested")
    /\ foreign' = IF newer = "no" THEN foreign ELSE foreign \cup {c}
    /\ UNCHANGED <<disk, writing, done, run, session, work, process, newer>>

(* Denied; blocked because the session is closing isn't a verdict, and     *)
(* such a call isn't recorded as decided.                                  *)
Blocked(c) ==
    /\ call[c] \in {"gate", "given up"}
    /\ call' = [call EXCEPT ![c] = "over"]
    /\ IF call[c] = "gate" THEN Journaled(c, "blocked") ELSE UNCHANGED log
    /\ UNCHANGED <<disk, writing, done, run, session, work, process, others>>

(* Allowed: the record comes first. A call that only reads doesn't wait    *)
(* for the disk. The gate of a closed session may still allow a call the   *)
(* harness gave up: it is recorded and never runs.                         *)
Allowed(c) ==
    /\ call[c] \in {"gate", "given up"} /\ newer # "noticed"
    /\ Journaled(c, "started")
    /\ call' = [call EXCEPT ![c] =
                   IF c \in Effectful THEN IF @ = "gate" THEN "recording" ELSE "void"
                   ELSE IF @ = "gate" THEN "running" ELSE "over"]
    /\ UNCHANGED <<disk, writing, done, run, session, work, process, others>>

(* In a journal that is left alone nothing is recorded, and nothing waits. *)
AllowedUnrecorded(c) ==
    /\ call[c] \in {"gate", "given up"} /\ newer = "noticed"
    /\ call' = [call EXCEPT ![c] = IF @ = "gate" THEN "running" ELSE "over"]
    /\ UNCHANGED <<log, disk, writing, done, run, session, work, process, others>>

(* Slip: the go-ahead doesn't wait for the record.                         *)
InMemory(c) == log[c] = "started"
OnDisk(c) == disk[c] = "started"

(* The append is through, or was given up as the journal is left alone.    *)
Recorded(c) ==
    /\ call[c] \in {"recording", "void"}
    /\ OnDisk(c) \/ newer = "noticed"
    /\ call' = [call EXCEPT ![c] = IF @ = "recording" THEN "running" ELSE "over"]
    /\ UNCHANGED <<log, disk, writing, done, run, session, work, process, others>>

(* The tool does its work at some moment while it runs, or after its       *)
(* session closed on it.                                                   *)
Effect(c) ==
    /\ call[c] \in {"running", "cut off"} /\ c \in Effectful \ done
    /\ done' = done \cup {c}
    /\ UNCHANGED <<log, disk, writing, call, run, session, work, process, others>>

(* Its result; work under way is only a part of a call, done or not.       *)
Finished(c) ==
    /\ call[c] = "running"
    /\ call' = [call EXCEPT ![c] = "over"]
    /\ Journaled(c, "finished")
    /\ UNCHANGED <<disk, writing, done, run, session, work, process, others>>

-----------------------------------------------------------------------------

(* A batch of events is appended, one append at a time; when an append     *)
(* fails, the calls whose record it held are blocked.                      *)
AppendStarts ==
    /\ writing = None /\ disk # log /\ newer # "noticed"
    /\ writing' = log
    /\ UNCHANGED <<log, disk, call, done, run, session, work, process, others>>

AppendDone ==
    /\ writing # None /\ newer = "no"
    /\ disk' = writing
    /\ writing' = None
    /\ UNCHANGED <<log, call, done, run, session, work, process, others>>

(* Somebody else's event is in the way: the writer reads the file again,   *)
(* finds that a newer app wrote it, and drops what it had to write.        *)
AppendLeft ==
    /\ writing # None /\ newer = "on disk"
    /\ writing' = None
    /\ newer' = "noticed"
    /\ UNCHANGED <<log, disk, call, done, run, session, work, process, foreign>>

AppendFails ==
    LET lost == {c \in Calls : /\ call[c] \in {"recording", "void"}
                               /\ writing[c] = "started" /\ disk[c] # "started"} IN
    /\ writing # None
    /\ writing' = None
    /\ call' = [c \in Calls |-> IF c \in lost THEN "over" ELSE call[c]]
    /\ log' = [c \in Calls |-> IF c \in lost THEN "blocked" ELSE log[c]]
    /\ UNCHANGED <<disk, done, run, session, work, process, others>>

-----------------------------------------------------------------------------

(* The sync merges an event into the journal that a newer app wrote on     *)
(* another device.                                                         *)
NewerWrites ==
    /\ session > 0 /\ newer = "no"
    /\ newer' = "on disk"
    /\ foreign' = foreign \cup {c \in Calls : call[c] # "idle"}
    /\ UNCHANGED <<log, disk, writing, call, done, run, session, work, process>>

-----------------------------------------------------------------------------

TurnEnds ==
    /\ run = "running" /\ \A c \in Calls : call[c] \notin {"gate", "recording", "running"}
    /\ run' = "none"
    /\ work' = "idle"
    /\ UNCHANGED <<log, disk, writing, call, done, session, process, others>>

(* A cancel, or the agent stopping (the work keeps its status): calls at   *)
(* the gate are given up, a call under way is cut off and stays open.      *)
Close(w) ==
    /\ run \in {"starting", "running"}
    /\ run' = "none"
    /\ work' = w
    /\ call' = [c \in Calls |-> CASE call[c] = "gate" -> "given up"
                                  [] call[c] = "recording" -> "void"
                                  [] call[c] = "running" -> "cut off"
                                  [] OTHER -> call[c]]
    /\ UNCHANGED <<log, disk, writing, done, session, process, others>>

(* Slip: nothing is marked.                                                *)
MarkedNone(journal) == journal

(* The calls left open belong to a process that's gone.                    *)
Marked(journal) ==
    [c \in Calls |-> IF journal[c] = "started" THEN "interrupted" ELSE journal[c]]

(* Slip: work is picked up whatever was cut off.                           *)
ResumesAll(journal) == work = "working"

Resumes(journal) ==
    work = "working" /\ ~\E c \in Effectful : journal[c] = "interrupted"

(* A thread whose journal a newer app wrote to is skipped: the task goes   *)
(* on in a new one.                                                        *)
Adopted == IF newer = "no" THEN disk ELSE NewThread

(* The process ends, at any moment, and the next one starts: it folds the  *)
(* journal, marks what was interrupted, and picks the work back up in the  *)
(* session the transcript restores, unless something is uncertain.         *)
Restart ==
    /\ process < MaxProcesses
    /\ process' = process + 1
    /\ disk' = Adopted
    /\ log' = Marked(Adopted)
    /\ writing' = None
    /\ call' = [c \in Calls |-> IF call[c] = "idle" THEN "idle" ELSE "over"]
    /\ run' = IF Resumes(Marked(Adopted)) THEN "starting" ELSE "none"
    /\ work' = IF Resumes(Marked(Adopted)) THEN "working" ELSE "idle"
    /\ newer' = "no"
    /\ UNCHANGED <<done, session, foreign>>

Next ==
    \/ Kickoff \/ Prompt \/ TurnEnds
    \/ \E c \in Calls : \/ Request(c) \/ Blocked(c) \/ Allowed(c)
                        \/ AllowedUnrecorded(c) \/ Recorded(c) \/ Effect(c) \/ Finished(c)
    \/ AppendStarts \/ AppendDone \/ AppendLeft \/ AppendFails \/ NewerWrites
    \/ \E w \in {"idle", "working"} : Close(w)
    \/ Restart

Spec == Init /\ [][Next]_vars

-----------------------------------------------------------------------------

TypeOK ==
    /\ log \in Journal /\ disk \in Journal /\ writing \in Journal \cup {None}
    /\ call \in [Calls -> {"idle", "gate", "given up", "recording", "void", "running",
                        "cut off", "over"}]
    /\ done \subseteq Effectful
    /\ run \in {"none", "starting", "running"}
    /\ session \in 0 .. MaxSessions /\ process \in 1 .. MaxProcesses
    /\ work \in {"idle", "working"}
    /\ newer \in {"no", "on disk", "noticed"} /\ foreign \subseteq Calls

(* What the documents promise of every effect, the code keeps of those     *)
(* whose thread's journal no newer app has written to.                     *)
Accountable == done \ foreign

(* Whatever happened in a thread no newer app wrote to is on disk as       *)
(* something that may have: no crash, at any moment, leaves an effect that *)
(* the journal denies.                                                     *)
WriteAhead == \A c \in Accountable : disk[c] \notin {"none", "requested", "blocked"}

(* "Never re-run automatically": a runtime that picks work back up on its  *)
(* own knows of every effect that happened before in a thread no newer app *)
(* wrote to, as a result or from an earlier prompt that told of it.        *)
NeverRerunOnItsOwn ==
    [][process' # process /\ run' = "starting" =>
       \A c \in Accountable : log'[c] \in {"finished", "told"}]_vars

(* A session at work after a restart was told of every uncertain call of   *)
(* the processes before in a thread no newer app wrote to, in its own      *)
(* prompt or in that of a session before.                                  *)
NothingStaysUntold ==
    run = "running" =>
      \A c \in Accountable : call[c] = "over" => log[c] \in {"finished", "told"}
=============================================================================
