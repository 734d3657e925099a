----------------------------- MODULE Subagents -----------------------------
(***************************************************************************)
(* The manager of the subagents: one run per task, a limited number of     *)
(* them at work and the rest in a FIFO queue, messages to a run at work or *)
(* a finished one, and spawning, retrying, cancelling and discarding, each *)
(* of which waits for a session to close in the middle. The tasks' badges  *)
(* survive a restart of the process, the runs don't: work that was going   *)
(* is resumed from its badge.                                              *)
(*                                                                         *)
(* A run executes in the background: it opens a session (unless it has     *)
(* one), builds the prompt and prompts; every one of these is awaited.     *)
(***************************************************************************)
EXTENDS Naturals, Sequences, FiniteSets, SequencesExt

CONSTANTS
    Tasks,
    Callers,        \* who acts on tasks at once: the user's requests, tools, notes
    MaxConcurrent,  \* settings.agent.maxConcurrentSubagents
    MaxIdle,        \* MAX_IDLE_SESSIONS
    MaxRuns,        \* bound on the runs ever made in a process
    MaxMessages,    \* bound on messages
    MaxRestarts,    \* bound on restarts of the process
    Kinds,          \* what callers do, of "spawn", "retry", "cancel", "remove"
    Serial,         \* whether callers wait for one another on a task
    None

VARIABLES
    runs,        \* the map: each task's run
    run,         \* every run made, reachable from the map or not
    queue,       \* runs that wait for a slot
    status,      \* each task's badge ("none": no record)
    op,          \* what each caller is in the middle of
    stage,       \* of the runtime: "up", "stopping", "stopped"
    interrupted, \* tasks a restart found at work
    resuming,    \* the one whose journal is being read
    messages, restarts

work == <<runs, run, queue, status>>
vars == <<work, op, stage, interrupted, resuming, messages, restarts>>

RunIds == DOMAIN run
Idle == [kind |-> "none", task |-> None, run |-> None, active |-> FALSE]

(* The manager's state, for what happens without an await in between.      *)
World == [runs |-> runs, run |-> run, queue |-> queue, status |-> status]
Become(w) == runs' = w.runs /\ run' = w.run /\ queue' = w.queue /\ status' = w.status

Badge(w, t, s) == [w EXCEPT !.status[t] = s]
Active(s) == s \in {"queued", "working", "waiting_user"}
Resumable(s) == s \in {"queued", "working"}

-----------------------------------------------------------------------------

(* Slots are counted over the runs of the map.                             *)
RunningCount(w) ==
    Cardinality({t \in Tasks : w.runs[t] # None /\
                               w.run[w.runs[t]].state \in {"starting", "running"}})

IsWorking(w, t) == w.runs[t] # None /\ w.run[w.runs[t]].state # "idle"

NewRun(t) == [task |-> t, state |-> "idle", closed |-> FALSE, session |-> FALSE,
              exec |-> "off", inbox |-> 0, pending |-> FALSE, turn |-> "none"]

(* A new run takes the task's place in the map.                            *)
CreateRun(w, t) ==
    [w EXCEPT !.run = Append(@, NewRun(t)), !.runs[t] = Len(w.run) + 1]

(* The prompt takes what is pending and the inbox.                         *)
BuildPrompt(w, r) == [w EXCEPT !.run[r].exec = "building",
                               !.run[r].pending = FALSE, !.run[r].inbox = 0]

Execute(w, r) ==
    LET fresh == [w EXCEPT !.run[r].turn = "none"] IN
    IF w.run[r].session THEN BuildPrompt(fresh, r)
    ELSE [fresh EXCEPT !.run[r].exec = "opening"]

Launch(w, r) == Execute(Badge([w EXCEPT !.run[r].state = "starting"], w.run[r].task, "working"), r)

Request(w, r) ==
    IF RunningCount(w) < MaxConcurrent THEN Launch(w, r)
    ELSE Badge([w EXCEPT !.run[r].state = "queued",
                         !.queue = IF Contains(@, r) THEN @ ELSE Append(@, r)],
               w.run[r].task, "queued")

(* Starts queued work, first come first served, while slots are free.      *)
Pump(w) ==
    FoldLeft(LAMBDA v, r : IF RunningCount(v) < MaxConcurrent
                           THEN Launch([v EXCEPT !.queue = Tail(@)], r) ELSE v,
             w, w.queue)

(* The part of close that happens at once. The session is then aborted and *)
(* disposed, which the caller waits for.                                   *)
Close(w, r) ==
    [w EXCEPT !.run[r].closed = TRUE, !.run[r].session = FALSE,
              !.runs = [t \in Tasks |-> IF @[t] = r THEN None ELSE @[t]],
              !.queue = SelectSeq(@, LAMBDA q : q # r)]

Closed(r) == run[r].exec # "prompting"

(* The sessions of all but MaxIdle finished runs are disposed.             *)
WithSessions(w) == {t \in Tasks : w.runs[t] # None /\ w.run[w.runs[t]].state = "idle"
                                  /\ w.run[w.runs[t]].session}
Trimmed(w, kept) ==
    [w EXCEPT !.run = [r \in DOMAIN @ |-> IF \E t \in WithSessions(w) \ kept : w.runs[t] = r
                                          THEN [@[r] EXCEPT !.session = FALSE] ELSE @[r]]]
Trim(w, v) ==
    LET idle == WithSessions(w) IN
    IF Cardinality(idle) <= MaxIdle THEN v = w
    ELSE \E kept \in SUBSET idle : Cardinality(kept) = MaxIdle /\ v = Trimmed(w, kept)

(* The end of a turn: messages that came meanwhile are delivered right     *)
(* away, else the slot goes to the next in line.                           *)
Complete(w, r, s) ==
    LET idle == Badge([w EXCEPT !.run[r].state = "idle", !.run[r].exec = "off"],
                      w.run[r].task, s)
        next == Pump(idle)
    IN IF w.run[r].inbox > 0
       THEN {Request([idle EXCEPT !.run[r].inbox = 0, !.run[r].pending = TRUE], r)}
       ELSE {v \in {Trimmed(next, kept) : kept \in SUBSET WithSessions(next)} : Trim(next, v)}

-----------------------------------------------------------------------------

Init ==
    /\ runs = [t \in Tasks |-> None] /\ run = <<>> /\ queue = <<>>
    /\ status = [t \in Tasks |-> "none"]
    /\ op = [c \in Callers |-> Idle]
    /\ stage = "up" /\ interrupted = {} /\ resuming = None
    /\ messages = 0 /\ restarts = 0

Elsewhere == UNCHANGED <<stage, interrupted, resuming, messages, restarts>>
Busy(t) == resuming = t \/ t \in interrupted \/ \E c \in Callers : op[c].task = t
MayAct(c, t) == op[c] = Idle /\ (Serial => ~Busy(t))
Waits(c, kind, t, active) ==
    op' = [op EXCEPT ![c] = [kind |-> kind, task |-> t, run |-> runs[t], active |-> active]]
Returns(c) == op' = [op EXCEPT ![c] = Idle]
Room == Len(run) < MaxRuns

(* A kickoff for a task nobody works on: the finished run takes it over, a *)
(* run with other capabilities makes place for a new one.                  *)
Kickoff(w, t) ==
    LET made == CreateRun(w, t) IN Request([made EXCEPT !.run[Len(made.run)].pending = TRUE], Len(made.run))

Spawn(c, t) ==
    /\ "spawn" \in Kinds /\ MayAct(c, t) /\ stage # "stopped" /\ Room
    /\ ~IsWorking(World, t)
    /\ IF runs[t] = None THEN Become(Kickoff(World, t)) /\ UNCHANGED op
       ELSE \/ Become(Request([World EXCEPT !.run[runs[t]].pending = TRUE], runs[t])) /\ UNCHANGED op
            \/ Become(Close(World, runs[t])) /\ Waits(c, "spawn", t, FALSE)
    /\ Elsewhere

SpawnRest(c) ==
    /\ op[c].kind = "spawn" /\ Closed(op[c].run) /\ Room
    /\ Become(Kickoff(World, op[c].task))
    /\ Returns(c) /\ Elsewhere

(* Slip: the new run starts while the old one's session still closes.      *)
RetryEager(c, t) ==
    /\ "retry" \in Kinds /\ MayAct(c, t) /\ stage = "up" /\ Room
    /\ status[t] # "none"
    /\ IF runs[t] = None THEN Become(Kickoff(Badge(World, t, "working"), t))
       ELSE Become(Kickoff(Badge(Close(World, runs[t]), t, "working"), t))
    /\ UNCHANGED op /\ Elsewhere

Retry(c, t) ==
    /\ "retry" \in Kinds /\ MayAct(c, t) /\ stage = "up" /\ Room
    /\ status[t] # "none"
    /\ IF runs[t] = None
       THEN Become(Kickoff(Badge(World, t, "working"), t)) /\ UNCHANGED op
       ELSE Become(Close(World, runs[t])) /\ Waits(c, "retry", t, FALSE)
    /\ Elsewhere

RetryRest(c) ==
    /\ op[c].kind = "retry" /\ Closed(op[c].run) /\ Room
    /\ Become(Kickoff(Badge(World, op[c].task, "working"), op[c].task))
    /\ Returns(c) /\ Elsewhere

Cancelled(w, t, active) == Pump(IF active THEN Badge(w, t, "cancelled") ELSE w)

Cancel(c, t) ==
    /\ "cancel" \in Kinds /\ MayAct(c, t)
    /\ LET active == IsWorking(World, t) \/ Active(status[t]) IN
       IF runs[t] = None THEN Become(Cancelled(World, t, active)) /\ UNCHANGED op
       ELSE Become(Close(World, runs[t])) /\ Waits(c, "cancel", t, active)
    /\ Elsewhere

CancelRest(c) ==
    /\ op[c].kind = "cancel" /\ Closed(op[c].run)
    /\ Become(Cancelled(World, op[c].task, op[c].active))
    /\ Returns(c) /\ Elsewhere

(* The task left its note: its work is cancelled, then whatever run it has *)
(* is discarded and its record removed.                                    *)
Discard(c, w, t) ==
    /\ Become(IF w.runs[t] = None THEN Badge(w, t, "none") ELSE Close(w, w.runs[t]))
    /\ op' = [op EXCEPT ![c] = IF w.runs[t] = None THEN Idle
                ELSE [kind |-> "discard", task |-> t, run |-> w.runs[t], active |-> FALSE]]

RemoveTask(c, t) ==
    /\ "remove" \in Kinds /\ MayAct(c, t) /\ status[t] # "none"
    /\ LET active == IsWorking(World, t) \/ Active(status[t]) IN
       IF ~active THEN Discard(c, World, t)
       ELSE IF runs[t] = None THEN Discard(c, Cancelled(World, t, TRUE), t)
       ELSE Become(Close(World, runs[t])) /\ Waits(c, "remove", t, TRUE)
    /\ Elsewhere

RemoveRest(c) ==
    /\ op[c].kind = "remove" /\ Closed(op[c].run)
    /\ Discard(c, Cancelled(World, op[c].task, TRUE), op[c].task)
    /\ Elsewhere

DiscardRest(c) ==
    /\ op[c].kind = "discard" /\ Closed(op[c].run)
    /\ Become(Badge(World, op[c].task, "none"))
    /\ Returns(c) /\ Elsewhere

(* A run at work is steered, or hears it with its next turn.               *)
Message(t) ==
    /\ stage = "up" /\ messages < MaxMessages
    /\ runs[t] # None
    /\ LET r == runs[t] IN
       CASE run[r].state = "idle" -> Become(Request([World EXCEPT !.run[r].pending = TRUE], r))
         [] run[r].state = "running" ->
              \/ UNCHANGED work
              \/ Become([World EXCEPT !.run[r].inbox = @ + 1])
         [] OTHER -> Become([World EXCEPT !.run[r].inbox = @ + 1])
    /\ messages' = messages + 1
    /\ UNCHANGED <<op, stage, interrupted, resuming, restarts>>

-----------------------------------------------------------------------------

(* A session opened for a run that was closed meanwhile is disposed.       *)
Opened(r) ==
    /\ run[r].exec = "opening"
    /\ IF run[r].closed THEN Become([World EXCEPT !.run[r].exec = "off"])
       ELSE Become(BuildPrompt([World EXCEPT !.run[r].session = TRUE], r))
    /\ UNCHANGED op /\ Elsewhere

Prompted(r) ==
    /\ run[r].exec = "building"
    /\ IF run[r].closed THEN Become([World EXCEPT !.run[r].exec = "off"])
       ELSE Become([World EXCEPT !.run[r].state = "running", !.run[r].exec = "prompting"])
    /\ UNCHANGED op /\ Elsewhere

(* Opening the session, the prompt or the turn may fail.                   *)
Fails(r) ==
    /\ run[r].exec # "off"
    /\ IF run[r].closed THEN Become([World EXCEPT !.run[r].exec = "off"])
       ELSE \E w \in Complete(World, r, "failed") : Become(w)
    /\ UNCHANGED op /\ Elsewhere

(* The tools that report while the turn still goes: finish_task, ask_user. *)
Reports(r, s) ==
    /\ run[r].exec = "prompting" /\ ~run[r].closed
    /\ Become(Badge([World EXCEPT !.run[r].turn = "reported"], run[r].task, s))
    /\ UNCHANGED op /\ Elsewhere

EndTurn(r) ==
    /\ run[r].exec = "prompting"
    /\ IF run[r].closed THEN Become([World EXCEPT !.run[r].exec = "off"])
       ELSE \E w \in Complete(World, r, IF run[r].turn = "none" THEN "done"
                                        ELSE status[run[r].task]) : Become(w)
    /\ UNCHANGED op /\ Elsewhere

-----------------------------------------------------------------------------

(* The runtime refuses new work first; then every run of the map is closed.*)
Stopping ==
    /\ stage = "up" /\ restarts < MaxRestarts
    /\ stage' = "stopping"
    /\ UNCHANGED <<work, op, interrupted, resuming, messages, restarts>>

Stop ==
    /\ stage = "stopping"
    /\ stage' = "stopped"
    /\ Become(FoldSet(LAMBDA t, w : IF w.runs[t] = None THEN w ELSE Close(w, w.runs[t]), World, Tasks))
    /\ UNCHANGED <<op, interrupted, resuming, messages, restarts>>

(* The process ends, whatever it was doing, and the next one starts.       *)
Restart ==
    /\ restarts < MaxRestarts
    /\ restarts' = restarts + 1
    /\ runs' = [t \in Tasks |-> None] /\ run' = <<>> /\ queue' = <<>>
    /\ op' = [c \in Callers |-> Idle]
    /\ stage' = "up" /\ resuming' = None
    /\ interrupted' = {t \in Tasks : Resumable(status[t])}
    /\ UNCHANGED <<status, messages>>

(* What was interrupted is resumed one task after the other.               *)
ResumeBegin(t) ==
    /\ t \in interrupted /\ resuming = None
    /\ interrupted' = interrupted \ {t}
    /\ IF ~Resumable(status[t]) THEN resuming' = None /\ UNCHANGED work
       ELSE IF stage # "up" THEN resuming' = None /\ Become(Badge(World, t, "failed"))
       ELSE resuming' = t /\ UNCHANGED work
    /\ UNCHANGED <<op, stage, messages, restarts>>

ResumeEnd ==
    /\ resuming # None /\ Room
    /\ Become(IF stage = "stopped" \/ runs[resuming] # None THEN Badge(World, resuming, "failed")
              ELSE Kickoff(Badge(World, resuming, "working"), resuming))
    /\ resuming' = None
    /\ UNCHANGED <<op, stage, interrupted, messages, restarts>>

Executing(r) == Opened(r) \/ Prompted(r) \/ EndTurn(r)
Continuing(c) == SpawnRest(c) \/ RetryRest(c) \/ CancelRest(c) \/ RemoveRest(c) \/ DiscardRest(c)

Next ==
    \/ \E c \in Callers, t \in Tasks : Spawn(c, t) \/ Retry(c, t) \/ Cancel(c, t) \/ RemoveTask(c, t)
    \/ \E c \in Callers : Continuing(c)
    \/ \E t \in Tasks : Message(t)
    \/ \E r \in RunIds : Executing(r) \/ Fails(r) \/ \E s \in {"done", "waiting_user"} : Reports(r, s)
    \/ Stopping \/ Stop \/ Restart
    \/ \E t \in Tasks : ResumeBegin(t)
    \/ ResumeEnd

Spec == Init /\ [][Next]_vars

(* Sessions open or fail to, turns end (there is a time limit on them),    *)
(* and sessions that are aborted close.                                    *)
FairSpec ==
    /\ Spec
    /\ \A i \in 1 .. MaxRuns : WF_vars(i \in RunIds /\ Executing(i))
    /\ \A c \in Callers : WF_vars(Continuing(c))

-----------------------------------------------------------------------------

TypeOK ==
    /\ \A t \in Tasks : runs[t] # None => runs[t] \in RunIds /\ run[runs[t]].task = t
    /\ \A r \in RunIds :
         /\ run[r].state \in {"idle", "queued", "starting", "running"}
         /\ run[r].exec \in {"off", "opening", "building", "prompting"}
         /\ run[r].inbox \in Nat
    /\ \A i \in 1 .. Len(queue) : run[queue[i]].state = "queued" /\ ~run[queue[i]].closed
    /\ \A t \in Tasks : status[t] \in
         {"none", "queued", "working", "waiting_user", "done", "failed", "cancelled"}

AtWork(r) == run[r].state \in {"starting", "running"} /\ ~run[r].closed

(* "Concurrency is limited": no more runs are at work than the setting     *)
(* says.                                                                   *)
WithinTheLimit == Cardinality({r \in RunIds : AtWork(r)}) <= MaxConcurrent

(* "One harness session per task": no two sessions are prompted for a task *)
(* at once, one that is being closed included.                             *)
OneSessionPerTask ==
    \A r, s \in RunIds :
      run[r].exec = "prompting" /\ run[s].exec = "prompting" /\ run[r].task = run[s].task => r = s

(* Once nobody is in the middle of something with it, a task that shows    *)
(* work has a subagent for it, and one that shows it was cancelled has no  *)
(* subagent at work.                                                       *)
BadgeIsTrue ==
    stage = "up" =>
      \A t \in Tasks : ~Busy(t) =>
        /\ Resumable(status[t]) => IsWorking(World, t)
        /\ status[t] = "cancelled" => ~\E r \in RunIds : run[r].task = t /\ AtWork(r)

(* Whoever queues is started sooner or later, or taken off the queue.      *)
QueueMoves ==
    \A i \in 1 .. MaxRuns :
      (i \in RunIds /\ run[i].state = "queued" /\ ~run[i].closed)
        ~> ~(i \in RunIds /\ run[i].state = "queued" /\ ~run[i].closed)

(* A message that waits is put into a prompt, unless its run is closed.    *)
MessagesAreHeard ==
    \A i \in 1 .. MaxRuns :
      (i \in RunIds /\ run[i].inbox > 0 /\ ~run[i].closed)
        ~> ~(i \in RunIds /\ run[i].inbox > 0 /\ ~run[i].closed)
=============================================================================
