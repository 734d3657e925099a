---------------------------- MODULE Orchestrator ----------------------------
(***************************************************************************)
(* The orchestrator: what happens to the user's tasks is queued, batched   *)
(* into one turn of the model at a time, and every task of a turn the model*)
(* left alone is resolved when the turn ends. Checking off or deleting a   *)
(* task stops its work at once. A stop leaves tasks "triaging"; the next   *)
(* start triages those it finds in its notes again.                        *)
(*                                                                         *)
(* The watcher and the subagents are modelled by what the orchestrator sees*)
(* of them. Everything between two awaits is one action.                   *)
(***************************************************************************)
EXTENDS Naturals, FiniteSets

CONSTANTS
    Tasks,
    Messages,     \* messages written in the orchestrator's chat
    Redelegates,  \* a task may be delegated again while its old subagent is closed
    DaysPass,     \* a task's note may leave the watch window
    ActsEarly,    \* the model may act on a task of the note that has not settled
    MaxActs,      \* bound on what the user and the subagents do
    MaxTools,     \* bound on the tool calls of all turns
    MaxFaults,    \* bound on failing turns and stopped ones
    MaxStops,     \* bound on stops of the agent
    None

VARIABLES
    note,      \* a task as its note has it: "none", "open", "closed", "gone"
    told,      \* and as the watcher told the orchestrator last
    loaded,    \* tasks the watcher of this process can find
    past,      \* tasks whose note left the watch window
    rec,       \* the status of each task's record, None without one
    specs,     \* tasks whose record has a subagent's specification
    sub,       \* a task's subagent in this process: "none", "idle", "working"
    queue,     \* queued items: [kind, task, change] or [kind, id]
    previous,  \* previousStatus
    timer,     \* the drain timer is set
    draining,
    turn,      \* the turn under way, None without
    session,   \* the day's session exists
    stopped,
    closing,   \* subagents being closed: [task, active, removed, tool, last]
    spawning,  \* tasks whose old subagent is closed before the new one starts
    before,    \* what a task showed before it was triaged
    unanswered, \* messages of the chat no turn has ended for
    acts, tools, faults, stops

user == <<note, told, loaded, past>>
records == <<rec, specs>>
work == <<sub, closing, spawning>>
items == <<queue, previous, timer>>
loop == <<draining, turn, session>>
counts == <<acts, tools, faults, stops>>
vars == <<user, records, work, items, loop, stopped, before, unanswered, counts>>

Active == {"triaging", "working", "waiting_user"}
Restorable == {"done", "ignored", "failed", "waiting_user"}
Status == Active \cup Restorable \cup {"idle", "cancelled"}

Priority == [updated |-> 0, reopened |-> 1, added |-> 2, retry |-> 3]

TaskItem(t, change) == [kind |-> "task", task |-> t, change |-> change]
Reply(t) == [kind |-> "reply", task |-> t]
Report(t) == [kind |-> "report", task |-> t]
Direct(m) == [kind |-> "direct", id |-> m]

Triages(i) == i.kind \in {"task", "reply"}
Triaged(q) == {i.task : i \in {j \in q : Triages(j)}}

Found(t) == t \in loaded /\ note[t] \in {"open", "closed"}
Known(t) == Found(t) \/ rec[t] # None
Seen(t) == Known(t) /\ (told[t] = "none" => ActsEarly)

(* The turn tools reach as "this turn"; none once it has ended.            *)
TurnOpen == turn # None /\ turn.stage # "resetting"

Touched(t) == turn' = IF TurnOpen THEN [turn EXCEPT !.touched = @ \cup {t}] ELSE turn

-----------------------------------------------------------------------------

(* Slip: the timer is not set when something is queued in a turn's wake.   *)
EnqueuedSilently(q) ==
    /\ queue' = q
    /\ timer' = (timer \/ (~stopped /\ ~draining /\ turn # None))

Enqueued(q) ==
    /\ queue' = q
    /\ timer' = (timer \/ (~stopped /\ ~draining /\ q # {}))

(* An item of a task keeps the most telling change.                        *)
WithTask(q, t, change) ==
    LET existing == {i \in q : i.kind = "task" /\ i.task = t}
        kept == {i.change : i \in existing} \cup {change}
    IN (q \ existing) \cup {TaskItem(t, CHOOSE c \in kept : \A d \in kept : Priority[d] <= Priority[c])}

Dropped(q, t) == {i \in q : i.kind = "direct" \/ i.task # t}

DropQueued(t) ==
    /\ queue' = Dropped(queue, t)
    /\ previous' = [previous EXCEPT ![t] = None]

(* What a task showed before it was first triaged.                         *)
Recalled(t, ensured) ==
    before' = IF ensured[t] = "triaging" \/ previous[t] # None THEN before
              ELSE [before EXCEPT ![t] = ensured[t]]

(* A task with a record shows "triaging", unless a subagent works on it.   *)
BeginTriage(t, ensured) ==
    IF ensured[t] = None \/ sub[t] = "working"
    THEN rec' = ensured /\ UNCHANGED <<previous, before>>
    ELSE /\ rec' = [ensured EXCEPT ![t] = "triaging"]
         /\ previous' = IF previous[t] = None THEN [previous EXCEPT ![t] = ensured[t]] ELSE previous
         /\ Recalled(t, ensured)

Ensured(t) == IF rec[t] = None THEN [rec EXCEPT ![t] = "idle"] ELSE rec

(* A status is set on a task's record, created if its note has it.         *)
SetStatus(r, t, s) == IF r[t] = None /\ ~Found(t) THEN r ELSE [r EXCEPT ![t] = s]

-----------------------------------------------------------------------------

Init ==
    /\ note = [t \in Tasks |-> "none"] /\ told = note
    /\ loaded = Tasks /\ past = {}
    /\ rec = [t \in Tasks |-> None] /\ specs = {}
    /\ sub = [t \in Tasks |-> "none"]
    /\ queue = {} /\ previous = [t \in Tasks |-> None] /\ timer = FALSE
    /\ draining = FALSE /\ turn = None /\ session = FALSE
    /\ stopped = FALSE /\ closing = {} /\ spawning = {}
    /\ before = [t \in Tasks |-> None] /\ unanswered = {}
    /\ acts = 0 /\ tools = 0 /\ faults = 0 /\ stops = 0

Act == acts < MaxActs /\ acts' = acts + 1 /\ UNCHANGED <<tools, faults, stops>>

(* The user writes, checks off, opens again or deletes a task.             *)
WriteTask(t) ==
    /\ Act
    /\ \E v \in {"open", "closed", "gone"} :
         /\ v # note[t] /\ note[t] # "gone"
         /\ note[t] = "none" => v = "open"
         /\ note' = [note EXCEPT ![t] = v]
    /\ UNCHANGED <<told, loaded, past, records, work, items, loop, stopped, before, unanswered>>

(* A day passes: the watcher of the next process doesn't see the note.     *)
DayPasses(t) ==
    /\ DaysPass /\ t \notin past /\ note[t] # "none"
    /\ past' = past \cup {t}
    /\ UNCHANGED <<note, told, loaded, records, work, items, loop, stopped, before, unanswered, counts>>

Settling(t) == ~stopped /\ told[t] # note[t] /\ t \notin past

Tell(t) ==
    /\ told' = [told EXCEPT ![t] = note[t]]
    /\ UNCHANGED <<note, loaded, past, loop, stopped, unanswered, counts>>

(* A new task, or one opened again.                                        *)
Added(t) ==
    /\ Settling(t) /\ note[t] = "open" /\ Tell(t)
    /\ BeginTriage(t, Ensured(t))
    /\ Enqueued(WithTask(queue, t, IF told[t] = "none" THEN "added" ELSE "reopened"))
    /\ UNCHANGED <<specs, work>>

(* Closed or gone before it was told: there is no event.                   *)
Unannounced(t) ==
    /\ Settling(t) /\ told[t] = "none" /\ note[t] # "open" /\ Tell(t)
    /\ UNCHANGED <<records, work, items, before>>

(* Closes the task's subagent and, once that is done, shows it cancelled:  *)
(* at once when there is none.                                             *)
Cancel(t, removed, tool, last) ==
    LET active == sub[t] = "working" \/ rec[t] \in Active IN
    IF sub[t] = "none"
    THEN /\ rec' = IF removed THEN [rec EXCEPT ![t] = None]
                   ELSE IF active THEN SetStatus(rec, t, "cancelled") ELSE rec
         /\ specs' = IF removed THEN specs \ {t} ELSE specs
         /\ UNCHANGED <<sub, closing>>
    ELSE /\ sub' = [sub EXCEPT ![t] = "none"]
         /\ closing' = closing \cup {[task |-> t, active |-> active, removed |-> removed,
                                      tool |-> tool, last |-> last]}
         /\ UNCHANGED records

(* A task was checked off or deleted.                                      *)
Ended(t) ==
    /\ Settling(t) /\ note[t] \in {"closed", "gone"} /\ told[t] # "none" /\ Tell(t)
    /\ DropQueued(t)
    /\ LET removed == note[t] = "gone" IN
       IF sub[t] = "working" \/ rec[t] \in Active
       THEN Cancel(t, removed, FALSE, FALSE)
       ELSE IF removed THEN Cancel(t, TRUE, FALSE, TRUE)
       ELSE UNCHANGED <<records, sub, closing>>
    /\ UNCHANGED <<timer, spawning, before>>

(* Its text changed: told to the subagent at work, queued otherwise.       *)
Updated(t) ==
    /\ Act /\ ~stopped /\ told[t] = note[t] /\ note[t] \in {"open", "closed"}
    /\ IF sub[t] = "working" THEN UNCHANGED <<queue, timer>>
       ELSE Enqueued(WithTask(queue, t, "updated"))
    /\ UNCHANGED <<user, records, work, previous, loop, stopped, before, unanswered>>

(* A reply in a task's thread goes to its subagent, if it has one.         *)
PostUserMessage(t) ==
    /\ Act /\ ~stopped /\ Known(t) /\ rec[t] # None
    /\ IF sub[t] # "none"
       THEN /\ sub' = [sub EXCEPT ![t] = "working"]
            /\ rec' = IF sub[t] = "idle" THEN SetStatus(rec, t, "working") ELSE rec
            /\ UNCHANGED <<items, before>>
       ELSE /\ BeginTriage(t, rec) /\ Enqueued(queue \cup {Reply(t)})
            /\ UNCHANGED sub
    /\ UNCHANGED <<user, specs, closing, spawning, loop, stopped, unanswered>>

(* A message in the orchestrator's chat.                                   *)
HandleDirectMessage(m) ==
    /\ Act /\ ~stopped /\ m \notin unanswered
    /\ Enqueued(queue \cup {Direct(m)})
    /\ unanswered' = unanswered \cup {m}
    /\ UNCHANGED <<user, records, work, previous, loop, stopped, before>>

(* Cancel in a task's thread.                                              *)
CancelThread(t) ==
    /\ Act /\ ~stopped /\ rec[t] # None
    /\ DropQueued(t)
    /\ Cancel(t, FALSE, FALSE, FALSE)
    /\ UNCHANGED <<user, timer, spawning, loop, stopped, before, unanswered>>

(* Retry, of a task no subagent worked on.                                 *)
RetryTask(t) ==
    /\ Act /\ ~stopped /\ rec[t] # None /\ t \notin specs /\ sub[t] = "none"
    /\ BeginTriage(t, rec)
    /\ Enqueued(WithTask(queue, t, "retry"))
    /\ UNCHANGED <<user, specs, work, loop, stopped, unanswered>>

(* And of one a subagent did: it starts over.                              *)
RetrySubagent(t) ==
    /\ Act /\ ~stopped /\ rec[t] # None /\ (t \in specs \/ sub[t] # "none") /\ sub[t] # "working"
    /\ Redelegates \/ \A b \in closing : b.task # t
    /\ sub' = [sub EXCEPT ![t] = "working"]
    /\ rec' = SetStatus(rec, t, "working")
    /\ UNCHANGED <<user, specs, closing, spawning, items, loop, stopped, before, unanswered>>

(* A subagent ends a turn, and that is reported.                           *)
SubagentFinishes(t) ==
    /\ Act /\ sub[t] = "working"
    /\ sub' = [sub EXCEPT ![t] = "idle"]
    /\ \E s \in {"done", "failed", "waiting_user"} : rec' = SetStatus(rec, t, s)
    /\ IF stopped THEN UNCHANGED <<queue, timer>> ELSE Enqueued(queue \cup {Report(t)})
    /\ UNCHANGED <<user, specs, closing, spawning, previous, loop, stopped, before, unanswered>>

(* A subagent is closed; what waited for that goes on.                     *)
Closed(b) ==
    /\ b \in closing
    /\ LET t == b.task
           shown == IF b.active /\ ~b.last THEN SetStatus(rec, t, "cancelled") ELSE rec
           again == b.removed /\ ~b.last /\ sub[t] # "none"
       IN /\ sub' = IF again THEN [sub EXCEPT ![t] = "none"] ELSE sub
          /\ closing' = (closing \ {b}) \cup IF again THEN {[b EXCEPT !.last = TRUE]} ELSE {}
          /\ rec' = IF b.removed /\ ~again THEN [rec EXCEPT ![t] = None] ELSE shown
          /\ specs' = IF b.removed /\ ~again THEN specs \ {t} ELSE specs
          /\ IF b.tool THEN Touched(t) ELSE UNCHANGED turn
    /\ UNCHANGED <<user, spawning, items, draining, session, stopped, before, unanswered, counts>>

-----------------------------------------------------------------------------

(* Changes queued for a task its subagent works on go straight to it.      *)
Routed(i) == i.kind = "task" /\ i.change = "updated" /\ sub[i.task] = "working"

(* The loop goes on with everything queued, or ends.                       *)
NextTurn ==
    LET batch == {i \in queue : ~Routed(i)}
        more == ~stopped /\ batch # {}
    IN /\ queue' = IF stopped THEN queue ELSE {}
       /\ turn' = IF more THEN [items |-> batch, stage |-> IF session THEN "drawings" ELSE "session",
                                touched |-> {}, commented |-> {}, cancelled |-> FALSE, failed |-> FALSE,
                                aborted |-> FALSE]
                  ELSE None
       /\ draining' = more

StartDrain ==
    /\ timer /\ ~draining /\ ~stopped
    /\ timer' = FALSE
    /\ NextTurn
    /\ UNCHANGED <<user, records, work, previous, session, stopped, before, unanswered, counts>>

TurnStep == UNCHANGED <<user, records, work, items, draining, stopped, before, unanswered>>

(* A turn that ends while the agent stops resolves nothing; one that failed*)
(* or was stopped resets its session first.                                *)
TurnOver(failed) ==
    /\ IF stopped THEN turn' = None /\ draining' = FALSE
       ELSE /\ turn' = [turn EXCEPT !.stage = "resetting", !.failed = failed]
            /\ UNCHANGED draining
    /\ UNCHANGED <<user, records, work, items, stopped, before, unanswered>>

(* A session is opened; a turn stopped meanwhile goes no further.          *)
SessionOpens ==
    /\ turn # None /\ turn.stage = "session"
    /\ session' = TRUE
    /\ IF turn.cancelled THEN TurnOver(FALSE)
       ELSE turn' = [turn EXCEPT !.stage = "drawings"] /\ TurnStep
    /\ UNCHANGED counts

Fault == faults < MaxFaults /\ faults' = faults + 1 /\ UNCHANGED <<acts, tools, stops>>

SessionFails ==
    /\ turn # None /\ turn.stage = "session" /\ Fault
    /\ TurnOver(~turn.cancelled)
    /\ UNCHANGED session

(* The digest is ready and the model is prompted.                          *)
Prompt ==
    /\ turn # None /\ turn.stage = "drawings"
    /\ turn' = [turn EXCEPT !.stage = "prompting"]
    /\ TurnStep /\ UNCHANGED <<session, counts>>

Prompting == turn # None /\ turn.stage = "prompting"

(* The harness reports an error, or the turn takes too long: it is aborted.*)
PromptFails ==
    /\ Prompting /\ ~turn.aborted /\ Fault
    /\ turn' = [turn EXCEPT !.stage = "aborting", !.failed = ~turn.cancelled]
    /\ TurnStep /\ UNCHANGED session

Aborted ==
    /\ turn # None /\ turn.stage = "aborting"
    /\ TurnOver(turn.failed)
    /\ UNCHANGED <<session, counts>>

(* The user stops the turn: its session is aborted.                        *)
CancelTurn ==
    /\ TurnOpen /\ ~turn.cancelled /\ Fault
    /\ turn' = [turn EXCEPT !.cancelled = TRUE, !.aborted = @ \/ (turn.stage = "prompting" /\ session)]
    /\ TurnStep /\ UNCHANGED session

(* Slip: the tasks of a stopped turn are left as they are.                 *)
ResolvedLater(t) ==
    LET i == turn IN
    IF t \notin Triaged(i.items) \/ rec[t] # "triaging" \/ t \in i.touched \/ i.cancelled THEN rec[t]
    ELSE IF i.failed THEN "failed"
    ELSE IF t \in i.commented THEN "done"
    ELSE IF previous[t] \in Restorable THEN previous[t] ELSE "ignored"

(* What a task of the turn shows once it has ended: what the model decided,*)
(* else that it failed, was stopped, was answered, or what it showed.      *)
Resolved(t) ==
    LET i == turn IN
    IF t \notin Triaged(i.items) \/ rec[t] # "triaging" \/ t \in i.touched THEN rec[t]
    ELSE IF i.failed THEN "failed"
    ELSE IF i.cancelled THEN IF previous[t] \in Restorable THEN previous[t] ELSE "cancelled"
    ELSE IF t \in i.commented THEN "done"
    ELSE IF previous[t] \in Restorable THEN previous[t] ELSE "ignored"

ResolveTurn ==
    /\ rec' = [t \in Tasks |-> Resolved(t)]
    /\ previous' = [t \in Tasks |-> IF t \in Triaged(turn.items) THEN None ELSE previous[t]]
    /\ unanswered' = unanswered \ {i.id : i \in {j \in turn.items : j.kind = "direct"}}
    /\ NextTurn

(* The model's turn ends.                                                  *)
PromptEnds ==
    /\ Prompting
    /\ IF stopped \/ turn.cancelled THEN TurnOver(FALSE)
       ELSE ResolveTurn /\ UNCHANGED <<user, specs, work, timer, stopped, before>>
    /\ UNCHANGED <<session, counts>>

(* A turn that failed or was stopped drops its session, then is resolved.  *)
Reset ==
    /\ turn # None /\ turn.stage = "resetting"
    /\ ResolveTurn
    /\ session' = FALSE
    /\ UNCHANGED <<user, specs, work, timer, stopped, before, counts>>

-----------------------------------------------------------------------------

Tool ==
    /\ Prompting /\ ~turn.aborted
    /\ tools < MaxTools /\ tools' = tools + 1 /\ UNCHANGED <<acts, faults, stops>>

ToolStep == UNCHANGED <<user, items, draining, session, stopped, before, unanswered>>

(* A subagent of its own for the task, the old one's again, or a new one   *)
(* once the old one is closed.                                             *)
SpawnSubagent(t) ==
    /\ Tool /\ Seen(t) /\ (Found(t) => note[t] # "closed") /\ sub[t] # "working"
    /\ specs' = specs \cup {t}
    /\ Redelegates \/ \A b \in closing : b.task # t
    /\ \/ /\ sub' = [sub EXCEPT ![t] = "working"]
          /\ rec' = SetStatus(rec, t, "working")
          /\ Touched(t) /\ UNCHANGED spawning
       \/ /\ Redelegates /\ sub[t] = "idle"
          /\ sub' = [sub EXCEPT ![t] = "none"]
          /\ spawning' = spawning \cup {t}
          /\ rec' = Ensured(t)
          /\ UNCHANGED turn
    /\ ToolStep /\ UNCHANGED closing

Spawned(t) ==
    /\ t \in spawning /\ spawning' = spawning \ {t}
    /\ sub' = [sub EXCEPT ![t] = "working"]
    /\ rec' = SetStatus(rec, t, "working")
    /\ Touched(t)
    /\ ToolStep /\ UNCHANGED <<specs, closing, counts>>

PostComment(t) ==
    /\ Tool /\ Seen(t)
    /\ rec' = Ensured(t)
    /\ turn' = [turn EXCEPT !.commented = @ \cup {t}]
    /\ ToolStep /\ UNCHANGED <<specs, work>>

(* ask_user, set_task_status.                                              *)
SetTaskStatus(t) ==
    /\ Tool /\ Seen(t) /\ sub[t] # "working"
    /\ \E s \in {"ignored", "done", "waiting_user", "failed"} : rec' = [rec EXCEPT ![t] = s]
    /\ Touched(t)
    /\ ToolStep /\ UNCHANGED <<specs, work>>

MessageSubagent(t) ==
    /\ Tool /\ Seen(t) /\ sub[t] # "none"
    /\ sub' = [sub EXCEPT ![t] = "working"]
    /\ rec' = IF sub[t] = "idle" THEN SetStatus(rec, t, "working") ELSE rec
    /\ Touched(t)
    /\ ToolStep /\ UNCHANGED <<specs, closing, spawning>>

CancelSubagent(t) ==
    /\ Tool /\ (sub[t] = "working" \/ rec[t] \in Active)
    /\ Cancel(t, FALSE, TRUE, FALSE)
    /\ IF sub[t] = "none" THEN Touched(t) ELSE UNCHANGED turn
    /\ ToolStep /\ UNCHANGED spawning

-----------------------------------------------------------------------------

(* The agent stops: the queue is dropped, the turn's session aborted.      *)
Stop ==
    /\ ~stopped /\ stops < MaxStops /\ stops' = stops + 1
    /\ stopped' = TRUE /\ timer' = FALSE /\ queue' = {}
    /\ session' = FALSE
    /\ turn' = IF Prompting THEN [turn EXCEPT !.aborted = @ \/ session] ELSE turn
    /\ UNCHANGED <<user, records, work, previous, draining, before, unanswered, acts, tools, faults>>

Recovered(r, found) == {t \in found : r[t] = "triaging"}

(* The next start: work that was going is picked up or shown failed, and   *)
(* the tasks that were being triaged are triaged again.                    *)
Restart ==
    /\ stopped /\ ~draining /\ closing = {} /\ spawning = {}
    /\ stopped' = FALSE
    /\ loaded' = Tasks \ past /\ session' = FALSE
    /\ \E resumed \in SUBSET {t \in Tasks : rec[t] = "working"} :
         /\ sub' = [t \in Tasks |-> IF t \in resumed THEN "working" ELSE "none"]
         /\ rec' = [t \in Tasks |-> IF rec[t] = "working" /\ t \notin resumed THEN "failed" ELSE rec[t]]
    /\ LET again == Recovered(rec, {t \in Tasks \ past : note[t] \in {"open", "closed"}}) IN
       /\ queue' = {TaskItem(t, "retry") : t \in again}
       /\ timer' = (again # {})
       /\ previous' = [t \in Tasks |-> IF t \in again THEN rec[t] ELSE None]
    /\ UNCHANGED <<note, told, past, specs, closing, spawning, draining, turn, before, unanswered, counts>>

TurnRuns ==
    \/ SessionOpens \/ Prompt \/ PromptEnds \/ Aborted \/ Reset

Background ==
    \/ \E b \in closing : Closed(b)
    \/ \E t \in Tasks : Spawned(t)

Watcher == \E t \in Tasks : Added(t) \/ Unannounced(t) \/ Ended(t)

Next ==
    \/ \E t \in Tasks :
         \/ WriteTask(t) \/ DayPasses(t)
         \/ Updated(t) \/ PostUserMessage(t) \/ CancelThread(t) \/ RetryTask(t)
         \/ RetrySubagent(t) \/ SubagentFinishes(t)
         \/ SpawnSubagent(t) \/ PostComment(t) \/ SetTaskStatus(t) \/ MessageSubagent(t) \/ CancelSubagent(t)
    \/ \E m \in Messages : HandleDirectMessage(m)
    \/ Watcher \/ Background
    \/ StartDrain \/ TurnRuns
    \/ SessionFails \/ PromptFails \/ CancelTurn
    \/ Stop \/ Restart

Spec == Init /\ [][Next]_vars

(* The timer fires, sessions open, a turn ends or is timed out, subagents  *)
(* are closed, and changes of the notes settle.                            *)
LiveSpec == Spec /\ WF_vars(StartDrain) /\ WF_vars(TurnRuns) /\ WF_vars(Background)
                 /\ WF_vars(Watcher)

-----------------------------------------------------------------------------

TypeOK ==
    /\ \A t \in Tasks : rec[t] \in Status \cup {None} /\ previous[t] \in Status \cup {None}
    /\ turn # None => turn.items # {} /\ draining
    /\ draining => turn # None
    /\ \A t \in Tasks : sub[t] \in {"none", "idle", "working"}
    /\ \A i, j \in queue : i.kind = "task" /\ j.kind = "task" /\ i.task = j.task => i = j

(* What is queued has a timer set for it, or is looked at when the turn    *)
(* under way ends.                                                         *)
NothingWaitsUnheard == ~stopped /\ queue # {} => timer \/ draining

(* A task that shows "triaging" is: it is queued, part of the turn, or its *)
(* work is being stopped, or is about to be.                               *)
TriageIsUnderWay ==
    \A t \in Tasks : ~stopped /\ rec[t] = "triaging" =>
        \/ t \in Triaged(queue)
        \/ turn # None /\ t \in Triaged(turn.items)
        \/ \E b \in closing : b.task = t
        \/ Settling(t)

(* A deleted task keeps no record and no subagent once its work is stopped.*)
RemovedIsGone ==
    \A t \in Tasks : told[t] = "gone" /\ ~stopped /\ spawning = {} /\ (\A b \in closing : b.task # t)
        => rec[t] = None /\ sub[t] = "none"

LeftAlone(t) == t \in Triaged(turn.items) /\ t \notin turn.touched

Resolves == turn # None /\ ~stopped /\ (Reset \/ (PromptEnds /\ ~turn.cancelled))

Kept(t) ==
    LeftAlone(t) /\ rec[t] = "triaging" /\ ~turn.failed /\ before[t] \in Restorable
        => rec'[t] = before[t] \/ t \in turn.commented

(* "A re-triaged task keeps its earlier outcome unless the model acted on  *)
(* it", and one the user stopped goes back to it: unless it was triaged    *)
(* again during a turn that has it.                                        *)
OutcomesKept == Resolves => \A t \in Tasks : previous[t] \in Restorable => Kept(t)
KeepsOutcome == [][OutcomesKept]_vars

(* A message in the chat is "answered in the next turn, after the one      *)
(* running now": it is not forgotten.                                      *)
MessageWaits ==
    ~stopped => \A m \in unanswered :
        Direct(m) \in queue \/ (turn # None /\ Direct(m) \in turn.items)

(* No task stays "triaging" while the agent runs.                          *)
TriageEnds == \A t \in Tasks : (rec[t] = "triaging" /\ ~stopped) ~> (rec[t] # "triaging" \/ stopped)
=============================================================================
