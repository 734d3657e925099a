---------------------------- MODULE ApprovalGate ----------------------------
(***************************************************************************)
(* The safety gate and the approval broker: a tool call of a task's        *)
(* subagent is evaluated, then allowed, denied, or held until the user     *)
(* decides, the request expires, or its task is cancelled.                 *)
(*                                                                         *)
(* The harness gives a call up as soon as its session is aborted, but the  *)
(* evaluation it started isn't told (no signal reaches the evaluator or    *)
(* the broker): the gate goes on by itself and may ask the user later.     *)
(* Between the evaluator's answer and the request the gate never waits, so *)
(* that stretch is one action.                                             *)
(***************************************************************************)
EXTENDS FiniteSets, Integers

CONSTANTS
    Tasks,       \* the tasks a subagent works on
    Calls,       \* the tool calls they make
    TaskOf,      \* the task of each call
    ToolOf,      \* the tool (and its target) of each call
    Verdicts,    \* what the evaluator may find
    Settable,    \* the approval policies the user picks from
    None         \* no verdict yet, no approval, no way

Scopes == {"once", "task", "always"}
Decided == {"approved", "denied", "expired", "cancelled"}
Approval == [status : Decided \cup {"pending"}, scope : Scopes]

(* What the evaluator finds, and names that nothing else has.              *)
ASSUME GateAssumption ==
    /\ TaskOf \in [Calls -> Tasks]
    /\ Settable \subseteq 1 .. 4
    /\ None \notin Tasks /\ None \notin Approval
    /\ \A v \in Verdicts :
         v \in [decision : {"allow", "deny", "require_approval"}, risk : 1 .. 4,
                effectful : BOOLEAN, categories : {v.categories}]

VARIABLES
    policy,      \* the user's approval policy, an index of APPROVAL_POLICIES
    call,        \* what each call's gate and harness are at
    verdict,     \* what the evaluator found of each call
    via,         \* how a call was allowed, as the journal records it
    approval,    \* the approval asked for each call
    waiters,     \* the approvals whose gate waits for the outcome
    grants,      \* standing grants
    saved,       \* approvals.json
    session,     \* each task's session
    status       \* the badge of each task

vars == <<policy, call, verdict, via, approval, waiters, grants, saved, session, status>>

High == 3
Policies == 1 .. 4
AskEveryAction == 1
AskRisky == 2
AskHighRisk == 3
RunEverything == 4

Grant == [tool : {ToolOf[c] : c \in Calls}, task : Tasks \cup {None}, risk : 1 .. 4,
          categories : {v.categories : v \in Verdicts}]

-----------------------------------------------------------------------------

PolicyAsks(p, v) ==
    CASE p = AskEveryAction -> v.decision = "require_approval" \/ v.effectful
      [] p = AskRisky       -> v.decision = "require_approval"
      [] p = AskHighRisk    -> v.decision = "require_approval" /\ v.risk >= High
      [] p = RunEverything  -> FALSE

(* Slip: the risk isn't compared.                                          *)
CoversAnyRisk(g, c, v) ==
    g.tool = ToolOf[c] /\ g.task \in {None, TaskOf[c]} /\ v.categories \subseteq g.categories

(* A grant covers its own tool and target, in its own task unless it is    *)
(* for always, up to its risk and within its categories.                   *)
Covers(g, c, v) ==
    /\ g.tool = ToolOf[c]
    /\ g.task \in {None, TaskOf[c]}
    /\ v.categories \subseteq g.categories
    /\ v.risk <= g.risk

FindGrant(c, v) == \E g \in grants : Covers(g, c, v)

GrantOf(c, scope) ==
    [tool |-> ToolOf[c], task |-> IF scope = "task" THEN TaskOf[c] ELSE None,
     risk |-> verdict[c].risk, categories |-> verdict[c].categories]

Pending == {c \in Calls : approval[c] # None /\ approval[c].status = "pending"}
PendingOf(t) == {c \in Pending : TaskOf[c] = t}

Active == {"working", "waiting_approval"}

(* A subagent that isn't idle works on the task.                           *)
IsWorking(t) == session[t] = "open"

(* The badge follows the approvals: it waits while one is pending, and     *)
(* goes back to work with the last one, if the subagent still works.       *)
OnApproval(t, stillPending) ==
    IF stillPending # {} THEN "waiting_approval"
    ELSE IF IsWorking(t) /\ status[t] = "waiting_approval" THEN "working"
    ELSE status[t]

-----------------------------------------------------------------------------

Init ==
    /\ policy \in Settable
    /\ call = [c \in Calls |-> [gate |-> "idle", harness |-> "idle"]]
    /\ verdict = [c \in Calls |-> None]
    /\ via = [c \in Calls |-> None]
    /\ approval = [c \in Calls |-> None]
    /\ waiters = {}
    /\ grants = {}
    /\ saved = [approval |-> approval, grants |-> {}]
    /\ session = [t \in Tasks |-> "none"]
    /\ status = [t \in Tasks |-> "idle"]

(* Spawn, a message to a subagent that finished, or a resume.              *)
OpenSession(t) ==
    /\ session[t] \in {"none", "idle"}
    /\ session' = [session EXCEPT ![t] = "open"]
    /\ status' = [status EXCEPT ![t] = "working"]
    /\ UNCHANGED <<policy, call, verdict, via, approval, waiters, grants, saved>>

Complete(t) ==
    /\ session[t] = "open"
    /\ \A c \in Calls : TaskOf[c] = t => call[c].harness # "asking"
    /\ session' = [session EXCEPT ![t] = "idle"]
    /\ status' = [status EXCEPT ![t] = "done"]
    /\ UNCHANGED <<policy, call, verdict, via, approval, waiters, grants, saved>>

(* The model calls a tool: the gate resolves the session's context and     *)
(* starts the evaluation.                                                  *)
AskGate(c) ==
    /\ session[TaskOf[c]] = "open"
    /\ call[c] = [gate |-> "idle", harness |-> "idle"]
    /\ call' = [call EXCEPT ![c] = [gate |-> "evaluating", harness |-> "asking"]]
    /\ UNCHANGED <<policy, verdict, via, approval, waiters, grants, saved, session, status>>

(* The evaluator answers (the judge may take seconds): deny blocks under   *)
(* every policy; otherwise the policy of now, then a standing grant, let   *)
(* the call pass, or the user is asked.                                    *)
Evaluated(c, v) ==
    /\ call[c].gate = "evaluating"
    /\ verdict' = [verdict EXCEPT ![c] = v]
    /\ UNCHANGED <<policy, grants, saved, session>>

Denied(c, v) ==
    /\ v.decision = "deny"
    /\ Evaluated(c, v)
    /\ call' = [call EXCEPT ![c].gate = "denied"]
    /\ UNCHANGED <<via, approval, waiters, status>>

Allowed(c, v, how) ==
    /\ Evaluated(c, v)
    /\ call' = [call EXCEPT ![c].gate = "allowed"]
    /\ via' = [via EXCEPT ![c] = how]
    /\ UNCHANGED <<approval, waiters, status>>

AllowedByPolicy(c, v) ==
    /\ v.decision # "deny" /\ ~PolicyAsks(policy, v)
    /\ Allowed(c, v, IF v.decision = "allow" THEN "evaluator" ELSE "policy")

AllowedByGrant(c, v) ==
    /\ v.decision # "deny" /\ PolicyAsks(policy, v) /\ FindGrant(c, v)
    /\ Allowed(c, v, "grant")

Request(c, v) ==
    /\ v.decision # "deny" /\ PolicyAsks(policy, v) /\ ~FindGrant(c, v)
    /\ Evaluated(c, v)
    /\ call' = [call EXCEPT ![c].gate = "waiting"]
    /\ approval' = [approval EXCEPT ![c] = [status |-> "pending", scope |-> "once"]]
    /\ waiters' = waiters \cup {c}
    /\ status' = [status EXCEPT ![TaskOf[c]] = OnApproval(TaskOf[c], {c})]
    /\ UNCHANGED via

Evaluate(c) == \E v \in Verdicts :
    Denied(c, v) \/ AllowedByPolicy(c, v) \/ AllowedByGrant(c, v) \/ Request(c, v)

-----------------------------------------------------------------------------

(* Every gate that waits for one of `cs` hears the outcome at once.        *)
Answer(cs, outcome) ==
    /\ call' = [c \in Calls |-> IF c \in cs \cap waiters
                                THEN [call[c] EXCEPT !.gate = outcome] ELSE call[c]]
    /\ via' = [c \in Calls |-> IF c \in cs \cap waiters /\ outcome = "allowed"
                               THEN "approval" ELSE via[c]]

(* One way to end pending approvals, whoever ends them: the first wins,    *)
(* the rest find them decided. `cs` are pending.                           *)
FinishAll(cs, decided, scope) ==
    /\ approval' = [c \in Calls |-> IF c \in cs THEN [status |-> decided, scope |-> scope]
                                    ELSE approval[c]]
    /\ Answer(cs, IF decided = "approved" THEN "allowed" ELSE "denied")
    /\ waiters' = waiters \ cs

Badges(cs) ==
    [t \in Tasks |-> IF \E c \in cs : TaskOf[c] = t
                     THEN OnApproval(t, PendingOf(t) \ cs) ELSE status[t]]

Approve(c, scope) ==
    /\ c \in Pending
    /\ grants' = IF scope = "once" THEN grants ELSE grants \cup {GrantOf(c, scope)}
    /\ FinishAll({c}, "approved", scope)
    /\ status' = Badges({c})
    /\ UNCHANGED <<policy, verdict, saved, session>>

Deny(c) ==
    /\ c \in Pending
    /\ FinishAll({c}, "denied", "once")
    /\ status' = Badges({c})
    /\ UNCHANGED <<policy, verdict, grants, saved, session>>

Expire(c) ==
    /\ c \in Pending /\ c \in waiters
    /\ FinishAll({c}, "expired", "once")
    /\ status' = Badges({c})
    /\ UNCHANGED <<policy, verdict, grants, saved, session>>

(* A looser policy also approves what is waiting and it wouldn't ask       *)
(* about; a stricter one leaves waiting approvals alone.                   *)
ApprovePending(p) ==
    IF p > policy THEN {c \in Pending : ~PolicyAsks(p, [verdict[c] EXCEPT !.effectful = TRUE])}
    ELSE {}

SetPolicy(p) ==
    /\ p # policy
    /\ policy' = p
    /\ FinishAll(ApprovePending(p), "approved", "once")
    /\ status' = Badges(ApprovePending(p))
    /\ UNCHANGED <<verdict, grants, saved, session>>

-----------------------------------------------------------------------------

(* The harness passes the gate's answer on: an allowed call runs.          *)
Runs(c) == call[c].harness = "asking" /\ call[c].gate = "allowed"

Deliver(c) ==
    /\ call[c].harness = "asking" /\ call[c].gate \in {"allowed", "denied"}
    /\ call' = [call EXCEPT ![c].harness = IF Runs(c) THEN "run" ELSE "blocked"]
    /\ UNCHANGED <<policy, verdict, via, approval, waiters, grants, saved, session, status>>

(* Closing a session aborts it: a call at the gate is blocked there and    *)
(* then, whatever the gate is doing.                                       *)
Aborted(ts) == [c \in Calls |-> IF TaskOf[c] \in ts /\ call[c].harness = "asking"
                                THEN [call[c] EXCEPT !.harness = "blocked"] ELSE call[c]]

(* Only work that was active when the cancel began becomes "cancelled".    *)
Close(t, how) ==
    /\ session[t] \in {"open", "idle"}
    /\ session' = [session EXCEPT ![t] =
                      IF how = "cancelling" /\ session[t] = "idle" /\ status[t] \notin Active
                      THEN "dropping" ELSE how]
    /\ call' = Aborted({t})
    /\ UNCHANGED <<policy, verdict, via, approval, waiters, grants, saved, status>>

(* Disposing the session took a while; then its approvals are cancelled.   *)
Cancelled(t) ==
    /\ session[t] \in {"cancelling", "dropping"}
    /\ session' = [session EXCEPT ![t] = "none"]
    /\ FinishAll(PendingOf(t), "cancelled", "once")
    /\ status' = [status EXCEPT ![t] = IF session[t] = "cancelling" THEN "cancelled" ELSE @]
    /\ UNCHANGED <<policy, verdict, grants, saved>>

Retried(t) ==
    /\ session[t] = "retrying"
    /\ session' = [session EXCEPT ![t] = "open"]
    /\ FinishAll(PendingOf(t), "cancelled", "once")
    /\ status' = [status EXCEPT ![t] = "working"]
    /\ UNCHANGED <<policy, verdict, grants, saved>>

-----------------------------------------------------------------------------

(* The debounced write of approvals.json.                                  *)
Persist ==
    /\ saved' = [approval |-> approval, grants |-> grants]
    /\ UNCHANGED <<policy, call, verdict, via, approval, waiters, grants, session, status>>

(* A start loads what was saved: an approval still pending there loads as  *)
(* expired, since nobody waits for it. Calls under way are gone.           *)
Load(state) ==
    /\ approval' = [c \in Calls |->
                      IF state.approval[c] # None /\ state.approval[c].status = "pending"
                      THEN [state.approval[c] EXCEPT !.status = "expired"]
                      ELSE state.approval[c]]
    /\ grants' = state.grants
    /\ saved' = state
    /\ waiters' = {}
    /\ session' = [t \in Tasks |-> "none"]
    /\ call' = [c \in Calls |-> [gate |-> IF call[c].gate = "idle" THEN "idle" ELSE "gone",
                                 harness |-> Aborted(Tasks)[c].harness]]
    /\ UNCHANGED <<policy, verdict, via, status>>

Crash == Load(saved)

(* A stop closes every session, cancels the approvals of those that worked *)
(* and writes the file; the next start, here or elsewhere, loads it.       *)
Stop ==
    Load([approval |-> [c \in Calls |-> IF c \in Pending /\ IsWorking(TaskOf[c])
                                       THEN [approval[c] EXCEPT !.status = "cancelled"]
                                       ELSE approval[c]],
          grants |-> grants])

Next ==
    \/ \E t \in Tasks : OpenSession(t) \/ Complete(t) \/ Cancelled(t) \/ Retried(t)
    \/ \E t \in Tasks, how \in {"cancelling", "retrying"} : Close(t, how)
    \/ \E c \in Calls : AskGate(c) \/ Evaluate(c) \/ Deny(c) \/ Expire(c) \/ Deliver(c)
    \/ \E c \in Calls, scope \in Scopes : Approve(c, scope)
    \/ \E p \in Settable : SetPolicy(p)
    \/ Persist
    \/ Crash
    \/ Stop

Spec == Init /\ [][Next]_vars

(* The evaluator answers (the judge times out), every pending approval has *)
(* a timer, and the harness waits for the gate's promise.                  *)
Fairness == \A c \in Calls : WF_vars(Evaluate(c)) /\ WF_vars(Expire(c)) /\ WF_vars(Deliver(c))
FairSpec == Spec /\ Fairness

-----------------------------------------------------------------------------

CallState == [gate : {"idle", "evaluating", "waiting", "allowed", "denied", "gone"},
              harness : {"idle", "asking", "run", "blocked"}]
SessionState == {"none", "open", "idle", "cancelling", "dropping", "retrying"}
TaskStatus == {"idle", "working", "waiting_approval", "done", "cancelled"}

TypeOK ==
    /\ policy \in Policies
    /\ call \in [Calls -> CallState]
    /\ verdict \in [Calls -> Verdicts \cup {None}]
    /\ via \in [Calls -> {"evaluator", "policy", "grant", "approval", None}]
    /\ approval \in [Calls -> Approval \cup {None}]
    /\ waiters \subseteq Calls
    /\ grants \subseteq Grant
    /\ saved \in [approval : [Calls -> Approval \cup {None}], grants : SUBSET Grant]
    /\ session \in [Tasks -> SessionState]
    /\ status \in [Tasks -> TaskStatus]

Starts(c) == call[c].harness = "asking" /\ call'[c].harness = "run"

(* Some approval of the user's reaches this call: the same tool, in this   *)
(* task or for always, at least as risky, with all of its categories.      *)
Licensed(c) == \E d \in Calls :
    /\ approval[d] # None /\ approval[d].status = "approved" /\ approval[d].scope # "once"
    /\ ToolOf[d] = ToolOf[c]
    /\ approval[d].scope = "task" => TaskOf[d] = TaskOf[c]
    /\ verdict[c].risk <= verdict[d].risk
    /\ verdict[c].categories \subseteq verdict[d].categories

(* A call that runs has leave: the evaluator never said deny, and where    *)
(* the user is named as the reason, it is a decision the user made, about  *)
(* this call or about one that covers it, even across restarts.            *)
StartsWithLeave == \A c \in Calls : Starts(c) =>
    /\ verdict[c].decision # "deny"
    /\ via[c] = "approval" => approval[c].status = "approved"
    /\ via[c] = "grant" => Licensed(c)
RunsWithLeave == [][StartsWithLeave]_vars

(* Once a session closes, none of its calls starts, even one whose         *)
(* approval is given at that moment.                                       *)
StartsWhileOpen == \A c \in Calls : Starts(c) => session[TaskOf[c]] = "open"
NothingStartsOnceClosed == [][StartsWhileOpen]_vars

(* What waits for the user is what the policy of the moment asks about: a  *)
(* change while the evaluator worked, or while the approval waited, counts.*)
PendingIsAskedFor == \A c \in Pending : PolicyAsks(policy, verdict[c])

(* Nobody waits for an outcome that can't come any more, and every pending *)
(* approval still has the timer that ends it.                              *)
EveryWaiterHears ==
    /\ \A c \in Calls : call[c].gate = "waiting" => c \in Pending
    /\ Pending = waiters

(* The badge of a task at work shows that it waits for the user exactly as *)
(* long as it does.                                                        *)
BadgeShowsTheWait ==
    /\ \A c \in Pending : call[c].harness = "asking" => status[TaskOf[c]] = "waiting_approval"
    /\ \A t \in Tasks : session[t] = "open" /\ status[t] = "waiting_approval" => PendingOf(t) # {}

(* Every call gets an answer.                                              *)
EveryCallIsAnswered ==
    \A c \in Calls : call[c].harness = "asking" ~> call[c].harness # "asking"
=============================================================================
