------------------------- MODULE ApprovalGate_proofs --------------------------
(***************************************************************************)
(* A call runs only with leave: for any tasks, calls and verdicts, no      *)
(* order of evaluations, decisions, timers, policy changes, cancels, saves *)
(* and restarts lets a call start that nothing allowed, and whoever waits  *)
(* for the user can still be answered.                                     *)
(***************************************************************************)
EXTENDS ApprovalGate, TLAPS

USE DEF CallState, SessionState, TaskStatus

(* Where a call is at the gate bounds what the approvals say of it, those  *)
(* on disk included.                                                       *)
AtGate(c) ==
    /\ call[c].harness = "asking" => session[TaskOf[c]] = "open"
    /\ call[c].gate \in {"idle", "evaluating"} =>
          approval[c] = None /\ saved.approval[c] = None
    /\ call[c].gate = "waiting" <=> c \in waiters
    /\ c \in Pending <=> c \in waiters

(* What was never denied: a call that waits, and one that may start.       *)
NotDenied(c) ==
    call[c].gate \in {"waiting", "allowed"} =>
        verdict[c] \in Verdicts /\ verdict[c].decision # "deny"

(* What the user's decisions are worth: of a call that may start, and of   *)
(* the standing grants, in memory and on disk.                             *)
HasLeave(c) ==
    call[c].gate = "allowed" =>
        /\ via[c] = "approval" => approval[c] # None /\ approval[c].status = "approved"
        /\ via[c] = "grant" => Licensed(c)

Backs(g, d, a) ==
    /\ a # None /\ a.status = "approved" /\ a.scope # "once"
    /\ g = [tool |-> ToolOf[d], task |-> IF a.scope = "task" THEN TaskOf[d] ELSE None,
            risk |-> verdict[d].risk, categories |-> verdict[d].categories]

GrantsBacked ==
    /\ \A g \in grants : \E d \in Calls : Backs(g, d, approval[d])
    /\ \A g \in saved.grants : \E d \in Calls : Backs(g, d, saved.approval[d])

(* What waits is what the policy asks about.                               *)
Asked(c) == c \in Pending => PolicyAsks(policy, verdict[c])

Badge(t) ==
    /\ \A c \in PendingOf(t) : call[c].harness = "asking" => status[t] = "waiting_approval"
    /\ session[t] = "open" /\ status[t] = "waiting_approval" => PendingOf(t) # {}

GateInvariant ==
    /\ TypeOK
    /\ \A c \in Calls : AtGate(c) /\ NotDenied(c) /\ HasLeave(c) /\ Asked(c)
    /\ GrantsBacked
    /\ \A t \in Tasks : Badge(t)

-----------------------------------------------------------------------------
(* What a step may have done.                                              *)

(* It ended the pending approvals `cs`, and nothing else did.              *)
Ended(cs, decided, scope) ==
    /\ \A c \in Calls \ cs :
          approval'[c] = approval[c] /\ call'[c] = call[c] /\ via'[c] = via[c]
    /\ \A c \in cs :
          /\ approval'[c] = [status |-> decided, scope |-> scope]
          /\ call'[c].harness = call[c].harness
          /\ call'[c].gate = IF decided = "approved" THEN "allowed" ELSE "denied"
          /\ decided = "approved" => via'[c] = "approval"
    /\ waiters' = waiters \ cs

(* It let decisions stand, and verdicts.                                   *)
Onward ==
    /\ \A d \in Calls : approval[d] # None /\ approval[d].status # "pending" =>
                            approval'[d] = approval[d]
    /\ \A d \in Calls : call[d].gate # "evaluating" => verdict'[d] = verdict[d]

LEMMA RiskType == \A v \in Verdicts : v.risk \in 1 .. 4 /\ v.effectful \in BOOLEAN
  BY GateAssumption

(* FinishAll does what it says, to calls that wait.                        *)
LEMMA FinishEnds ==
    ASSUME TypeOK, \A c \in Calls : AtGate(c), NEW cs, cs \subseteq Pending,
           NEW decided \in Decided, NEW scope \in Scopes, FinishAll(cs, decided, scope)
    PROVE  /\ Ended(cs, decided, scope)
           /\ approval' \in [Calls -> Approval \cup {None}]
           /\ call' \in [Calls -> CallState]
           /\ via' \in [Calls -> {"evaluator", "policy", "grant", "approval", None}]
           /\ waiters' \subseteq Calls
  <1>1. cs \subseteq Calls /\ cs \subseteq waiters
    BY DEF Pending, AtGate
  <1>2. approval' \in [Calls -> Approval \cup {None}]
    BY DEF TypeOK, FinishAll, Approval, Decided
  <1>3. \A c \in Calls : [call[c] EXCEPT !.gate = "allowed"] \in CallState
    BY DEF TypeOK
  <1>4. \A c \in Calls : [call[c] EXCEPT !.gate = "denied"] \in CallState
    BY DEF TypeOK
  <1>5. call' \in [Calls -> CallState]
    BY <1>3, <1>4 DEF TypeOK, FinishAll, Answer
  <1>6. via' \in [Calls -> {"evaluator", "policy", "grant", "approval", None}]
    BY DEF TypeOK, FinishAll, Answer
  <1>7. Ended(cs, decided, scope)
    BY <1>1 DEF TypeOK, FinishAll, Answer, Ended
  <1> QED
    BY <1>2, <1>5, <1>6, <1>7 DEF FinishAll, TypeOK

(* A call whose approval was ended is no longer pending; the others are as *)
(* they were.                                                              *)
LEMMA EndedPending ==
    ASSUME NEW cs, cs \subseteq Pending, NEW decided \in Decided, NEW scope,
           Ended(cs, decided, scope)
    PROVE  /\ Pending' = Pending \ cs
           /\ \A t \in Tasks : PendingOf(t)' = PendingOf(t) \ cs
  BY DEF Pending, PendingOf, Ended, Decided

LEMMA EndedAtGate ==
    ASSUME NEW cs, cs \subseteq Pending, NEW decided \in Decided, NEW scope,
           Ended(cs, decided, scope), UNCHANGED <<verdict, saved>>,
           NEW c \in Calls, AtGate(c), NotDenied(c),
           call[c].harness = "asking" => session'[TaskOf[c]] = "open"
    PROVE  AtGate(c)' /\ NotDenied(c)'
  <1>1. Pending' = Pending \ cs
    BY EndedPending
  <1>2. CASE c \in cs
    BY <1>1, <1>2 DEF AtGate, NotDenied, Ended
  <1>3. CASE c \notin cs
    BY <1>1, <1>3 DEF AtGate, NotDenied, Ended
  <1> QED
    BY <1>2, <1>3

LEMMA EndedOnward ==
    ASSUME NEW cs, cs \subseteq Pending, NEW decided \in Decided, NEW scope,
           Ended(cs, decided, scope), UNCHANGED verdict
    PROVE  Onward
  BY DEF Ended, Onward, Pending

(* Leave, once given, stands.                                              *)
LEMMA StillLicensed ==
    ASSUME Onward, NEW c \in Calls, Licensed(c), verdict'[c] = verdict[c],
           \A d \in Calls : AtGate(d)
    PROVE  Licensed(c)'
  <1>1. PICK d \in Calls :
          /\ approval[d] # None /\ approval[d].status = "approved" /\ approval[d].scope # "once"
          /\ ToolOf[d] = ToolOf[c]
          /\ approval[d].scope = "task" => TaskOf[d] = TaskOf[c]
          /\ verdict[c].risk <= verdict[d].risk
          /\ verdict[c].categories \subseteq verdict[d].categories
    BY DEF Licensed
  <1>2. approval'[d] = approval[d] /\ verdict'[d] = verdict[d]
    BY <1>1 DEF Onward, AtGate
  <1> QED
    BY <1>1, <1>2 DEF Licensed

LEMMA EndedLeave ==
    ASSUME NEW cs, cs \subseteq Pending, NEW decided \in Decided, NEW scope \in Scopes,
           Ended(cs, decided, scope), UNCHANGED verdict, None \notin Approval,
           NEW c \in Calls, HasLeave(c), \A d \in Calls : AtGate(d)
    PROVE  HasLeave(c)'
  <1>1. CASE c \in cs
    <2>1. [status |-> decided, scope |-> scope] \in Approval
      BY DEF Approval
    <2>2. call'[c].gate = "allowed" =>
            via'[c] = "approval" /\ approval'[c] # None /\ approval'[c].status = "approved"
      BY <1>1, <2>1 DEF Ended
    <2> QED
      BY <2>2 DEF HasLeave
  <1>2. CASE c \notin cs
    <2>1. call'[c] = call[c] /\ via'[c] = via[c] /\ approval'[c] = approval[c]
      BY <1>2 DEF Ended
    <2>2. Licensed(c) => Licensed(c)'
      BY EndedOnward, StillLicensed
    <2> QED
      BY <2>1, <2>2 DEF HasLeave
  <1> QED
    BY <1>1, <1>2

(* Grants stay backed by the approvals they were made of.                  *)
LEMMA StillBacked ==
    ASSUME Onward, GrantsBacked, \A d \in Calls : AtGate(d), UNCHANGED saved,
           NEW g, g \in grants \/ g \in saved.grants
    PROVE  /\ g \in grants => \E d \in Calls : Backs(g, d, approval[d])'
           /\ g \in saved.grants => \E d \in Calls : Backs(g, d, saved.approval[d])'
  <1>1. ASSUME g \in grants PROVE \E d \in Calls : Backs(g, d, approval[d])'
    <2>1. PICK d \in Calls : Backs(g, d, approval[d])
      BY <1>1 DEF GrantsBacked
    <2>2. approval'[d] = approval[d] /\ verdict'[d] = verdict[d]
      BY <2>1 DEF Onward, AtGate, Backs
    <2> QED
      BY <2>1, <2>2 DEF Backs
  <1>2. ASSUME g \in saved.grants PROVE \E d \in Calls : Backs(g, d, saved.approval[d])'
    <2>1. PICK d \in Calls : Backs(g, d, saved.approval[d])
      BY <1>2 DEF GrantsBacked
    <2>2. verdict'[d] = verdict[d]
      BY <2>1 DEF Onward, AtGate, Backs
    <2> QED
      BY <2>1, <2>2 DEF Backs
  <1> QED
    BY <1>1, <1>2

(* The badges follow what was ended.                                       *)
LEMMA BadgesFollow ==
    ASSUME NEW cs, cs \subseteq Pending, NEW decided \in Decided, NEW scope,
           Ended(cs, decided, scope), TypeOK, status' = Badges(cs), UNCHANGED session,
           NEW t \in Tasks, Badge(t)
    PROVE  Badge(t)'
  <1>1. PendingOf(t)' = PendingOf(t) \ cs
    BY EndedPending
  <1>2. \A c \in Calls : call'[c].harness = call[c].harness
    BY DEF Ended
  <1>3. PendingOf(t) \subseteq Calls
    BY DEF PendingOf, Pending
  <1>4. CASE \E c \in cs : TaskOf[c] = t
    <2>1. status'[t] = OnApproval(t, PendingOf(t)')
      BY <1>1, <1>4 DEF Badges
    <2> QED
      BY <1>1, <1>2, <1>3, <2>1 DEF OnApproval, IsWorking, Badge
  <1>5. CASE ~ \E c \in cs : TaskOf[c] = t
    <2>1. status'[t] = status[t]
      BY <1>5 DEF Badges
    <2>2. PendingOf(t)' = PendingOf(t)
      BY <1>1, <1>5 DEF PendingOf
    <2> QED
      BY <1>2, <1>3, <2>1, <2>2 DEF Badge
  <1> QED
    BY <1>4, <1>5

LEMMA BadgesType ==
    ASSUME TypeOK, NEW cs
    PROVE  Badges(cs) \in [Tasks -> TaskStatus]
  BY DEF Badges, OnApproval, TypeOK

(* What an end of approvals leaves of the invariant, whoever ended them.   *)
Guarded(c) == AtGate(c) /\ NotDenied(c) /\ HasLeave(c)

LEMMA FinishKeeps ==
    ASSUME GateInvariant, NEW cs, cs \subseteq Pending, NEW decided \in Decided,
           NEW scope \in Scopes, FinishAll(cs, decided, scope), UNCHANGED <<verdict, saved>>,
           \A c \in Calls : call[c].harness = "asking" => session'[TaskOf[c]] = "open"
    PROVE  /\ Ended(cs, decided, scope) /\ Onward
           /\ \A c \in Calls : Guarded(c)'
           /\ policy' \in Policies /\ grants' \subseteq Grant
              /\ session' \in [Tasks -> SessionState]
              /\ status' \in [Tasks -> TaskStatus]
              => TypeOK'
           /\ UNCHANGED policy => \A c \in Calls : Asked(c)'
           /\ UNCHANGED grants => GrantsBacked'
           /\ UNCHANGED session /\ status' = Badges(cs) => \A t \in Tasks : Badge(t)'
  <1>t. TypeOK /\ GrantsBacked /\ (\A t \in Tasks : Badge(t))
        /\ \A c \in Calls : AtGate(c) /\ NotDenied(c) /\ HasLeave(c) /\ Asked(c)
    BY DEF GateInvariant
  <1>1. Ended(cs, decided, scope)
    BY <1>t, FinishEnds
  <1>2. Onward
    BY <1>1, EndedOnward
  <1>3. ASSUME NEW c \in Calls PROVE Guarded(c)'
    <2>1. AtGate(c)' /\ NotDenied(c)'
      BY <1>t, <1>1, EndedAtGate
    <2>2. HasLeave(c)'
      BY <1>t, <1>1, EndedLeave, GateAssumption
    <2> QED
      BY <2>1, <2>2 DEF Guarded
  <1>4. ASSUME policy' \in Policies, grants' \subseteq Grant,
               session' \in [Tasks -> SessionState],
               status' \in [Tasks -> TaskStatus]
        PROVE  TypeOK'
    <2>1. /\ approval' \in [Calls -> Approval \cup {None}]
          /\ call' \in [Calls -> CallState]
          /\ via' \in [Calls -> {"evaluator", "policy", "grant", "approval", None}]
          /\ waiters' \subseteq Calls
      BY <1>t, FinishEnds
    <2>2. /\ verdict' \in [Calls -> Verdicts \cup {None}]
          /\ saved' \in [approval : [Calls -> Approval \cup {None}], grants : SUBSET Grant]
      BY <1>t DEF TypeOK
    <2> QED
      BY <1>4, <2>1, <2>2 DEF TypeOK
  <1>5. ASSUME UNCHANGED policy, NEW c \in Calls PROVE Asked(c)'
    <2>1. Pending' \subseteq Pending
      BY <1>1, EndedPending
    <2> QED
      BY <1>5, <1>t, <2>1 DEF Asked
  <1>6. ASSUME UNCHANGED grants PROVE GrantsBacked'
    BY <1>6, <1>t, <1>2, StillBacked DEF GrantsBacked
  <1>7. ASSUME UNCHANGED session, status' = Badges(cs), NEW t \in Tasks PROVE Badge(t)'
    BY <1>7, <1>t, <1>1, BadgesFollow
  <1> QED
    BY <1>1, <1>2, <1>3, <1>4, <1>5, <1>6, <1>7

-----------------------------------------------------------------------------
(* The user, the timer and the policy.                                     *)

LEMMA DecisionKeeps ==
    ASSUME GateInvariant, NEW c \in Calls, Deny(c) \/ Expire(c)
    PROVE  GateInvariant'
  <1>1. PICK decided \in {"denied", "expired"} : FinishAll({c}, decided, "once")
    BY DEF Deny, Expire
  <1>2. /\ {c} \subseteq Pending /\ status' = Badges({c})
        /\ UNCHANGED <<policy, verdict, grants, saved, session>>
    BY DEF Deny, Expire
  <1>3. \A d \in Calls : call[d].harness = "asking" => session'[TaskOf[d]] = "open"
    BY <1>2 DEF GateInvariant, AtGate
  <1>4. status' \in [Tasks -> TaskStatus]
    BY <1>2, BadgesType DEF GateInvariant
  <1>5. decided \in Decided /\ "once" \in Scopes
    BY DEF Decided, Scopes
  <1>6. /\ \A d \in Calls : Guarded(d)' /\ Asked(d)'
        /\ GrantsBacked' /\ (\A t \in Tasks : Badge(t)')
    BY <1>1, <1>2, <1>3, <1>5, FinishKeeps
  <1>7. TypeOK'
    BY <1>1, <1>2, <1>3, <1>4, <1>5, FinishKeeps DEF GateInvariant, TypeOK
  <1> QED
    BY <1>6, <1>7 DEF GateInvariant, Guarded

LEMMA ApproveKeeps ==
    ASSUME GateInvariant, NEW c \in Calls, NEW scope \in Scopes, Approve(c, scope)
    PROVE  GateInvariant'
  <1>2. /\ {c} \subseteq Pending /\ status' = Badges({c}) /\ FinishAll({c}, "approved", scope)
        /\ UNCHANGED <<policy, verdict, saved, session>>
        /\ grants' = IF scope = "once" THEN grants ELSE grants \cup {GrantOf(c, scope)}
    BY DEF Approve
  <1>3. \A d \in Calls : call[d].harness = "asking" => session'[TaskOf[d]] = "open"
    BY <1>2 DEF GateInvariant, AtGate
  <1>4. status' \in [Tasks -> TaskStatus]
    BY <1>2, BadgesType DEF GateInvariant
  <1>5. "approved" \in Decided
    BY DEF Decided
  <1>6. /\ Ended({c}, "approved", scope) /\ Onward
        /\ \A d \in Calls : Guarded(d)' /\ Asked(d)'
        /\ \A t \in Tasks : Badge(t)'
    BY <1>2, <1>3, <1>5, FinishKeeps
  <1>7. scope # "once" => GrantOf(c, scope) \in Grant
    <2>1. verdict[c] \in Verdicts
      BY <1>2 DEF GateInvariant, AtGate, NotDenied
    <2>2. verdict[c].risk \in 1 .. 4
      BY <2>1, RiskType
    <2>3. TaskOf[c] \in Tasks
      BY GateAssumption
    <2> QED
      BY <2>1, <2>2, <2>3 DEF GrantOf, Grant
  <1>8. grants' \subseteq Grant
    BY <1>2, <1>7 DEF GateInvariant, TypeOK
  <1>9. TypeOK'
    BY <1>2, <1>3, <1>4, <1>5, <1>8, FinishKeeps DEF GateInvariant, TypeOK
  <1>10. GrantsBacked'
    <2>1. \A g \in grants : \E d \in Calls : Backs(g, d, approval[d])'
      BY <1>2, <1>6, StillBacked DEF GateInvariant
    <2>2. \A g \in saved.grants : \E d \in Calls : Backs(g, d, saved.approval[d])'
      BY <1>2, <1>6, StillBacked DEF GateInvariant
    <2>3. scope # "once" => Backs(GrantOf(c, scope), c, approval[c])'
      <3>1. approval'[c] = [status |-> "approved", scope |-> scope] /\ approval'[c] \in Approval
        BY <1>6 DEF Ended, Approval, Decided
      <3>2. approval'[c] # None
        BY <3>1, GateAssumption
      <3> QED
        BY <1>2, <3>1, <3>2 DEF Backs, GrantOf
    <2>4. GrantOf(c, scope)' = GrantOf(c, scope)
      BY <1>2 DEF GrantOf
    <2> QED
      BY <1>2, <2>1, <2>2, <2>3, <2>4 DEF GrantsBacked
  <1> QED
    BY <1>6, <1>9, <1>10 DEF GateInvariant, Guarded

(* The four policies.                                                      *)
LEMMA PolicyMeans ==
    ASSUME NEW v \in Verdicts
    PROVE  /\ PolicyAsks(AskEveryAction, v) <=>
                (v.decision = "require_approval" \/ v.effectful)
           /\ PolicyAsks(AskRisky, v) <=> v.decision = "require_approval"
           /\ PolicyAsks(AskHighRisk, v) <=> (v.decision = "require_approval" /\ v.risk >= High)
           /\ ~ PolicyAsks(RunEverything, v)
  <1>1. v.effectful = TRUE \/ v.effectful = FALSE
    BY RiskType
  <1>2. CASE v.effectful = TRUE
    BY <1>2 DEF PolicyAsks, AskEveryAction, AskRisky, AskHighRisk, RunEverything
  <1>3. CASE v.effectful = FALSE
    BY <1>3 DEF PolicyAsks, AskEveryAction, AskRisky, AskHighRisk, RunEverything
  <1> QED
    BY <1>1, <1>2, <1>3

(* A stricter policy asks about whatever a looser one asks about; apart    *)
(* from the strictest, none looks at whether the call has effects.         *)
LEMMA Stricter ==
    ASSUME NEW v \in Verdicts, NEW p \in Policies, NEW q \in Policies, p < q, PolicyAsks(q, v)
    PROVE  PolicyAsks(p, v)
  <1>1. q = AskRisky \/ q = AskHighRisk \/ q = RunEverything
    BY DEF Policies, AskRisky, AskHighRisk, RunEverything
  <1>2. v.decision = "require_approval" /\ q # RunEverything
    BY <1>1, PolicyMeans
  <1>3. p = AskEveryAction \/ p = AskRisky
    BY <1>1, <1>2 DEF Policies, AskEveryAction, AskRisky, AskHighRisk, RunEverything
  <1> QED
    BY <1>2, <1>3, PolicyMeans

LEMMA EffectsDontMatter ==
    ASSUME NEW v \in Verdicts, NEW p \in Policies, p # AskEveryAction,
           PolicyAsks(p, [v EXCEPT !.effectful = TRUE])
    PROVE  PolicyAsks(p, v)
  <1>1. /\ [v EXCEPT !.effectful = TRUE].decision = v.decision
        /\ [v EXCEPT !.effectful = TRUE].risk = v.risk
    BY GateAssumption
  <1>2. p = AskRisky \/ p = AskHighRisk \/ p = RunEverything
    BY DEF Policies, AskEveryAction, AskRisky, AskHighRisk, RunEverything
  <1> QED
    BY <1>1, <1>2 DEF PolicyAsks, AskEveryAction, AskRisky, AskHighRisk, RunEverything

LEMMA SetPolicyKeeps ==
    ASSUME GateInvariant, NEW p \in Settable, SetPolicy(p)
    PROVE  GateInvariant'
  <1> DEFINE cs == ApprovePending(p)
  <1>t. /\ TypeOK /\ policy \in Policies /\ p \in Policies
        /\ \A c \in Calls : AtGate(c) /\ NotDenied(c) /\ Asked(c)
    BY GateAssumption DEF GateInvariant, TypeOK, Policies
  <1>2. /\ cs \subseteq Pending /\ status' = Badges(cs) /\ FinishAll(cs, "approved", "once")
        /\ policy' = p /\ p # policy /\ UNCHANGED <<verdict, grants, saved, session>>
    BY DEF SetPolicy, ApprovePending
  <1>3. \A d \in Calls : call[d].harness = "asking" => session'[TaskOf[d]] = "open"
    BY <1>2, <1>t DEF AtGate
  <1>4. status' \in [Tasks -> TaskStatus]
    BY <1>2, <1>t, BadgesType
  <1>5. "approved" \in Decided /\ "once" \in Scopes
    BY DEF Decided, Scopes
  <1> HIDE DEF cs
  <1>6. /\ Ended(cs, "approved", "once") /\ GrantsBacked'
        /\ \A d \in Calls : Guarded(d)'
        /\ \A t \in Tasks : Badge(t)'
    BY <1>2, <1>3, <1>5, FinishKeeps
  <1>7. TypeOK'
    BY <1>2, <1>3, <1>4, <1>5, <1>t, FinishKeeps DEF TypeOK
  <1>8. ASSUME NEW c \in Calls PROVE Asked(c)'
    <2>1. Pending' = Pending \ cs
      BY <1>2, <1>5, <1>6, EndedPending
    <2>2. SUFFICES ASSUME c \in Pending, c \notin cs PROVE PolicyAsks(p, verdict[c])
      BY <1>2, <2>1 DEF Asked
    <2>3. verdict[c] \in Verdicts /\ PolicyAsks(policy, verdict[c])
      BY <1>t, <2>2 DEF AtGate, NotDenied, Asked
    <2>4. CASE p > policy
      <3>1. PolicyAsks(p, [verdict[c] EXCEPT !.effectful = TRUE])
        BY <2>2, <2>4 DEF cs, ApprovePending
      <3>2. p # AskEveryAction
        BY <1>t, <2>4 DEF Policies, AskEveryAction
      <3> QED
        BY <1>t, <2>3, <3>1, <3>2, EffectsDontMatter
    <2>5. CASE p < policy
      BY <1>t, <2>3, <2>5, Stricter
    <2> QED
      BY <1>t, <1>2, <2>4, <2>5 DEF Policies
  <1> QED
    BY <1>6, <1>7, <1>8 DEF GateInvariant, Guarded

-----------------------------------------------------------------------------
(* Sessions.                                                               *)

(* The approvals of a closed session's task are cancelled.                 *)
LEMMA ClosedKeeps ==
    ASSUME GateInvariant, NEW t \in Tasks, Cancelled(t) \/ Retried(t)
    PROVE  GateInvariant'
  <1> DEFINE cs == PendingOf(t)
  <1>t. /\ TypeOK /\ \A c \in Calls : AtGate(c) /\ TaskOf[c] \in Tasks
        /\ \A u \in Tasks : Badge(u)
    BY GateAssumption DEF GateInvariant
  <1>2. /\ cs \subseteq Pending /\ FinishAll(cs, "cancelled", "once")
        /\ session[t] # "open" /\ UNCHANGED <<policy, verdict, grants, saved>>
    BY DEF Cancelled, Retried, PendingOf
  <1>3. /\ session' = [session EXCEPT ![t] = session'[t]] /\ session'[t] \in {"none", "open"}
        /\ status' = [status EXCEPT ![t] = status'[t]]
        /\ status'[t] \in TaskStatus
        /\ session'[t] = "open" => status'[t] = "working"
    <2>1. CASE Cancelled(t)
      BY <2>1, <1>t DEF Cancelled, TypeOK
    <2>2. CASE Retried(t)
      BY <2>2, <1>t DEF Retried, TypeOK
    <2> QED
      BY <2>1, <2>2
  <1>4. \A d \in Calls : call[d].harness = "asking" => session'[TaskOf[d]] = "open"
    BY <1>2, <1>3, <1>t DEF AtGate, TypeOK
  <1>5. /\ status' \in [Tasks -> TaskStatus]
        /\ session' \in [Tasks -> SessionState]
    BY <1>3, <1>t DEF TypeOK
  <1>6. "cancelled" \in Decided /\ "once" \in Scopes
    BY DEF Decided, Scopes
  <1> HIDE DEF cs
  <1>7. /\ Ended(cs, "cancelled", "once") /\ GrantsBacked'
        /\ \A d \in Calls : Guarded(d)' /\ Asked(d)'
    BY <1>2, <1>4, <1>6, FinishKeeps
  <1>8. TypeOK'
    BY <1>2, <1>4, <1>5, <1>6, <1>t, FinishKeeps DEF TypeOK
  <1>9. ASSUME NEW u \in Tasks PROVE Badge(u)'
    <2>1. PendingOf(u)' = PendingOf(u) \ cs /\ PendingOf(u) \subseteq Calls
      BY <1>2, <1>6, <1>7, EndedPending DEF PendingOf, Pending
    <2>2. \A c \in Calls : call'[c].harness = call[c].harness
      BY <1>7 DEF Ended
    <2>3. CASE u = t
      <3>1. PendingOf(u)' = {}
        BY <2>1, <2>3 DEF cs
      <3>2. session'[t] = "open" => status'[t] # "waiting_approval"
        BY <1>3
      <3> QED
        BY <2>3, <3>1, <3>2 DEF Badge
    <2>4. CASE u # t
      <3>1. PendingOf(u)' = PendingOf(u)
        BY <2>1, <2>4 DEF cs, PendingOf
      <3>2. session'[u] = session[u] /\ status'[u] = status[u]
        BY <1>3, <1>t, <2>4 DEF TypeOK
      <3> QED
        BY <1>t, <2>1, <2>2, <3>1, <3>2 DEF Badge
    <2> QED
      BY <2>3, <2>4
  <1> QED
    BY <1>7, <1>8, <1>9 DEF GateInvariant, Guarded

(* A step that is about sessions and what the harness does only.           *)
LEMMA QuietKeeps ==
    ASSUME GateInvariant, TypeOK',
           UNCHANGED <<policy, verdict, via, approval, waiters, grants>>,
           UNCHANGED saved \/ saved' = [approval |-> approval, grants |-> grants],
           \A c \in Calls : \/ call'[c].gate = call[c].gate
                            \/ call[c].gate = "idle" /\ call'[c].gate = "evaluating",
           \A c \in Calls : call'[c].harness = "asking" => session'[TaskOf[c]] = "open",
           \A t \in Tasks : Badge(t)'
    PROVE  GateInvariant'
  <1>t. \A c \in Calls : AtGate(c) /\ NotDenied(c) /\ HasLeave(c) /\ Asked(c)
    BY DEF GateInvariant
  <1>1. Pending' = Pending
    BY DEF Pending
  <1>2. ASSUME NEW c \in Calls PROVE AtGate(c)'
    <2>1. saved'.approval[c] \in {saved.approval[c], approval[c]}
      OBVIOUS
    <2> QED
      BY <1>t, <1>1, <2>1 DEF AtGate
  <1>3. ASSUME NEW c \in Calls PROVE NotDenied(c)' /\ HasLeave(c)' /\ Asked(c)'
    BY <1>t, <1>1 DEF NotDenied, HasLeave, Asked, Licensed
  <1>4. GrantsBacked'
    BY DEF GateInvariant, GrantsBacked, Backs
  <1> QED
    BY <1>2, <1>3, <1>4 DEF GateInvariant

LEMMA SessionKeeps ==
    ASSUME GateInvariant, NEW t \in Tasks, OpenSession(t) \/ Complete(t)
    PROVE  GateInvariant'
  <1>t. /\ TypeOK /\ (\A c \in Calls : AtGate(c)) /\ \A u \in Tasks : Badge(u)
    BY DEF GateInvariant
  <1>1. UNCHANGED <<policy, call, verdict, via, approval, waiters, grants, saved>>
    BY DEF OpenSession, Complete
  <1>2. TypeOK'
    BY <1>t DEF OpenSession, Complete, TypeOK
  <1>3. ASSUME NEW c \in Calls, call'[c].harness = "asking" PROVE session'[TaskOf[c]] = "open"
    <2>1. call[c].harness = "asking" /\ session[TaskOf[c]] = "open" /\ TaskOf[c] \in Tasks
      BY <1>t, <1>1, <1>3, GateAssumption DEF AtGate
    <2> QED
      BY <1>t, <2>1 DEF OpenSession, Complete, TypeOK
  <1>4. ASSUME NEW u \in Tasks PROVE Badge(u)'
    <2>1. PendingOf(u)' = PendingOf(u) /\ \A c \in PendingOf(u) : c \in Calls /\ TaskOf[c] = u
      BY <1>1 DEF PendingOf, Pending
    <2>2. CASE u # t
      <3>1. session'[u] = session[u] /\ status'[u] = status[u]
        BY <1>t, <2>2 DEF OpenSession, Complete, TypeOK
      <3> QED
        BY <1>t, <1>1, <2>1, <3>1 DEF Badge
    <2>3. CASE u = t
      <3>1. \A c \in PendingOf(u) : call[c].harness # "asking"
        BY <1>t, <2>1, <2>3 DEF OpenSession, Complete, AtGate
      <3>2. status'[u] # "waiting_approval"
        BY <1>t, <2>3 DEF OpenSession, Complete, TypeOK
      <3> QED
        BY <1>1, <2>1, <3>1, <3>2 DEF Badge
    <2> QED
      BY <2>2, <2>3
  <1> QED
    BY <1>1, <1>2, <1>3, <1>4, QuietKeeps

LEMMA CloseKeeps ==
    ASSUME GateInvariant, NEW t \in Tasks, NEW how \in {"cancelling", "retrying"}, Close(t, how)
    PROVE  GateInvariant'
  <1>t. /\ TypeOK /\ (\A c \in Calls : AtGate(c)) /\ \A u \in Tasks : Badge(u)
    BY DEF GateInvariant
  <1>1. /\ UNCHANGED <<policy, verdict, via, approval, waiters, grants, saved, status>>
        /\ call' = Aborted({t})
        /\ session' = [session EXCEPT ![t] = session'[t]]
        /\ session'[t] \in {"cancelling", "retrying", "dropping"}
    BY <1>t DEF Close, TypeOK
  <1>2. \A c \in Calls : [call[c] EXCEPT !.harness = "blocked"] \in CallState
    BY <1>t DEF TypeOK
  <1>3. TypeOK'
    <2>1. call' \in [Calls -> CallState]
      BY <1>t, <1>1, <1>2 DEF TypeOK, Aborted
    <2>2. session' \in [Tasks -> SessionState]
      BY <1>t, <1>1 DEF TypeOK
    <2> QED
      BY <1>t, <1>1, <2>1, <2>2 DEF TypeOK
  <1>4. ASSUME NEW c \in Calls
        PROVE  /\ call'[c].gate = call[c].gate
               /\ call'[c].harness = "asking" => call[c].harness = "asking" /\ TaskOf[c] # t
    BY <1>t, <1>1 DEF TypeOK, Aborted
  <1>5. ASSUME NEW c \in Calls, call'[c].harness = "asking" PROVE session'[TaskOf[c]] = "open"
    BY <1>t, <1>1, <1>4, <1>5, GateAssumption DEF AtGate, TypeOK
  <1>6. ASSUME NEW u \in Tasks PROVE Badge(u)'
    <2>1. PendingOf(u)' = PendingOf(u) /\ PendingOf(u) \subseteq Calls
      BY <1>1 DEF PendingOf, Pending
    <2>2. session'[u] = "open" => session[u] = "open"
      BY <1>t, <1>1 DEF TypeOK
    <2> QED
      BY <1>t, <1>1, <1>4, <2>1, <2>2 DEF Badge
  <1> QED
    BY <1>1, <1>3, <1>4, <1>5, <1>6, QuietKeeps

(* A call comes to the gate, or its answer reaches the harness.            *)
LEMMA HarnessKeeps ==
    ASSUME GateInvariant, NEW c \in Calls, AskGate(c) \/ Deliver(c)
    PROVE  GateInvariant'
  <1>t. /\ TypeOK /\ (\A d \in Calls : AtGate(d)) /\ \A u \in Tasks : Badge(u)
    BY DEF GateInvariant
  <1>1. /\ UNCHANGED <<policy, verdict, via, approval, waiters, grants, saved, session, status>>
    BY DEF AskGate, Deliver
  <1>2. TypeOK'
    <2>1. call' \in [Calls -> CallState]
      <3>1. CASE AskGate(c)
        BY <1>t, <3>1 DEF AskGate, TypeOK
      <3>2. CASE Deliver(c)
        BY <1>t, <3>2 DEF Deliver, TypeOK
      <3> QED
        BY <3>1, <3>2
    <2> QED
      BY <1>t, <1>1, <2>1 DEF TypeOK
  <1>3. ASSUME NEW d \in Calls
        PROVE  /\ \/ call'[d].gate = call[d].gate
                  \/ call[d].gate = "idle" /\ call'[d].gate = "evaluating"
               /\ call'[d].harness = "asking" =>
                    \/ call[d].harness = "asking"
                    \/ session[TaskOf[d]] = "open" /\ call[d].gate = "idle"
    BY <1>t DEF AskGate, Deliver, TypeOK
  <1>4. \A d \in Calls : call'[d].harness = "asking" => session'[TaskOf[d]] = "open"
    BY <1>t, <1>1, <1>3 DEF AtGate
  <1>5. ASSUME NEW u \in Tasks PROVE Badge(u)'
    <2>1. PendingOf(u)' = PendingOf(u) /\ PendingOf(u) \subseteq Calls
          /\ \A d \in PendingOf(u) : call[d].gate = "waiting"
      BY <1>1, <1>t DEF PendingOf, Pending, AtGate
    <2> QED
      BY <1>t, <1>1, <1>3, <2>1 DEF Badge
  <1> QED
    BY <1>1, <1>2, <1>3, <1>4, <1>5, QuietKeeps

LEMMA PersistKeeps == ASSUME GateInvariant, Persist PROVE GateInvariant'
  <1>1. TypeOK'
    BY DEF GateInvariant, Persist, TypeOK
  <1>2. \A u \in Tasks : Badge(u)'
    BY DEF GateInvariant, Persist, Badge, PendingOf, Pending
  <1>3. \A d \in Calls : call'[d].harness = "asking" => session'[TaskOf[d]] = "open"
    BY DEF GateInvariant, Persist, AtGate
  <1> QED
    BY <1>1, <1>2, <1>3, QuietKeeps DEF Persist

-----------------------------------------------------------------------------
(* The evaluator.                                                          *)

LEMMA EvaluatedType ==
    ASSUME TypeOK, NEW c \in Calls, NEW v \in Verdicts, Evaluated(c, v),
           NEW g \in {"denied", "allowed", "waiting"}, call' = [call EXCEPT ![c].gate = g]
    PROVE  /\ policy' \in Policies
           /\ call' \in [Calls -> CallState]
           /\ verdict' \in [Calls -> Verdicts \cup {None}]
           /\ grants' \subseteq Grant
           /\ saved' \in [approval : [Calls -> Approval \cup {None}], grants : SUBSET Grant]
           /\ session' \in [Tasks -> SessionState]
           /\ verdict'[c] = v /\ call'[c].gate = g
           /\ \A d \in Calls : call'[d].harness = call[d].harness
           /\ \A d \in Calls : d # c => verdict'[d] = verdict[d] /\ call'[d] = call[d]
  BY DEF Evaluated, TypeOK

(* What an evaluation leaves of the invariant, however it ended.           *)
LEMMA EvaluatedKeeps ==
    ASSUME GateInvariant, NEW c \in Calls, NEW v \in Verdicts, Evaluated(c, v),
           NEW g \in {"denied", "allowed", "waiting"}, call' = [call EXCEPT ![c].gate = g],
           g # "denied" => v.decision # "deny",
           \A d \in Calls : d # c => approval'[d] = approval[d] /\ via'[d] = via[d]
    PROVE  /\ Onward /\ GrantsBacked'
           /\ \A d \in Calls : NotDenied(d)'
           /\ \A d \in Calls : d # c => HasLeave(d)'
  <1>t. /\ TypeOK /\ (\A d \in Calls : AtGate(d) /\ NotDenied(d) /\ HasLeave(d))
        /\ call[c].gate = "evaluating" /\ approval[c] = None /\ UNCHANGED <<grants, saved>>
    BY DEF GateInvariant, Evaluated, AtGate
  <1>1. /\ verdict'[c] = v /\ call'[c].gate = g
        /\ \A d \in Calls : d # c => verdict'[d] = verdict[d] /\ call'[d] = call[d]
    BY <1>t, EvaluatedType
  <1>2. Onward
    BY <1>t, <1>1 DEF Onward
  <1>3. GrantsBacked'
    BY <1>t, <1>2, StillBacked DEF GateInvariant, GrantsBacked
  <1>4. ASSUME NEW d \in Calls PROVE NotDenied(d)'
    BY <1>t, <1>1 DEF NotDenied
  <1>5. ASSUME NEW d \in Calls, d # c PROVE HasLeave(d)'
    <2>1. Licensed(d) => Licensed(d)'
      BY <1>t, <1>1, <1>2, <1>5, StillLicensed
    <2> QED
      BY <1>t, <1>1, <1>5, <2>1 DEF HasLeave
  <1> QED
    BY <1>2, <1>3, <1>4, <1>5

(* The gate answers without asking the user.                               *)
LEMMA AnsweredKeeps ==
    ASSUME GateInvariant, NEW c \in Calls, NEW v \in Verdicts,
           Denied(c, v) \/ AllowedByPolicy(c, v) \/ AllowedByGrant(c, v)
    PROVE  GateInvariant'
  <1>t. /\ TypeOK /\ (\A d \in Calls : AtGate(d) /\ HasLeave(d) /\ Asked(d))
        /\ GrantsBacked /\ \A u \in Tasks : Badge(u)
    BY DEF GateInvariant
  <1>1. PICK g \in {"denied", "allowed"} :
          /\ Evaluated(c, v) /\ call' = [call EXCEPT ![c].gate = g]
          /\ g # "denied" => v.decision # "deny"
          /\ UNCHANGED <<approval, waiters, status>>
          /\ \/ UNCHANGED via
             \/ \E how \in {"evaluator", "policy", "grant"} : via' = [via EXCEPT ![c] = how]
    <2>1. CASE Denied(c, v)
      BY <2>1 DEF Denied
    <2>2. CASE AllowedByPolicy(c, v)
      BY <2>2 DEF AllowedByPolicy, Allowed
    <2>3. CASE AllowedByGrant(c, v)
      BY <2>3 DEF AllowedByGrant, Allowed
    <2> QED
      BY <2>1, <2>2, <2>3
  <1>2. /\ UNCHANGED <<policy, grants, saved, session>> /\ call[c].gate = "evaluating"
        /\ verdict'[c] = v /\ call'[c].gate = g
        /\ \A d \in Calls : call'[d].harness = call[d].harness
        /\ \A d \in Calls : d # c => verdict'[d] = verdict[d] /\ call'[d] = call[d]
    BY <1>t, <1>1, EvaluatedType DEF Evaluated
  <1>3. /\ via' \in [Calls -> {"evaluator", "policy", "grant", "approval", None}]
        /\ \A d \in Calls : d # c => via'[d] = via[d]
    BY <1>t, <1>1 DEF TypeOK
  <1>4. TypeOK'
    BY <1>t, <1>1, <1>3, EvaluatedType DEF TypeOK
  <1>5. Pending' = Pending
    BY <1>1 DEF Pending
  <1>6. ASSUME NEW d \in Calls PROVE AtGate(d)' /\ Asked(d)'
    BY <1>t, <1>1, <1>2, <1>5 DEF AtGate, Asked
  <1>7. /\ Onward /\ GrantsBacked' /\ (\A d \in Calls : NotDenied(d)')
        /\ \A d \in Calls : d # c => HasLeave(d)'
    BY <1>1, <1>3, EvaluatedKeeps
  <1>8. HasLeave(c)'
    <2>1. CASE Denied(c, v)
      <3>1. call'[c].gate = "denied"
        BY <1>t, <2>1 DEF Denied, TypeOK
      <3> QED
        BY <3>1 DEF HasLeave
    <2>2. CASE AllowedByPolicy(c, v)
      <3>1. via'[c] \in {"evaluator", "policy"}
        BY <1>t, <2>2 DEF AllowedByPolicy, Allowed, TypeOK
      <3> QED
        BY <3>1 DEF HasLeave
    <2>3. CASE AllowedByGrant(c, v)
      <3>1. via'[c] = "grant"
        BY <1>t, <2>3 DEF AllowedByGrant, Allowed, TypeOK
      <3>2. PICK e \in grants : Covers(e, c, v)
        BY <2>3 DEF AllowedByGrant, FindGrant
      <3>3. PICK d \in Calls : Backs(e, d, approval[d])
        BY <1>t, <3>2 DEF GrantsBacked
      <3>4. d # c /\ verdict'[d] = verdict[d]
        BY <1>t, <1>2, <3>3 DEF AtGate, Backs
      <3>5. TaskOf[d] \in Tasks /\ None \notin Tasks
        BY GateAssumption
      <3>6. /\ ToolOf[d] = ToolOf[c]
            /\ approval[d].scope = "task" => TaskOf[d] = TaskOf[c]
            /\ v.risk <= verdict[d].risk /\ v.categories \subseteq verdict[d].categories
        BY <3>2, <3>3, <3>5 DEF Covers, Backs
      <3>7. Licensed(c)'
        BY <1>1, <1>2, <3>3, <3>4, <3>6 DEF Licensed, Backs
      <3> QED
        BY <3>1, <3>7 DEF HasLeave
    <2> QED
      BY <2>1, <2>2, <2>3
  <1>9. ASSUME NEW u \in Tasks PROVE Badge(u)'
    <2>1. PendingOf(u)' = PendingOf(u) /\ PendingOf(u) \subseteq Calls
      BY <1>5 DEF PendingOf, Pending
    <2> QED
      BY <1>t, <1>1, <1>2, <2>1 DEF Badge
  <1> QED
    BY <1>4, <1>6, <1>7, <1>8, <1>9 DEF GateInvariant

(* The user is asked.                                                      *)
LEMMA RequestKeeps ==
    ASSUME GateInvariant, NEW c \in Calls, NEW v \in Verdicts, Request(c, v)
    PROVE  GateInvariant'
  <1>t. /\ TypeOK /\ (\A d \in Calls : AtGate(d) /\ HasLeave(d) /\ Asked(d))
        /\ (\A u \in Tasks : Badge(u)) /\ TaskOf[c] \in Tasks
    BY GateAssumption DEF GateInvariant
  <1>1. /\ Evaluated(c, v) /\ call' = [call EXCEPT ![c].gate = "waiting"]
        /\ v.decision # "deny" /\ PolicyAsks(policy, v)
        /\ approval' = [approval EXCEPT ![c] = [status |-> "pending", scope |-> "once"]]
        /\ waiters' = waiters \cup {c} /\ UNCHANGED via
        /\ status' = [status EXCEPT ![TaskOf[c]] = "waiting_approval"]
    BY DEF Request, OnApproval
  <1>2. /\ UNCHANGED <<policy, grants, saved, session>> /\ call[c].gate = "evaluating"
        /\ verdict'[c] = v /\ call'[c].gate = "waiting"
        /\ \A d \in Calls : call'[d].harness = call[d].harness
        /\ \A d \in Calls : d # c => verdict'[d] = verdict[d] /\ call'[d] = call[d]
    BY <1>t, <1>1, EvaluatedType DEF Evaluated
  <1>3. [status |-> "pending", scope |-> "once"] \in Approval
    BY DEF Approval, Scopes
  <1>4. TypeOK'
    <2>1. /\ approval' \in [Calls -> Approval \cup {None}] /\ waiters' \subseteq Calls
          /\ status' \in [Tasks -> TaskStatus]
          /\ via' \in [Calls -> {"evaluator", "policy", "grant", "approval", None}]
      BY <1>t, <1>1, <1>3 DEF TypeOK
    <2> QED
      BY <1>t, <1>1, <2>1, EvaluatedType DEF TypeOK
  <1>5. /\ approval'[c] = [status |-> "pending", scope |-> "once"] /\ approval'[c] # None
        /\ \A d \in Calls : d # c => approval'[d] = approval[d]
    BY <1>t, <1>1, <1>3, GateAssumption DEF TypeOK
  <1>6. Pending' = Pending \cup {c}
    BY <1>5 DEF Pending
  <1>7. ASSUME NEW d \in Calls PROVE AtGate(d)' /\ Asked(d)'
    BY <1>t, <1>1, <1>2, <1>5, <1>6 DEF AtGate, Asked
  <1>8. /\ GrantsBacked' /\ (\A d \in Calls : NotDenied(d)')
        /\ \A d \in Calls : d # c => HasLeave(d)'
    BY <1>1, <1>5, EvaluatedKeeps
  <1>9. HasLeave(c)'
    BY <1>2 DEF HasLeave
  <1>10. ASSUME NEW u \in Tasks PROVE Badge(u)'
    <2>1. /\ PendingOf(u)' = IF TaskOf[c] = u THEN PendingOf(u) \cup {c} ELSE PendingOf(u)
          /\ PendingOf(u) \subseteq Calls
      BY <1>6 DEF PendingOf, Pending
    <2>2. CASE TaskOf[c] = u
      <3>1. status'[u] = "waiting_approval"
        BY <1>t, <1>1, <2>2 DEF TypeOK
      <3> QED
        BY <2>1, <2>2, <3>1 DEF Badge
    <2>3. CASE TaskOf[c] # u
      <3>1. status'[u] = status[u] /\ session'[u] = session[u]
        BY <1>t, <1>1, <1>2, <2>3 DEF TypeOK
      <3> QED
        BY <1>t, <1>2, <2>1, <2>3, <3>1 DEF Badge
    <2> QED
      BY <2>2, <2>3
  <1> QED
    BY <1>4, <1>7, <1>8, <1>9, <1>10 DEF GateInvariant

-----------------------------------------------------------------------------
(* A restart.                                                              *)

LEMMA LoadKeeps ==
    ASSUME GateInvariant,
           NEW state \in [approval : [Calls -> Approval \cup {None}], grants : SUBSET Grant],
           Load(state),
           \A c \in Calls : call[c].gate = "idle" => state.approval[c] = None,
           \A g \in state.grants : \E d \in Calls : Backs(g, d, state.approval[d])
    PROVE  GateInvariant'
  <1>t. TypeOK /\ \A c \in Calls : TaskOf[c] \in Tasks
    BY GateAssumption DEF GateInvariant
  <1>1. ASSUME NEW c \in Calls
        PROVE  /\ approval'[c] \in Approval \cup {None}
               /\ state.approval[c] = None => approval'[c] = None
               /\ approval'[c] # None => approval'[c].status # "pending"
               /\ state.approval[c] # None /\ state.approval[c].status = "approved" =>
                     approval'[c] = state.approval[c]
    <2>1. state.approval[c] \in Approval \cup {None}
      OBVIOUS
    <2>2. CASE state.approval[c] # None /\ state.approval[c].status = "pending"
      <3>1. approval'[c] = [state.approval[c] EXCEPT !.status = "expired"]
        BY <2>2 DEF Load
      <3> QED
        BY <2>1, <2>2, <3>1 DEF Approval, Decided
    <2>3. CASE ~ (state.approval[c] # None /\ state.approval[c].status = "pending")
      <3>1. approval'[c] = state.approval[c]
        BY <2>3 DEF Load
      <3> QED
        BY <2>1, <2>3, <3>1
    <2> QED
      BY <2>2, <2>3
  <1>2. ASSUME NEW c \in Calls
        PROVE  /\ call'[c] \in [gate : {"idle", "gone"}, harness : {"idle", "run", "blocked"}]
               /\ call'[c].gate = "idle" => call[c].gate = "idle"
    <2>1. Aborted(Tasks)[c].harness \in {"idle", "run", "blocked"}
      <3>1. CASE call[c].harness = "asking"
        BY <1>t, <3>1 DEF Aborted, TypeOK
      <3>2. CASE call[c].harness # "asking"
        BY <1>t, <3>2 DEF Aborted, TypeOK
      <3> QED
        BY <3>1, <3>2
    <2> QED
      BY <2>1 DEF Load
  <1>3. /\ waiters' = {} /\ saved' = state /\ grants' = state.grants
        /\ session' = [t \in Tasks |-> "none"] /\ UNCHANGED <<policy, verdict, via, status>>
    BY DEF Load
  <1>4. Pending' = {} /\ \A t \in Tasks : PendingOf(t)' = {}
    BY <1>1 DEF Pending, PendingOf
  <1>5. TypeOK'
    <2>1. approval' \in [Calls -> Approval \cup {None}]
      BY <1>1 DEF Load
    <2>2. call' \in [Calls -> CallState]
      BY <1>2 DEF Load
    <2> QED
      BY <1>t, <1>3, <2>1, <2>2 DEF TypeOK
  <1>6. ASSUME NEW c \in Calls
        PROVE  AtGate(c)' /\ NotDenied(c)' /\ HasLeave(c)' /\ Asked(c)'
    <2>1. AtGate(c)'
      BY <1>1, <1>2, <1>3, <1>4 DEF AtGate
    <2> QED
      BY <1>2, <1>4, <2>1 DEF NotDenied, HasLeave, Asked
  <1>7. GrantsBacked'
    <2>1. ASSUME NEW g \in state.grants
          PROVE  \E d \in Calls : Backs(g, d, approval[d])' /\ Backs(g, d, saved.approval[d])'
      <3>1. PICK d \in Calls : Backs(g, d, state.approval[d])
        OBVIOUS
      <3>2. approval'[d] = state.approval[d] /\ saved'.approval[d] = state.approval[d]
        BY <1>1, <1>3, <3>1 DEF Backs
      <3> QED
        BY <1>3, <3>1, <3>2 DEF Backs
    <2> QED
      BY <1>3, <2>1 DEF GrantsBacked
  <1>8. ASSUME NEW t \in Tasks PROVE Badge(t)'
    BY <1>3, <1>4 DEF Badge
  <1> QED
    BY <1>5, <1>6, <1>7, <1>8 DEF GateInvariant

LEMMA CrashKeeps == ASSUME GateInvariant, Crash PROVE GateInvariant'
  <1>1. /\ saved \in [approval : [Calls -> Approval \cup {None}], grants : SUBSET Grant]
        /\ \A c \in Calls : call[c].gate = "idle" => saved.approval[c] = None
        /\ \A g \in saved.grants : \E d \in Calls : Backs(g, d, saved.approval[d])
    BY DEF GateInvariant, TypeOK, AtGate, GrantsBacked
  <1> QED
    BY <1>1, LoadKeeps DEF Crash

LEMMA StopKeeps == ASSUME GateInvariant, Stop PROVE GateInvariant'
  <1> DEFINE after == [c \in Calls |-> IF c \in Pending /\ IsWorking(TaskOf[c])
                                        THEN [approval[c] EXCEPT !.status = "cancelled"]
                                        ELSE approval[c]]
             state == [approval |-> after, grants |-> grants]
  <1>1. ASSUME NEW c \in Calls
        PROVE  /\ after[c] \in Approval \cup {None}
               /\ call[c].gate = "idle" => after[c] = None
               /\ approval[c] # None /\ approval[c].status = "approved" =>
                     after[c] = approval[c]
    <2>1. approval[c] \in Approval \cup {None} /\ AtGate(c)
      BY DEF GateInvariant, TypeOK
    <2>2. CASE c \in Pending /\ IsWorking(TaskOf[c])
      <3>1. after[c] = [approval[c] EXCEPT !.status = "cancelled"]
        BY <2>2
      <3>2. approval[c] # None /\ approval[c].status = "pending"
        BY <2>2 DEF Pending
      <3>3. after[c] \in Approval
        BY <2>1, <3>1, <3>2 DEF Approval, Decided
      <3> HIDE DEF after
      <3> QED
        BY <2>1, <3>2, <3>3 DEF AtGate
    <2>3. CASE ~ (c \in Pending /\ IsWorking(TaskOf[c]))
      BY <2>1, <2>3 DEF AtGate
    <2> QED
      BY <2>2, <2>3
  <1>2. state \in [approval : [Calls -> Approval \cup {None}], grants : SUBSET Grant]
    <2>1. after \in [Calls -> Approval \cup {None}]
      BY <1>1
    <2> HIDE DEF after
    <2> QED
      BY <2>1 DEF GateInvariant, TypeOK
  <1>3. Load(state)
    BY DEF Stop
  <1> HIDE DEF after
  <1>4. \A g \in grants : \E d \in Calls : Backs(g, d, after[d])
    BY <1>1 DEF GateInvariant, GrantsBacked, Backs
  <1> QED
    BY <1>1, <1>2, <1>3, <1>4, LoadKeeps

-----------------------------------------------------------------------------
(* The invariant, and what follows from it.                                *)

LEMMA GateInit == Init => GateInvariant
  <1> SUFFICES ASSUME Init PROVE GateInvariant
    OBVIOUS
  <1>1. TypeOK
    BY GateAssumption DEF Init, TypeOK, Policies
  <1>2. Pending = {} /\ \A t \in Tasks : PendingOf(t) = {}
    BY DEF Init, Pending, PendingOf
  <1>3. \A c \in Calls : AtGate(c) /\ NotDenied(c) /\ HasLeave(c) /\ Asked(c)
    BY <1>2 DEF Init, AtGate, NotDenied, HasLeave, Asked
  <1>4. GrantsBacked /\ \A t \in Tasks : Badge(t)
    BY <1>2 DEF Init, GrantsBacked, Badge
  <1> QED
    BY <1>1, <1>3, <1>4 DEF GateInvariant

LEMMA GateStep == GateInvariant /\ [Next]_vars => GateInvariant'
  <1>a. SUFFICES ASSUME GateInvariant, [Next]_vars PROVE GateInvariant'
    OBVIOUS
  <1>1. ASSUME NEW t \in Tasks, OpenSession(t) \/ Complete(t) PROVE GateInvariant'
    BY <1>a, <1>1, SessionKeeps
  <1>2. ASSUME NEW t \in Tasks, Cancelled(t) \/ Retried(t) PROVE GateInvariant'
    BY <1>a, <1>2, ClosedKeeps
  <1>3. ASSUME NEW t \in Tasks, NEW how \in {"cancelling", "retrying"}, Close(t, how)
        PROVE  GateInvariant'
    BY <1>a, <1>3, CloseKeeps
  <1>4. ASSUME NEW c \in Calls, AskGate(c) \/ Deliver(c) PROVE GateInvariant'
    BY <1>a, <1>4, HarnessKeeps
  <1>5. ASSUME NEW c \in Calls, Evaluate(c) PROVE GateInvariant'
    BY <1>a, <1>5, AnsweredKeeps, RequestKeeps DEF Evaluate
  <1>6. ASSUME NEW c \in Calls, Deny(c) \/ Expire(c) PROVE GateInvariant'
    BY <1>a, <1>6, DecisionKeeps
  <1>7. ASSUME NEW c \in Calls, NEW scope \in Scopes, Approve(c, scope) PROVE GateInvariant'
    BY <1>a, <1>7, ApproveKeeps
  <1>8. ASSUME NEW p \in Settable, SetPolicy(p) PROVE GateInvariant'
    BY <1>a, <1>8, SetPolicyKeeps
  <1>9. CASE Persist \/ Crash \/ Stop
    BY <1>a, <1>9, PersistKeeps, CrashKeeps, StopKeeps
  <1>10. CASE UNCHANGED vars
    BY <1>a, <1>10
    DEF vars, GateInvariant, TypeOK, AtGate, NotDenied, HasLeave, Licensed, Asked, GrantsBacked,
        Backs, Badge, PendingOf, Pending
  <1> QED
    BY <1>a, <1>1, <1>2, <1>3, <1>4, <1>5, <1>6, <1>7, <1>8, <1>9, <1>10 DEF Next

LEMMA GateHolds == Spec => []GateInvariant
  BY GateInit, GateStep, PTL DEF Spec

(* Every variable keeps its type.                                          *)
THEOREM TypeCorrect == Spec => []TypeOK
  <1>1. GateInvariant => TypeOK
    BY DEF GateInvariant
  <1> QED
    BY <1>1, GateHolds, PTL

(* Nobody waits for an outcome that can't come: a call waits exactly if    *)
(* its approval is pending, with a timer (approvals.ts).                   *)
THEOREM WaitersHear == Spec => []EveryWaiterHears
  <1>1. GateInvariant => EveryWaiterHears
    BY DEF GateInvariant, AtGate, EveryWaiterHears, Pending, TypeOK
  <1> QED
    BY <1>1, GateHolds, PTL

(* Whatever the policy was when a call was evaluated, what waits for the   *)
(* user is what the policy of now asks about.                              *)
THEOREM PolicyOfNow == Spec => []PendingIsAskedFor
  <1>1. GateInvariant => PendingIsAskedFor
    BY DEF GateInvariant, Asked, PendingIsAskedFor, Pending
  <1> QED
    BY <1>1, GateHolds, PTL

(* A task shows that it waits for the user exactly as long as it does.     *)
THEOREM BadgeIsRight == Spec => []BadgeShowsTheWait
  <1>1. GateInvariant => BadgeShowsTheWait
    BY GateAssumption DEF GateInvariant, Badge, BadgeShowsTheWait, PendingOf, Pending
  <1> QED
    BY <1>1, GateHolds, PTL

(* Only a delivery starts a call: any other step leaves a harness that     *)
(* asks asking, or blocks it.                                              *)
LEMMA OnlyDeliveryStarts ==
    ASSUME GateInvariant, Next, NEW c \in Calls, Starts(c)
    PROVE  Deliver(c) /\ Runs(c)
  <1>t. /\ TypeOK /\ (\A d \in Calls : AtGate(d)) /\ TaskOf[c] \in Tasks
    BY GateAssumption DEF GateInvariant
  <1>s. call[c].harness = "asking" /\ call'[c].harness = "run"
    BY DEF Starts
  <1>1. ASSUME NEW cs, cs \subseteq Pending, NEW decided \in Decided, NEW scope \in Scopes,
               FinishAll(cs, decided, scope)
        PROVE  FALSE
    <2>1. Ended(cs, decided, scope)
      BY <1>t, <1>1, FinishEnds
    <2>2. call'[c].harness = call[c].harness
      BY <2>1 DEF Ended
    <2> QED
      BY <1>s, <2>2
  <1>2. ASSUME NEW t \in Tasks, OpenSession(t) \/ Complete(t) PROVE FALSE
    BY <1>s, <1>2 DEF OpenSession, Complete
  <1>3. ASSUME NEW t \in Tasks, Cancelled(t) \/ Retried(t) PROVE FALSE
    <2>1. PendingOf(t) \subseteq Pending /\ "cancelled" \in Decided /\ "once" \in Scopes
      BY DEF PendingOf, Decided, Scopes
    <2> QED
      BY <1>1, <1>3, <2>1 DEF Cancelled, Retried
  <1>4. ASSUME NEW t \in Tasks, NEW how \in {"cancelling", "retrying"}, Close(t, how)
        PROVE  FALSE
    BY <1>t, <1>s, <1>4 DEF Close, Aborted, TypeOK
  <1>5. ASSUME NEW d \in Calls, AskGate(d) PROVE FALSE
    BY <1>t, <1>s, <1>5 DEF AskGate, TypeOK
  <1>6. ASSUME NEW d \in Calls, Evaluate(d) PROVE FALSE
    BY <1>t, <1>s, <1>6
    DEF Evaluate, Denied, AllowedByPolicy, AllowedByGrant, Allowed, Request, TypeOK
  <1>7. ASSUME NEW d \in Calls, NEW scope \in Scopes, Deny(d) \/ Expire(d) \/ Approve(d, scope)
        PROVE  FALSE
    <2>1. {"approved", "denied", "expired"} \subseteq Decided /\ "once" \in Scopes
      BY DEF Decided, Scopes
    <2> QED
      BY <1>1, <1>7, <2>1 DEF Deny, Expire, Approve
  <1>8. ASSUME NEW p \in Settable, SetPolicy(p) PROVE FALSE
    <2>1. ApprovePending(p) \subseteq Pending /\ "approved" \in Decided /\ "once" \in Scopes
      BY DEF ApprovePending, Decided, Scopes
    <2> QED
      BY <1>1, <1>8, <2>1 DEF SetPolicy
  <1>9. ~ Persist
    BY <1>s DEF Persist
  <1>10. ~ Crash /\ ~ Stop
    <2>1. ASSUME NEW state, Load(state) PROVE FALSE
      <3>1. call'[c].harness = Aborted(Tasks)[c].harness
        BY <2>1 DEF Load
      <3> QED
        BY <1>t, <1>s, <3>1 DEF Aborted, TypeOK
    <2> QED
      BY <2>1 DEF Crash, Stop
  <1>11. ASSUME NEW d \in Calls, Deliver(d) PROVE d = c /\ Runs(c)
    BY <1>t, <1>s, <1>11 DEF Deliver, Runs, TypeOK
  <1>12. "once" \in Scopes
    BY DEF Scopes
  <1> QED
    BY <1>2, <1>3, <1>4, <1>5, <1>6, <1>7, <1>8, <1>9, <1>10, <1>11, <1>12 DEF Next

(* A call that runs has leave: it was never denied, and where the user is  *)
(* named as the reason, the user approved it, or one that covers it.       *)
THEOREM StartsHaveLeave == Spec => RunsWithLeave
  <1>1. GateInvariant /\ [Next]_vars => [StartsWithLeave]_vars
    <2>a. SUFFICES ASSUME GateInvariant, Next, NEW c \in Calls, Starts(c)
                   PROVE  /\ verdict[c].decision # "deny"
                          /\ via[c] = "approval" => approval[c].status = "approved"
                          /\ via[c] = "grant" => Licensed(c)
      BY DEF StartsWithLeave
    <2>1. call[c].gate = "allowed"
      BY <2>a, OnlyDeliveryStarts DEF Runs
    <2> QED
      BY <2>a, <2>1 DEF GateInvariant, NotDenied, HasLeave
  <1> QED
    BY <1>1, GateHolds, PTL DEF Spec, RunsWithLeave

(* None of a session's calls starts once it closes.                        *)
THEOREM StartsWhileSessionOpen == Spec => NothingStartsOnceClosed
  <1>1. GateInvariant /\ [Next]_vars => [StartsWhileOpen]_vars
    <2>a. SUFFICES ASSUME GateInvariant, Next, NEW c \in Calls, Starts(c)
                   PROVE  session[TaskOf[c]] = "open"
      BY DEF StartsWhileOpen
    <2> QED
      BY <2>a DEF GateInvariant, AtGate, Starts
  <1> QED
    BY <1>1, GateHolds, PTL DEF Spec, NothingStartsOnceClosed
=============================================================================
