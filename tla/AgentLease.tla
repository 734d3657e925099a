------------------------------ MODULE AgentLease ------------------------------
(***************************************************************************)
(* Which device runs the agent: the AgentLease of every daemon             *)
(* (apps/daemon/src/agent-lease.ts), the callbacks AgentSupervisor gives   *)
(* it (agent-supervisor.ts), the requests between them and the sync        *)
(* service, and the service's lease row (LeaseTable).                      *)
(*                                                                         *)
(* A daemon runs the steps of its lease one at a time (#enqueue).  A step  *)
(* that awaits is an activity here (`step`), entered by the action that    *)
(* starts the wait and left by the action that ends it; timers fire and    *)
(* the other devices go on meanwhile.  Time is an action of its own, Tick; *)
(* it waits for whatever is due at once and never lets an activity outlast *)
(* its bound.  Deadlines and timers are countdowns, as in LeaseTable.      *)
(***************************************************************************)
EXTENDS LeaseTable

CONSTANTS
    \* LeaseTimings, in ticks
    TTL, RenewEvery, RetryEvery, TakeoverRetry, MaxBackoff, Margin,
    \* How long a wait may last
    RequestTimeout,   \* remote-client.ts gives a request up after this long
    SyncPassTimeout,  \* HANDOVER_SYNC_TIMEOUT_MS, and starting the agent after it
    StopTime,         \* stopping the agent runtime
    \* What each user may have set their device to at first
    Placements,
    \* What may happen beside the lease's own steps: a subset of Hazards
    Events,
    \* Bounds on the counters
    MaxEpoch, MaxSession

Hazards == {"loss",          \* a request fails, before or after the server answered it
            "lateAcquire",   \* an abandoned acquire reaches the server all the same
            "lateRelease",   \* an abandoned release reaches the server all the same
            "crash",         \* a daemon dies, and may start again
            "stop",          \* a daemon shuts down or its arrangement is replaced
            "claim",         \* a device's user sets it to run the agent: interactive
            "cede"}          \* ... or to act as the always-on host again

ASSUME AgentLeaseAssumption ==
    /\ TTL \in 1 .. MaxTTL
    /\ {RenewEvery, RetryEvery, TakeoverRetry, MaxBackoff, Margin,
        RequestTimeout, SyncPassTimeout, StopTime, MaxEpoch, MaxSession} \subseteq Nat
    /\ Margin < TTL
    /\ Events \subseteq Hazards
    /\ Placements \subseteq [Device -> Priority]

VARIABLES
    row,          \* the service's row of the agent lease
    priority,     \* #priority
    session,      \* the session of the current run; 0 before the first
    kind,         \* #state.kind, and "down" while no lease object exists
    asked,        \* #state.takeoverPending
    heldEpoch,    \* #heldEpoch, 0 for null
    deadline,     \* #deadline - now
    armed,        \* #deadlineTimer is set
    wait,         \* #timer: ticks until the next attempt is queued, Off when not set
    queue,        \* steps waiting behind the running one
    stopped,      \* #stopped
    step,         \* what the running step waits for
    busy,         \* for how long it has been waiting for it
    after,        \* what to arm #timer with when it ends
    yieldTo,      \* outcome.lease.yieldRequested of the grant being handled
    request,      \* a request on its way to the service
    reply,        \* the service's answer on its way back
    late,         \* a request its device gave up on, not yet at the service
    agent,        \* the agent runs here: LeasedAgentRuntime holds a live stack
    startedUnder  \* AgentSupervisor.#startedUnder

lease == <<kind, asked, heldEpoch, deadline, armed, wait, queue, stopped>>
running == <<step, busy, after, yieldTo>>
network == <<request, reply, late>>
process == <<agent, startedUnder>>
vars == <<row, priority, session, lease, running, network, process>>

Off == -1

Kinds == {"down", "checking", "held", "yielding", "elsewhere", "unreachable", "stopped"}
Steps == {"none", "asking", "syncing", "stopping", "winding", "pushing", "releasing"}

Request == [op : {"none", "acquire", "release"}, session : Nat, priority : Priority]
Reply == [op : {"none", "granted", "refused", "released"}, epoch : Nat,
          yieldTo : BOOLEAN, asked : BOOLEAN]

NoRequest == [op |-> "none", session |-> 0, priority |-> "host"]
NoReply == [op |-> "none", epoch |-> 0, yieldTo |-> FALSE, asked |-> FALSE]

AtLeastZero(n) == IF n > 0 THEN n ELSE 0

TypeOK ==
    /\ row \in LeaseRow
    /\ priority \in [Device -> Priority]
    /\ session \in [Device -> Nat]
    /\ kind \in [Device -> Kinds]
    /\ asked \in [Device -> BOOLEAN]
    /\ heldEpoch \in [Device -> Nat]
    /\ deadline \in [Device -> 0 .. TTL]
    /\ armed \in [Device -> BOOLEAN]
    /\ wait \in [Device -> Int]
    /\ queue \in [Device -> SUBSET {"attempt", "deadline", "stop"}]
    /\ stopped \in [Device -> BOOLEAN]
    /\ step \in [Device -> Steps]
    /\ busy \in [Device -> Nat]
    /\ after \in [Device -> Int]
    /\ yieldTo \in [Device -> BOOLEAN]
    /\ request \in [Device -> Request]
    /\ reply \in [Device -> Reply]
    /\ late \in [Device -> Request]
    /\ agent \in [Device -> BOOLEAN]
    /\ startedUnder \in [Device -> Nat]

Init ==
    /\ row = NoRow
    /\ priority \in Placements
    /\ session = [d \in Device |-> 0]
    /\ kind = [d \in Device |-> "down"]
    /\ asked = [d \in Device |-> FALSE]
    /\ heldEpoch = [d \in Device |-> 0]
    /\ deadline = [d \in Device |-> 0]
    /\ armed = [d \in Device |-> FALSE]
    /\ wait = [d \in Device |-> Off]
    /\ queue = [d \in Device |-> {}]
    /\ stopped = [d \in Device |-> FALSE]
    /\ step = [d \in Device |-> "none"]
    /\ busy = [d \in Device |-> 0]
    /\ after = [d \in Device |-> Off]
    /\ yieldTo = [d \in Device |-> FALSE]
    /\ request = [d \in Device |-> NoRequest]
    /\ reply = [d \in Device |-> NoReply]
    /\ late = [d \in Device |-> NoRequest]
    /\ agent = [d \in Device |-> FALSE]
    /\ startedUnder = [d \in Device |-> 0]

-----------------------------------------------------------------------------
(* Helpers of the actions: what the next state of one daemon's step is.    *)

Set(f, d, v) == f' = [f EXCEPT ![d] = v]

\* The running step starts waiting for s.
Await(d, s) == Set(step, d, s) /\ Set(busy, d, 0)

\* The running step ends; #schedule(w) arms the attempt timer, unless stopped.
EndStep(d, w) ==
    /\ Await(d, "none")
    /\ Set(after, d, Off)
    /\ Set(wait, d, IF stopped[d] \/ w = Off THEN wait[d] ELSE w)

Send(d, op) ==
    /\ Set(request, d, [op |-> op, session |-> session[d], priority |-> priority[d]])
    /\ Set(reply, d, NoReply)

HangUp(d) == Set(request, d, NoRequest) /\ Set(reply, d, NoReply)

\* #unavailable: the daemon that believed it held the lease stops its agent
\* before the step goes on to #schedule(w); for any other the agent is off.
Unavailable(d, newKind, takeoverPending, w) ==
    /\ Set(kind, d, newKind)
    /\ Set(asked, d, takeoverPending)
    /\ Set(heldEpoch, d, 0)
    /\ IF kind[d] = "held"
       THEN Await(d, "stopping") /\ Set(after, d, w) /\ UNCHANGED wait
       ELSE EndStep(d, w)

-----------------------------------------------------------------------------
(* A lease object and its timers.                                          *)

\* AgentSupervisor.#enter: a new AgentLease, with a session of its own.
Start(d) ==
    /\ \/ kind[d] = "down"
       \/ kind[d] = "stopped" /\ step[d] = "none" /\ queue[d] = {}
    /\ session[d] < MaxSession
    /\ Set(session, d, session[d] + 1)
    /\ Set(kind, d, "checking")
    /\ Set(asked, d, FALSE)
    /\ Set(heldEpoch, d, 0)
    /\ Set(deadline, d, 0)
    /\ Set(armed, d, FALSE)
    /\ Set(wait, d, 0)
    /\ Set(stopped, d, FALSE)
    /\ UNCHANGED <<row, priority, queue, running, network, process>>

\* setPriority: a daemon that waits asks again at once.  (Without a lease, the
\* user's choice is what the next one is created with.)
SetPriority(d, p) ==
    /\ p # priority[d]
    /\ (IF p = "interactive" THEN "claim" ELSE "cede") \in Events
    /\ Set(priority, d, p)
    /\ Set(wait, d, IF stopped[d] \/ kind[d] \in {"down", "held", "yielding"}
                     THEN wait[d] ELSE 0)
    /\ UNCHANGED <<row, session, kind, asked, heldEpoch, deadline, armed, queue, stopped,
                   running, network, process>>

\* The callback of #timer.
AttemptDue(d) ==
    /\ wait[d] = 0
    /\ Set(wait, d, Off)
    /\ Set(queue, d, queue[d] \cup {"attempt"})
    /\ UNCHANGED <<row, priority, session, kind, asked, heldEpoch, deadline, armed, stopped,
                   running, network, process>>

\* The callback of #deadlineTimer: its check waits behind the running step.
DeadlineDue(d) ==
    /\ armed[d] /\ deadline[d] = 0
    /\ Set(armed, d, FALSE)
    /\ Set(queue, d, queue[d] \cup {"deadline"})
    /\ UNCHANGED <<row, priority, session, kind, asked, heldEpoch, deadline, wait, stopped,
                   running, network, process>>

\* stop(): both timers are cleared at once, the rest waits its turn.
Stop(d) ==
    /\ "stop" \in Events
    /\ kind[d] # "down" /\ ~ stopped[d]
    /\ Set(stopped, d, TRUE)
    /\ Set(wait, d, Off)
    /\ Set(armed, d, FALSE)
    /\ Set(queue, d, queue[d] \cup {"stop"})
    /\ UNCHANGED <<row, priority, session, kind, asked, heldEpoch, deadline,
                   running, network, process>>

-----------------------------------------------------------------------------
(* The steps of #queue.                                                    *)

\* #attempt, up to its request.
BeginAttempt(d) ==
    /\ step[d] = "none" /\ "attempt" \in queue[d]
    /\ Set(queue, d, queue[d] \ {"attempt"})
    /\ IF stopped[d]
       THEN UNCHANGED <<step, busy, request, reply>>
       ELSE Await(d, "asking") /\ Send(d, "acquire")
    /\ UNCHANGED <<row, priority, session, kind, asked, heldEpoch, deadline, armed, wait,
                   stopped, after, yieldTo, late, process>>

\* The deadline's step: without a renewal in time the agent stops here.
RunDeadline(d) ==
    /\ step[d] = "none" /\ "deadline" \in queue[d]
    /\ Set(queue, d, queue[d] \ {"deadline"})
    /\ IF kind[d] = "held" /\ deadline[d] = 0
       THEN Unavailable(d, "unreachable", FALSE, Off)
       ELSE UNCHANGED <<kind, asked, heldEpoch, wait, step, busy, after>>
    /\ UNCHANGED <<row, priority, session, deadline, armed, stopped, yieldTo,
                   network, process>>

\* stop()'s step: a holder winds down first, a pending takeover is withdrawn.
RunStop(d) ==
    /\ step[d] = "none" /\ queue[d] = {"stop"}
    /\ Set(queue, d, {})
    /\ Set(kind, d, "stopped")
    /\ \/ kind[d] = "held" /\ Await(d, "winding") /\ UNCHANGED <<request, reply>>
       \/ kind[d] = "elsewhere" /\ asked[d] /\ Await(d, "releasing") /\ Send(d, "release")
       \/ /\ kind[d] # "held" /\ ~ (kind[d] = "elsewhere" /\ asked[d])
          /\ UNCHANGED <<step, busy, request, reply>>
    /\ UNCHANGED <<row, priority, session, asked, heldEpoch, deadline, armed, wait, stopped,
                   after, yieldTo, late, process>>

-----------------------------------------------------------------------------
(* The answers to #attempt's request.                                      *)

\* What follows a grant once the agent is where it should be: yield, or renew later.
AfterGrant(d, yields) ==
    IF yields /\ ~ stopped[d]
    THEN /\ Set(kind, d, "yielding")
         /\ Await(d, "winding")
         /\ UNCHANGED <<wait, after>>
    ELSE Set(kind, d, "held") /\ EndStep(d, RenewEvery)

\* Slip: the agent runs to the very end of the grant.
TimeLeftNoMargin(d) == AtLeastZero(TTL - busy[d])

\* The deadline counts from when the request was sent.
TimeLeft(d) == AtLeastZero(TTL - Margin - busy[d])

ReceiveGrant(d) ==
    /\ step[d] = "asking" /\ reply[d].op = "granted"
    /\ HangUp(d)
    /\ Set(deadline, d, TimeLeft(d))
    /\ Set(armed, d, TRUE)
    /\ Set(heldEpoch, d, reply[d].epoch)
    /\ IF kind[d] # "held" /\ ~ stopped[d]
       THEN /\ Set(kind, d, "held")
            /\ Await(d, "syncing")
            /\ Set(yieldTo, d, reply[d].yieldTo)
            /\ UNCHANGED <<wait, after>>
       ELSE AfterGrant(d, reply[d].yieldTo) /\ UNCHANGED yieldTo
    /\ UNCHANGED <<row, priority, session, asked, queue, stopped, late, process>>

ReceiveRefusal(d) ==
    /\ step[d] = "asking" /\ reply[d].op = "refused"
    /\ HangUp(d)
    /\ Set(armed, d, FALSE)
    /\ Unavailable(d, "elsewhere", reply[d].asked,
                   IF reply[d].asked THEN TakeoverRetry ELSE RetryEvery)
    /\ UNCHANGED <<row, priority, session, deadline, queue, stopped, yieldTo, late, process>>

\* What becomes of a request its device no longer waits for.
Abandon(d) ==
    /\ HangUp(d)
    /\ \/ UNCHANGED late
       \/ /\ request[d].op = "acquire" /\ "lateAcquire" \in Events
          /\ Set(late, d, request[d])
       \/ /\ request[d].op = "release" /\ "lateRelease" \in Events
          /\ Set(late, d, request[d])

\* #failed: the request timed out or was refused a connection.  A holder with
\* time left tries again soon; any other stays off and backs off.
AttemptFails(d) ==
    /\ "loss" \in Events
    /\ step[d] = "asking"
    /\ Abandon(d)
    /\ IF kind[d] = "held" /\ deadline[d] > 0
       THEN EndStep(d, 1) /\ UNCHANGED <<kind, asked, heldEpoch>>
       ELSE \E w \in 1 .. MaxBackoff : Unavailable(d, "unreachable", FALSE, w)
    /\ UNCHANGED <<row, priority, session, deadline, armed, queue, stopped, yieldTo, process>>

-----------------------------------------------------------------------------
(* The supervisor's callbacks.                                             *)

\* onAcquired: one sync pass, then the agent starts under this grant.
AgentStarts(d) ==
    /\ step[d] = "syncing"
    /\ Set(startedUnder, d, heldEpoch[d])
    /\ Set(agent, d, TRUE)
    /\ Set(yieldTo, d, FALSE)
    /\ AfterGrant(d, yieldTo[d])
    /\ UNCHANGED <<row, priority, session, asked, heldEpoch, deadline, armed, queue, stopped,
                   network>>

\* onUnavailable: the agent is off; the step goes on to its #schedule.
AgentStops(d) ==
    /\ step[d] = "stopping"
    /\ Set(agent, d, FALSE)
    /\ EndStep(d, after[d])
    /\ UNCHANGED <<row, priority, session, kind, asked, heldEpoch, deadline, armed, queue,
                   stopped, yieldTo, network, startedUnder>>

\* windDown, first half: the agent is off, its last state goes out next.
AgentWindsDown(d) ==
    /\ step[d] = "winding"
    /\ Set(agent, d, FALSE)
    /\ Await(d, "pushing")
    /\ UNCHANGED <<row, priority, session, lease, after, yieldTo, network, startedUnder>>

\* Slip: the device that yielded goes back to holding, without its agent.
LastStatePushedOnly(d) ==
    /\ step[d] = "pushing"
    /\ Set(kind, d, "held")
    /\ EndStep(d, RenewEvery)
    /\ UNCHANGED <<row, priority, session, asked, heldEpoch, deadline, armed, queue, stopped,
                   yieldTo, network, process>>

\* windDown, second half, up to #release.
LastStatePushed(d) ==
    /\ step[d] = "pushing"
    /\ Set(armed, d, FALSE)
    /\ Await(d, "releasing")
    /\ Send(d, "release")
    /\ UNCHANGED <<row, priority, session, kind, asked, heldEpoch, deadline, wait, queue,
                   stopped, after, yieldTo, late, process>>

\* Slip: a device that yielded never asks again.
ReleasedForGood(d) ==
    /\ Set(heldEpoch, d, 0)
    /\ Set(kind, d, IF kind[d] = "yielding" THEN "checking" ELSE kind[d])
    /\ EndStep(d, Off)
    /\ UNCHANGED <<row, priority, session, asked, deadline, armed, queue, stopped, yieldTo,
                   process>>

\* #release is over, answered or not, and with it the yield or the stop.
Released(d) ==
    /\ Set(heldEpoch, d, 0)
    /\ IF kind[d] = "yielding" /\ ~ stopped[d]
       THEN Set(kind, d, "checking") /\ EndStep(d, RetryEvery)
       ELSE EndStep(d, Off) /\ UNCHANGED kind
    /\ UNCHANGED <<row, priority, session, asked, deadline, armed, queue, stopped, yieldTo,
                   process>>

ReleaseAnswered(d) ==
    /\ step[d] = "releasing" /\ reply[d].op = "released"
    /\ HangUp(d) /\ UNCHANGED late
    /\ Released(d)

ReleaseFails(d) ==
    /\ "loss" \in Events
    /\ step[d] = "releasing"
    /\ Abandon(d)
    /\ Released(d)

-----------------------------------------------------------------------------
(* The sync service, and the network.                                      *)

AskFor(d, r) == [device |-> d, session |-> r.session, priority |-> r.priority, ttl |-> TTL]

ServeAcquire(d) ==
    LET q == AskFor(d, request[d])
    IN  /\ request[d].op = "acquire"
        /\ AfterAcquire(row, q).epoch =< MaxEpoch
        /\ row' = AfterAcquire(row, q)
        /\ Set(reply, d, [op      |-> IF Granted(row, q) THEN "granted" ELSE "refused",
                          epoch   |-> row'.epoch,
                          yieldTo |-> Granted(row, q) /\ YieldRequested(row'),
                          asked   |-> TakesOver(row, q)])
        /\ Set(request, d, NoRequest)
        /\ UNCHANGED <<priority, session, lease, running, late, process>>

ServeRelease(d) ==
    /\ request[d].op = "release"
    /\ row' = AfterRelease(row, d, request[d].session)
    /\ Set(reply, d, [NoReply EXCEPT !.op = "released"])
    /\ Set(request, d, NoRequest)
    /\ UNCHANGED <<priority, session, lease, running, late, process>>

\* Slip: a request that arrives late is granted whoever holds the lease by then.
ServeLateGranted(d) ==
    /\ late[d].op # "none"
    /\ row' = IF late[d].op = "release" THEN AfterRelease(row, d, late[d].session)
                                        ELSE Grant(row, AskFor(d, late[d]))
    /\ row'.epoch =< MaxEpoch
    /\ Set(late, d, NoRequest)
    /\ UNCHANGED <<priority, session, lease, running, request, reply, process>>

\* A request its device gave up on gets through: nobody hears the answer.
ServeLate(d) ==
    /\ late[d].op # "none"
    /\ row' = IF late[d].op = "release" THEN AfterRelease(row, d, late[d].session)
                                        ELSE AfterAcquire(row, AskFor(d, late[d]))
    /\ row'.epoch =< MaxEpoch
    /\ Set(late, d, NoRequest)
    /\ UNCHANGED <<priority, session, lease, running, request, reply, process>>

\* The daemon dies, whatever it was doing.
Crash(d) ==
    /\ "crash" \in Events
    /\ kind[d] # "down"
    /\ Set(kind, d, "down")
    /\ Set(asked, d, FALSE)
    /\ Set(heldEpoch, d, 0)
    /\ Set(deadline, d, 0)
    /\ Set(armed, d, FALSE)
    /\ Set(wait, d, Off)
    /\ Set(queue, d, {})
    /\ Set(stopped, d, FALSE)
    /\ Await(d, "none")
    /\ Set(after, d, Off)
    /\ Set(yieldTo, d, FALSE)
    /\ Abandon(d)
    /\ Set(agent, d, FALSE)
    /\ Set(startedUnder, d, 0)
    /\ UNCHANGED <<row, priority, session>>

-----------------------------------------------------------------------------
(* Time.                                                                   *)

Limit == [none      |-> 0,
          asking    |-> RequestTimeout,
          syncing   |-> SyncPassTimeout,
          stopping  |-> StopTime,
          winding   |-> StopTime,
          pushing   |-> SyncPassTimeout,
          releasing |-> RequestTimeout]

\* Something the daemon does before any more time passes.
Due(d) ==
    \/ wait[d] = 0
    \/ armed[d] /\ deadline[d] = 0
    \/ step[d] = "none" /\ queue[d] # {}
    \/ step[d] # "none" /\ busy[d] >= Limit[step[d]]

Tick ==
    /\ \A d \in Device : ~ Due(d)
    /\ row' = Aged(row)
    /\ deadline' = [d \in Device |-> IF deadline[d] > 0 THEN deadline[d] - 1 ELSE 0]
    /\ wait' = [d \in Device |-> IF wait[d] > 0 THEN wait[d] - 1 ELSE wait[d]]
    /\ busy' = [d \in Device |-> IF step[d] # "none" THEN busy[d] + 1 ELSE 0]
    /\ UNCHANGED <<priority, session, kind, asked, heldEpoch, armed, queue, stopped,
                   step, after, yieldTo, network, process>>

-----------------------------------------------------------------------------
StepOf(d) ==
    \/ AttemptDue(d) \/ DeadlineDue(d)
    \/ BeginAttempt(d) \/ RunDeadline(d) \/ RunStop(d)
    \/ ReceiveGrant(d) \/ ReceiveRefusal(d)
    \/ AgentStarts(d) \/ AgentStops(d) \/ AgentWindsDown(d)
    \/ LastStatePushed(d) \/ ReleaseAnswered(d)

Serve(d) == ServeAcquire(d) \/ ServeRelease(d)

\* What nothing obliges to happen: the user, and what goes wrong.
Mishap(d) ==
    \/ Stop(d) \/ Crash(d)
    \/ \E p \in Priority : SetPriority(d, p)
    \/ AttemptFails(d) \/ ReleaseFails(d)
    \/ ServeLate(d)

Next ==
    \/ \E d \in Device : Start(d) \/ StepOf(d) \/ Serve(d) \/ Mishap(d)
    \/ Tick

Spec == Init /\ [][Next]_vars

\* A daemon's event loop runs what is due, the service answers what it gets,
\* time passes, and a daemon is started at least once.
Fairness ==
    /\ WF_vars(Tick)
    /\ \A d \in Device :
          /\ WF_vars(session[d] = 0 /\ Start(d))
          /\ WF_vars(StepOf(d))
          /\ WF_vars(Serve(d))

FairSpec == Spec /\ Fairness

-----------------------------------------------------------------------------
(* Properties.                                                             *)

\* The waits are short against the margin: a request in flight when the
\* deadline passes is over, and the agent stopped, before the margin is used
\* up; a first sync pass ends before the deadline of the grant it runs under.
Prompt ==
    /\ RequestTimeout + StopTime < Margin
    /\ RequestTimeout + SyncPassTimeout + Margin =< TTL
    /\ "lateRelease" \notin Events

\* Slip: the engine goes by the held grant alone.
EngineFenceAnyGrant(d) == heldEpoch[d] # 0

\* AgentSupervisor.heldEpoch: the engine sends the agent's files under the held
\* grant, if it is the one the agent was started under.
EngineFence(d) == heldEpoch[d] # 0 /\ heldEpoch[d] = startedUnder[d]

\* A write to the agent's files sent now goes through both fences.
MayWrite(d) == EngineFence(d) /\ FenceAdmits(row, d, heldEpoch[d])

\* docs/SYNC.md, Devices and the agent: "two agents never overlap".
OneAgent == \A d, e \in Device : agent[d] /\ agent[e] => d = e

\* A running agent has a grant that the service still honours: until it has
\* fully stopped, not only until its daemon noticed the loss.
AgentUnderGrant ==
    \A d \in Device : agent[d] => Live(row) /\ HeldBy(row, d, session[d])

\* As long as its daemon has not given the lease up, what the agent writes
\* goes through both fences; winding down included, up to the release.
AgentMayWrite ==
    \A d \in Device : agent[d] /\ step[d] # "stopping" => MayWrite(d)

\* However long the network takes, of two agents that overlap the one with the
\* older grant is fenced out.
OverlapIsFenced ==
    \A d, e \in Device :
        agent[d] /\ agent[e] /\ startedUnder[d] < startedUnder[e] => ~ MayWrite(d)

\* When the agent starts, its grant is newer than the one any other device's
\* agent started under, so nothing an earlier agent still sends gets past the
\* fence.  (The same device may start it again under the same grant.)
FreshGrant ==
    [][ \A d \in Device : ~ agent[d] /\ agent'[d] =>
            /\ startedUnder'[d] >= startedUnder[d]
            /\ \A e \in Device \ {d} : startedUnder[e] < startedUnder'[d] ]_vars

\* A lease that isn't stopped never falls silent: between its steps another
\* attempt is always on its way, whichever step ran last and however it ended.
AlwaysAsksAgain ==
    \A d \in Device :
        kind[d] \notin {"down", "stopped"} /\ ~ stopped[d] /\ step[d] = "none"
            => wait[d] # Off \/ "attempt" \in queue[d]

\* The service's promises, whatever the daemons do.
Server == INSTANCE LeaseServer WITH Session <- 0 .. MaxSession
ServerSpec == Server!Spec

\* A device the service promised the agent to gets it, unless another device
\* whose user wants the agent there as much runs it by then.
HandoverCompletes ==
    \A d \in Device :
        asked[d] ~> \E e \in Device : agent[e] /\ priority[e] = "interactive"

\* Someone runs the agent, again and again.
AgentRuns == []<>(\E d \in Device : agent[d])
-----------------------------------------------------------------------------
(* The inductive invariant behind OneAgent: in which order a device's steps *)
(* may find each other, and how much of the grant is left, by the service's *)
(* clock, at each of them.                                                  *)

\* Device d counts on its grant: it believes it holds the lease, is about to be
\* told so, or its agent has not stopped yet.
CountsOnGrant(d) == kind[d] = "held" \/ agent[d] \/ reply[d].op = "granted"

StepsInOrder(d) ==
    /\ kind[d] = "down" =>
          step[d] = "none" /\ queue[d] = {} /\ wait[d] = Off /\ ~ armed[d] /\ ~ stopped[d]
    /\ kind[d] = "held" => step[d] \in {"none", "asking", "syncing"}
    /\ kind[d] = "stopped" =>
          stopped[d] /\ step[d] \in {"none", "winding", "pushing", "releasing"}
    /\ step[d] = "syncing" => kind[d] = "held" /\ ~ agent[d]
    /\ step[d] = "releasing" => kind[d] # "held"
    /\ agent[d] => \/ kind[d] = "held" /\ step[d] \in {"none", "asking"}
                   \/ step[d] \in {"stopping", "winding"}
    /\ busy[d] =< Limit[step[d]]

RequestsInOrder(d) ==
    /\ request[d].op # "none" => request[d].session = session[d]
    /\ request[d].op = "acquire" \/ reply[d].op \in {"granted", "refused"} => step[d] = "asking"
    /\ request[d].op = "release" \/ reply[d].op = "released" => step[d] = "releasing"
    /\ late[d].op # "release"

\* Something is set to end a grant that isn't renewed: a timer, or a queued step.
DeadlineWatched(d) ==
    /\ "stop" \in queue[d] => stopped[d]
    /\ stopped[d] /\ kind[d] # "stopped" => "stop" \in queue[d]
    /\ kind[d] = "held" => \/ armed[d] \/ "stop" \in queue[d]
                           \/ deadline[d] = 0 /\ "deadline" \in queue[d]
    /\ deadline[d] =< TTL - Margin

\* What is left of the grant covers what may still happen before the agent is off.
GrantCovers(d) ==
    /\ CountsOnGrant(d) => HeldBy(row, d, session[d])
    /\ reply[d].op = "granted" => reply[d].epoch = row.epoch /\ row.left + busy[d] >= TTL
    /\ kind[d] = "held" =>
          /\ heldEpoch[d] = row.epoch
          /\ deadline[d] > 0 => row.left >= deadline[d] + Margin
          /\ step[d] = "none" => row.left >= Margin
          /\ step[d] = "asking" => row.left + busy[d] >= Margin
          /\ step[d] = "syncing" => row.left + busy[d] >= TTL - RequestTimeout
    /\ agent[d] /\ step[d] = "winding" => heldEpoch[d] = row.epoch /\ row.left + busy[d] >= Margin
    /\ agent[d] /\ step[d] = "stopping" => row.left + busy[d] >= Margin - RequestTimeout
    /\ agent[d] /\ step[d] # "stopping" => startedUnder[d] = heldEpoch[d]

\* An epoch is known only to the device it was granted to, and never ahead of the row.
EpochKnown(d, e) == e =< row.epoch /\ (e = row.epoch /\ e # 0 => row.device = d)

EpochsInOrder(d) ==
    /\ EpochKnown(d, heldEpoch[d])
    /\ EpochKnown(d, startedUnder[d])
    /\ reply[d].op = "granted" => EpochKnown(d, reply[d].epoch)

GrantInvariant ==
    /\ Live(row) => row.epoch > 0
    /\ \A d \in Device :
          /\ StepsInOrder(d) /\ RequestsInOrder(d) /\ DeadlineWatched(d)
          /\ GrantCovers(d) /\ EpochsInOrder(d)
=============================================================================
