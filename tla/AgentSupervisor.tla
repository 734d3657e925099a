---------------------------- MODULE AgentSupervisor ----------------------------
(***************************************************************************)
(* Whether a daemon runs the agent (apps/daemon/src/agent-supervisor.ts):  *)
(* the arrangement AgentSupervisor keeps, the changes it follows, the      *)
(* lease or the watcher it sets up for it, the LeasedAgentRuntime it       *)
(* drives, the SyncController it configures, and the shutdown of server.ts.*)
(*                                                                         *)
(* The supervisor runs its steps one at a time (#serialized), and waits in *)
(* them for the lease, for a sync pass and for the runtime.  The AgentLease*)
(* module has the lease's timing and the other devices; here one daemon's  *)
(* lease meets a service that grants, refuses or does not answer as it     *)
(* likes, and keeps a grant until the device has let go of it.             *)
(***************************************************************************)
EXTENDS LeasedRuntime, SequencesExt

CONSTANTS
    Tokens,       \* what a sync setup may find in the token file
    MaxGrants,    \* bound on the grants of the service
    MaxChanges    \* bound on what the user changes

ASSUME AgentSupervisorAssumption ==
    /\ Caller = {"supervisor", "lease", "daemon"}
    /\ Tokens \subseteq {"ok", "absent", "bad"}
    /\ MaxGrants \in Nat
    /\ MaxChanges \in Nat

VARIABLES
    placement,     \* DeviceSettings.placement
    machine,       \* the vault's settings name an always-on machine
    config,        \* DeviceSettings.#sync: "none" or "remote"
    token,         \* what the token file holds
    prepared,      \* SyncController.#prepared: "none", "noclient" or "client"
    changes,       \* how often the user changed any of these
    steps,         \* the running step, first, and those behind it: #queue
    pc,            \* what the running step waits for
    desired,       \* the `desired` it read before it waited
    next,          \* what it does once #leave is over
    arrangement,   \* #arrangement.kind
    lease,         \* the AgentLease of the arrangement, or of the one being left
    releasing,     \* #releasing is set
    startedUnder,  \* #startedUnder, 0 for null
    grant,         \* the service's row: the last grant, and whether it is this lease's
    synced,        \* a pass ended since the last stack did
    stopped,       \* #stopped
    closing        \* how far shutdown() came

choices == <<placement, machine, config, token, changes>>
running == <<steps, pc, desired, next>>
arranged == <<prepared, arrangement, releasing, startedUnder, stopped, closing>>
vars == <<runtime, choices, running, arranged, lease, grant, synced>>

Placements == {"this_device", "always_on_host", "always_on_machine"}
Arrangements == {"idle", "standalone", "unavailable", "lease", "relayed"}
NoLease == [kind |-> "stopped", epoch |-> 0, stopped |-> TRUE, step |-> "none", yield |-> FALSE]

SupervisorTypeOK ==
    /\ RuntimeTypeOK
    /\ placement \in Placements
    /\ machine \in BOOLEAN
    /\ config \in {"none", "remote"}
    /\ token \in {"ok", "absent", "bad"}
    /\ prepared \in {"none", "noclient", "client"}
    /\ changes \in 0 .. MaxChanges
    /\ steps \in Seq({"reconcile", "apply", "watched", "stop"})
    /\ pc \in {"none", "letting go", "pushing", "off", "configuring", "deciding",
               "entering", "before the lease"}
    /\ desired \in Arrangements
    /\ next \in {"end", "configure", "enter"}
    /\ arrangement \in Arrangements
    /\ lease \in [kind : {"checking", "held", "yielding", "elsewhere", "unreachable", "stopped"},
                  epoch : 0 .. MaxGrants, stopped : BOOLEAN, yield : BOOLEAN,
                  step : {"none", "asking", "pulling", "activating", "stopping", "winding",
                          "passing", "releasing"}]
    /\ releasing \in BOOLEAN
    /\ startedUnder \in 0 .. MaxGrants
    /\ grant \in [epoch : 0 .. MaxGrants, mine : BOOLEAN]
    /\ synced \in BOOLEAN
    /\ stopped \in BOOLEAN
    /\ closing \in {"no", "agent", "runtime", "done"}

\* prepareSync (a token that is none makes it throw, see Configured).
Prepared(c, t) ==
    IF c = "none" THEN "none" ELSE IF t = "ok" THEN "client" ELSE "noclient"

\* startDaemon has configured sync, and supervisor.start() is under way.
SupervisorInit ==
    /\ RuntimeInit
    /\ placement \in Placements
    /\ machine \in BOOLEAN
    /\ config \in {"none", "remote"}
    /\ token \in {"ok", "absent"}
    /\ prepared = Prepared(config, token)
    /\ changes = 0
    /\ steps = <<"reconcile">>
    /\ pc = "none"
    /\ desired = "idle"
    /\ next = "end"
    /\ arrangement = "idle"
    /\ lease = NoLease
    /\ releasing = FALSE
    /\ startedUnder = 0
    /\ grant = [epoch |-> 0, mine |-> FALSE]
    /\ synced = TRUE
    /\ stopped = FALSE
    /\ closing = "no"

-----------------------------------------------------------------------------
(* What applies.                                                           *)

\* effectivePlacement: sync and a machine are needed to hand the agent over.
Effective ==
    IF prepared # "client" \/ ~ machine THEN "this_device" ELSE placement

Desired ==
    CASE prepared = "none" -> "standalone"
      [] prepared = "noclient" -> "unavailable"
      [] prepared = "client" -> IF Effective = "always_on_machine" THEN "relayed" ELSE "lease"

\* The getter heldEpoch, which fences the sync engine; 0 for null.
Fence ==
    IF (arrangement = "lease" \/ releasing) /\ lease.epoch = startedUnder THEN lease.epoch ELSE 0

-----------------------------------------------------------------------------
(* Changes.  A stopped supervisor no longer listens.                       *)

Queue(s) == steps' = IF stopped THEN steps ELSE Append(steps, s)

Changes == changes < MaxChanges /\ changes' = changes + 1

SetPlacement(p) ==
    /\ Changes /\ closing = "no" /\ started
    /\ p # placement
    /\ placement' = p
    /\ Queue("reconcile")
    /\ UNCHANGED <<runtime, machine, config, token, pc, desired, next, arranged, lease, grant,
                   synced>>

\* The settings' onChange, for another always-on machine or none.
SetMachine ==
    /\ Changes
    /\ machine' = ~ machine
    /\ Queue("reconcile")
    /\ UNCHANGED <<runtime, placement, config, token, pc, desired, next, arranged, lease, grant,
                   synced>>

\* DeviceSettings.setupSync and removeSync wait for applySync, one at a time.
SetSync(c, t) ==
    /\ Changes /\ closing = "no" /\ started
    /\ "apply" \notin ToSet(steps)
    /\ c = "none" => config = "remote" /\ t = "absent"
    /\ config' = c
    /\ token' = t
    /\ steps' = Append(steps, "apply")
    /\ UNCHANGED <<runtime, placement, machine, pc, desired, next, arranged, lease, grant, synced>>

\* LeaseWatcher.onChange: the watcher saw another holder.
HolderSeen ==
    /\ arrangement = "relayed" /\ "watched" \notin ToSet(steps)
    /\ steps' = Append(steps, "watched")
    /\ UNCHANGED <<runtime, choices, pc, desired, next, arranged, lease, grant, synced>>

-----------------------------------------------------------------------------
(* Steps of the supervisor.                                                *)

At(s) == steps # <<>> /\ Head(steps) = s /\ pc = "none"

EndStep ==
    /\ steps' = Tail(steps)
    /\ pc' = "none"
    /\ UNCHANGED <<desired, next>>

Off == CallSwap("supervisor", "deactivate")

\* #leave: a lease is stopped (behind whatever it is doing), what was typed
\* while relayed is pushed, and the agent is off.
Leave(then) ==
    /\ arrangement' = "idle"
    /\ next' = then
    /\ CASE arrangement = "lease" ->
              /\ pc' = "letting go"
              /\ releasing' = TRUE
              /\ lease' = [lease EXCEPT !.stopped = TRUE]
              /\ UNCHANGED runtime
         [] arrangement = "relayed" ->
              /\ pc' = "pushing"
              /\ UNCHANGED <<runtime, releasing, lease>>
         [] OTHER ->
              /\ pc' = "off"
              /\ Off
              /\ UNCHANGED <<releasing, lease>>

\* The body of #reconcile.  setPriority keeps the lease.
Decide ==
    IF stopped \/ (arrangement = Desired /\ Desired # "unavailable")
    THEN /\ EndStep
         /\ UNCHANGED <<runtime, arrangement, releasing, lease>>
    ELSE /\ desired' = Desired
         /\ Leave("enter")
         /\ UNCHANGED steps

Reconcile ==
    /\ At("reconcile") \/ (pc = "deciding" /\ ~ Waits("supervisor"))
    /\ Decide
    /\ UNCHANGED <<choices, prepared, startedUnder, stopped, closing, grant, synced>>

\* applySync and stop.
LeaveFirst(s, then) ==
    /\ At(s)
    /\ Leave(then)
    /\ UNCHANGED <<choices, steps, desired, prepared, startedUnder, stopped, closing, grant, synced>>

\* lease.stop() has returned.
LetGo ==
    /\ pc = "letting go"
    /\ lease.kind = "stopped" /\ lease.step = "none"
    /\ releasing' = FALSE
    /\ Off
    /\ pc' = "off"
    /\ UNCHANGED <<choices, steps, desired, next, prepared, arrangement, startedUnder, stopped,
                   closing, lease, grant, synced>>

Pushed ==
    /\ pc = "pushing"
    /\ Off
    /\ pc' = "off"
    /\ synced' = TRUE
    /\ UNCHANGED <<choices, steps, desired, next, arranged, lease, grant>>

\* #leave is over.
Left ==
    /\ pc = "off" /\ ~ Waits("supervisor")
    /\ CASE next = "end" ->
              /\ EndStep
              /\ UNCHANGED <<runtime, arrangement, prepared>>
         [] next = "configure" ->
              /\ pc' = "configuring"
              /\ prepared' = "none"
              /\ UNCHANGED <<runtime, steps, desired, next, arrangement>>
         [] next = "enter" ->
              /\ pc' = IF desired = "lease" THEN "before the lease" ELSE "entering"
              /\ arrangement' = IF desired = "lease" THEN "idle" ELSE desired
              /\ CallSwap("supervisor",
                          IF desired = "standalone" THEN "activate" ELSE "deactivate")
              /\ UNCHANGED <<steps, desired, next, prepared>>
    /\ UNCHANGED <<choices, releasing, startedUnder, stopped, closing, lease, grant, synced>>

\* SyncController.configure, then #reconcile; the step fails when it throws.
Configured ==
    /\ pc = "configuring"
    /\ IF config = "remote" /\ token = "bad" THEN EndStep /\ UNCHANGED prepared
       ELSE /\ prepared' = Prepared(config, token)
            /\ pc' = "deciding"
            /\ UNCHANGED <<steps, desired, next>>
    /\ UNCHANGED <<runtime, choices, arrangement, releasing, startedUnder, stopped, closing,
                   lease, grant, synced>>

\* #enter has returned; an AgentLease is created and started once the agent is off.
Entered ==
    /\ pc \in {"entering", "before the lease"} /\ ~ Waits("supervisor")
    /\ IF pc = "entering" THEN UNCHANGED <<arrangement, lease>>
       ELSE /\ arrangement' = "lease"
            /\ lease' = [NoLease EXCEPT !.kind = "checking", !.stopped = FALSE]
    /\ EndStep
    /\ UNCHANGED <<runtime, choices, prepared, releasing, startedUnder, stopped, closing, grant,
                   synced>>

\* #watched: the reason why the agent is not here changes.
Watched ==
    /\ At("watched")
    /\ IF arrangement = "relayed"
       THEN Off /\ pc' = "entering" /\ UNCHANGED <<steps, desired, next>>
       ELSE EndStep /\ UNCHANGED runtime
    /\ UNCHANGED <<choices, arranged, lease, grant, synced>>

Supervisor ==
    \/ Reconcile
    \/ LeaveFirst("apply", "configure")
    \/ LeaveFirst("stop", "end")
    \/ LetGo \/ Pushed \/ Left \/ Configured \/ Entered \/ Watched

-----------------------------------------------------------------------------
(* The AgentLease, with the callbacks #enter gives it.                     *)

LeaseOnly ==
    UNCHANGED <<choices, running, prepared, arrangement, releasing, stopped, closing>>

Ask ==
    /\ lease.step = "none" /\ ~ lease.stopped
    /\ lease' = [lease EXCEPT !.step = "asking"]
    /\ LeaseOnly
    /\ UNCHANGED <<runtime, startedUnder, grant, synced>>

\* #yield: the agent winds down.
WindDown(l) ==
    /\ lease' = [l EXCEPT !.step = "winding"]
    /\ CallSwap("lease", "deactivate")

\* A grant renews the one this lease still has, or is the next.
LeaseGranted(yield) ==
    /\ lease.step = "asking"
    /\ grant.mine \/ grant.epoch < MaxGrants
    /\ lease.kind = "held" \/ Len(stacks) + MaxChanges + 1 < MaxStacks   \* bound
    /\ grant' = [epoch |-> IF grant.mine THEN grant.epoch ELSE grant.epoch + 1, mine |-> TRUE]
    /\ LET l == [lease EXCEPT !.kind = "held", !.epoch = grant'.epoch, !.yield = yield]
       IN  IF lease.stopped \/ (lease.kind = "held" /\ ~ yield)
           THEN lease' = [l EXCEPT !.step = "none"] /\ UNCHANGED runtime
           ELSE IF lease.kind = "held" THEN WindDown([l EXCEPT !.kind = "yielding"])
           ELSE lease' = [l EXCEPT !.step = "pulling"] /\ UNCHANGED runtime
    /\ LeaseOnly
    /\ UNCHANGED <<startedUnder, synced>>

\* onAcquired: what the previous holder's agent wrote is here, as far as the
\* pass got; the agent starts.
Pulled ==
    /\ lease.step = "pulling"
    /\ startedUnder' = lease.epoch
    /\ CallSwap("lease", "activate")
    /\ lease' = [lease EXCEPT !.step = "activating"]
    /\ LeaseOnly
    /\ UNCHANGED <<grant, synced>>

Activated ==
    /\ lease.step = "activating" /\ ~ Waits("lease")
    /\ IF lease.yield /\ ~ lease.stopped THEN WindDown([lease EXCEPT !.kind = "yielding"])
       ELSE lease' = [lease EXCEPT !.step = "none"] /\ UNCHANGED runtime
    /\ LeaseOnly
    /\ UNCHANGED <<startedUnder, grant, synced>>

\* #failed before the deadline: the lease is kept, and asked for again.
NotRenewed ==
    /\ lease.step = "asking" /\ lease.kind = "held"
    /\ lease' = [lease EXCEPT !.step = "none"]
    /\ LeaseOnly
    /\ UNCHANGED <<runtime, startedUnder, grant, synced>>

\* #unavailable: refused (which a device that has the grant is not), no answer
\* at all, or the deadline passed.  onUnavailable is called by a device that
\* held the lease, and by others when there is another reason to show.
Unavailable(k) ==
    /\ \/ lease.step = "asking"
       \/ lease.step = "none" /\ lease.kind = "held" /\ k = "unreachable"
    /\ k = "elsewhere" => ~ grant.mine
    /\ \/ /\ CallSwap("lease", "deactivate")
          /\ lease' = [lease EXCEPT !.kind = k, !.epoch = 0, !.step = "stopping"]
       \/ /\ lease.kind # "held"
          /\ lease' = [lease EXCEPT !.kind = k, !.epoch = 0, !.step = "none"]
          /\ UNCHANGED runtime
    /\ LeaseOnly
    /\ UNCHANGED <<startedUnder, grant, synced>>

AgentStopped ==
    /\ lease.step = "stopping" /\ ~ Waits("lease")
    /\ lease' = [lease EXCEPT !.step = "none"]
    /\ LeaseOnly
    /\ UNCHANGED <<runtime, startedUnder, grant, synced>>

\* windDown, and the beforeRelease of #leave: the agent stopped, its state is pushed.
WoundDown ==
    /\ lease.step = "winding" /\ ~ Waits("lease")
    /\ lease' = [lease EXCEPT !.step = "passing"]
    /\ LeaseOnly
    /\ UNCHANGED <<runtime, startedUnder, grant, synced>>

Passed ==
    /\ lease.step = "passing"
    /\ lease' = [lease EXCEPT !.step = "releasing"]
    /\ synced' = TRUE
    /\ LeaseOnly
    /\ UNCHANGED <<runtime, startedUnder, grant>>

\* #release returns; the service may never have heard of it.
Released ==
    /\ lease.step = "releasing"
    /\ lease' = [lease EXCEPT !.epoch = 0, !.step = "none",
                              !.kind = IF lease.stopped THEN lease.kind ELSE "checking"]
    /\ grant' \in {grant, [grant EXCEPT !.mine = FALSE]}
    /\ LeaseOnly
    /\ UNCHANGED <<runtime, startedUnder, synced>>

\* AgentLease.stop, behind the attempt under way.
\* Slip: the lease is released without waiting for the agent to stop.
StopLeaseAtOnce ==
    /\ lease.step = "none" /\ lease.stopped /\ lease.kind # "stopped"
    /\ \/ /\ lease.kind = "held"
          /\ CallSwap("lease", "deactivate")
          /\ lease' = [lease EXCEPT !.kind = "stopped", !.step = "releasing"]
       \/ /\ lease.kind = "elsewhere"
          /\ lease' = [lease EXCEPT !.kind = "stopped", !.step = "releasing"]
          /\ UNCHANGED runtime
       \/ /\ lease.kind # "held"
          /\ lease' = [lease EXCEPT !.kind = "stopped"]
          /\ UNCHANGED runtime
    /\ LeaseOnly
    /\ UNCHANGED <<startedUnder, grant, synced>>

\* A held lease is wound down and released, a pending takeover withdrawn.
StopLease ==
    /\ lease.step = "none" /\ lease.stopped /\ lease.kind # "stopped"
    /\ \/ /\ lease.kind = "held"
          /\ WindDown([lease EXCEPT !.kind = "stopped"])
       \/ /\ lease.kind = "elsewhere"
          /\ lease' = [lease EXCEPT !.kind = "stopped", !.step = "releasing"]
          /\ UNCHANGED runtime
       \/ /\ lease.kind # "held"
          /\ lease' = [lease EXCEPT !.kind = "stopped"]
          /\ UNCHANGED runtime
    /\ LeaseOnly
    /\ UNCHANGED <<startedUnder, grant, synced>>

LeaseSteps ==
    \/ Ask \/ NotRenewed \/ Pulled \/ Activated \/ AgentStopped \/ WoundDown \/ Passed
    \/ Released \/ StopLease
    \/ \E yield \in BOOLEAN : LeaseGranted(yield)
    \/ \E k \in {"elsewhere", "unreachable"} : Unavailable(k)

\* The service: a grant the device let go of runs out, and another device may
\* have the next one.  (AgentLease shows that the device lets go in time.)
Lapses ==
    /\ lease.epoch = 0
    /\ \/ /\ grant.mine
          /\ grant' = [grant EXCEPT !.mine = FALSE]
       \/ /\ ~ grant.mine /\ grant.epoch < MaxGrants
          /\ grant' = [grant EXCEPT !.epoch = @ + 1]
    /\ LeaseOnly
    /\ UNCHANGED <<runtime, startedUnder, lease, synced>>

-----------------------------------------------------------------------------
(* The daemon.                                                             *)

\* The runtime's own steps; a stack that ended leaves state that no pass has pushed.
Runtime ==
    /\ Works
    /\ synced' = IF stage = "stopping" THEN FALSE ELSE synced
    /\ UNCHANGED <<choices, running, arranged, lease, grant>>

\* startDaemon goes on after supervisor.start().
StartRuntime ==
    /\ ~ started /\ steps = <<>> /\ closing = "no"
    /\ CallStart("daemon")
    /\ UNCHANGED <<choices, running, arranged, lease, grant, synced>>

\* shutdown(): supervisor.stop(), then runtime.stop().
Shutdown ==
    /\ closing = "no" /\ started
    /\ stopped' = TRUE
    /\ steps' = Append(steps, "stop")
    /\ closing' = "agent"
    /\ UNCHANGED <<runtime, choices, pc, desired, next, prepared, arrangement, releasing,
                   startedUnder, lease, grant, synced>>

ShutdownRuntime ==
    /\ closing = "agent" /\ "stop" \notin ToSet(steps)
    /\ CallStop("daemon")
    /\ closing' = "runtime"
    /\ UNCHANGED <<choices, running, prepared, arrangement, releasing, startedUnder, stopped,
                   lease, grant, synced>>

Closed ==
    /\ closing = "runtime" /\ ~ Waits("daemon")
    /\ closing' = "done"
    /\ UNCHANGED <<runtime, choices, running, prepared, arrangement, releasing, startedUnder,
                   stopped, lease, grant, synced>>

Daemon == Runtime \/ StartRuntime \/ ShutdownRuntime \/ Closed

User ==
    \/ \E p \in Placements : SetPlacement(p)
    \/ SetMachine
    \/ \E c \in {"none", "remote"}, t \in Tokens : SetSync(c, t)
    \/ Shutdown

SupervisorNext == Supervisor \/ LeaseSteps \/ Lapses \/ Daemon \/ User \/ HolderSeen

Fairness ==
    /\ WF_vars(Supervisor)
    /\ WF_vars(LeaseSteps)
    /\ WF_vars(Daemon)

SupervisorSpec == SupervisorInit /\ [][SupervisorNext]_vars
LiveSpec == SupervisorSpec /\ Fairness

-----------------------------------------------------------------------------
(* Properties.                                                             *)

Leaving == \E i \in DOMAIN calls : calls[i].op \in {"deactivate", "stop"}

\* The agent runs here, or is about to, only alone (no sync) or under the grant
\* it was started under; whatever ends that has it stopped in the same moment.
\* Stopped by a call already queued behind it counts as stopped.
AgentIsEntitled ==
    (active # 0 \/ stage = "creating") /\ ~ Leaving => arrangement = "standalone" \/ Fence # 0

\* "A held lease is released after the agent stopped and its state was synced":
\* whichever of a yield, a change and a shutdown releases it, and whatever the
\* lease was doing when it came.
ReleasedAfterTheAgent ==
    lease.step = "releasing" /\ lease.epoch # 0
        => synced /\ \A i \in DOMAIN stacks : ~ Alive(i)

\* The sync engine changes the agent's files only under a grant the service
\* still has for this device.
FenceIsGranted ==
    Fence # 0 /\ lease.step # "releasing" => grant = [epoch |-> Fence, mine |-> TRUE]

\* With no step left, the arrangement is the one the choices ask for: a step
\* that decided on what it read before it waited is followed by another.
SettlesOnTheChoices == steps = <<>> /\ ~ stopped => arrangement = Desired

\* After a shutdown nothing is left that runs the agent or asks for it.
NothingLeft ==
    closing = "done" =>
        /\ calls = <<>> /\ \A i \in DOMAIN stacks : ~ Alive(i)
        /\ lease.kind = "stopped" /\ lease.step = "none"

\* Together, the supervisor's promises.
AgentRunsWhereItShould ==
    /\ SupervisorTypeOK
    /\ AgentIsEntitled
    /\ ReleasedAfterTheAgent
    /\ FenceIsGranted
    /\ NothingLeft
    /\ SettlesOnTheChoices

\* A shutdown ends, whatever the supervisor, the lease and the runtime wait for.
ShutdownEnds == stopped ~> closing = "done"

\* Every change is dealt with: the supervisor's queue becomes empty again.
ChangesAreDealtWith == steps # <<>> ~> steps = <<>>

=============================================================================
