# Daily Do List: a verification project

Daily Do List is a to-do list in Markdown files with an agent that works on the tasks. The vault
lies on a device; several devices keep it in step through a sync service; on exactly one of them
the agent runs. This directory holds TLA+ models of the parts of the program in which several
processes, callbacks or restarts meet, the TLC runs that check them, and machine-checked proofs of
what matters most.

- [The system](#the-system)
- [What is hard](#what-is-hard)
- [Modules](#modules)
- [What the models abstract](#what-the-models-abstract)
- [Runs](#runs)
- [Fairness](#fairness)
- [Proofs](#proofs)
- [Disagreements between the code and its documents](#disagreements-between-the-code-and-its-documents)
- [What is not modelled](#what-is-not-modelled)
- [Plan](#plan)

## The system

| Component | State it keeps | Operations | Correct when |
| --- | --- | --- | --- |
| **Sync service** `apps/sync` | SQLite: files with revisions, a change log, the `leases` table; in memory: stream subscribers | read, write, delete, rename with a precondition; changes since; acquire, release, read a lease; the stream | a write is applied only to the revision it names and, for the agent's files, only under the current grant; a grant changes hands only when the one before it is over; changes reach every subscriber |
| **Lease client** `agent-lease.ts` | its view of the lease, the held epoch, a deadline, timers, a queue of steps | ask, renew, yield, release, lose, stop | one agent in the vault; it stops in time; it never falls silent |
| **Supervisor, leased runtime** `agent-supervisor.ts`, `leased-runtime.ts` | the arrangement, the grant the agent was started under, the live stack | enter and leave an arrangement, start and stop the agent around sync passes | the agent runs where it is entitled to and nothing is left behind |
| **Sync engine** `storage/src/sync` | the snapshot of what was last in sync; dirty and deferred paths | a run: list both sides, decide per path, pull, push, delete, merge, copy | no edit is lost, nothing is deleted that nobody deleted |
| **Remote provider, change stream** `remote.ts`, `hub.ts` | a cursor, the connection, timers | deliver, replay, catch up | every change leads to a pass |
| **Local provider** `local-fs.ts`, `internal/` | locks per path, tracked versions, watchers | guarded reads and writes, events, listings | what is known of a file at rest is what is on disk |
| **Persisted files** `contract/src/persisted` | the version last seen, the value in memory | load, save with merge on conflict, move aside | what another writer added survives; what can't be read is kept |
| **Thread journals** `threads/journal` | events by sequence number, a queue to write | record, flush, reread, renumber | what was acknowledged is on disk, once and in order |
| **Tool ledger** `threads/journal/tool-ledger.ts` | records of a thread's tool calls | record before and after, resume, tell | nothing that may have happened is done again unasked, in a journal that is this app's |
| **Approvals and gate** `safety/` | pending approvals, waiters, timers, grants | request, decide, expire, cancel | a call runs only with leave, and hears one outcome |
| **Task watcher** `task-watcher.ts` | tracked tasks, unsettled changes, noticed requests | scan, process, settle | the orchestrator knows the note, and is told once |
| **Orchestrator** `orchestrator.ts` | the queue, the turn under way, records of tasks | enqueue, drain, triage, tools, stop | a task that shows work has some; outcomes are kept |
| **Subagents** `subagents.ts` | runs, a queue for slots | spawn, retry, cancel, message, stop | one session per task, within the limit |
| **Routines** `routines/scheduler.ts` | per routine: last run, next slot, extra runs | tick, run now, finalize, restart | never two runs; each ends and is notified once |
| **Relay, pairing** `relay/`, `paired-devices.ts`, `machine-link.ts` | links, forwarded state, devices, codes, a credential | link, resync, pair, revoke | what is shown is the machine's; the token stays home |
| **WebSocket hub** `ws.ts` | clients, their buffers, what they watch | send, drop, revoke, close | a client skips nothing or is cut off |
| **Note editing** `notes-controller.ts`, `workspace.ts` | open documents, saves under way | edit, save, merge, rename, delete | no edit is lost; others' text is kept |
| **Connectors** `packages/connectors` | sessions, tools, status, cache | connect, call, refresh, reload | one session; tools follow the configuration |
| **Everything else** | | | see [What is not modelled](#what-is-not-modelled) |

How they interact around the agent:

```
AgentSupervisor --- onAcquired / onUnavailable / windDown --- AgentLease --- acquire, release ---> leases row
     |  start, stop                                              | heldEpoch                          |
LeasedAgentRuntime --- saves state ---> vault <--- SyncEngine ---+--- PUT with the epoch ---> fence + files
     |                                    | events                                                change log
 TaskWatcher -> Orchestrator -> Subagents -> ApprovalGate -> ToolLedger -> JournalWriter, PersistedFile  |
     relay, WebSocket hub ---> clients (note editing)                 ChangeStream <--- stream ----------+
```

A device asks the service for the lease and renews it. Every grant has an epoch; a renewal keeps it,
any other grant takes the next. The device that gets the lease runs a sync pass, notes the epoch as
the one its agent is started under, and starts the agent. Writes to the agent's files carry the
epoch as long as it is both held and started under, and the service refuses any other. A device
whose user wants the agent (`interactive`) outranks the always-on host (`host`): the holder is asked
to yield with its next renewal, stops its agent, pushes its last state and releases.

## What is hard

`PROJECT.json` lists forty hazards at their lines. In short:

- two clocks: the holder's deadline is counted on the device, from when the request was sent; the
  grant on the service, from when it was served;
- steps that are queued behind one another and run in a state they weren't queued for;
- requests that are lost, answered into the void, or arrive after their device gave them up;
- state read before an `await` and used after it: a decision made from a listing, a run replaced
  while its close is awaited, a configuration loaded while an earlier one still connects;
- crashes between a decision and its record: tool calls, routines, watched notes, paired devices;
- events that overtake answers, echoes of one's own writes, replays that start too late;
- approvals, cancels, stops and time limits that race what they end.

## Modules

A module per component; its comments map state and actions to the code, `PROJECT.json` "map" to the
lines.

| Module | Models | Packed in |
| --- | --- | --- |
| `LeaseTable` | the `leases` row and the operations on it, as operators on a record | |
| `LeaseServer` | the service's lease endpoints against any clients: the **abstract specification** that `AgentLease` implements | `MCMachine` |
| `AgentLease` | every daemon's `AgentLease`, the supervisor's callbacks, requests and answers under way, the row | `MCAgentLease` |
| `AgentFiles` | one of the agent's files on every device and on the service: passes, fence, precondition, lost and late writes | `MCAgentFiles` |
| `AgentSupervisor` | the arrangements, the serial queue of the supervisor, shutdown | `MCMachine`, `MCLiveApp` |
| `LeasedRuntime` | the stack behind the agent's routes, installed and removed under calls | `MCApp`; with `AgentSupervisor` also `MCMachine`, `MCLiveApp` |
| `SyncEngine` | notes and conflict copies on every device and the service | `MCVault`, `MCLiveApp` |
| `ChangeStream` | hub, cursor, replays and the passes they lead to | `MCVault`, `MCLiveApp` |
| `LocalFs` | the vault on disk, locks, the change tracker, listings | `MCVault`, `MCLiveApp` |
| `KeyedMutex`, `Limiter` | the two primitives of `storage/src/internal` | `MCLiveApp`, `MCVault` |
| `PersistedFile` | load, save, conflicts, moving aside, other writers, newer versions | `MCApp` |
| `JournalWriter` | one journal's writer against other writers and a failing disk | `MCApp`, `MCLiveWork` |
| `ToolLedger` | the write-ahead records of tool calls over sessions and restarts | `MCWork` |
| `ApprovalGate` | gate, broker, policies, standing grants, badge | `MCWork`, `MCLiveWork` |
| `TaskWatcher` | a watched note: tasks, prose, scans, settling, restarts | `MCWork`, `MCLiveWork` |
| `Orchestrator` | queue, turns, tools, records, subagents reduced to what turns see | `MCWork`, `MCLiveWork` |
| `Subagents` | runs, slots, retries, cancels, messages, restarts | `MCWork`, `MCLiveWork` |
| `RoutineScheduler` | one routine: slots, runs, time limit, switching, crashes, adoption | `MCApp` |
| `AgentRelay` | the link to the machine, resync, forwarded status, watched surfaces | `MCMachine`, `MCLiveApp` |
| `PairedDevices`, `MachinePairing` | the two sides of pairing | `MCMachine` |
| `WsHub` | clients, buffers, heartbeats, revocation, live surfaces | `MCVault`, `MCLiveApp` |
| `NotesEditing` | a note in two clients, the daemon's routes and events | `MCApp`, `MCLiveApp` |
| `McpConnection`, `Connectors` | a server's sessions; the manager's entries and cache | `MCApp`, `MCLiveWork` |
| `*_proofs` | the theorems of their component; `AgentMachine_proofs` has those of `LeaseServer`, `LeasedRuntime`, `AgentSupervisor`, `MachinePairing`, `AgentRelay` and `PairedDevices` | |

`AgentLease` composes `LeaseTable` with the daemons and is shown to implement `LeaseServer`;
`AgentSupervisor` and `LeasedRuntime` are composed in one module (`AgentSupervisor` extends
`LeasedRuntime`); the others meet at the interfaces their comments name.

**How the runs are packed.** An `MC` module holds several components side by side. Its variable
`part` is chosen in the initial state and never changes; a behaviour takes only the steps of that
part's instance, the other variables stay as they start. So the states of a run are the sum, not the
product, of its parts, and a property about one part is a conjunct guarded by `part`. Where a
component is checked in several instances (`Edits`, `Faults`, `Deletes` of `SyncEngine`, say), they
share its variables and differ in the constants. `MCMachine` extends its components, which
have one instance each, instead of instantiating them, and so do `MCVault` with the sync engine, the hub and
the limiter and `MCApp` with a persisted file, the leased runtime, the connectors, the routines and a
tool server's connection: the properties checked are, word for word, those that the proofs state of each
component's specification. Where such a component has several instances (the sync engine, the connectors,
the routines, the tool server), they are within the constants of the configuration, so `NothingIsLostInSync`,
`ConnectorsFollow`, `RoutinesRunOnce` and `ServerIsConnectedOnce` say of each of them what they say of the
component.

Definitions whose comment starts with "Slip:" are an operation with a plausible mistake in it.
Nothing uses them; `PROJECT.json` names, for each property of each run, the slip that makes TLC find
the property violated.

## What the models abstract

*Leases.* Time is a countdown that saturates where the code looks no further, so the state is finite
without a bound on the clock. A row that was never written is an expired one of epoch 0. `queue` of
`AgentLease` is a set: attempts and checks do the same whichever goes first. Backing off takes any
time up to `MaxBackoff`. Status reports are left out. Clocks that run at different speeds are a
hazard no timed property covers (`agent-lease.ts:134`, a device that sleeps): `OverlapIsFenced` is
proved without reference to time.

*Agent files.* Content is the set of agent writes in it, a version is its content. The lease is
reduced to what the service keeps and may lapse at any moment, so what holds here holds during the
overlaps `AgentLease` allows. `Journal` says which merge the file has: a state file is replaced, a
journal only grows. `BestEffort = FALSE` restricts the behaviours to those in which
`onAcquired`'s pass succeeded: a hypothesis of `files`, stated because the code doesn't ensure it;
`files_stale` shows what happens without it.

*Sync.* `SyncEngine`: text is a set of edits, diff3 a choice between a clean merge and a conflict;
triggers and debounce are left out. `ChangeStream`: heartbeats, a replaced database, token rotation,
the limit of streams and lost answers of writes are left out. `LocalFs`: spellings of paths,
symlinks, folders, the memo of versions and stopping the watcher are left out.

*Files.* `PersistedFile`: names of moved-aside files never collide; `quarantine()` has no caller.
`JournalWriter`: migration of old snapshots, streaming text and artifacts are left out.

*Work.* `ToolLedger`: the calls of one task; what else its thread's journal holds is left out. A newer
app writes to the journal at any moment once there is a session, the writer notices with its next append,
and the next process skips the thread and goes on in a new one, whose journal starts empty. `foreign` only
marks the calls of such threads, for the properties. `ApprovalGate`: any verdict may come out of the evaluator. `TaskWatcher`: one note; with
`ScanRaces` a scan and events overlap; baselining of corrupt or newer state is left out.
`Orchestrator`: a subagent is none, idle or working, and closing or spawning in between; prose and
routine items, anchors, session rotation, the digest's text are left out. `Subagents`: `Serial`
assumes that callers wait for one another on a task (the runtime's callers do, two clients' don't);
the harness runs no tool after an abort. `RoutineScheduler`: one routine, time in looks of the
timer; a start that picks a run up reads its journal in between, so a stop may come before it is
read; being switched off awaits the watcher, which is taken as one step; the daily reset and another
device's state are left out.

*Machine.* `AgentSupervisor`: the service keeps a grant until its device lets go; renaming and host
names are left out. `AgentRelay`: the status stands for activity and routines, a thread for
approvals; the allowlist of routes is left out. `WsHub`: authorization and the contents of events
are left out, the buffer is counted in events.

*App.* `NotesEditing`: text is a value per line; `Slow` lets answers overtake; the search for a free
name of a copy is a choice; folders, drawings, tabs and lost answers of a deletion or rename
(`workspace.ts:623`) are left out. `McpConnection`: `Rushed`, `Overtakes` and `ListsFail` switch on
what the server may do; `reload` has no caller in production. `Connectors`: a call is evaluated, goes to the
connection its entry has by then, and reaches the server once that is connected; in between anything else
may happen, reloads included. The gate between the first two is `ApprovalGate`'s: here an evaluated call may
be let through or end at any moment. The posture "always" is in the proof only.

## Runs

Each passing run finishes within two and a half minutes on two cores. "Instances" are the values of
`part`; their constants are in the `MC` modules.

| Run | Instances | Distinct states | Checks |
| --- | --- | --- | --- |
| `agent_failures` | a laptop that outranks a host, with lost requests, crashes and a user who cedes the agent (2 epochs, 2 sessions); two hosts with claims and shutdowns (3 epochs) | 2.9 M | `GrantInvariant`, `OneAgent`, `AgentMayWrite`, `AlwaysAsksAgain`, `FreshGrant` |
| `agent_hung` | two hosts; requests last 4 ticks, grants 2; losses, late acquires and releases; 3 epochs | 0.5 M | `OverlapIsFenced`, `ServerSpec` |
| `agent_live` | two hosts, claims; fairness | 0.2 M | `HandoverCompletes`, `AgentRuns` |
| `agent_hung_renewal` | laptop and host; requests last as long as a grant | | `OneAgent`, **violated** |
| `files` | a state file: 3 grants and 2 agent writes, none late; 2 grants, 2 writes and 2 late PUTs; a journal: 2 grants, 2 writes; `BestEffort = FALSE` | 1.7 M | `AuthorityIsCurrent`, `NothingAcceptedIsLost` |
| `files_stale` | a state file, 3 grants, `BestEffort = TRUE` | | `NothingAcceptedIsLost`, **violated** |
| `work` | tool ledger (3 sessions, 3 processes, a newer app that writes to the journal); triage of one task and a message, of two tasks, with restarts, over days; a note edited, with every kind of line, while offline, its prose; subagents that share a slot, or resume; the gate with two calls of a task, of two tasks, under every policy | 1.8 M | `WriteAhead`, `NothingStaysUntold`, `NeverRerunOnItsOwn`, `SubagentsTakeTurns`, `TriageKeepsItsWord`, `NotesAreHeard`, `NothingRunsWithoutLeave` |
| `app` | a persisted file; a note that is merged, at rest, moved, removed; a routine with time limits, stops (also while the user asks for runs), crashes, switches, a schedule that changes; a tool server's calls and tool lists; connectors that reload (with a server that annotates its tool anew), and their specs (with one that doesn't), with calls that are evaluated, wait and run, on a tool that writes; a journal with failing storage and removals; the agent's runtime under calls of three callers, with settings that change | 1.9 M | `ReplacesWhatItTook`, `EvidenceSurvives`, `EditsSurvive`, `RoutinesRunOnce`, `ServerIsConnectedOnce`, `ConnectorsFollow`, `JournalKeepsAll`, `CallsReachTheStack` |
| `vault` | the limiter with five calls; two devices that edit, fail and crash, delete; the stream with passes of both kinds; files with lost events, racing outsiders, renames; a hub with two clients | 1.2 M | `NeverOvershoots`, `NothingIsLostInSync`, `ChangesArrive`, `FilesAreTracked`, `ClientsSkipNothing` |
| `machine` | the lease endpoints with three devices; the supervisor with the runtime it leases (2 grants, 2 changes of the user's choices); a relay that moves between two machines (2 moves, 2 connections); two clients that pair, one attempt per window, with saves that fail and a crash; pairing with two machines (2 requests at a time) | 2.2 M | `EpochNamesOneGrant`, `WaitersTurn`, `AgentRunsWhereItShould`, `RelayShowsTheMachine`, `OnlyPairedDevices`, `OneMachineIsTrusted` |
| `live_work` | gate, subagents, watcher, triage, journal, tool server; fairness | 47 k | `WorkGoesOn` |
| `live_app` | keyed mutex (with renames in opposite directions), stream, files, two devices, supervisor, relay (with forwarded reads), hub, note editing; fairness | 74 k | `InCallOrder`, `EverythingSettles` |

What the properties say of the agent's place:

- `EpochNamesOneGrant`: a lease changes hands only when the grant before it ran out or was released,
  and under the very next epoch, so an epoch names one device and session forever.
- `WaitersTurn`: while a device waits for a host's lease, nothing that happens gives the lease to a
  host that didn't wait.
- `OneAgent`, `AgentMayWrite`, `FreshGrant`: two agents never run at once; what the agent writes goes
  through both fences as long as its daemon has not given the lease up; when it starts, its grant is
  newer than any other device's agent's. `GrantInvariant` is the inductive invariant they rest on.
- `AlwaysAsksAgain`: however a step ended, another attempt is on its way.
- `OverlapIsFenced`: of two agents that run at once, the older can't write.
- `ServerSpec`: `AgentLease` implements `LeaseServer`, late requests included.
- `HandoverCompletes`, `AgentRuns`: a promised agent arrives, and someone runs it again and again.
- `AuthorityIsCurrent`, `NothingAcceptedIsLost`: the agent whose writes would be accepted has all that
  was accepted in its copy; what the service accepted is still there after later writes.

Of its work:

- `WriteAhead`, `NothingStaysUntold`, `NeverRerunOnItsOwn`: no effect without a record on disk; a
  session at work was told of every call that may have happened; work that resumes by itself knows
  the end of every effect before it or was told. All three are about calls in a thread whose journal no
  newer app wrote to (`Accountable`); of the others the code promises nothing, though its documents do
  (see the disagreements).
- `ReplacesWhatItTook`, `EvidenceSurvives`: a save replaces only what its owner was given; a partly
  invalid file is copied aside first.
- `NeverOvershoots`, `InCallOrder`: the limit holds; calls for a key run in the order they were made.

The other properties gather what one component promises, each conjunct for the instances in which it
is interesting; the comment above each says what it claims, the component's module states its parts:

| Property | Parts of |
| --- | --- |
| `TriageKeepsItsWord` | `Orchestrator`: `TriageIsUnderWay`, `RemovedIsGone`, `MessageWaits`, `NothingWaitsUnheard`, outcomes kept |
| `NotesAreHeard` | `TaskWatcher`: `NothingIsMissed`, `DeletionIsTold`, `ClosingIsTold`, `NoticedIsWaiting`, `RequestToldOnce`, `RequestIsTold`; told are neither moves, nor a line still typed on, nor the agent's own |
| `SubagentsTakeTurns` | `Subagents`: `WithinTheLimit`, `OneSessionPerTask`, `BadgeIsTrue` |
| `NothingRunsWithoutLeave` | `ApprovalGate`: starts with leave and while open, `PendingIsAskedFor`, `BadgeShowsTheWait`, `EveryWaiterHears` |
| `EditsSurvive` | `NotesEditing`: `NoEditIsLost`, `ShownIsHeld`, `UnsavedIsArmed`, `QuietMeansSaved`, `RemovedStaysRemoved`, others' text kept |
| `RoutinesRunOnce` | `RoutineScheduler`: `NeverTwoRuns`, `NotifiedOnce`, `EndIsRecorded`, `SlotIsFree`, `WorkIsLimited`, `SlotRunsOnce` (a slot that passed while the agent was off starts no run either) |
| `ServerIsConnectedOnce` | `McpConnection`: `OneSession`, `ClosedIsOver`, `StateIsTrue`, `NobodyWaitsForNothing`, `ToolsAreTheSessions`, `ToolsCatchUp`, `LeftAlone` |
| `ConnectorsFollow` | `Connectors`: `CacheIsCurrent`, `StatusIsTold`, `NothingIsLeftOpen`, `WritesAreAsked` (a call at a tool that writes was found to need approval by the posture it was evaluated under, which may have been tightened since) |
| `JournalKeepsAll` | `JournalWriter`: `AckedIsOnDisk`, `NothingTwice`, `OrderKept`, `RestartReadsBack` |
| `NothingIsLostInSync` | `SyncEngine`: `SyncTypeOK`, `NoLostEdit`, `OnlyUsersDelete` |
| `ChangesArrive` | `ChangeStream`: `FramesFollowCursor`, `FilesInStep` |
| `FilesAreTracked` | `LocalFs`: `RestKnowsTheDisk`; `ListingIsCurrent` (in the instance without changes that go back to earlier content); events are news; conditions are met (in the instances where outsiders don't change a file somebody has locked) |
| `ClientsSkipNothing` | `WsHub`: `NothingIsSkipped`, `BufferIsBounded`, `RunsWhileWatched`, `RevokedGetNothing` |
| `AgentRunsWhereItShould` | `AgentSupervisor`: `AgentIsEntitled`, `ReleasedAfterTheAgent`, `FenceIsGranted`, `SettlesOnTheChoices`, `NothingLeft` |
| `CallsReachTheStack` | `LeasedRuntime`: `OneStack`, `NeverAnswersFromAStopped`, `GoneAfterStop`, `StartedWhenItShouldBe` |
| `RelayShowsTheMachine` | `AgentRelay`: `StatusIsOfTheMachine`, `WatchedIsSubscribed`, `StateIsTheLinks`, `ThreadsCatchUp` |
| `OnlyPairedDevices` | `PairedDevices`: `PairedStaysPaired`, `RevokedStaysOut`, `CutOff`, `RefusedIsNotPaired`, `ListIsLoadable`, `OneDevicePerCode`, `AttemptsAreLimited`, `GuessesAreBounded` |
| `OneMachineIsTrusted` | `MachinePairing`: `TokenStaysHome`, `RestartKeepsIt`, `ListenersKnow`, `ChecksTheMachine` |
| `WorkGoesOn`, `EverythingSettles` | the liveness properties of the components in `live_work` and `live_app` |

**Bounds, and why they are enough.** *Time*: a tick is about as long as one activity of a handover;
the instances keep the order of the code's timings (`RenewEvery` < `TTL - Margin`,
`TakeoverRetry` < `Grace` < `Lapse`, and in the passing runs the waits short against `Margin`), so
that each timer may fire before, during and after each wait. *Epochs*: two grants suffice for a
handover or a restart under a new grant, three for an agent to come back to the device it left.
*Sessions*: two, so a restarted daemon meets its own earlier grant. *Devices*: two for what concerns
a holder and a successor, three where a third could slip in between. *Writes, edits, changes of
others*: two or three, so that one can follow another's, or its own, across a pass, a grant or a
restart; in `LocalFs` one outside change per behaviour (`MaxOutside`) beside the clients' own writes, so
two outsiders in a row aren't covered. *Faults, crashes, stops, conflicts*: one or two per instance; each is allowed at every step,
so one meets every window, two meet a window and its recovery. *Calls, callers, clients*: one more
than the limit they share. Each of the bounds is a guard named `Max...`. Instances with a bound of
zero are there to give the others more room. The proofs need none of these bounds.

Symmetry is used in `files` only, where the devices are interchangeable and no liveness is checked.
Packed runs switch deadlock checking off: users, faults and calls are bounded, so a part may really
stop; that it doesn't stop too early is what `WorkGoesOn` and `EverythingSettles` are for. The runs of
`AgentLease` and `AgentFiles` check for deadlock: time always passes, or a pass may always begin.

## Fairness

Fairness is asked only of what the program or the operating system schedules, never of users,
crashes, the network's failures, a model's answers or a peer's good will.

- `AgentLease`: weak fairness of `Tick`, of each daemon's own steps, of the service's answers and of
  each daemon's first start. A daemon's steps are callbacks of timers and promises, which Node's event
  loop runs when they are due; the service answers synchronously from SQLite what reaches it. In
  `agent_live` no request is lost, the condition under which a handover is promised at all.
- `live_work`: the evaluator answers, an approval's timer fires, a decision is delivered; sessions
  open or fail, turns end (there is a time limit on them), aborted sessions close; the watcher's
  timers go off and typing pauses; the journal's flush is tried again after a failure; a tool server's
  connection attempts connect or fail.
- `live_app`: a call that has its lock goes on; sockets deliver or close; every run of the sync engine
  goes on and another follows (the interval timer); the machine answers; the hub's timers fire and a
  socket that was cut closes; the daemon answers in turn. Strong fairness is asked of whoever waits for
  a lock of `LocalFs`: the lock is a queue (`KeyedMutex`, where `InCallOrder` is proved), which
  `LocalFs` doesn't carry along.

Because `part` is constant, a fairness condition that names a part is vacuous in all others.

## Proofs

`tlapm` checks the `*_proofs` modules for every value of the constants that meets the named
assumptions: any set of devices, calls or tasks, any timings, any bounds. The argument is the same
everywhere: an invariant that is inductive (TLC checked each on an instance first), a step for every
action, and the property from the invariant.

| Module | Theorems | Hypothesis |
| --- | --- | --- |
| `AgentMachine_proofs` | of the service: `TypeCorrect`, `EpochsNameGrants`, `WaitersGetTheirTurn` | none |
| | of the runtime and the supervisor: `RuntimeIsRight`, `SupervisorIsRight` | none |
| | `SupervisorRunsWhereItShould` | `"bad" \notin Tokens` |
| | of pairing and the relay: `PairingTrustsOneMachine`, `RelayIsRight`, `DevicesAreRight` | none |
| `AgentLease_proofs` | `TypeCorrect`, `OverlapFenced`, `NeverFallsSilent`, `ServerImplemented` | none |
| | `GrantsCover`, `NeverTwoAgents`, `AgentsAreUnderGrant`, `AgentsMayWrite`, `AgentsStartFresh` | `Prompt` |
| `AgentFiles_proofs` | `TypeCorrect` | none |
| | `TheHolderIsCurrent` | `~ BestEffort` |
| | `AcceptedIsKept` | `~ BestEffort \/ Journal` |
| `App_proofs` | of a persisted file: `TypeCorrect`, `SavesReplaceWhatTheyTook`, `RepairsKeepEvidence`, `UnreadableIsKept` | none |
| | `NewerIsLeftAlone`, `ReadableIsGiven` | `~ MovedUnderway` |
| | of the connectors, the routines and a tool server's connection: `ConnectorsAreRight`, `RoutinesAreRight`, `ConnectionIsRight` | none |
| `ToolLedger_proofs` | `TypeCorrect`, `EffectsAreOnDisk`, `SessionsAreTold`, `NeverRerun` | none; the last three speak of threads whose journal no newer app wrote to |
| `ApprovalGate_proofs` | `TypeCorrect`, `StartsHaveLeave`, `StartsWhileSessionOpen`, `PolicyOfNow`, `WaitersHear`, `BadgeIsRight` | none |
| `KeyedMutex_proofs` | `RunsOneAtATime`, `RunsInCallOrder`, `DropsIdleKeys` | none |
| `Vault_proofs` | of the limiter: `StaysWithinTheLimit`, `WaitsOnlyWhenFull` | none |
| | of the sync engine: `SyncLosesNothing` | `CopiesNest` |
| | of the hub: `HubServesItsClients` | none |

**AgentLease.** `OverlapFenced` is what protects the agent's files when everything else fails. It
rests on `EpochsInOrder`: an epoch a daemon knows is never ahead of the row, and the current one is
known only to the device it was granted to. `Prompt` says that a request in flight when the deadline
passes is over, and the agent stopped, before the margin is used up; that a first sync pass ends
before the deadline of the grant it runs under; and that no abandoned release arrives late. The
configuration of `agent_failures` meets it. **The code does not ensure it**: see below. `OneAgent`
isn't inductive; `GrantInvariant` is, and has five parts per device:

- `StepsInOrder`: which activities go with which state of the lease, and that none outlasts its bound;
- `RequestsInOrder`: a request or an answer under way belongs to the activity that waits for it;
- `DeadlineWatched`: while the lease is held a timer, a queued check or a queued stop will end it;
- `GrantCovers`: what is left of the grant on the service covers what may still happen here. A
  holder that does nothing has `Margin` left; one that asks has what it had when it asked; an agent
  that is stopping still has `Margin - RequestTimeout`, less the time it has been at it;
- `EpochsInOrder`, as above.

`AlwaysAsksAgain` is about a lease between its steps. `AsksOn` says what holds within them: a step
that stops the agent has the timer's value ready or leaves an attempt that was there before (the
deadline's check arms nothing: it relies on the attempt that is pending while the lease is held), and
winding down without a stop is a yield, whose release asks again.

**LeasedRuntime, AgentSupervisor.** `RuntimeInvariant`: a caller has one call at a time
(`OneCallEach`); what the running call waits for is what the newest stack is doing (`StageSaysWhat`);
every older stack is gone, and so is the newest unless it is active, being created or being stopped
(`OnlyTheLast`). Nothing comes back once `stop()` has run (`StoppedForGood`). The supervisor's calls
are some of the runtime's, so `SupervisorInvariant` starts from it and adds which arrangement goes
with which step (`SupervisorAt`), what the lease may be doing in it (`LeaseAt`), that its epoch is the
service's as long as it has one (`GrantAt`), who has called the runtime for what (`CallsAt`), and how
far a shutdown is (`ClosingAt`). From these follow `RunsEntitled`, that an active stack is entitled to
run or already told to stop, and `WoundUp`, that a lease which is let go of is released only after its
agent stopped and the last pass. That the arrangement is the one the choices ask for
(`SettlesOnTheChoices`) needs `ChoicesFollowed`: a step that decides again is still to come, or the
step under way decided on what still applies. The hypothesis is about the code: a token file that
exists and can't be read makes `applySync` fail half way, and the arrangement stays idle until the
next change; everything else is proved with such files.

**MachinePairing.** `PairingInvariant`: the credential a request has to do with was issued by the
machine the request goes to (`CallsTokens`), the one that is stored, told to the relay or being
checked by the machine it is stored for, told of or checked at (`KeptTokens`). `TokenStaysHome` follows
from the first, `RestartKeepsIt` is inductive beside them. `ListenersKnow` holds unless the settings
can't be saved: a pairing whose settings fail to be saved has already replaced the credential and
throws before it tells the listeners. The property is stated with that condition, since the code is so.

**AgentRelay.** `RelayInvariant`: the link goes where the choices say (`LinkAt`), the hello is a
connection's first event (`SocketAt`), relay and link agree on being connected (`StateAt`), only the
newest resync counts and it reads from the link's machine (`CurrentAt`). Events and resyncs race, so
what clients know of a thread is described by cases (`EventsAt`, `ThreadAt`): an event of its last
change is still on its way; or it arrived and was pushed; or the resync that counts has yet to read it
or has read it as it is. Moving to another machine is no case of its own, since it starts a new
connection and thus a new resync. Reads that fail are excluded for the threads alone
(`~ ReadsFail`): nothing repeats them. `StatusIsOfTheMachine` with forwarded reads needs that there is
one machine: an answer of the machine left behind is shown otherwise, as the table below says.

**PairedDevices.** `DevicesInvariant` follows a device from its code to its place in the file. The
queue of saves has one `add` per device that is being added, and a `revoke` only of one that is gone
from memory (`QueueAt`); what is being written has the device that waits for it or lacks the one that
is revoked (`WritingAt`); who was told "paired" is in memory, in the file and in what is being written,
until a revocation is asked for (`PairedAt`), who was told "revoked" is in none of them (`RevokedAt`).
Failed saves and a crash put memory back to the file, which is why the three are related pairwise. A
code in use is no longer offered and no two devices used the same (`CodesAt`); a code was missed no
oftener than was counted (`MissedAt`); the attempts of the current window are remembered as long as the
daemon didn't restart (`RecentAt`), which gives the bounds on guesses.

**AgentFiles.** `TypeInvariant` is by component. `HandoverInvariant` (with `~ BestEffort`) says where
accepted writes may be missing: nowhere in the copy of the current holder once it is through its pass
(`TakesOver`), not in a PUT that the service would still accept (`Keeps`), and only the device the
service names has the fence's epoch (`Commands`); `Common` keeps epochs and bases in order. A late PUT
then either names an older epoch, or a version that has been replaced, or carries all there is.
`JournalInvariant` needs no pass: every copy and every PUT under way holds what its base holds, because
a journal's merge only adds, and the service takes a PUT only on the version it was made from. So
`AcceptedIsKept` covers journals under `BestEffort = TRUE` as well; the `files` run checks them with the
constants of its configuration.

**SyncEngine.** That no edit is lost isn't inductive: a run holds what it read, a base may be ahead of
the snapshot on disk, and conflict copies move edits from one file to another. `SyncInvariant` says
where an edit of a path may be: on the service or in a vault beyond what that device last had in sync
(`At`); or, once it has left both, dropped by a user or in a copy of the path (`Safe`). `Covered`: every
edit is one of the two somewhere (`Held`). What a device believes has to agree with that, for it will
act on it:

- `EntryAt`: what an entry of the base, or of the snapshot a crash goes back to, says was in sync is
  held, and safe once the service has another revision than the entry names;
- `ListedAt`, `HeldAt`: so is what a run listed, what it read of the service under a revision, and what
  it read here;
- `CopyAt`: between the writes of a conflict, the text that is about to be replaced is in the copy.

Each write of the engine names what it replaces (the version it read, the revision it listed), so it
either fails or replaces what the invariant speaks of. `PathMoves` is the argument for one path, once,
for all those writes: what a path may become (`Fits`), given what leaves the vault and the service, and
`GrowsWhen` that nothing else's whereabouts suffer. A copy's edits count as safe in the path they come
from, and copies may be copied: the argument goes along the nesting of copies, which therefore must not
be circular. That is `CopiesNest`, the one hypothesis: some number is larger for a copy's name than for
the name it was made of. It is the length of the name, since `conflict-path.ts` inserts a suffix;
`MCVault` asserts as much of its names. `OnlyUsersDelete` follows from what a run knows when it deletes:
`EntryAt` for the side that is gone, which was there when the entry was made.

**WsHub.** `HubInvariant`: a surface's count is the cardinality of the set of its watchers
(`RunsWhileWatched`), so every step that ends a connection is shown to lower the counts of exactly what
that connection watched (`EndedWatchesNothing`); an open socket is one of the hub's clients
(`OpenIsServed`), and is sent whatever is broadcast or is closed (`NothingIsSkipped`).
`RevokedGetNothing` is an action property: it follows from a revocation closing what the device has open.

**PersistedFile.** `FileInvariant`: the version known is one whose marks were taken (`KnownIsTaken`); a
partly invalid version that is known has its evidence aside before a write (`EvidenceIsKept`,
`ReadyToWrite`); what is being moved aside was unreadable when it was read (`AsideIsCorrupt`).
`UnreadableIsKept` holds whatever happens in between. That a newer app's or a readable file is left
alone needs that nobody replaces the file between its reading and its move: the move names no version,
and the code does move whatever is there.

**Connectors.** `ConnectorsFollow` is nearly inductive: every step that changes what tools or status
are made of goes through `changed()`, or (a connection that closes) changes neither. `KeptTo` adds that
cached tools and specs have the annotation of a server that keeps to it (`annotates` is `Nothing` for
one that doesn't, whose specs may be outdated, as the table below says). A reload that is overtaken
brings up what it made only if that wasn't closed meanwhile (`ReadiedMoves`), so nothing stays open.
`DecidedRight` follows a call: what it was found to need when it was evaluated stays with it, whatever is
reloaded before it runs, and `KeptTo` says the spec it was evaluated by has the annotation of the tool it
then meets. That a posture tightened in between doesn't reach the call is part of the model, and why
`WritesAreAsked` names the posture the call was evaluated under.

**McpConnection.** `McpInvariant`: a session that is being opened, or whose tools are being listed,
belongs to a lazy attempt or to the reconnecting loop, the live one is the one in use, and these three
exclude each other (`SessionsAreHeld`, `OneWay`), which is `OneSession`; a close leaves nothing of them
(`CloseIsClose`). `RunsOnAdopted`: a call runs on a session no attempt owns, so an attempt that fails
has no calls to answer. `ToolsCatchUp` needs the order of the refreshes: those of the session in use are
the latest (`RequestsInOrder`), and the tools the server has now are in use, are what the last request
brings, or are announced (`CatchingUp`), unless one of `Rushed`, `Overtakes`, `ListsFail` is set.

**RoutineScheduler.** What a run is to the scheduler is in four places: its badge, the map of runs, the
routine's state, and who works on it. `RoutinesInvariant` relates them, from what steps without an
await keep among the first three (`LedgerIsRight`: only the latest run may be in its first turn, and
its end is in the map and in the state together) to who is on it (`Manned`: a first turn that goes has
somebody in charge or is being picked up, one over its time is being closed, a run nobody is on has its
end recorded). `StatusKeeps` and `RunStep` are the argument for one run, used for every change of a badge, so that the
actions only say whose badge they change. `TimesAdd` keeps the time a run worked within the clock less
the pauses, which with `LookedAt` (after a look nothing is over its time) gives the limit. `NoticesAreKept` and
`SlotIsAhead` (the slot to come is later than the last one that started a run and than the switch) hold
until a crash, since a crash takes back what wasn't saved; `FilesAreRight` and `StoppedIsSaved` carry
the rest across it. That a run may work longer while the scheduler is off isn't denied: `WorkIsLimited`
speaks of a scheduler with a timer.

**ToolLedger.** `LedgerInvariant`: the journal in memory and on disk keep the stages in order
(`InOrder`, `RecordedAsFarAs`), a done call is known (`DoneIsKnown`), a prompt goes out only after what
is unknown was told (`PromptTold`). Once a newer app has written, noticed or not, every call of the thread
is one of `foreign` (`ForeignIsKnown`), so that an append which is given up, a call that runs unrecorded,
and a restart in a new thread disturb only what isn't `Accountable`.

**ApprovalGate.** `GateInvariant` has, per call, where it is at the gate and what the approvals in
memory and on disk may say of it then (`AtGate`: a call that wasn't evaluated was never asked about,
one that waits is pending, one whose harness asks has an open session), that what waits or may start
was never denied, and the leave of what may start (`HasLeave`). A standing grant is worth the approval
it was made of, in memory and in approvals.json (`GrantsBacked`), which holds across a crash because
the file has both of one moment, and a verdict never changes once there is an approval. `Asked` needs
that the policies are in order of strictness (`Stricter`), `Badge` that whatever ends approvals updates
the badge of each of their tasks. `OnlyDeliveryStarts` then shows that no step but the harness's own
starts a call. These five are what `NothingRunsWithoutLeave` checks on four instances.

**KeyedMutex, Limiter.** A key's tail is its last caller and queues are without gaps; slots taken are
the calls that run. `RunsOneAtATime` (at most one holder per key), `RunsInCallOrder`, `DropsIdleKeys`
(the map doesn't grow); `StaysWithinTheLimit`, `WaitsOnlyWhenFull` (no slot is wasted).

**Model-checked only.** Liveness (`HandoverCompletes`, `AgentRuns`, `WorkGoesOn`, `EverythingSettles`)
needs reasoning about fairness and `ENABLED`, which is out of the prover's reach. `JournalKeepsAll`
and `SubagentsTakeTurns` are about what folds, sorts and filters of a sequence yield (the records on
disk by number, the queue for slots), and `ChangesArrive` about maxima of sets of positions in the log:
these need induction over data, which the prover can't do. `TriageKeepsItsWord`, `NotesAreHeard`,
`EditsSurvive` and `FilesAreTracked` have no proof yet;
most speak of several instances at once, so the theorem would be one per component and instance. `AgentUnderGrant`, `OneHolder`,
`IdleKeysAreDropped`, `NoSlotIsWasted`, `UnreadableSurvives`, `NewerIsUntouched` and `ReadableIsTaken`
are proved and no longer checked by a run.

## Disagreements between the code and its documents

Two are shown by runs that TLC finds violated:

1. **Two agents can overlap** (`agent_hung_renewal`). `docs/SYNC.md:229-230`: "a holder that loses
   contact stops its agent 5 s before its grant could run out on the server, so two agents never
   overlap." The deadline's check is queued behind the running step, and a renewal that hangs is
   only given up after 60 s (`remote-client.ts:16`), as long as a grant lasts. The older agent's
   files are fenced (`agent_hung`), its other effects are not.
2. **An earlier grant's changes can go out under a new one** (`files_stale`). `docs/SYNC.md:288-290`
   says the first pass prevents it. The pass is best effort (`sync-controller.ts:92-103`), the agent
   starts without it (`agent-supervisor.ts:264-268`).

The others came up as counterexamples while the models were written. A constant in brackets is one
that the instances set so that the case doesn't occur. Without one the case does occur, and the
properties that are checked don't deny it: they claim nothing about it, or are stated with the condition
that excludes it (the calls that are not `foreign` for the tool ledger, the posture at a call's
evaluation, settings that could be saved). Setting the constant, or dropping the condition, and stating
what the document says makes TLC show it.

| Where | What the code does | What is said |
| --- | --- | --- |
| `sync/engine.ts:349` | a conflict copy whose resolution fails at its last write isn't listed | `docs/SYNC.md:94-95` |
| `remote.ts:507`, `:494`, `:464` | created and deleted since the cursor is skipped though a pass saw it; one page only; the cursor moves before a replay that fails [`Page` large, `RequestsFail`] | `docs/SYNC.md:39-41` |
| `remote.ts:468` | a second ready forgets that a listing has to catch up [`SlowListing`] | `remote.ts:90` |
| `local-fs.ts:151` | a listing taken before a file is back to its reported content is kept [`Reverts`, off where `ListingIsCurrent` is checked] | `local-fs.ts:150` |
| `change-tracker.ts:112`, `:150` | a change before the watch opens is missed; a rescan runs against a settle [`LateStart`, `OutsidersRace`] | `local-fs.ts:678`, `change-tracker.ts:97` |
| `persisted/file.ts:181` | a newer or valid file is moved aside instead of the unreadable one [`MovedUnderway`] | `file.ts:9-16` |
| `journal/writer.ts:125`, `store.ts:385`, `:485`, `runtime.ts:1196-1210` | a journal a newer app wrote to is left alone: appends resolve unwritten and calls run unrecorded; after a restart its thread is skipped, and the task goes on in a new one that is told of none of them | `docs/AGENT_SYSTEM.md:213-225`, `tool-ledger.ts:8-11` |
| `connectors/adapter.ts:83`, `manager.ts:261` | a posture that is tightened after a call was evaluated, while the judge, the user, the record or the session is awaited, doesn't reach the call | `packages/connectors/README.md:110` |
| `safety/approvals.ts:252` | a call evaluated after its task's cancel still asks for approval | `docs/AGENT_SYSTEM.md:397-398` |
| `subagents.ts:340`, `:345` | retry awaits a close: another run of the task may start meanwhile, or one after `stop()` [`Serial`] | `docs/AGENT_SYSTEM.md:171-173`, `subagents.ts:386-390` |
| `routines/scheduler.ts:267`, `:552`, `:190` | a retried run keeps its time-out; a crash notifies twice; no limit while switched off | `scheduler.ts:523`, `docs/AGENT_SYSTEM.md:350-357` |
| `task-watcher.ts:418`, `:425`, `:588`, `:477`, `:743` | deleted while stopped; away for a moment; an event before the scan; a note counted as created; told but not saved [`MaxDeletes` 0 in the instances with stops; `ScanRaces` off in those with deletions] | `task-watcher.ts:243-244, 499-500, 573-574`, `docs/AGENT_SYSTEM.md:38, 43` |
| `orchestrator.ts:647`, `:645`, `runtime.ts:1142` | an edit's failed turn says nothing; a task triaged again loses its earlier outcome | `orchestrator.ts:94, 665` |
| `orchestrator.ts:579`, `:581`, `runtime.ts:1141` | a turn stopped or cancelled while it opens is prompted; its tasks may show "triaging" for good | `orchestrator.ts:601`, `docs/AGENT_SYSTEM.md:125-126` |
| `orchestrator.ts:468`, `:1239`, `:293` | a stop forgets a message; a task deleted while its subagent is replaced, or before it settled, keeps working [`Redelegates`, `ActsEarly` in one instance] | `docs/AGENT_SYSTEM.md:64-65, 114-115` |
| `leased-runtime.ts:89` | settings changed while a stack is created don't reach it | `leased-runtime.test.ts:150` |
| `sync-controller.ts:58` | a setup that throws leaves "no remote": a standalone agent may start | `agent-supervisor.ts:4` |
| `relay.ts:469`, `:527` | a resync overwrites newer status; a forwarded answer of the machine left behind is shown [`Forwards` with one machine] | `relay.ts:112, 434-438` |
| `paired-devices.ts:155` | a revocation that can't be saved is undone by a restart | `docs/PROTOCOL.md:648` |
| `machine-link.ts:294`, `:228`, `:201` | a check outlives its credential; unpair drops one it didn't revoke; a failed save tells no one [`SettingsFail`] | `machine-link.ts:206, 293` |
| `notes-controller.ts:184`, `:182`, `:390`, `workspace.ts:587` | an older read is shown; a failed one isn't repeated; a deleted or renamed note comes back [`Slow`, `ReadsFail`] | `notes-controller.ts:24`, `notes-controller.races.test.ts:113, 138` |
| `write-tracker.ts:46`, `routes/notes.ts:91` | another app's change counts as the client's own [`PutsBack`] | `docs/ARCHITECTURE.md:70` |
| `connection.ts:480`, `:466`, `adapter.ts:83` | an older tool list wins; a change announced too early is dropped; a spec keeps its tool's old annotation [`Overtakes`, `Rushed`] | `connection.ts:157`, `adapter.ts:67` |

Two more were found by reading: `runtime.ts` `start()` marks work as interrupted while a harness that
was switched during the first check still has it (462-472, 905-930); and a settings change that fails
in `setupSafety` leaves the watcher and the scheduler running.

Some hazards are met by a property only in part; their notes in `PROJECT.json` say so. In short: no
instance deletes a note while the watcher is stopped; removals are followed only where an edit doesn't
replace a subagent at work; of settings that arrive while a stack is created nothing is claimed; answers
of renames and removals don't overtake one another (`Slow`); a catch-up of the change stream is one page
and doesn't fail; and the device whose last file is really deleted isn't in the instances of the sync
engine that are about the mass-deletion guard's progress (`MaxDelete` 0).

## What is not modelled

- **Safety rules and the shell parser** (`safety/rules`, `safety/shell*.ts`): what a command may do is
  a function of its text; `ApprovalGate` lets every verdict come out.
- **Harnesses, tools, prompts, execution, language models**: adapters to systems outside the repository.
- **Runtime wiring, vault switching, settings, import**: sequences of calls to the components, files
  and forms; the switch restarts the daemon.
- **Parsers, schedules, wire schemas, diff3**: pure functions over text; where a model needs one, it is
  a choice among its results.
- **Editor, web, mobile and desktop apps** except for the saving of notes: rendering and view state.
- **`LeaseWatcher`, `GET /leases`**: they read. **Deletions of agent files.** What each model leaves out
  of its component is in [What the models abstract](#what-the-models-abstract).

The map covers about 7 % of the implementation's lines: the code in which order, failure and
concurrency decide. Most of the rest is of the kinds above.

## Plan

Done: the components of the table of modules with their runs; the proofs above. Next:

1. A refinement of `AgentSupervisor` to the part of `AgentLease` it drives.
2. `JournalWriter` (`NothingTwice`, `OrderKept`): its records on disk as a function of their number
   instead of a sorted sequence, so that no fold stands between the state and the property.
