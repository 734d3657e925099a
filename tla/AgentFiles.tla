------------------------------ MODULE AgentFiles ------------------------------
(***************************************************************************)
(* One of the agent's files (.daily-do-list/state/..., threads/...) on     *)
(* every device and on the sync service, while the agent moves from device *)
(* to device: the sync engine's passes over it (packages/storage/src/sync: *)
(* decide.ts, engine.ts), the writes they send (remote.ts), the service's  *)
(* fence and precondition (apps/sync: app.ts, store.ts), and the part of   *)
(* the supervisor that opens and closes the engine's fence                 *)
(* (agent-supervisor.ts).                                                  *)
(*                                                                         *)
(* A file's content is the set of agent writes it holds; {} is a file that *)
(* does not exist yet (the agent never deletes its state files).  A        *)
(* version is its content: identical content keeps its revision, and a set *)
(* of writes that only their author's device adds to never comes back.     *)
(*                                                                         *)
(* The lease is the service's side of LeaseTable alone: it may lapse at    *)
(* any time, so nothing here depends on devices noticing in time.          *)
(***************************************************************************)
EXTENDS Naturals, FiniteSets

CONSTANTS
    Device,
    NoDevice,
    Journal,     \* TRUE: a thread journal (.jsonl), merged by union; FALSE: a state file
    BestEffort,  \* TRUE: the agent starts even if the sync pass before it failed or timed out
    MaxWrite,    \* bound: agent writes in a behaviour
    MaxEpoch,    \* bound: grants in a behaviour
    MaxStray     \* bound: late PUTs at a time

ASSUME AgentFilesAssumption ==
    /\ NoDevice \notin Device
    /\ Journal \in BOOLEAN
    /\ BestEffort \in BOOLEAN
    /\ MaxWrite \in Nat /\ MaxEpoch \in Nat /\ MaxStray \in Nat

VARIABLES
    live, holder, epoch,  \* the service's lease row
    server,               \* the service's copy of the file
    held,                 \* AgentLease.heldEpoch, 0 for null
    startedUnder,         \* AgentSupervisor.#startedUnder, 0 for null
    phase,                \* off, taking (onAcquired's pass), running, or stopping
    local,                \* the vault's copy
    memory,               \* what the running agent holds of a state file in memory
    base,                 \* the snapshot entry: what both sides held when last in sync
    saved,                \* the snapshot entry in the file on disk
    pass,                 \* where the engine's run over the file is
    seen,                 \* what that run still needs of both copies: listed, then read
    takeover,             \* the pass onAcquired waits for: no, under way, done
    wire,                 \* the PUT a run waits for, on its way to the service
    stray,                \* a PUT nobody waits for any more, still on its way
    answer,               \* the service's answer on its way back
    writes                \* agent writes so far

leaseRow == <<live, holder, epoch>>
agents == <<held, startedUnder, phase>>
engine == <<base, saved, pass, seen>>
vault == <<local, memory>>
network == <<wire, stray, answer>>
vars == <<leaseRow, server, agents, vault, engine, takeover, network, writes>>

Content == SUBSET (1 .. MaxWrite)
Absent == {}

Put == [content : Content, ifMatch : Content, epoch : Nat]
NoPut == [content |-> Absent, ifMatch |-> Absent, epoch |-> 0]
Unseen == [ours |-> Absent, theirs |-> Absent]

TypeOK ==
    /\ live \in BOOLEAN
    /\ holder \in Device \cup {NoDevice}
    /\ epoch \in Nat
    /\ server \in Content
    /\ held \in [Device -> Nat]
    /\ startedUnder \in [Device -> Nat]
    /\ phase \in [Device -> {"off", "taking", "running", "stopping"}]
    /\ local \in [Device -> Content]
    /\ memory \in [Device -> Content]
    /\ base \in [Device -> Content]
    /\ saved \in [Device -> Content]
    /\ pass \in [Device -> {"idle", "listed", "pulling", "yielding", "reconciling", "sent", "saving"}]
    /\ seen \in [Device -> [ours : Content, theirs : Content]]
    /\ takeover \in [Device -> {"no", "under way", "done"}]
    /\ wire \in [Device -> Put]
    /\ stray \in [Device -> Put]
    /\ answer \in [Device -> {"none", "stored", "conflict", "stale"}]
    /\ writes \in 0 .. MaxWrite
    /\ \A d \in Device : wire[d] # NoPut \/ answer[d] # "none" => pass[d] = "sent"

Init ==
    /\ live = FALSE /\ holder = NoDevice /\ epoch = 0
    /\ server = Absent
    /\ held = [d \in Device |-> 0]
    /\ startedUnder = [d \in Device |-> 0]
    /\ phase = [d \in Device |-> "off"]
    /\ local = [d \in Device |-> Absent]
    /\ memory = [d \in Device |-> Absent]
    /\ base = [d \in Device |-> Absent]
    /\ saved = [d \in Device |-> Absent]
    /\ pass = [d \in Device |-> "idle"]
    /\ seen = [d \in Device |-> Unseen]
    /\ takeover = [d \in Device |-> "no"]
    /\ wire = [d \in Device |-> NoPut]
    /\ stray = [d \in Device |-> NoPut]
    /\ answer = [d \in Device |-> "none"]
    /\ writes = 0

Set(f, d, v) == f' = [f EXCEPT ![d] = v]

-----------------------------------------------------------------------------
(* The lease, and the agent it moves.                                      *)

\* The grant ran out on the service, whoever knows of it.
Lapse ==
    /\ live /\ live' = FALSE
    /\ UNCHANGED <<holder, epoch, server, agents, vault, engine, takeover, network, writes>>

NextGrant(d) ==
    /\ ~ live /\ epoch < MaxEpoch
    /\ live' = TRUE /\ holder' = d /\ epoch' = epoch + 1
    /\ Set(held, d, epoch + 1)

\* A device that didn't believe it held the lease got it: onAcquired begins.
Acquire(d) ==
    /\ NextGrant(d)
    /\ phase[d] = "off"
    /\ Set(phase, d, "taking")
    /\ UNCHANGED <<server, startedUnder, vault, engine, takeover, network, writes>>

\* The renewal of a grant that had run out is a new grant too; the device that
\* still believed it held the old one just goes on.  (No renewal, and no loss,
\* overtakes onAcquired: the lease's steps wait for it.)
Regrant(d) ==
    /\ NextGrant(d)
    /\ phase[d] = "running"
    /\ UNCHANGED <<server, startedUnder, phase, vault, engine, takeover, network, writes>>

\* The owner of a state file keeps all of it in memory and writes all of it; a
\* journal's writer only appends.
Loaded(content) == IF Journal THEN Absent ELSE content

\* onAcquired after its sync pass: the fence opens, then the agent starts.
StartAgent(d) ==
    /\ phase[d] = "taking"
    /\ takeover[d] = "done" \/ BestEffort
    /\ Set(startedUnder, d, held[d])
    /\ Set(phase, d, "running")
    /\ Set(memory, d, Loaded(local[d]))
    /\ Set(takeover, d, "no")
    /\ UNCHANGED <<leaseRow, server, held, local, engine, network, writes>>

\* #unavailable: the epoch is gone at once, the agent takes a while to stop.
LoseLease(d) ==
    /\ phase[d] = "running"
    /\ Set(held, d, 0)
    /\ Set(phase, d, "stopping")
    /\ UNCHANGED <<leaseRow, server, startedUnder, vault, engine, takeover, network, writes>>

\* windDown: the agent stops first and keeps the epoch for its last state ...
WindDown(d) ==
    /\ phase[d] = "running"
    /\ Set(phase, d, "stopping")
    /\ UNCHANGED <<leaseRow, server, held, startedUnder, vault, engine, takeover, network, writes>>

\* ... until #release.  For a device that lost the lease, the agent is just off.
Stopped(d) ==
    /\ phase[d] = "stopping"
    /\ Set(phase, d, "off")
    /\ Set(held, d, 0)
    /\ Set(memory, d, Absent)
    /\ live' = (live /\ ~ (held[d] # 0 /\ holder = d))
    /\ UNCHANGED <<holder, epoch, server, startedUnder, local, engine, takeover, network, writes>>

\* The agent saves its state: what it has in memory merged with what the file
\* holds (PersistedFile), or what a journal holds with one more event.
AgentWrites(d) ==
    /\ phase[d] \in {"running", "stopping"}
    /\ writes < MaxWrite
    /\ writes' = writes + 1
    /\ Set(local, d, local[d] \cup memory[d] \cup {writes + 1})
    /\ Set(memory, d, Loaded(local'[d]))
    /\ UNCHANGED <<leaseRow, server, agents, engine, takeover, network>>

\* A PUT nobody waits for any more is lost, with its answer, or goes on.
GiveUp(d) ==
    /\ Set(wire, d, NoPut) /\ Set(answer, d, "none")
    /\ \/ UNCHANGED stray
       \/ /\ wire[d] # NoPut
          /\ Cardinality({e \in Device \ {d} : stray[e] # NoPut}) < MaxStray
          /\ Set(stray, d, wire[d])

\* The daemon dies; its vault and its saved snapshot are what the disk holds.
Crash(d) ==
    /\ phase[d] # "off" \/ pass[d] # "idle"
    /\ Set(held, d, 0) /\ Set(startedUnder, d, 0) /\ Set(phase, d, "off")
    /\ Set(memory, d, Absent) /\ Set(base, d, saved[d])
    /\ Set(pass, d, "idle") /\ Set(seen, d, Unseen) /\ Set(takeover, d, "no")
    /\ GiveUp(d)
    /\ UNCHANGED <<leaseRow, server, local, saved, writes>>

-----------------------------------------------------------------------------
(* The sync engine's run on one device.                                    *)

\* Slip: the fence opens with the grant, before the pass that pulls.
FenceEpochAnyGrant(d) == held[d]

\* AgentSupervisor.heldEpoch, as the engine's fence and the request headers read it.
FenceEpoch(d) == IF held[d] = startedUnder[d] THEN held[d] ELSE 0

BeginPass(d) ==
    /\ pass[d] = "idle"
    /\ Set(pass, d, "listed")
    /\ Set(seen, d, [ours |-> local[d], theirs |-> server])
    /\ Set(takeover, d, IF phase[d] = "taking" /\ takeover[d] = "no" THEN "under way"
                        ELSE takeover[d])
    /\ UNCHANGED <<leaseRow, server, agents, vault, base, saved, network, writes>>

\* The run is over; onAcquired goes on if it was its run and went well.
EndPass(d, well) ==
    /\ Set(pass, d, "idle")
    /\ Set(seen, d, Unseen)
    /\ Set(takeover, d, IF takeover[d] # "under way" THEN takeover[d]
                        ELSE IF well THEN "done" ELSE "no")

\* The path is done, and the entry kept for it is `entry`: the snapshot is saved
\* if it isn't what the disk holds.
EndPath(d, entry) ==
    /\ Set(base, d, entry)
    /\ IF entry = saved[d] THEN EndPass(d, TRUE)
       ELSE Set(pass, d, "saving") /\ Set(seen, d, Unseen) /\ UNCHANGED takeover
    /\ UNCHANGED saved

\* decideSync
OursChanged(d) == seen[d].ours # base[d]
TheirsChanged(d) == seen[d].theirs # base[d]

Skip(d) ==
    /\ pass[d] = "listed"
    /\ ~ OursChanged(d) /\ ~ TheirsChanged(d)
    /\ EndPath(d, base[d])
    /\ UNCHANGED <<leaseRow, server, agents, vault, network, writes>>

\* The service's copy is read before it is used: to pull it, to take it in
\* place of a change this device may not send, or to reconcile two changes.
Fetch(d) ==
    /\ pass[d] = "listed"
    /\ TheirsChanged(d) \/ (OursChanged(d) /\ FenceEpoch(d) = 0)
    /\ IF OursChanged(d) /\ FenceEpoch(d) # 0
       THEN Set(pass, d, "reconciling") /\ Set(seen, d, [ours |-> local[d], theirs |-> server])
       ELSE /\ Set(pass, d, IF OursChanged(d) THEN "yielding" ELSE "pulling")
            /\ Set(seen, d, [ours   |-> IF OursChanged(d) THEN Absent ELSE seen[d].ours,
                             theirs |-> server])
    /\ UNCHANGED <<leaseRow, server, agents, vault, base, saved, takeover, network, writes>>

\* A vault copy that changed since the listing fails the write's precondition:
\* the path waits for the next run.
Pull(d) ==
    /\ pass[d] = "pulling"
    /\ IF local[d] = seen[d].ours
       THEN Set(local, d, seen[d].theirs) /\ EndPath(d, seen[d].theirs)
       ELSE EndPass(d, FALSE) /\ UNCHANGED <<local, base, saved>>
    /\ UNCHANGED <<leaseRow, server, agents, memory, network, writes>>

\* yieldToTarget: the service's copy wins; a file it never had stays here.
Yield(d) ==
    /\ pass[d] = "yielding"
    /\ IF seen[d].theirs # Absent
       THEN Set(local, d, seen[d].theirs) /\ EndPath(d, seen[d].theirs)
       ELSE EndPath(d, base[d]) /\ UNCHANGED local
    /\ UNCHANGED <<leaseRow, server, agents, memory, network, writes>>

\* A PUT with the current epoch; seen remembers what it carries.
Send(d, content, ifMatch) ==
    /\ Set(wire, d, [content |-> content, ifMatch |-> ifMatch, epoch |-> FenceEpoch(d)])
    /\ Set(pass, d, "sent")
    /\ Set(seen, d, [Unseen EXCEPT !.ours = content])
    /\ UNCHANGED <<base, saved, takeover, stray, answer>>

\* Only the vault's copy changed, and this device holds the lease.
Push(d) ==
    /\ pass[d] = "listed"
    /\ OursChanged(d) /\ ~ TheirsChanged(d) /\ FenceEpoch(d) # 0
    /\ Send(d, local[d], seen[d].theirs)
    /\ UNCHANGED <<leaseRow, server, agents, vault, writes>>

\* mergeJournals: what a holder's write makes of both versions.
Merged(ours, theirs) == IF Journal THEN ours \cup theirs ELSE ours

\* Both changed: the holder's version replaces the service's; a journal keeps
\* every event of both, in the vault too.
Reconcile(d) ==
    LET ours == seen[d].ours
        theirs == seen[d].theirs
        merged == Merged(ours, theirs)
    IN  /\ pass[d] = "reconciling"
        /\ \/ /\ ours = theirs
              /\ EndPath(d, ours)
              /\ UNCHANGED <<local, network>>
           \/ /\ ours # theirs
              /\ merged # ours /\ local[d] # ours
              /\ EndPass(d, FALSE)
              /\ UNCHANGED <<local, base, saved, network>>
           \/ /\ ours # theirs
              /\ merged = ours \/ local[d] = ours
              /\ Set(local, d, IF merged = ours THEN local[d] ELSE merged)
              /\ Send(d, merged, theirs)
        /\ UNCHANGED <<leaseRow, server, agents, memory, writes>>

\* PUT /files: the fence, then the precondition, in one synchronous step.
Admitted(d, put) == live /\ holder = d /\ epoch = put.epoch

Accepted(d, put) == Admitted(d, put) /\ server = put.ifMatch

ServePut(d) ==
    /\ wire[d] # NoPut
    /\ server' = IF Accepted(d, wire[d]) THEN wire[d].content ELSE server
    /\ Set(answer, d, IF Accepted(d, wire[d]) THEN "stored"
                      ELSE IF Admitted(d, wire[d]) THEN "conflict" ELSE "stale")
    /\ Set(wire, d, NoPut)
    /\ UNCHANGED <<leaseRow, agents, vault, engine, takeover, stray, writes>>

\* A PUT its device gave up gets through, after whatever that device sent since.
ServeStray(d) ==
    /\ stray[d] # NoPut
    /\ server' = IF Accepted(d, stray[d]) THEN stray[d].content ELSE server
    /\ Set(stray, d, NoPut)
    /\ UNCHANGED <<leaseRow, agents, vault, engine, takeover, wire, answer, writes>>

Stored(d) ==
    /\ pass[d] = "sent" /\ answer[d] = "stored"
    /\ EndPath(d, seen[d].ours)
    /\ Set(answer, d, "none")
    /\ UNCHANGED <<leaseRow, server, agents, vault, wire, stray, writes>>

\* ConflictError: the path waits for the next run.
Conflict(d) ==
    /\ pass[d] = "sent" /\ answer[d] = "conflict"
    /\ Set(answer, d, "none")
    /\ EndPass(d, FALSE)
    /\ UNCHANGED <<leaseRow, server, agents, vault, base, saved, wire, stray, writes>>

\* StaleLeaseError: the service no longer accepts this grant, so its copy wins.
Stale(d) ==
    /\ pass[d] = "sent" /\ answer[d] = "stale"
    /\ Set(answer, d, "none")
    /\ Set(pass, d, "yielding")
    /\ Set(seen, d, [Unseen EXCEPT !.theirs = server])
    /\ UNCHANGED <<leaseRow, server, agents, vault, base, saved, takeover, wire, stray, writes>>

\* saveSnapshot, at the end of the run.
SaveSnapshot(d) ==
    /\ pass[d] = "saving"
    /\ Set(saved, d, base[d])
    /\ EndPass(d, TRUE)
    /\ UNCHANGED <<leaseRow, server, agents, vault, base, network, writes>>

\* Whatever the run waits for fails or times out.
PassFails(d) ==
    /\ pass[d] # "idle"
    /\ EndPass(d, FALSE)
    /\ GiveUp(d)
    /\ UNCHANGED <<leaseRow, server, agents, vault, base, saved, writes>>

-----------------------------------------------------------------------------
Next ==
    \/ Lapse
    \/ \E d \in Device :
          \/ Acquire(d) \/ Regrant(d) \/ StartAgent(d) \/ AgentWrites(d)
          \/ LoseLease(d) \/ WindDown(d) \/ Stopped(d) \/ Crash(d)
          \/ BeginPass(d) \/ Skip(d) \/ Fetch(d) \/ Pull(d) \/ Yield(d)
          \/ Push(d) \/ Reconcile(d)
          \/ ServePut(d) \/ ServeStray(d) \/ Stored(d) \/ Conflict(d) \/ Stale(d)
          \/ SaveSnapshot(d) \/ PassFails(d)

Spec == Init /\ [][Next]_vars

-----------------------------------------------------------------------------
(* Properties.                                                             *)

\* docs/SYNC.md, Fencing: "changes made under an earlier grant can't go out
\* under the new one".  What the service accepted from one agent is still
\* there after any later agent's writes.
NothingAcceptedIsLost == [][ server \subseteq server' ]_vars

\* The agent whose writes the service would accept has seen all it accepted:
\* its next save, a write of the whole file, loses nothing.
AuthorityIsCurrent ==
    \A d \in Device :
        phase[d] = "running" /\ FenceEpoch(d) # 0
            /\ live /\ holder = d /\ epoch = held[d]
                => server \subseteq local[d]
=============================================================================
