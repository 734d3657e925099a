------------------------------ MODULE MCLiveApp -----------------------------
(***************************************************************************)
(* What must happen around the vault and the app, for TLC: keyed calls, the *)
(* files of a vault, syncing and the stream of changes, the supervisor, the *)
(* relay, the hub and the editing of notes. Each behaviour moves the        *)
(* variables of one part and leaves the others as they start; each part is  *)
(* fair as its module says.                                                 *)
(***************************************************************************)
EXTENDS KeyedMutex, TLC

CONSTANTS
    Parts,   \* the parts whose behaviours the run explores

    laptop, phone, note, copy1, copy2, copyOfCopy1, copyOfCopy2, p1, c1, c2, c3, c4, d1, t1, m1, l1, here, NoMachine, okay, noReply, noFile

VARIABLES
    part,    \* the part that moves in this behaviour
    log, conn, served, wire, cursor, observed, floor, catchups, due, pass, queued, base, faults,
    disk, versions, outside, ops, lock, probe, stage, scan, touched, known, watching, heard,
    timers, wanted, graces, confirms, fsAsked, rescan, cache, changes, failures, lists, event,
    vault, server, syncBase, conflicts, saved, run, edits, dropped, removed, deletes,
    syncFaults, crashes,
    calls, agentStage, stacks, active, started, closed, settings, placement, machine, config,
    token, prepared, agentChanges, steps, pc, desired, next, arrangement, lease, releasing,
    startedUnder, grant, synced, stopped, closing,
    relayed, credential, moves, accepts, version, link, ws, linkState, opened, events, state,
    remote, thread, pushed, resyncs, relayAsked, relayStarted, relayStopped, watchers, source,
    subscribed,
    sock, clients, alive, there, watches, unread, hubCount, hubRuns, sent, hubNext, hub,
    editVault, copies, mine, pending, editWire, online, doc, screen, editActive, reads, page,
    orphans, answers, editEdits, others, fails, drops, typed, stored, seen, discarded

mutexVars ==
    <<tails, previous, place, asked, held, released, count>>
streamVars ==
    <<log, conn, served, wire, cursor, observed, floor, catchups, due, pass, queued, base,
      faults>>
fsVars ==
    <<disk, versions, outside, ops, lock, probe, stage, scan, touched, known, watching, heard,
      timers, wanted, graces, confirms, fsAsked, rescan, cache, changes, failures, lists, event>>
syncVars ==
    <<vault, server, syncBase, conflicts, saved, run, edits, dropped, removed, deletes,
      syncFaults, crashes>>
agentVars ==
    <<calls, agentStage, stacks, active, started, closed, settings, placement, machine, config,
      token, prepared, agentChanges, steps, pc, desired, next, arrangement, lease, releasing,
      startedUnder, grant, synced, stopped, closing>>
relayVars ==
    <<relayed, credential, moves, accepts, version, link, ws, linkState, opened, events, state,
      remote, thread, pushed, resyncs, relayAsked, relayStarted, relayStopped, watchers, source,
      subscribed>>
hubVars ==
    <<sock, clients, alive, there, watches, unread, hubCount, hubRuns, sent, hubNext, hub>>
editVars ==
    <<editVault, copies, mine, pending, editWire, online, doc, screen, editActive, reads, page,
      orphans, answers, editEdits, others, fails, drops, typed, stored, seen, discarded>>

\* The first connection is the daemon's own page, the other a paired device's.
TwoOwners == (c1 :> None) @@ (c2 :> d1)
\* A name for a copy of the note, and one for a copy of that.
NamesOfTwo == [p \in {note, copy1, copy2, copyOfCopy1, copyOfCopy2} |->
                  CASE p = note -> {copy1, copy2}
                    [] p = copy1 -> {copyOfCopy1}
                    [] p = copy2 -> {copyOfCopy2}
                    [] OTHER -> {}]
\* Two renames in opposite directions ask for the same two keys; writes and a
\* rename to a third path come between them.
MCKeysOf == (c1 :> {1, 2}) @@ (c2 :> {1, 2}) @@ (c3 :> {2, 3}) @@ (c4 :> {1})

-----------------------------------------------------------------------------
(* Calls under keys.                                                       *)

MutexInit == Init
MutexStep ==
    /\ part = "mutex" /\ Next
    /\ UNCHANGED <<part, streamVars, fsVars, syncVars, agentVars, relayVars, hubVars, editVars>>

-----------------------------------------------------------------------------
(* The changes of the service.                                             *)

Stream == INSTANCE ChangeStream WITH
    Paths <- {p1}, Page <- 9, MaxBuffered <- 1, MaxChanges <- 2, MaxOwn <- 1, MaxFaults <- 1,
    LocalPasses <- FALSE, SlowListing <- FALSE, RequestsFail <- FALSE

StreamInit == Stream!Init
StreamStep ==
    /\ part = "stream" /\ Stream!Next
    /\ UNCHANGED <<part, mutexVars, fsVars, syncVars, agentVars, relayVars, hubVars, editVars>>

-----------------------------------------------------------------------------
(* The files of a vault.                                                   *)

Files == INSTANCE LocalFs WITH
    asked <- fsAsked, Paths <- {p1}, Clients <- {c1}, MaxOutside <- 1, MaxFailures <- 1,
    MaxLists <- 0, LateStart <- FALSE, Reverts <- TRUE, OutsidersRace <- FALSE

FsInit ==
    CASE part = "files" -> Files!Init
      [] OTHER -> Files!Init /\ disk = [p \in {p1} |-> 0]
FsStep ==
    /\ part = "files" /\ Files!Next
    /\ UNCHANGED <<part, mutexVars, streamVars, syncVars, agentVars, relayVars, hubVars, editVars>>

-----------------------------------------------------------------------------
(* Two devices that sync a note.                                           *)

Pair == INSTANCE SyncEngine WITH
    base <- syncBase, faults <- syncFaults, Device <- {laptop, phone}, Note <- {note},
    Copy <- {copy1, copy2, copyOfCopy1, copyOfCopy2}, CopyNames <- NamesOfTwo,
    Mergeable <- TRUE, MaxEdit <- 2, MaxDelete <- 0, MaxFault <- 1, MaxCrash <- 0

SyncInit == Pair!SyncInit
SyncStep ==
    /\ part = "devices" /\ Pair!SyncNext
    /\ UNCHANGED <<part, mutexVars, streamVars, fsVars, agentVars, relayVars, hubVars, editVars>>

-----------------------------------------------------------------------------
(* The supervisor of the agent.                                            *)

Supervises == INSTANCE AgentSupervisor WITH
    stage <- agentStage, changes <- agentChanges, Caller <- {"supervisor", "lease", "daemon"},
    MaxStacks <- 2, MaxSettings <- 0, MaxCalls <- 3, Tokens <- {"ok", "absent"}, MaxGrants <- 1,
    MaxChanges <- 1

AgentInit ==
    CASE part = "supervises" -> Supervises!SupervisorInit
      [] OTHER -> Supervises!SupervisorInit /\ ~ machine /\ placement = "always_on_machine" /\ config = "none" /\ token = "absent"
AgentStep ==
    /\ part = "supervises" /\ Supervises!SupervisorNext
    /\ UNCHANGED <<part, mutexVars, streamVars, fsVars, syncVars, relayVars, hubVars, editVars>>

-----------------------------------------------------------------------------
(* The relay to a machine.                                                 *)

Links == INSTANCE AgentRelay WITH
    Peer <- {m1}, NoPeer <- NoMachine, Forwards <- TRUE, ReadsFail <- FALSE, MaxVersion <- 0,
    MaxMoves <- 0, MaxLinks <- 2, MaxWatchers <- 0

LinkInit ==
    /\ Links!RelayInit
    /\ part # "links" => ~ relayed /\ credential = NoMachine /\ accepts = {}
RelayStep ==
    /\ part = "links" /\ Links!RelayNext
    /\ UNCHANGED <<part, mutexVars, streamVars, fsVars, syncVars, agentVars, hubVars, editVars>>

-----------------------------------------------------------------------------
(* The clients of the hub.                                                 *)

Leaves == INSTANCE WsHub WITH
    count <- hubCount, subscribed <- hubRuns, next <- hubNext, Clients <- {c1, c2},
    Devices <- {d1}, DeviceOf <- TwoOwners, Surfaces <- {t1}, MaxSurfaces <- 1, DropAbove <- 1,
    MaxBuffered <- 1, MaxEvents <- 0, Fails <- TRUE

HubInit == Leaves!HubInit
HubStep ==
    /\ part = "leaves" /\ Leaves!HubNext
    /\ UNCHANGED <<part, mutexVars, streamVars, fsVars, syncVars, agentVars, relayVars, editVars>>

-----------------------------------------------------------------------------
(* A note that two clients edit.                                           *)

Saves == INSTANCE NotesEditing WITH
    vault <- editVault, wire <- editWire, active <- editActive, edits <- editEdits,
    Lines <- {l1}, Paths <- {here}, First <- here, MaxEdits <- 1, MaxOthers <- 1, MaxFails <- 1,
    MaxReads <- 2, MaxDrops <- 0, MaxSaves <- 3, Slow <- FALSE, ReadsFail <- FALSE,
    PutsBack <- TRUE, Deletes <- FALSE, Removes <- FALSE, Renames <- FALSE, Gone <- noFile,
    Ok <- okay, Lost <- noReply

EditInit == Saves!Init
EditStep ==
    /\ part = "saves" /\ Saves!Next
    /\ UNCHANGED <<part, mutexVars, streamVars, fsVars, syncVars, agentVars, relayVars, hubVars>>

-----------------------------------------------------------------------------
MCInit ==
    /\ part \in Parts
    /\ MutexInit
    /\ StreamInit
    /\ FsInit
    /\ SyncInit
    /\ AgentInit
    /\ LinkInit
    /\ HubInit
    /\ EditInit
MCNext ==
    \/ MutexStep
    \/ StreamStep
    \/ FsStep
    \/ SyncStep
    \/ AgentStep
    \/ RelayStep
    \/ HubStep
    \/ EditStep
MCVars == <<part, mutexVars, streamVars, fsVars, syncVars, agentVars, relayVars, hubVars, editVars>>
MCSpec == MCInit /\ [][MCNext]_MCVars

(* Callers go on, what runs ends and promises resolve.                     *)
MutexFairness == \A c \in Calls : WF_mutexVars(part = "mutex" /\ Goes(c))

(* Sockets deliver or close, requests are answered, timers fire; every run *)
(* of the sync engine goes on, and another follows: the interval timer.    *)
SyncFairness ==
    /\ WF_streamVars(part = "stream" /\ Stream!Delivering)
    /\ WF_streamVars(part = "stream" /\ Stream!Replaying)
    /\ WF_streamVars(part = "stream" /\ Stream!Passing)
    /\ WF_streamVars(part = "stream" /\ Stream!LocalTrigger)
    /\ \A d \in {laptop, phone} : WF_syncVars(part = "devices" /\ Pair!Engine(d))

(* Timers fire, the operating system and the disk answer, a failed watch   *)
(* is opened again, whoever waits for a lock that is free again gets it.   *)
FilesFairness ==
    /\ SF_fsVars(part = "files" /\ Files!Finishing(c1))
    /\ WF_fsVars(part = "files" /\ Files!PathSteps(p1))
    /\ SF_fsVars(part = "files" /\ Files!SettleBegins(p1))
    /\ SF_fsVars(part = "files" /\ Files!ConfirmBegins(p1))
    /\ WF_fsVars(part = "files" /\ Files!TrackingAll)

(* Steps of the supervisor, the lease and the daemon end; the machine      *)
(* answers, and timers fire.                                               *)
MachineFairness ==
    /\ WF_agentVars(part = "supervises" /\ Supervises!Supervisor)
    /\ WF_agentVars(part = "supervises" /\ Supervises!LeaseSteps)
    /\ WF_agentVars(part = "supervises" /\ Supervises!Daemon)
    /\ WF_relayVars(part = "links" /\ Links!LinkSteps)
    /\ WF_relayVars(part = "links" /\ Links!LinkRefused)
    /\ WF_relayVars(part = "links" /\ Links!ResyncSteps)

(* The hub's own timers fire, and a socket that was cut closes.  Clients   *)
(* need not read, answer or leave.  The daemon answers the app's requests  *)
(* in turn, and its timers fire.                                           *)
AppFairness ==
    /\ WF_hubVars(part = "leaves" /\ Leaves!Heartbeat)
    /\ WF_hubVars(part = "leaves" /\ Leaves!HubCloses)
    /\ \A c \in {c1, c2} :
        /\ WF_hubVars(part = "leaves" /\ Leaves!GraceEnds(c))
        /\ WF_hubVars(part = "leaves" /\ sock[c] = "cut" /\ Leaves!SocketCloses(c))
    /\ WF_editVars(part = "saves" /\ Saves!Serving)
    /\ WF_editVars(part = "saves" /\ Saves!Receiving)
    /\ WF_editVars(part = "saves" /\ Saves!TimerFires)
    /\ WF_editVars(part = "saves" /\ Saves!RetryFires)
    /\ WF_editVars(part = "saves" /\ Saves!FlushEvents)
    /\ WF_editVars(part = "saves" /\ Saves!Event)
    /\ WF_editVars(part = "saves" /\ Saves!Reconnect)

MCLiveSpec ==
    /\ MCSpec
    /\ MutexFairness /\ SyncFairness /\ FilesFairness /\ MachineFairness /\ AppFairness

-----------------------------------------------------------------------------
(* Properties, each of the parts it is about.                               *)

(* What must happen: keyed calls end, changes of the service reach their   *)
(* files, changes of files are reported, devices converge, a shutdown ends *)
(* and changes of the settings are dealt with, the link to a machine comes *)
(* up, clients that are gone are let go, and edits are saved.              *)
EverythingSettles ==
    /\ (part = "mutex" => EveryCallEnds)
    /\ (part = "stream" => Stream!EndsWithFiles)
    /\ Files!EveryChangeIsReported
    /\ (part = "devices" => Pair!Converges)
    /\ Supervises!ShutdownEnds
    /\ (part = "supervises" => Supervises!ChangesAreDealtWith)
    /\ (part = "links" => Links!LinkComesUp)
    /\ Leaves!TheGoneLetGo
    /\ Saves!EditsAreSaved
=============================================================================
