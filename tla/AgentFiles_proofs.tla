-------------------------- MODULE AgentFiles_proofs --------------------------
(***************************************************************************)
(* Why a state file survives a handover (if the agent starts only after a  *)
(* sync pass that went well), and a journal survives any: for any number   *)
(* of devices, grants, writes and late PUTs.                               *)
(***************************************************************************)
EXTENDS AgentFiles, TLAPS

(* Types, device by device: beyond TypeOK, a PUT under way and its answer   *)
(* never meet.                                                             *)
Arrays ==
    /\ held = [e \in Device |-> held[e]] /\ startedUnder = [e \in Device |-> startedUnder[e]]
    /\ phase = [e \in Device |-> phase[e]]
    /\ local = [e \in Device |-> local[e]] /\ memory = [e \in Device |-> memory[e]]
    /\ base = [e \in Device |-> base[e]] /\ saved = [e \in Device |-> saved[e]]
    /\ pass = [e \in Device |-> pass[e]] /\ seen = [e \in Device |-> seen[e]]
    /\ takeover = [e \in Device |-> takeover[e]]
    /\ wire = [e \in Device |-> wire[e]] /\ stray = [e \in Device |-> stray[e]]
    /\ answer = [e \in Device |-> answer[e]]

Numbers(d) == held[d] \in Nat /\ startedUnder[d] \in Nat

Stages(d) ==
    /\ phase[d] \in {"off", "taking", "running", "stopping"}
    /\ pass[d] \in {"idle", "listed", "pulling", "yielding", "reconciling", "sent", "saving"}
    /\ takeover[d] \in {"no", "under way", "done"}
    /\ answer[d] \in {"none", "stored", "conflict", "stale"}
    /\ wire[d] # NoPut \/ answer[d] # "none" => pass[d] = "sent"
    /\ answer[d] # "none" => wire[d] = NoPut

Contents(d) ==
    /\ local[d] \in Content /\ memory[d] \in Content
    /\ base[d] \in Content /\ saved[d] \in Content

Records(d) ==
    seen[d] \in [ours : Content, theirs : Content] /\ wire[d] \in Put /\ stray[d] \in Put

Typed(d) == Numbers(d) /\ Stages(d) /\ Contents(d) /\ Records(d)

Row ==
    /\ live \in BOOLEAN /\ holder \in Device \cup {NoDevice} /\ epoch \in Nat
    /\ server \in Content /\ writes \in 0 .. MaxWrite

TypeInvariant == Row /\ Arrays /\ \A d \in Device : Typed(d)

(* Epochs count up: nothing on any device or on the wire is ahead of the   *)
(* service, and what a device sent before it took its grant is behind it.  *)
InOrder(d) ==
    /\ held[d] <= epoch /\ startedUnder[d] <= epoch
    /\ wire[d].epoch <= epoch /\ stray[d].epoch <= epoch
    /\ takeover[d] # "no" => phase[d] = "taking"
    /\ phase[d] = "taking" =>
          /\ startedUnder[d] < held[d]
          /\ wire[d].epoch < held[d] /\ stray[d].epoch < held[d]

(* What a device was in sync with, or has read, the service still has.     *)
FromServer(d) ==
    /\ base[d] \subseteq server /\ saved[d] \subseteq server /\ seen[d].theirs \subseteq server
    /\ wire[d] # NoPut => wire[d].content = seen[d].ours
    /\ answer[d] = "stored" => seen[d].ours \subseteq server
    /\ pass[d] = "pulling" => seen[d].ours = base[d] /\ base[d] \subseteq seen[d].theirs

(* A PUT the service would admit keeps what it replaces.                   *)
Granted(d) == live /\ holder = d /\ epoch = held[d]
Keeps(d, put) == live /\ holder = d /\ epoch = put.epoch => put.ifMatch \subseteq put.content

(* The device that takes the agent over: its pass ends with what the       *)
(* service has, which is what nobody can change meanwhile.                 *)
Current(d) == base[d] = server /\ (local[d] = server \/ server = Absent)

TakesOver(d) ==
    Granted(d) /\ phase[d] = "taking" /\ takeover[d] # "no" =>
        /\ pass[d] \notin {"reconciling", "sent"}
        /\ pass[d] = "listed" => seen[d].ours = local[d] /\ seen[d].theirs = server
        /\ pass[d] \in {"pulling", "yielding"} => seen[d].theirs = server
        /\ takeover[d] = "under way" => pass[d] # "idle" /\ (pass[d] = "saving" => Current(d))
        /\ takeover[d] = "done" =>
              Current(d) /\ pass[d] # "pulling" /\ (pass[d] = "yielding" => server = Absent)

(* The device whose agent was started under the current grant: its vault   *)
(* holds all the service has, and will get, and its pass takes nothing     *)
(* away.                                                                   *)
Commands(d) ==
    Granted(d) /\ startedUnder[d] = held[d] =>
        /\ server \subseteq local[d]
        /\ \A put \in {wire[d], stray[d]} : put.epoch = epoch => put.content \subseteq local[d]
        /\ pass[d] = "reconciling" =>
              seen[d].theirs \subseteq seen[d].ours /\ seen[d].ours \subseteq local[d]
        /\ pass[d] = "yielding" => seen[d].theirs = Absent
        /\ pass[d] = "sent" => answer[d] # "stale" /\ (wire[d] # NoPut => wire[d].epoch = epoch)

(* A journal's vault copy only grows, by what was read.                    *)
Grows(d) ==
    /\ saved[d] \subseteq base[d] /\ base[d] \subseteq local[d]
    /\ pass[d] \in {"listed", "pulling", "yielding", "reconciling"} => base[d] \subseteq seen[d].theirs
    /\ pass[d] \in {"listed", "reconciling", "sent"} =>
          base[d] \subseteq seen[d].ours /\ seen[d].ours \subseteq local[d]
    /\ wire[d].ifMatch \subseteq wire[d].content
    /\ stray[d].ifMatch \subseteq stray[d].content

Common ==
    TypeInvariant /\ (live => epoch >= 1) /\ \A d \in Device : InOrder(d) /\ FromServer(d)

HandoverInvariant ==
    /\ Common
    /\ \A d \in Device :
          Keeps(d, wire[d]) /\ Keeps(d, stray[d]) /\ TakesOver(d) /\ Commands(d)

JournalInvariant == Common /\ \A d \in Device : Grows(d)

-----------------------------------------------------------------------------
(* Steps.                                                                  *)

Step(d) ==
    \/ Acquire(d) \/ Regrant(d) \/ StartAgent(d) \/ AgentWrites(d)
    \/ LoseLease(d) \/ WindDown(d) \/ Stopped(d) \/ Crash(d)
    \/ BeginPass(d) \/ Skip(d) \/ Fetch(d) \/ Pull(d) \/ Yield(d)
    \/ Push(d) \/ Reconcile(d)
    \/ ServePut(d) \/ ServeStray(d) \/ Stored(d) \/ Conflict(d) \/ Stale(d)
    \/ SaveSnapshot(d) \/ PassFails(d)

LEMMA Steps == Next => Lapse \/ \E d \in Device : Step(d)
  BY DEF Next, Step

Only(d) ==
    /\ held' = [held EXCEPT ![d] = held'[d]]
    /\ startedUnder' = [startedUnder EXCEPT ![d] = startedUnder'[d]]
    /\ phase' = [phase EXCEPT ![d] = phase'[d]]
    /\ local' = [local EXCEPT ![d] = local'[d]]
    /\ memory' = [memory EXCEPT ![d] = memory'[d]]
    /\ base' = [base EXCEPT ![d] = base'[d]]
    /\ saved' = [saved EXCEPT ![d] = saved'[d]]
    /\ pass' = [pass EXCEPT ![d] = pass'[d]]
    /\ seen' = [seen EXCEPT ![d] = seen'[d]]
    /\ takeover' = [takeover EXCEPT ![d] = takeover'[d]]
    /\ wire' = [wire EXCEPT ![d] = wire'[d]]
    /\ stray' = [stray EXCEPT ![d] = stray'[d]]
    /\ answer' = [answer EXCEPT ![d] = answer'[d]]

(* Only the device that takes a step changes.                              *)
LEMMA Apart ==
    ASSUME Arrays, NEW d \in Device, Step(d)
    PROVE  Only(d)
  <1>1. CASE Acquire(d)
    BY <1>1 DEF Arrays, Only, Set, Acquire, NextGrant, agents, engine, vault, network
  <1>2. CASE Regrant(d)
    BY <1>2 DEF Arrays, Only, Set, Regrant, NextGrant, agents, engine, vault, network
  <1>3. CASE StartAgent(d)
    BY <1>3 DEF Arrays, Only, Set, StartAgent, Loaded, agents, engine, vault, network
  <1>4. CASE AgentWrites(d)
    BY <1>4 DEF Arrays, Only, Set, AgentWrites, Loaded, agents, engine, vault, network
  <1>5. CASE LoseLease(d)
    BY <1>5 DEF Arrays, Only, Set, LoseLease, agents, engine, vault, network
  <1>6. CASE WindDown(d)
    BY <1>6 DEF Arrays, Only, Set, WindDown, agents, engine, vault, network
  <1>7. CASE Stopped(d)
    BY <1>7 DEF Arrays, Only, Set, Stopped, agents, engine, vault, network
  <1>8. CASE Crash(d)
    BY <1>8 DEF Arrays, Only, Set, Crash, GiveUp, agents, engine, vault, network
  <1>9. CASE BeginPass(d)
    BY <1>9 DEF Arrays, Only, Set, BeginPass, agents, engine, vault, network
  <1>10. CASE Skip(d)
    BY <1>10 DEF Arrays, Only, Set, Skip, EndPath, EndPass, agents, engine, vault, network
  <1>11. CASE Fetch(d)
    BY <1>11 DEF Arrays, Only, Set, Fetch, agents, engine, vault, network
  <1>12. CASE Pull(d)
    <2>1. CASE local[d] = seen[d].ours
      BY <1>12, <2>1 DEF Arrays, Only, Set, Pull, EndPath, EndPass, agents, engine, vault, network
    <2>2. CASE local[d] # seen[d].ours
      BY <1>12, <2>2 DEF Arrays, Only, Set, Pull, EndPath, EndPass, agents, engine, vault, network
    <2> QED
      BY <2>1, <2>2
  <1>13. CASE Yield(d)
    <2>1. CASE seen[d].theirs # Absent
      BY <1>13, <2>1 DEF Arrays, Only, Set, Yield, EndPath, EndPass, agents, engine, vault, network
    <2>2. CASE seen[d].theirs = Absent
      BY <1>13, <2>2 DEF Arrays, Only, Set, Yield, EndPath, EndPass, agents, engine, vault, network
    <2> QED
      BY <2>1, <2>2
  <1>14. CASE Push(d)
    BY <1>14 DEF Arrays, Only, Set, Push, Send, agents, engine, vault, network
  <1>15. CASE Reconcile(d)
    BY <1>15 DEF Arrays, Only, Set, Reconcile, Send, EndPath, EndPass, agents, engine, vault,
        network
  <1>16. CASE ServePut(d)
    BY <1>16 DEF Arrays, Only, Set, ServePut, agents, engine, vault, network
  <1>17. CASE ServeStray(d)
    BY <1>17 DEF Arrays, Only, Set, ServeStray, agents, engine, vault, network
  <1>18. CASE Stored(d)
    BY <1>18 DEF Arrays, Only, Set, Stored, EndPath, EndPass, agents, engine, vault, network
  <1>19. CASE Conflict(d)
    BY <1>19 DEF Arrays, Only, Set, Conflict, EndPass, agents, engine, vault, network
  <1>20. CASE Stale(d)
    BY <1>20 DEF Arrays, Only, Set, Stale, agents, engine, vault, network
  <1>21. CASE SaveSnapshot(d)
    BY <1>21 DEF Arrays, Only, Set, SaveSnapshot, EndPass, agents, engine, vault, network
  <1>22. CASE PassFails(d)
    BY <1>22 DEF Arrays, Only, Set, PassFails, EndPass, GiveUp, agents, engine, vault, network
  <1> QED
    BY <1>1, <1>2, <1>3, <1>4, <1>5, <1>6, <1>7, <1>8, <1>9, <1>10, <1>11, <1>12, <1>13, <1>14,
       <1>15, <1>16, <1>17, <1>18, <1>19, <1>20, <1>21, <1>22
    DEF Step

-----------------------------------------------------------------------------
(* What a step does, read off for the device that takes it.                *)

SameRow == live' = live /\ holder' = holder /\ epoch' = epoch
SameAgents(d) == held'[d] = held[d] /\ startedUnder'[d] = startedUnder[d] /\ phase'[d] = phase[d]
SameVault(d) == local'[d] = local[d] /\ memory'[d] = memory[d]
SameEngine(d) == base'[d] = base[d] /\ saved'[d] = saved[d] /\ pass'[d] = pass[d] /\ seen'[d] = seen[d]
SameNetwork(d) == wire'[d] = wire[d] /\ stray'[d] = stray[d] /\ answer'[d] = answer[d]

RunEnds(d, well) ==
    /\ pass'[d] = "idle" /\ seen'[d] = Unseen
    /\ \/ takeover[d] # "under way" /\ takeover'[d] = takeover[d]
       \/ takeover[d] = "under way" /\ well /\ takeover'[d] = "done"
       \/ takeover[d] = "under way" /\ ~ well /\ takeover'[d] = "no"

PathEnds(d, entry) ==
    /\ base'[d] = entry /\ saved'[d] = saved[d] /\ seen'[d] = Unseen
    /\ \/ pass'[d] = "saving" /\ takeover'[d] = takeover[d]
       \/ pass'[d] = "idle" /\ entry = saved[d] /\ RunEnds(d, TRUE)

Sends(d, content, ifMatch) ==
    /\ wire'[d] = [content |-> content, ifMatch |-> ifMatch, epoch |-> FenceEpoch(d)]
    /\ pass'[d] = "sent" /\ seen'[d] = [ours |-> content, theirs |-> Absent]
    /\ base'[d] = base[d] /\ saved'[d] = saved[d] /\ takeover'[d] = takeover[d]
    /\ stray'[d] = stray[d] /\ answer'[d] = answer[d]

GivesUp(d) ==
    wire'[d] = NoPut /\ answer'[d] = "none" /\ (stray'[d] = stray[d] \/ stray'[d] = wire[d])

DoesAcquire(d) ==
    /\ ~ live /\ live' = TRUE /\ holder' = d /\ epoch' = epoch + 1 /\ held'[d] = epoch + 1
    /\ phase[d] = "off" /\ phase'[d] = "taking" /\ startedUnder'[d] = startedUnder[d]
    /\ server' = server /\ takeover'[d] = takeover[d] /\ writes' = writes
    /\ SameVault(d) /\ SameEngine(d) /\ SameNetwork(d)

DoesRegrant(d) ==
    /\ ~ live /\ live' = TRUE /\ holder' = d /\ epoch' = epoch + 1 /\ held'[d] = epoch + 1
    /\ phase[d] = "running" /\ phase'[d] = phase[d] /\ startedUnder'[d] = startedUnder[d]
    /\ server' = server /\ takeover'[d] = takeover[d] /\ writes' = writes
    /\ SameVault(d) /\ SameEngine(d) /\ SameNetwork(d)

DoesStartAgent(d) ==
    /\ phase[d] = "taking" /\ (takeover[d] = "done" \/ BestEffort)
    /\ startedUnder'[d] = held[d] /\ held'[d] = held[d] /\ phase'[d] = "running"
    /\ takeover'[d] = "no"
    /\ local'[d] = local[d] /\ memory'[d] \in {Absent, local[d]}
    /\ server' = server /\ writes' = writes /\ SameRow /\ SameEngine(d) /\ SameNetwork(d)

DoesAgentWrites(d) ==
    /\ phase[d] # "taking" /\ writes < MaxWrite /\ writes' = writes + 1
    /\ local'[d] = local[d] \cup memory[d] \cup {writes + 1} /\ memory'[d] \in {Absent, local'[d]}
    /\ server' = server /\ takeover'[d] = takeover[d] /\ SameRow /\ SameAgents(d)
    /\ SameEngine(d) /\ SameNetwork(d)

DoesLoseLease(d) ==
    /\ held'[d] = 0 /\ startedUnder'[d] = startedUnder[d] /\ phase[d] = "running"
    /\ phase'[d] = "stopping"
    /\ server' = server /\ takeover'[d] = takeover[d] /\ writes' = writes /\ SameRow
    /\ SameVault(d) /\ SameEngine(d) /\ SameNetwork(d)

DoesWindDown(d) ==
    /\ held'[d] = held[d] /\ startedUnder'[d] = startedUnder[d] /\ phase[d] = "running"
    /\ phase'[d] = "stopping"
    /\ server' = server /\ takeover'[d] = takeover[d] /\ writes' = writes /\ SameRow
    /\ SameVault(d) /\ SameEngine(d) /\ SameNetwork(d)

DoesStopped(d) ==
    /\ held'[d] = 0 /\ startedUnder'[d] = startedUnder[d] /\ phase[d] = "stopping"
    /\ phase'[d] = "off"
    /\ live' \in BOOLEAN /\ (live' => live) /\ holder' = holder /\ epoch' = epoch
    /\ local'[d] = local[d] /\ memory'[d] = Absent
    /\ server' = server /\ takeover'[d] = takeover[d] /\ writes' = writes /\ SameEngine(d)
    /\ SameNetwork(d)

DoesCrash(d) ==
    /\ held'[d] = 0 /\ startedUnder'[d] = 0 /\ phase'[d] = "off" /\ takeover'[d] = "no"
    /\ local'[d] = local[d] /\ memory'[d] = Absent /\ base'[d] = saved[d] /\ saved'[d] = saved[d]
    /\ pass'[d] = "idle" /\ seen'[d] = Unseen
    /\ server' = server /\ writes' = writes /\ SameRow /\ GivesUp(d)

DoesBeginPass(d) ==
    /\ pass[d] = "idle" /\ pass'[d] = "listed"
    /\ seen'[d] = [ours |-> local[d], theirs |-> server] /\ base'[d] = base[d]
    /\ saved'[d] = saved[d]
    /\ \/ phase[d] = "taking" /\ takeover[d] = "no" /\ takeover'[d] = "under way"
       \/ ~ (phase[d] = "taking" /\ takeover[d] = "no") /\ takeover'[d] = takeover[d]
    /\ server' = server /\ writes' = writes /\ SameRow /\ SameAgents(d) /\ SameVault(d)
    /\ SameNetwork(d)

DoesSkip(d) ==
    /\ pass[d] = "listed" /\ seen[d].ours = base[d] /\ seen[d].theirs = base[d]
    /\ PathEnds(d, base[d])
    /\ server' = server /\ writes' = writes /\ SameRow /\ SameAgents(d) /\ SameVault(d)
    /\ SameNetwork(d)

DoesFetch(d) ==
    /\ pass[d] = "listed" /\ base'[d] = base[d] /\ saved'[d] = saved[d]
    /\ \/ /\ FenceEpoch(d) # 0 /\ pass'[d] = "reconciling"
          /\ seen'[d] = [ours |-> local[d], theirs |-> server]
       \/ /\ FenceEpoch(d) = 0 /\ seen[d].ours # base[d] /\ pass'[d] = "yielding"
          /\ seen'[d] = [ours |-> Absent, theirs |-> server]
       \/ /\ seen[d].ours = base[d] /\ seen[d].theirs # base[d] /\ pass'[d] = "pulling"
          /\ seen'[d] = [ours |-> seen[d].ours, theirs |-> server]
    /\ server' = server /\ takeover'[d] = takeover[d] /\ writes' = writes /\ SameRow
    /\ SameAgents(d) /\ SameVault(d) /\ SameNetwork(d)

DoesPull(d) ==
    /\ pass[d] = "pulling" /\ memory'[d] = memory[d]
    /\ \/ local[d] = seen[d].ours /\ local'[d] = seen[d].theirs /\ PathEnds(d, seen[d].theirs)
       \/ local'[d] = local[d] /\ base'[d] = base[d] /\ saved'[d] = saved[d] /\ RunEnds(d, FALSE)
    /\ server' = server /\ writes' = writes /\ SameRow /\ SameAgents(d) /\ SameNetwork(d)

DoesYield(d) ==
    /\ pass[d] = "yielding" /\ memory'[d] = memory[d]
    /\ \/ seen[d].theirs # Absent /\ local'[d] = seen[d].theirs /\ PathEnds(d, seen[d].theirs)
       \/ seen[d].theirs = Absent /\ local'[d] = local[d] /\ PathEnds(d, base[d])
    /\ server' = server /\ writes' = writes /\ SameRow /\ SameAgents(d) /\ SameNetwork(d)

DoesPush(d) ==
    /\ pass[d] = "listed" /\ seen[d].theirs = base[d] /\ FenceEpoch(d) # 0
    /\ Sends(d, local[d], seen[d].theirs)
    /\ server' = server /\ writes' = writes /\ SameRow /\ SameAgents(d) /\ SameVault(d)

DoesReconcile(d) ==
    /\ pass[d] = "reconciling" /\ memory'[d] = memory[d]
    /\ \/ /\ seen[d].ours = seen[d].theirs /\ local'[d] = local[d]
          /\ PathEnds(d, seen[d].ours) /\ SameNetwork(d)
       \/ /\ local'[d] = local[d] /\ base'[d] = base[d] /\ saved'[d] = saved[d] /\ RunEnds(d, FALSE)
          /\ SameNetwork(d)
       \/ /\ local'[d] = local[d]
          /\ Merged(seen[d].ours, seen[d].theirs) = seen[d].ours
          /\ Sends(d, seen[d].ours, seen[d].theirs)
       \/ /\ local[d] = seen[d].ours /\ local'[d] = Merged(seen[d].ours, seen[d].theirs)
          /\ Sends(d, Merged(seen[d].ours, seen[d].theirs), seen[d].theirs)
    /\ server' = server /\ writes' = writes /\ SameRow /\ SameAgents(d)

DoesServePut(d) ==
    /\ wire[d] # NoPut /\ wire'[d] = NoPut /\ stray'[d] = stray[d]
    /\ \/ Accepted(d, wire[d]) /\ server' = wire[d].content /\ answer'[d] = "stored"
       \/ Admitted(d, wire[d]) /\ server' = server /\ answer'[d] = "conflict"
       \/ ~ Admitted(d, wire[d]) /\ server' = server /\ answer'[d] = "stale"
    /\ takeover'[d] = takeover[d] /\ writes' = writes /\ SameRow /\ SameAgents(d)
    /\ SameVault(d) /\ SameEngine(d)

DoesServeStray(d) ==
    /\ stray'[d] = NoPut /\ wire'[d] = wire[d] /\ answer'[d] = answer[d]
    /\ \/ Accepted(d, stray[d]) /\ server' = stray[d].content
       \/ server' = server
    /\ takeover'[d] = takeover[d] /\ writes' = writes /\ SameRow /\ SameAgents(d)
    /\ SameVault(d) /\ SameEngine(d)

DoesStored(d) ==
    /\ pass[d] = "sent" /\ answer[d] = "stored" /\ answer'[d] = "none" /\ PathEnds(d, seen[d].ours)
    /\ wire'[d] = wire[d] /\ stray'[d] = stray[d]
    /\ server' = server /\ writes' = writes /\ SameRow /\ SameAgents(d) /\ SameVault(d)

DoesConflict(d) ==
    /\ pass[d] = "sent" /\ answer[d] = "conflict" /\ answer'[d] = "none" /\ RunEnds(d, FALSE)
    /\ base'[d] = base[d] /\ saved'[d] = saved[d] /\ wire'[d] = wire[d] /\ stray'[d] = stray[d]
    /\ server' = server /\ writes' = writes /\ SameRow /\ SameAgents(d) /\ SameVault(d)

DoesStale(d) ==
    /\ pass[d] = "sent" /\ answer[d] = "stale" /\ answer'[d] = "none" /\ pass'[d] = "yielding"
    /\ seen'[d] = [ours |-> Absent, theirs |-> server] /\ base'[d] = base[d]
    /\ saved'[d] = saved[d]
    /\ wire'[d] = wire[d] /\ stray'[d] = stray[d]
    /\ server' = server /\ takeover'[d] = takeover[d] /\ writes' = writes /\ SameRow
    /\ SameAgents(d) /\ SameVault(d)

DoesSaveSnapshot(d) ==
    /\ pass[d] = "saving" /\ saved'[d] = base[d] /\ base'[d] = base[d] /\ RunEnds(d, TRUE)
    /\ server' = server /\ writes' = writes /\ SameRow /\ SameAgents(d) /\ SameVault(d)
    /\ SameNetwork(d)

DoesPassFails(d) ==
    /\ RunEnds(d, FALSE) /\ base'[d] = base[d] /\ saved'[d] = saved[d] /\ GivesUp(d)
    /\ server' = server /\ writes' = writes /\ SameRow /\ SameAgents(d) /\ SameVault(d)

LEMMA AcquireDoes == ASSUME Arrays, NEW d \in Device, Acquire(d) PROVE DoesAcquire(d)
  BY DEF Arrays, Set, Acquire, DoesAcquire, NextGrant, SameRow, SameAgents, SameVault, SameEngine,
         SameNetwork, RunEnds, PathEnds, Sends, GivesUp, leaseRow, agents, vault, engine, network,
         Unseen

LEMMA RegrantDoes == ASSUME Arrays, NEW d \in Device, Regrant(d) PROVE DoesRegrant(d)
  BY DEF Arrays, Set, Regrant, DoesRegrant, NextGrant, SameRow, SameAgents, SameVault, SameEngine,
         SameNetwork, RunEnds, PathEnds, Sends, GivesUp, leaseRow, agents, vault, engine, network,
         Unseen

LEMMA StartAgentDoes == ASSUME Arrays, NEW d \in Device, StartAgent(d) PROVE DoesStartAgent(d)
  BY DEF Arrays, Set, StartAgent, DoesStartAgent, Loaded, SameRow, SameAgents, SameVault,
         SameEngine, SameNetwork, RunEnds, PathEnds, Sends, GivesUp, leaseRow, agents, vault,
         engine, network, Unseen

LEMMA AgentWritesDoes == ASSUME Arrays, NEW d \in Device, AgentWrites(d) PROVE DoesAgentWrites(d)
  BY DEF Arrays, Set, AgentWrites, DoesAgentWrites, Loaded, SameRow, SameAgents, SameVault,
         SameEngine, SameNetwork, RunEnds, PathEnds, Sends, GivesUp, leaseRow, agents, vault,
         engine, network, Unseen

LEMMA LoseLeaseDoes == ASSUME Arrays, NEW d \in Device, LoseLease(d) PROVE DoesLoseLease(d)
  BY DEF Arrays, Set, LoseLease, DoesLoseLease, SameRow, SameAgents, SameVault, SameEngine,
         SameNetwork, RunEnds, PathEnds, Sends, GivesUp, leaseRow, agents, vault, engine, network,
         Unseen

LEMMA WindDownDoes == ASSUME Arrays, NEW d \in Device, WindDown(d) PROVE DoesWindDown(d)
  BY DEF Arrays, Set, WindDown, DoesWindDown, SameRow, SameAgents, SameVault, SameEngine,
         SameNetwork, RunEnds, PathEnds, Sends, GivesUp, leaseRow, agents, vault, engine, network,
         Unseen

LEMMA StoppedDoes == ASSUME Arrays, NEW d \in Device, Stopped(d) PROVE DoesStopped(d)
  BY DEF Arrays, Set, Stopped, DoesStopped, SameRow, SameAgents, SameVault, SameEngine,
         SameNetwork, RunEnds, PathEnds, Sends, GivesUp, leaseRow, agents, vault, engine, network,
         Unseen

LEMMA CrashDoes == ASSUME Arrays, NEW d \in Device, Crash(d) PROVE DoesCrash(d)
  BY DEF Arrays, Set, Crash, DoesCrash, GiveUp, SameRow, SameAgents, SameVault, SameEngine,
         SameNetwork, RunEnds, PathEnds, Sends, GivesUp, leaseRow, agents, vault, engine, network,
         Unseen

LEMMA BeginPassDoes == ASSUME Arrays, NEW d \in Device, BeginPass(d) PROVE DoesBeginPass(d)
  BY DEF Arrays, Set, BeginPass, DoesBeginPass, SameRow, SameAgents, SameVault, SameEngine,
         SameNetwork, RunEnds, PathEnds, Sends, GivesUp, leaseRow, agents, vault, engine, network,
         Unseen

LEMMA SkipDoes == ASSUME Arrays, NEW d \in Device, Skip(d) PROVE DoesSkip(d)
  BY DEF Arrays, Set, Skip, DoesSkip, EndPath, EndPass, OursChanged, TheirsChanged, SameRow,
         SameAgents, SameVault, SameEngine, SameNetwork, RunEnds, PathEnds, Sends, GivesUp,
         leaseRow, agents, vault, engine, network, Unseen

LEMMA FetchDoes == ASSUME Arrays, NEW d \in Device, Fetch(d) PROVE DoesFetch(d)
  BY DEF Arrays, Set, Fetch, DoesFetch, OursChanged, TheirsChanged, SameRow, SameAgents,
         SameVault, SameEngine, SameNetwork, RunEnds, PathEnds, Sends, GivesUp, leaseRow, agents,
         vault, engine, network, Unseen

LEMMA PullDoes == ASSUME Arrays, NEW d \in Device, Pull(d) PROVE DoesPull(d)
  BY DEF Arrays, Set, Pull, DoesPull, EndPath, EndPass, SameRow, SameAgents, SameVault,
         SameEngine, SameNetwork, RunEnds, PathEnds, Sends, GivesUp, leaseRow, agents, vault,
         engine, network, Unseen

LEMMA YieldDoes == ASSUME Arrays, NEW d \in Device, Yield(d) PROVE DoesYield(d)
  BY DEF Arrays, Set, Yield, DoesYield, EndPath, EndPass, SameRow, SameAgents, SameVault,
         SameEngine, SameNetwork, RunEnds, PathEnds, Sends, GivesUp, leaseRow, agents, vault,
         engine, network, Unseen

LEMMA PushDoes == ASSUME Arrays, NEW d \in Device, Push(d) PROVE DoesPush(d)
  BY DEF Arrays, Set, Push, DoesPush, Send, OursChanged, TheirsChanged, SameRow, SameAgents,
         SameVault, SameEngine, SameNetwork, RunEnds, PathEnds, Sends, GivesUp, leaseRow, agents,
         vault, engine, network, Unseen

LEMMA ReconcileDoes == ASSUME Arrays, NEW d \in Device, Reconcile(d) PROVE DoesReconcile(d)
  <1> DEFINE ours == seen[d].ours
             theirs == seen[d].theirs
             merged == Merged(ours, theirs)
  <1>1. /\ pass[d] = "reconciling" /\ memory'[d] = memory[d] /\ server' = server /\ writes' = writes
        /\ SameRow /\ SameAgents(d)
    BY DEF Reconcile, SameRow, SameAgents, leaseRow, agents
  <1>2. CASE ours = theirs /\ EndPath(d, ours) /\ UNCHANGED <<local, network>>
    BY <1>1, <1>2 DEF DoesReconcile, Arrays, Set, EndPath, EndPass, SameRow, SameAgents,
           SameVault, SameEngine, SameNetwork, RunEnds, PathEnds, Sends, GivesUp, leaseRow,
           agents, vault, engine, network, Unseen
  <1>3. CASE EndPass(d, FALSE) /\ UNCHANGED <<local, base, saved, network>>
    BY <1>1, <1>3 DEF DoesReconcile, Arrays, Set, EndPath, EndPass, SameRow, SameAgents,
           SameVault, SameEngine, SameNetwork, RunEnds, PathEnds, Sends, GivesUp, leaseRow,
           agents, vault, engine, network, Unseen
  <1>4. CASE /\ merged = ours \/ local[d] = ours
             /\ Set(local, d, IF merged = ours THEN local[d] ELSE merged)
             /\ Send(d, merged, theirs)
    <2>1. Sends(d, merged, theirs)
      BY <1>4 DEF Send, Sends, Arrays, Set, Unseen
    <2>2. local'[d] = IF merged = ours THEN local[d] ELSE merged
      BY <1>4 DEF Arrays, Set
    <2> QED
      BY <1>1, <1>4, <2>1, <2>2 DEF DoesReconcile
  <1> QED
    BY <1>2, <1>3, <1>4 DEF Reconcile

LEMMA ServePutDoes == ASSUME Arrays, NEW d \in Device, ServePut(d) PROVE DoesServePut(d)
  BY DEF Arrays, Set, ServePut, DoesServePut, SameRow, SameAgents, SameVault, SameEngine,
         SameNetwork, RunEnds, PathEnds, Sends, GivesUp, leaseRow, agents, vault, engine, network,
         Unseen

LEMMA ServeStrayDoes == ASSUME Arrays, NEW d \in Device, ServeStray(d) PROVE DoesServeStray(d)
  BY DEF Arrays, Set, ServeStray, DoesServeStray, SameRow, SameAgents, SameVault, SameEngine,
         SameNetwork, RunEnds, PathEnds, Sends, GivesUp, leaseRow, agents, vault, engine, network,
         Unseen

LEMMA StoredDoes == ASSUME Arrays, NEW d \in Device, Stored(d) PROVE DoesStored(d)
  BY DEF Arrays, Set, Stored, DoesStored, EndPath, EndPass, SameRow, SameAgents, SameVault,
         SameEngine, SameNetwork, RunEnds, PathEnds, Sends, GivesUp, leaseRow, agents, vault,
         engine, network, Unseen

LEMMA ConflictDoes == ASSUME Arrays, NEW d \in Device, Conflict(d) PROVE DoesConflict(d)
  BY DEF Arrays, Set, Conflict, DoesConflict, EndPass, SameRow, SameAgents, SameVault, SameEngine,
         SameNetwork, RunEnds, PathEnds, Sends, GivesUp, leaseRow, agents, vault, engine, network,
         Unseen

LEMMA StaleDoes == ASSUME Arrays, NEW d \in Device, Stale(d) PROVE DoesStale(d)
  BY DEF Arrays, Set, Stale, DoesStale, SameRow, SameAgents, SameVault, SameEngine, SameNetwork,
         RunEnds, PathEnds, Sends, GivesUp, leaseRow, agents, vault, engine, network, Unseen

LEMMA SaveSnapshotDoes == ASSUME Arrays, NEW d \in Device, SaveSnapshot(d) PROVE DoesSaveSnapshot(d)
  BY DEF Arrays, Set, SaveSnapshot, DoesSaveSnapshot, EndPass, SameRow, SameAgents, SameVault,
         SameEngine, SameNetwork, RunEnds, PathEnds, Sends, GivesUp, leaseRow, agents, vault,
         engine, network, Unseen

LEMMA PassFailsDoes == ASSUME Arrays, NEW d \in Device, PassFails(d) PROVE DoesPassFails(d)
  BY DEF Arrays, Set, PassFails, DoesPassFails, EndPass, GiveUp, SameRow, SameAgents, SameVault,
         SameEngine, SameNetwork, RunEnds, PathEnds, Sends, GivesUp, leaseRow, agents, vault,
         engine, network, Unseen

Does(d) ==
    \/ DoesAcquire(d) \/ DoesRegrant(d) \/ DoesStartAgent(d) \/ DoesAgentWrites(d)
    \/ DoesLoseLease(d) \/ DoesWindDown(d) \/ DoesStopped(d) \/ DoesCrash(d)
    \/ DoesBeginPass(d) \/ DoesSkip(d) \/ DoesFetch(d) \/ DoesPull(d)
    \/ DoesYield(d) \/ DoesPush(d) \/ DoesReconcile(d) \/ DoesServePut(d)
    \/ DoesServeStray(d) \/ DoesStored(d) \/ DoesConflict(d) \/ DoesStale(d)
    \/ DoesSaveSnapshot(d) \/ DoesPassFails(d)

(* Every step is one of these.                                             *)
LEMMA StepDoes == ASSUME Arrays, NEW d \in Device, Step(d) PROVE Does(d)
  BY AcquireDoes, RegrantDoes, StartAgentDoes, AgentWritesDoes, LoseLeaseDoes, WindDownDoes,
     StoppedDoes, CrashDoes, BeginPassDoes, SkipDoes, FetchDoes, PullDoes, YieldDoes, PushDoes,
     ReconcileDoes, ServePutDoes, ServeStrayDoes, StoredDoes, ConflictDoes, StaleDoes,
     SaveSnapshotDoes, PassFailsDoes
  DEF Step, Does

-----------------------------------------------------------------------------
(* What a step keeps, for the device that takes it.                        *)

LEMMA KeepsNumbers ==
    ASSUME NEW d \in Device, Numbers(d), epoch \in Nat, Does(d)
    PROVE  Numbers(d)'
  <1>f. Numbers(d) /\ epoch \in Nat
    OBVIOUS
  <1>1. CASE DoesAcquire(d)
    BY <1>f, <1>1 DEF DoesAcquire, SameVault, SameEngine, SameNetwork, Numbers
  <1>2. CASE DoesRegrant(d)
    BY <1>f, <1>2 DEF DoesRegrant, SameVault, SameEngine, SameNetwork, Numbers
  <1>3. CASE DoesStartAgent(d)
    BY <1>f, <1>3 DEF DoesStartAgent, SameRow, SameEngine, SameNetwork, Numbers
  <1>4. CASE DoesAgentWrites(d)
    BY <1>f, <1>4 DEF DoesAgentWrites, SameRow, SameAgents, SameEngine, SameNetwork, Numbers
  <1>5. CASE DoesLoseLease(d)
    BY <1>f, <1>5 DEF DoesLoseLease, SameRow, SameVault, SameEngine, SameNetwork, Numbers
  <1>6. CASE DoesWindDown(d)
    BY <1>f, <1>6 DEF DoesWindDown, SameRow, SameVault, SameEngine, SameNetwork, Numbers
  <1>7. CASE DoesStopped(d)
    BY <1>f, <1>7 DEF DoesStopped, SameEngine, SameNetwork, Numbers
  <1>8. CASE DoesCrash(d)
    BY <1>f, <1>8 DEF DoesCrash, SameRow, GivesUp, Numbers
  <1>9. CASE DoesBeginPass(d)
    BY <1>f, <1>9 DEF DoesBeginPass, SameRow, SameAgents, SameVault, SameNetwork, Numbers
  <1>10. CASE DoesSkip(d)
    BY <1>f, <1>10 DEF DoesSkip, SameRow, SameAgents, SameVault, SameNetwork, PathEnds, RunEnds,
        Numbers
  <1>11. CASE DoesFetch(d)
    BY <1>f, <1>11 DEF DoesFetch, SameRow, SameAgents, SameVault, SameNetwork, Numbers
  <1>12. CASE DoesPull(d)
    BY <1>f, <1>12 DEF DoesPull, SameRow, SameAgents, SameNetwork, RunEnds, PathEnds, Numbers
  <1>13. CASE DoesYield(d)
    BY <1>f, <1>13 DEF DoesYield, SameRow, SameAgents, SameNetwork, PathEnds, RunEnds, Numbers
  <1>14. CASE DoesPush(d)
    BY <1>f, <1>14 DEF DoesPush, SameRow, SameAgents, SameVault, Sends, Numbers
  <1>15. CASE DoesReconcile(d)
    BY <1>f, <1>15 DEF DoesReconcile, SameRow, SameAgents, SameNetwork, RunEnds, PathEnds, Sends,
        Numbers
  <1>16. CASE DoesServePut(d)
    BY <1>f, <1>16 DEF DoesServePut, SameRow, SameAgents, SameVault, SameEngine, Numbers
  <1>17. CASE DoesServeStray(d)
    BY <1>f, <1>17 DEF DoesServeStray, SameRow, SameAgents, SameVault, SameEngine, Numbers
  <1>18. CASE DoesStored(d)
    BY <1>f, <1>18 DEF DoesStored, SameRow, SameAgents, SameVault, PathEnds, RunEnds, Numbers
  <1>19. CASE DoesConflict(d)
    BY <1>f, <1>19 DEF DoesConflict, SameRow, SameAgents, SameVault, RunEnds, Numbers
  <1>20. CASE DoesStale(d)
    BY <1>f, <1>20 DEF DoesStale, SameRow, SameAgents, SameVault, Numbers
  <1>21. CASE DoesSaveSnapshot(d)
    BY <1>f, <1>21 DEF DoesSaveSnapshot, SameRow, SameAgents, SameVault, SameNetwork, RunEnds,
        Numbers
  <1>22. CASE DoesPassFails(d)
    BY <1>f, <1>22 DEF DoesPassFails, SameRow, SameAgents, SameVault, RunEnds, GivesUp, Numbers
  <1> QED
    BY <1>1, <1>2, <1>3, <1>4, <1>5, <1>6, <1>7, <1>8, <1>9, <1>10, <1>11, <1>12, <1>13, <1>14,
       <1>15, <1>16, <1>17, <1>18, <1>19, <1>20, <1>21, <1>22
    DEF Does

LEMMA KeepsStages ==
    ASSUME NEW d \in Device, Stages(d), Does(d)
    PROVE  Stages(d)'
  <1>f. Stages(d)
    OBVIOUS
  <1>1. CASE DoesAcquire(d)
    BY <1>f, <1>1 DEF DoesAcquire, SameVault, SameEngine, SameNetwork, Stages
  <1>2. CASE DoesRegrant(d)
    BY <1>f, <1>2 DEF DoesRegrant, SameVault, SameEngine, SameNetwork, Stages
  <1>3. CASE DoesStartAgent(d)
    BY <1>f, <1>3 DEF DoesStartAgent, SameRow, SameEngine, SameNetwork, Stages
  <1>4. CASE DoesAgentWrites(d)
    BY <1>f, <1>4 DEF DoesAgentWrites, SameRow, SameAgents, SameEngine, SameNetwork, Stages
  <1>5. CASE DoesLoseLease(d)
    BY <1>f, <1>5 DEF DoesLoseLease, SameRow, SameVault, SameEngine, SameNetwork, Stages
  <1>6. CASE DoesWindDown(d)
    BY <1>f, <1>6 DEF DoesWindDown, SameRow, SameVault, SameEngine, SameNetwork, Stages
  <1>7. CASE DoesStopped(d)
    BY <1>f, <1>7 DEF DoesStopped, SameEngine, SameNetwork, Stages
  <1>8. CASE DoesCrash(d)
    BY <1>f, <1>8 DEF DoesCrash, SameRow, GivesUp, Stages
  <1>9. CASE DoesBeginPass(d)
    BY <1>f, <1>9 DEF DoesBeginPass, SameRow, SameAgents, SameVault, SameNetwork, Stages
  <1>10. CASE DoesSkip(d)
    BY <1>f, <1>10 DEF DoesSkip, SameRow, SameAgents, SameVault, SameNetwork, PathEnds, RunEnds,
        Stages
  <1>11. CASE DoesFetch(d)
    BY <1>f, <1>11 DEF DoesFetch, SameRow, SameAgents, SameVault, SameNetwork, Stages
  <1>12. CASE DoesPull(d)
    BY <1>f, <1>12 DEF DoesPull, SameRow, SameAgents, SameNetwork, RunEnds, PathEnds, Stages
  <1>13. CASE DoesYield(d)
    BY <1>f, <1>13 DEF DoesYield, SameRow, SameAgents, SameNetwork, PathEnds, RunEnds, Stages
  <1>14. CASE DoesPush(d)
    BY <1>f, <1>14 DEF DoesPush, SameRow, SameAgents, SameVault, Sends, Stages
  <1>15. CASE DoesReconcile(d)
    BY <1>f, <1>15 DEF DoesReconcile, SameRow, SameAgents, SameNetwork, RunEnds, PathEnds, Sends,
        Stages
  <1>16. CASE DoesServePut(d)
    BY <1>f, <1>16 DEF DoesServePut, SameRow, SameAgents, SameVault, SameEngine, Stages
  <1>17. CASE DoesServeStray(d)
    BY <1>f, <1>17 DEF DoesServeStray, SameRow, SameAgents, SameVault, SameEngine, Stages
  <1>18. CASE DoesStored(d)
    BY <1>f, <1>18 DEF DoesStored, SameRow, SameAgents, SameVault, PathEnds, RunEnds, Stages
  <1>19. CASE DoesConflict(d)
    BY <1>f, <1>19 DEF DoesConflict, SameRow, SameAgents, SameVault, RunEnds, Stages
  <1>20. CASE DoesStale(d)
    BY <1>f, <1>20 DEF DoesStale, SameRow, SameAgents, SameVault, Stages
  <1>21. CASE DoesSaveSnapshot(d)
    BY <1>f, <1>21 DEF DoesSaveSnapshot, SameRow, SameAgents, SameVault, SameNetwork, RunEnds,
        Stages
  <1>22. CASE DoesPassFails(d)
    BY <1>f, <1>22 DEF DoesPassFails, SameRow, SameAgents, SameVault, RunEnds, GivesUp, Stages
  <1> QED
    BY <1>1, <1>2, <1>3, <1>4, <1>5, <1>6, <1>7, <1>8, <1>9, <1>10, <1>11, <1>12, <1>13, <1>14,
       <1>15, <1>16, <1>17, <1>18, <1>19, <1>20, <1>21, <1>22
    DEF Does

LEMMA KeepsContents ==
    ASSUME NEW d \in Device, Contents(d), Records(d), server \in Content,
           writes \in 0 .. MaxWrite, Does(d)
    PROVE  Contents(d)'
  <1>f. /\ Contents(d) /\ Absent \in Content /\ writes \in 0 .. MaxWrite
        /\ seen[d].ours \in Content /\ seen[d].theirs \in Content
        /\ \A a, b \in Content : a \cup b \in Content /\ Merged(a, b) \in Content
    BY DEF Records, Absent, Content, Merged
  <1>1. CASE DoesAcquire(d)
    BY <1>f, <1>1 DEF DoesAcquire, SameVault, SameEngine, SameNetwork, Contents
  <1>2. CASE DoesRegrant(d)
    BY <1>f, <1>2 DEF DoesRegrant, SameVault, SameEngine, SameNetwork, Contents
  <1>3. CASE DoesStartAgent(d)
    BY <1>f, <1>3 DEF DoesStartAgent, SameRow, SameEngine, SameNetwork, Contents
  <1>4. CASE DoesAgentWrites(d)
    <2>1. {writes + 1} \in Content
      BY <1>f, <1>4, AgentFilesAssumption DEF DoesAgentWrites, Content
    <2>2. local[d] \cup memory[d] \in Content
      BY <1>f DEF Contents
    <2>3. local'[d] \in Content
      BY <1>f, <1>4, <2>1, <2>2 DEF DoesAgentWrites
    <2> QED
      BY <1>f, <1>4, <2>3 DEF DoesAgentWrites, SameEngine, Contents
  <1>5. CASE DoesLoseLease(d)
    BY <1>f, <1>5 DEF DoesLoseLease, SameRow, SameVault, SameEngine, SameNetwork, Contents
  <1>6. CASE DoesWindDown(d)
    BY <1>f, <1>6 DEF DoesWindDown, SameRow, SameVault, SameEngine, SameNetwork, Contents
  <1>7. CASE DoesStopped(d)
    BY <1>f, <1>7 DEF DoesStopped, SameEngine, SameNetwork, Contents
  <1>8. CASE DoesCrash(d)
    BY <1>f, <1>8 DEF DoesCrash, SameRow, GivesUp, Contents
  <1>9. CASE DoesBeginPass(d)
    BY <1>f, <1>9 DEF DoesBeginPass, SameRow, SameAgents, SameVault, SameNetwork, Contents
  <1>10. CASE DoesSkip(d)
    BY <1>f, <1>10 DEF DoesSkip, SameRow, SameAgents, SameVault, SameNetwork, PathEnds, RunEnds,
        Contents
  <1>11. CASE DoesFetch(d)
    BY <1>f, <1>11 DEF DoesFetch, SameRow, SameAgents, SameVault, SameNetwork, Contents
  <1>12. CASE DoesPull(d)
    BY <1>f, <1>12 DEF DoesPull, SameRow, SameAgents, SameNetwork, RunEnds, PathEnds, Contents
  <1>13. CASE DoesYield(d)
    BY <1>f, <1>13 DEF DoesYield, SameRow, SameAgents, SameNetwork, PathEnds, RunEnds, Contents
  <1>14. CASE DoesPush(d)
    BY <1>f, <1>14 DEF DoesPush, SameRow, SameAgents, SameVault, Sends, Contents
  <1>15. CASE DoesReconcile(d)
    BY <1>f, <1>15 DEF DoesReconcile, SameRow, SameAgents, SameNetwork, RunEnds, PathEnds, Sends,
        Contents
  <1>16. CASE DoesServePut(d)
    BY <1>f, <1>16 DEF DoesServePut, SameRow, SameAgents, SameVault, SameEngine, Contents
  <1>17. CASE DoesServeStray(d)
    BY <1>f, <1>17 DEF DoesServeStray, SameRow, SameAgents, SameVault, SameEngine, Contents
  <1>18. CASE DoesStored(d)
    BY <1>f, <1>18 DEF DoesStored, SameRow, SameAgents, SameVault, PathEnds, RunEnds, Contents
  <1>19. CASE DoesConflict(d)
    BY <1>f, <1>19 DEF DoesConflict, SameRow, SameAgents, SameVault, RunEnds, Contents
  <1>20. CASE DoesStale(d)
    BY <1>f, <1>20 DEF DoesStale, SameRow, SameAgents, SameVault, Contents
  <1>21. CASE DoesSaveSnapshot(d)
    BY <1>f, <1>21 DEF DoesSaveSnapshot, SameRow, SameAgents, SameVault, SameNetwork, RunEnds,
        Contents
  <1>22. CASE DoesPassFails(d)
    BY <1>f, <1>22 DEF DoesPassFails, SameRow, SameAgents, SameVault, RunEnds, GivesUp, Contents
  <1> QED
    BY <1>1, <1>2, <1>3, <1>4, <1>5, <1>6, <1>7, <1>8, <1>9, <1>10, <1>11, <1>12, <1>13, <1>14,
       <1>15, <1>16, <1>17, <1>18, <1>19, <1>20, <1>21, <1>22
    DEF Does

LEMMA KeepsRecords ==
    ASSUME NEW d \in Device, Contents(d), Records(d), Numbers(d), server \in Content, Does(d)
    PROVE  Records(d)'
  <1>f. /\ Records(d) /\ Absent \in Content /\ NoPut \in Put
        /\ local[d] \in Content /\ server \in Content
        /\ Unseen \in [ours : Content, theirs : Content] /\ FenceEpoch(d) \in Nat
        /\ seen[d].ours \in Content /\ seen[d].theirs \in Content
        /\ \A a, b \in Content : Merged(a, b) \in Content
    BY DEF Records, Contents, Numbers, Absent, Content, NoPut, Unseen, Put, Merged, FenceEpoch
  <1>1. CASE DoesAcquire(d)
    BY <1>f, <1>1 DEF DoesAcquire, SameVault, SameEngine, SameNetwork, Records
  <1>2. CASE DoesRegrant(d)
    BY <1>f, <1>2 DEF DoesRegrant, SameVault, SameEngine, SameNetwork, Records
  <1>3. CASE DoesStartAgent(d)
    BY <1>f, <1>3 DEF DoesStartAgent, SameRow, SameEngine, SameNetwork, Records
  <1>4. CASE DoesAgentWrites(d)
    BY <1>f, <1>4 DEF DoesAgentWrites, SameRow, SameAgents, SameEngine, SameNetwork, Records
  <1>5. CASE DoesLoseLease(d)
    BY <1>f, <1>5 DEF DoesLoseLease, SameRow, SameVault, SameEngine, SameNetwork, Records
  <1>6. CASE DoesWindDown(d)
    BY <1>f, <1>6 DEF DoesWindDown, SameRow, SameVault, SameEngine, SameNetwork, Records
  <1>7. CASE DoesStopped(d)
    BY <1>f, <1>7 DEF DoesStopped, SameEngine, SameNetwork, Records
  <1>8. CASE DoesCrash(d)
    BY <1>f, <1>8 DEF DoesCrash, SameRow, GivesUp, Records
  <1>9. CASE DoesBeginPass(d)
    <2>1. seen'[d] = [ours |-> local[d], theirs |-> server]
      BY <1>9 DEF DoesBeginPass
    <2>2. /\ UNCHANGED <<base[d], saved[d], wire[d], stray[d], answer[d], server>>
          /\ pass[d] = "idle" /\ pass'[d] = "listed"
      BY <1>9 DEF DoesBeginPass, SameNetwork
    <2> QED
      BY <1>f, <2>1, <2>2 DEF Records
  <1>10. CASE DoesSkip(d)
    BY <1>f, <1>10 DEF DoesSkip, SameRow, SameAgents, SameVault, SameNetwork, PathEnds, RunEnds,
        Records
  <1>11. CASE DoesFetch(d)
    BY <1>f, <1>11 DEF DoesFetch, SameRow, SameAgents, SameVault, SameNetwork, Records
  <1>12. CASE DoesPull(d)
    BY <1>f, <1>12 DEF DoesPull, SameRow, SameAgents, SameNetwork, RunEnds, PathEnds, Records
  <1>13. CASE DoesYield(d)
    BY <1>f, <1>13 DEF DoesYield, SameRow, SameAgents, SameNetwork, PathEnds, RunEnds, Records
  <1>14. CASE DoesPush(d)
    BY <1>f, <1>14 DEF DoesPush, SameRow, SameAgents, SameVault, Sends, Records, Put
  <1>15. CASE DoesReconcile(d)
    <2>1. CASE seen[d].ours = seen[d].theirs /\ PathEnds(d, seen[d].ours) /\ SameNetwork(d)
      BY <1>f, <1>15, <2>1 DEF DoesReconcile, SameRow, SameAgents, PathEnds, RunEnds, SameNetwork,
          Records, Put
    <2>2. CASE base'[d] = base[d] /\ saved'[d] = saved[d] /\ RunEnds(d, FALSE) /\ SameNetwork(d)
      BY <1>f, <1>15, <2>2 DEF DoesReconcile, SameRow, SameAgents, RunEnds, SameNetwork, Records,
          Put
    <2>3. CASE Sends(d, seen[d].ours, seen[d].theirs)
      BY <1>f, <1>15, <2>3 DEF DoesReconcile, SameRow, SameAgents, Sends, Records, Put
    <2>4. CASE Sends(d, Merged(seen[d].ours, seen[d].theirs), seen[d].theirs)
      BY <1>f, <1>15, <2>4 DEF DoesReconcile, SameRow, SameAgents, Sends, Records, Put
    <2> QED
      BY <1>15, <2>1, <2>2, <2>3, <2>4 DEF DoesReconcile
  <1>16. CASE DoesServePut(d)
    BY <1>f, <1>16 DEF DoesServePut, SameRow, SameAgents, SameVault, SameEngine, Records
  <1>17. CASE DoesServeStray(d)
    BY <1>f, <1>17 DEF DoesServeStray, SameRow, SameAgents, SameVault, SameEngine, Records
  <1>18. CASE DoesStored(d)
    BY <1>f, <1>18 DEF DoesStored, SameRow, SameAgents, SameVault, PathEnds, RunEnds, Records
  <1>19. CASE DoesConflict(d)
    BY <1>f, <1>19 DEF DoesConflict, SameRow, SameAgents, SameVault, RunEnds, Records
  <1>20. CASE DoesStale(d)
    BY <1>f, <1>20 DEF DoesStale, SameRow, SameAgents, SameVault, Records
  <1>21. CASE DoesSaveSnapshot(d)
    BY <1>f, <1>21 DEF DoesSaveSnapshot, SameRow, SameAgents, SameVault, SameNetwork, RunEnds,
        Records
  <1>22. CASE DoesPassFails(d)
    BY <1>f, <1>22 DEF DoesPassFails, SameRow, SameAgents, SameVault, RunEnds, GivesUp, Records
  <1> QED
    BY <1>1, <1>2, <1>3, <1>4, <1>5, <1>6, <1>7, <1>8, <1>9, <1>10, <1>11, <1>12, <1>13, <1>14,
       <1>15, <1>16, <1>17, <1>18, <1>19, <1>20, <1>21, <1>22
    DEF Does

LEMMA KeepsRow ==
    ASSUME NEW d \in Device, Row, Records(d), Does(d)
    PROVE  Row'
  <1>f. Row /\ wire[d].content \in Content /\ stray[d].content \in Content
    BY DEF Records, Put
  <1>1. CASE DoesAcquire(d)
    BY <1>f, <1>1 DEF DoesAcquire, SameVault, SameEngine, SameNetwork, Row
  <1>2. CASE DoesRegrant(d)
    BY <1>f, <1>2 DEF DoesRegrant, SameVault, SameEngine, SameNetwork, Row
  <1>3. CASE DoesStartAgent(d)
    BY <1>f, <1>3 DEF DoesStartAgent, SameRow, SameEngine, SameNetwork, Row
  <1>4. CASE DoesAgentWrites(d)
    <2>1. writes' \in 0 .. MaxWrite
      BY <1>f, <1>4, AgentFilesAssumption DEF DoesAgentWrites, Row
    <2> QED
      BY <1>f, <1>4, <2>1 DEF DoesAgentWrites, SameRow, Row
  <1>5. CASE DoesLoseLease(d)
    BY <1>f, <1>5 DEF DoesLoseLease, SameRow, SameVault, SameEngine, SameNetwork, Row
  <1>6. CASE DoesWindDown(d)
    BY <1>f, <1>6 DEF DoesWindDown, SameRow, SameVault, SameEngine, SameNetwork, Row
  <1>7. CASE DoesStopped(d)
    BY <1>f, <1>7 DEF DoesStopped, SameEngine, SameNetwork, Row
  <1>8. CASE DoesCrash(d)
    BY <1>f, <1>8 DEF DoesCrash, SameRow, GivesUp, Row
  <1>9. CASE DoesBeginPass(d)
    BY <1>f, <1>9 DEF DoesBeginPass, SameRow, SameAgents, SameVault, SameNetwork, Row
  <1>10. CASE DoesSkip(d)
    BY <1>f, <1>10 DEF DoesSkip, SameRow, SameAgents, SameVault, SameNetwork, PathEnds, RunEnds,
        Row
  <1>11. CASE DoesFetch(d)
    BY <1>f, <1>11 DEF DoesFetch, SameRow, SameAgents, SameVault, SameNetwork, Row
  <1>12. CASE DoesPull(d)
    BY <1>f, <1>12 DEF DoesPull, SameRow, SameAgents, SameNetwork, RunEnds, PathEnds, Row
  <1>13. CASE DoesYield(d)
    BY <1>f, <1>13 DEF DoesYield, SameRow, SameAgents, SameNetwork, PathEnds, RunEnds, Row
  <1>14. CASE DoesPush(d)
    BY <1>f, <1>14 DEF DoesPush, SameRow, SameAgents, SameVault, Sends, Row
  <1>15. CASE DoesReconcile(d)
    BY <1>f, <1>15 DEF DoesReconcile, SameRow, SameAgents, SameNetwork, RunEnds, PathEnds, Sends,
        Row
  <1>16. CASE DoesServePut(d)
    BY <1>f, <1>16 DEF DoesServePut, SameRow, SameAgents, SameVault, SameEngine, Row
  <1>17. CASE DoesServeStray(d)
    BY <1>f, <1>17 DEF DoesServeStray, SameRow, SameAgents, SameVault, SameEngine, Row
  <1>18. CASE DoesStored(d)
    BY <1>f, <1>18 DEF DoesStored, SameRow, SameAgents, SameVault, PathEnds, RunEnds, Row
  <1>19. CASE DoesConflict(d)
    BY <1>f, <1>19 DEF DoesConflict, SameRow, SameAgents, SameVault, RunEnds, Row
  <1>20. CASE DoesStale(d)
    BY <1>f, <1>20 DEF DoesStale, SameRow, SameAgents, SameVault, Row
  <1>21. CASE DoesSaveSnapshot(d)
    BY <1>f, <1>21 DEF DoesSaveSnapshot, SameRow, SameAgents, SameVault, SameNetwork, RunEnds, Row
  <1>22. CASE DoesPassFails(d)
    BY <1>f, <1>22 DEF DoesPassFails, SameRow, SameAgents, SameVault, RunEnds, GivesUp, Row
  <1> QED
    BY <1>1, <1>2, <1>3, <1>4, <1>5, <1>6, <1>7, <1>8, <1>9, <1>10, <1>11, <1>12, <1>13, <1>14,
       <1>15, <1>16, <1>17, <1>18, <1>19, <1>20, <1>21, <1>22
    DEF Does

(* Epochs stay in order.                                                   *)
LEMMA KeepsOrder ==
    ASSUME NEW d \in Device, Row, Typed(d), InOrder(d), Does(d)
    PROVE  InOrder(d)'
  <1>f. /\ epoch \in Nat /\ held[d] \in Nat /\ startedUnder[d] \in Nat /\ wire[d].epoch \in Nat
        /\ stray[d].epoch \in Nat /\ NoPut.epoch = 0 /\ InOrder(d)
    BY DEF Row, Typed, Numbers, Records, Put, NoPut
  <1>1. CASE DoesAcquire(d)
    BY <1>f, <1>1 DEF DoesAcquire, SameVault, SameEngine, SameNetwork, InOrder
  <1>2. CASE DoesRegrant(d)
    BY <1>f, <1>2 DEF DoesRegrant, SameVault, SameEngine, SameNetwork, InOrder
  <1>3. CASE DoesStartAgent(d)
    BY <1>f, <1>3 DEF DoesStartAgent, SameRow, SameEngine, SameNetwork, InOrder
  <1>4. CASE DoesAgentWrites(d)
    BY <1>f, <1>4 DEF DoesAgentWrites, SameRow, SameAgents, SameEngine, SameNetwork, InOrder
  <1>5. CASE DoesLoseLease(d)
    BY <1>f, <1>5 DEF DoesLoseLease, SameRow, SameVault, SameEngine, SameNetwork, InOrder
  <1>6. CASE DoesWindDown(d)
    BY <1>f, <1>6 DEF DoesWindDown, SameRow, SameVault, SameEngine, SameNetwork, InOrder
  <1>7. CASE DoesStopped(d)
    BY <1>f, <1>7 DEF DoesStopped, SameEngine, SameNetwork, InOrder
  <1>8. CASE DoesCrash(d)
    BY <1>f, <1>8 DEF DoesCrash, SameRow, GivesUp, InOrder
  <1>9. CASE DoesBeginPass(d)
    BY <1>f, <1>9 DEF DoesBeginPass, SameRow, SameAgents, SameVault, SameNetwork, InOrder
  <1>10. CASE DoesSkip(d)
    BY <1>f, <1>10 DEF DoesSkip, SameRow, SameAgents, SameVault, SameNetwork, PathEnds, RunEnds,
        InOrder
  <1>11. CASE DoesFetch(d)
    BY <1>f, <1>11 DEF DoesFetch, SameRow, SameAgents, SameVault, SameNetwork, InOrder
  <1>12. CASE DoesPull(d)
    BY <1>f, <1>12 DEF DoesPull, SameRow, SameAgents, SameNetwork, RunEnds, PathEnds, InOrder
  <1>13. CASE DoesYield(d)
    BY <1>f, <1>13 DEF DoesYield, SameRow, SameAgents, SameNetwork, PathEnds, RunEnds, InOrder
  <1>14. CASE DoesPush(d)
    BY <1>f, <1>14 DEF DoesPush, SameRow, SameAgents, SameVault, Sends, InOrder, FenceEpoch
  <1>15. CASE DoesReconcile(d)
    <2>1. CASE seen[d].ours = seen[d].theirs /\ PathEnds(d, seen[d].ours) /\ SameNetwork(d)
      BY <1>f, <1>15, <2>1 DEF DoesReconcile, SameRow, SameAgents, PathEnds, RunEnds, SameNetwork,
          InOrder, FenceEpoch
    <2>2. CASE base'[d] = base[d] /\ saved'[d] = saved[d] /\ RunEnds(d, FALSE) /\ SameNetwork(d)
      BY <1>f, <1>15, <2>2 DEF DoesReconcile, SameRow, SameAgents, RunEnds, SameNetwork, InOrder,
          FenceEpoch
    <2>3. CASE Sends(d, seen[d].ours, seen[d].theirs)
      BY <1>f, <1>15, <2>3 DEF DoesReconcile, SameRow, SameAgents, Sends, InOrder, FenceEpoch
    <2>4. CASE Sends(d, Merged(seen[d].ours, seen[d].theirs), seen[d].theirs)
      BY <1>f, <1>15, <2>4 DEF DoesReconcile, SameRow, SameAgents, Sends, InOrder, FenceEpoch
    <2> QED
      BY <1>15, <2>1, <2>2, <2>3, <2>4 DEF DoesReconcile
  <1>16. CASE DoesServePut(d)
    BY <1>f, <1>16 DEF DoesServePut, SameRow, SameAgents, SameVault, SameEngine, InOrder
  <1>17. CASE DoesServeStray(d)
    BY <1>f, <1>17 DEF DoesServeStray, SameRow, SameAgents, SameVault, SameEngine, InOrder
  <1>18. CASE DoesStored(d)
    BY <1>f, <1>18 DEF DoesStored, SameRow, SameAgents, SameVault, PathEnds, RunEnds, InOrder
  <1>19. CASE DoesConflict(d)
    BY <1>f, <1>19 DEF DoesConflict, SameRow, SameAgents, SameVault, RunEnds, InOrder
  <1>20. CASE DoesStale(d)
    BY <1>f, <1>20 DEF DoesStale, SameRow, SameAgents, SameVault, InOrder
  <1>21. CASE DoesSaveSnapshot(d)
    BY <1>f, <1>21 DEF DoesSaveSnapshot, SameRow, SameAgents, SameVault, SameNetwork, RunEnds,
        InOrder
  <1>22. CASE DoesPassFails(d)
    <2>1. /\ wire'[d] = NoPut /\ (stray'[d] = stray[d] \/ stray'[d] = wire[d])
          /\ SameRow /\ SameAgents(d) /\ (takeover'[d] # "no" => takeover[d] # "no")
      BY <1>22 DEF DoesPassFails, GivesUp, RunEnds
    <2>2. CASE stray'[d] = stray[d]
      BY <1>f, <2>1, <2>2 DEF SameRow, SameAgents, InOrder
    <2>3. CASE stray'[d] = wire[d]
      BY <1>f, <2>1, <2>3 DEF SameRow, SameAgents, InOrder
    <2> QED
      BY <2>1, <2>2, <2>3
  <1> QED
    BY <1>1, <1>2, <1>3, <1>4, <1>5, <1>6, <1>7, <1>8, <1>9, <1>10, <1>11, <1>12, <1>13, <1>14,
       <1>15, <1>16, <1>17, <1>18, <1>19, <1>20, <1>21, <1>22
    DEF Does

(* What was read stays there, as long as the service loses nothing.        *)
LEMMA KeepsSource ==
    ASSUME NEW d \in Device, Row, Typed(d), FromServer(d), server \subseteq server', Does(d)
    PROVE  FromServer(d)'
  <1>f. /\ FromServer(d) /\ server \subseteq server' /\ Unseen.ours = {} /\ Unseen.theirs = {}
        /\ (wire[d] # NoPut \/ answer[d] # "none" => pass[d] = "sent")
        /\ (answer[d] # "none" => wire[d] = NoPut)
    BY DEF Typed, Stages, Unseen, Absent
  <1>1. CASE DoesAcquire(d)
    BY <1>f, <1>1 DEF DoesAcquire, SameVault, SameEngine, SameNetwork, FromServer
  <1>2. CASE DoesRegrant(d)
    BY <1>f, <1>2 DEF DoesRegrant, SameVault, SameEngine, SameNetwork, FromServer
  <1>3. CASE DoesStartAgent(d)
    BY <1>f, <1>3 DEF DoesStartAgent, SameRow, SameEngine, SameNetwork, FromServer
  <1>4. CASE DoesAgentWrites(d)
    BY <1>f, <1>4 DEF DoesAgentWrites, SameRow, SameAgents, SameEngine, SameNetwork, FromServer
  <1>5. CASE DoesLoseLease(d)
    BY <1>f, <1>5 DEF DoesLoseLease, SameRow, SameVault, SameEngine, SameNetwork, FromServer
  <1>6. CASE DoesWindDown(d)
    BY <1>f, <1>6 DEF DoesWindDown, SameRow, SameVault, SameEngine, SameNetwork, FromServer
  <1>7. CASE DoesStopped(d)
    BY <1>f, <1>7 DEF DoesStopped, SameEngine, SameNetwork, FromServer
  <1>8. CASE DoesCrash(d)
    BY <1>f, <1>8 DEF DoesCrash, SameRow, GivesUp, FromServer
  <1>9. CASE DoesBeginPass(d)
    <2>1. seen'[d] = [ours |-> local[d], theirs |-> server]
      BY <1>9 DEF DoesBeginPass
    <2>2. /\ UNCHANGED <<base[d], saved[d], wire[d], stray[d], answer[d], server>>
          /\ pass[d] = "idle" /\ pass'[d] = "listed"
      BY <1>9 DEF DoesBeginPass, SameNetwork
    <2> QED
      BY <1>f, <2>1, <2>2 DEF FromServer
  <1>10. CASE DoesSkip(d)
    BY <1>f, <1>10 DEF DoesSkip, SameRow, SameAgents, SameVault, SameNetwork, PathEnds, RunEnds,
        FromServer
  <1>11. CASE DoesFetch(d)
    BY <1>f, <1>11 DEF DoesFetch, SameRow, SameAgents, SameVault, SameNetwork, FromServer, Absent
  <1>12. CASE DoesPull(d)
    BY <1>f, <1>12 DEF DoesPull, SameRow, SameAgents, SameNetwork, RunEnds, PathEnds, FromServer
  <1>13. CASE DoesYield(d)
    BY <1>f, <1>13 DEF DoesYield, SameRow, SameAgents, SameNetwork, PathEnds, RunEnds, FromServer
  <1>14. CASE DoesPush(d)
    BY <1>f, <1>14 DEF DoesPush, SameRow, SameAgents, SameVault, Sends, FromServer, Absent
  <1>15. CASE DoesReconcile(d)
    <2>1. CASE seen[d].ours = seen[d].theirs /\ PathEnds(d, seen[d].ours) /\ SameNetwork(d)
      BY <1>f, <1>15, <2>1 DEF DoesReconcile, SameRow, SameAgents, PathEnds, RunEnds, SameNetwork,
          FromServer, Absent
    <2>2. CASE base'[d] = base[d] /\ saved'[d] = saved[d] /\ RunEnds(d, FALSE) /\ SameNetwork(d)
      BY <1>f, <1>15, <2>2 DEF DoesReconcile, SameRow, SameAgents, RunEnds, SameNetwork,
          FromServer, Absent
    <2>3. CASE Sends(d, seen[d].ours, seen[d].theirs)
      BY <1>f, <1>15, <2>3 DEF DoesReconcile, SameRow, SameAgents, Sends, FromServer, Absent
    <2>4. CASE Sends(d, Merged(seen[d].ours, seen[d].theirs), seen[d].theirs)
      BY <1>f, <1>15, <2>4 DEF DoesReconcile, SameRow, SameAgents, Sends, FromServer, Absent
    <2> QED
      BY <1>15, <2>1, <2>2, <2>3, <2>4 DEF DoesReconcile
  <1>16. CASE DoesServePut(d)
    BY <1>f, <1>16 DEF DoesServePut, SameRow, SameAgents, SameVault, SameEngine, FromServer
  <1>17. CASE DoesServeStray(d)
    BY <1>f, <1>17 DEF DoesServeStray, SameRow, SameAgents, SameVault, SameEngine, FromServer
  <1>18. CASE DoesStored(d)
    BY <1>f, <1>18 DEF DoesStored, SameRow, SameAgents, SameVault, PathEnds, RunEnds, FromServer
  <1>19. CASE DoesConflict(d)
    BY <1>f, <1>19 DEF DoesConflict, SameRow, SameAgents, SameVault, RunEnds, FromServer
  <1>20. CASE DoesStale(d)
    BY <1>f, <1>20 DEF DoesStale, SameRow, SameAgents, SameVault, FromServer, Absent
  <1>21. CASE DoesSaveSnapshot(d)
    BY <1>f, <1>21 DEF DoesSaveSnapshot, SameRow, SameAgents, SameVault, SameNetwork, RunEnds,
        FromServer
  <1>22. CASE DoesPassFails(d)
    BY <1>f, <1>22 DEF DoesPassFails, SameRow, SameAgents, SameVault, RunEnds, GivesUp, FromServer
  <1> QED
    BY <1>1, <1>2, <1>3, <1>4, <1>5, <1>6, <1>7, <1>8, <1>9, <1>10, <1>11, <1>12, <1>13, <1>14,
       <1>15, <1>16, <1>17, <1>18, <1>19, <1>20, <1>21, <1>22
    DEF Does

-----------------------------------------------------------------------------
(* The handover, and a journal's growth.                                    *)

(* A PUT sent under the current grant keeps what it replaces.              *)
LEMMA KeepsPuts ==
    ASSUME NEW d \in Device, Row, Typed(d), InOrder(d), FromServer(d), live => epoch >= 1,
           Keeps(d, wire[d]), Keeps(d, stray[d]), Commands(d), Does(d)
    PROVE  Keeps(d, wire[d])' /\ Keeps(d, stray[d])'
  <1>f. /\ epoch \in Nat /\ held[d] \in Nat /\ startedUnder[d] \in Nat /\ wire[d].epoch \in Nat
        /\ stray[d].epoch \in Nat /\ NoPut.epoch = 0 /\ NoPut.content = {} /\ NoPut.ifMatch = {}
        /\ Unseen.ours = {} /\ Unseen.theirs = {} /\ Absent = {} /\ (live => epoch >= 1)
        /\ (wire[d] # NoPut \/ answer[d] # "none" => pass[d] = "sent")
        /\ (answer[d] # "none" => wire[d] = NoPut)
    BY DEF Row, Typed, Numbers, Records, Put, NoPut, Stages, Unseen, Absent
  <1>g. Keeps(d, wire[d]) /\ Keeps(d, stray[d]) /\ Commands(d) /\ InOrder(d) /\ FromServer(d)
    OBVIOUS
  <1>1. CASE DoesAcquire(d)
    BY <1>f, <1>g, <1>1 DEF DoesAcquire, SameVault, SameEngine, SameNetwork, Keeps, Granted, InOrder
  <1>2. CASE DoesRegrant(d)
    BY <1>f, <1>g, <1>2 DEF DoesRegrant, SameVault, SameEngine, SameNetwork, Keeps, Granted, InOrder
  <1>3. CASE DoesStartAgent(d)
    BY <1>f, <1>g, <1>3 DEF DoesStartAgent, SameRow, SameEngine, SameNetwork, Keeps, Granted, InOrder
  <1>4. CASE DoesAgentWrites(d)
    BY <1>f, <1>g, <1>4 DEF DoesAgentWrites, SameRow, SameAgents, SameEngine, SameNetwork, Keeps,
        Granted, InOrder
  <1>5. CASE DoesLoseLease(d)
    BY <1>f, <1>g, <1>5 DEF DoesLoseLease, SameRow, SameVault, SameEngine, SameNetwork, Keeps, Granted,
        InOrder
  <1>6. CASE DoesWindDown(d)
    BY <1>f, <1>g, <1>6 DEF DoesWindDown, SameRow, SameVault, SameEngine, SameNetwork, Keeps, Granted,
        InOrder
  <1>7. CASE DoesStopped(d)
    BY <1>f, <1>g, <1>7 DEF DoesStopped, SameEngine, SameNetwork, Keeps, Granted, InOrder
  <1>8. CASE DoesCrash(d)
    BY <1>f, <1>g, <1>8 DEF DoesCrash, SameRow, GivesUp, Keeps, Granted, InOrder
  <1>9. CASE DoesBeginPass(d)
    BY <1>f, <1>g, <1>9 DEF DoesBeginPass, SameRow, SameAgents, SameVault, SameNetwork, Keeps, Granted,
        InOrder
  <1>10. CASE DoesSkip(d)
    BY <1>f, <1>g, <1>10 DEF DoesSkip, SameRow, SameAgents, SameVault, SameNetwork, PathEnds, RunEnds,
        Keeps, Granted, InOrder
  <1>11. CASE DoesFetch(d)
    BY <1>f, <1>g, <1>11 DEF DoesFetch, SameRow, SameAgents, SameVault, SameNetwork, Keeps, Granted,
        InOrder
  <1>12. CASE DoesPull(d)
    BY <1>f, <1>g, <1>12 DEF DoesPull, SameRow, SameAgents, SameNetwork, RunEnds, PathEnds, Keeps,
        Granted, InOrder
  <1>13. CASE DoesYield(d)
    BY <1>f, <1>g, <1>13 DEF DoesYield, SameRow, SameAgents, SameNetwork, PathEnds, RunEnds, Keeps,
        Granted, InOrder
  <1>14. CASE DoesPush(d)
    BY <1>f, <1>g, <1>14 DEF DoesPush, SameRow, SameAgents, SameVault, Sends, Keeps, Granted, InOrder,
        Commands, FenceEpoch, FromServer, Merged
  <1>15. CASE DoesReconcile(d)
    <2>1. CASE seen[d].ours = seen[d].theirs /\ PathEnds(d, seen[d].ours) /\ SameNetwork(d)
      BY <1>f, <1>g, <1>15, <2>1 DEF DoesReconcile, SameRow, SameAgents, PathEnds, RunEnds, SameNetwork,
          Keeps, Granted, InOrder, Commands, FenceEpoch, FromServer, Merged
    <2>2. CASE base'[d] = base[d] /\ saved'[d] = saved[d] /\ RunEnds(d, FALSE) /\ SameNetwork(d)
      BY <1>f, <1>g, <1>15, <2>2 DEF DoesReconcile, SameRow, SameAgents, RunEnds, SameNetwork, Keeps,
          Granted, InOrder, Commands, FenceEpoch, FromServer, Merged
    <2>3. CASE Sends(d, seen[d].ours, seen[d].theirs)
      BY <1>f, <1>g, <1>15, <2>3 DEF DoesReconcile, SameRow, SameAgents, Sends, Keeps, Granted, InOrder,
          Commands, FenceEpoch, FromServer, Merged
    <2>4. CASE Sends(d, Merged(seen[d].ours, seen[d].theirs), seen[d].theirs)
      BY <1>f, <1>g, <1>15, <2>4 DEF DoesReconcile, SameRow, SameAgents, Sends, Keeps, Granted, InOrder,
          Commands, FenceEpoch, FromServer, Merged
    <2> QED
      BY <1>15, <2>1, <2>2, <2>3, <2>4 DEF DoesReconcile
  <1>16. CASE DoesServePut(d)
    BY <1>f, <1>g, <1>16 DEF DoesServePut, SameRow, SameAgents, SameVault, SameEngine, Keeps, Granted,
        InOrder
  <1>17. CASE DoesServeStray(d)
    BY <1>f, <1>g, <1>17 DEF DoesServeStray, SameRow, SameAgents, SameVault, SameEngine, Keeps, Granted,
        InOrder
  <1>18. CASE DoesStored(d)
    BY <1>f, <1>g, <1>18 DEF DoesStored, SameRow, SameAgents, SameVault, PathEnds, RunEnds, Keeps,
        Granted, InOrder
  <1>19. CASE DoesConflict(d)
    BY <1>f, <1>g, <1>19 DEF DoesConflict, SameRow, SameAgents, SameVault, RunEnds, Keeps, Granted,
        InOrder
  <1>20. CASE DoesStale(d)
    BY <1>f, <1>g, <1>20 DEF DoesStale, SameRow, SameAgents, SameVault, Keeps, Granted, InOrder
  <1>21. CASE DoesSaveSnapshot(d)
    BY <1>f, <1>g, <1>21 DEF DoesSaveSnapshot, SameRow, SameAgents, SameVault, SameNetwork, RunEnds,
        Keeps, Granted, InOrder
  <1>22. CASE DoesPassFails(d)
    BY <1>f, <1>g, <1>22 DEF DoesPassFails, SameRow, SameAgents, SameVault, RunEnds, GivesUp, Keeps,
        Granted, InOrder
  <1> QED
    BY <1>1, <1>2, <1>3, <1>4, <1>5, <1>6, <1>7, <1>8, <1>9, <1>10, <1>11, <1>12, <1>13, <1>14,
       <1>15, <1>16, <1>17, <1>18, <1>19, <1>20, <1>21, <1>22
    DEF Does

(* The pass of a takeover ends with the service's copy.                    *)
LEMMA KeepsTakeover ==
    ASSUME NEW d \in Device, Row, Typed(d), InOrder(d), FromServer(d), live => epoch >= 1,
           server \subseteq server', Keeps(d, wire[d]), Keeps(d, stray[d]), TakesOver(d), Does(d)
    PROVE  TakesOver(d)'
  <1>f. /\ epoch \in Nat /\ held[d] \in Nat /\ startedUnder[d] \in Nat /\ wire[d].epoch \in Nat
        /\ stray[d].epoch \in Nat /\ NoPut.epoch = 0 /\ NoPut.content = {} /\ NoPut.ifMatch = {}
        /\ Unseen.ours = {} /\ Unseen.theirs = {} /\ Absent = {} /\ (live => epoch >= 1)
        /\ (wire[d] # NoPut \/ answer[d] # "none" => pass[d] = "sent")
        /\ (answer[d] # "none" => wire[d] = NoPut)
    BY DEF Row, Typed, Numbers, Records, Put, NoPut, Stages, Unseen, Absent
  <1>g. TakesOver(d) /\ server \subseteq server' /\ InOrder(d) /\ FromServer(d)
    OBVIOUS
  <1>1. CASE DoesAcquire(d)
    BY <1>f, <1>g, <1>1 DEF DoesAcquire, SameVault, SameEngine, SameNetwork, TakesOver, Granted,
        Current, InOrder, FromServer
  <1>2. CASE DoesRegrant(d)
    BY <1>f, <1>g, <1>2 DEF DoesRegrant, SameVault, SameEngine, SameNetwork, TakesOver, Granted,
        Current, InOrder, FromServer
  <1>3. CASE DoesStartAgent(d)
    BY <1>f, <1>g, <1>3 DEF DoesStartAgent, SameRow, SameEngine, SameNetwork, TakesOver, Granted,
        Current, InOrder, FromServer
  <1>4. CASE DoesAgentWrites(d)
    BY <1>f, <1>g, <1>4 DEF DoesAgentWrites, SameRow, SameAgents, SameEngine, SameNetwork, TakesOver,
        Granted, Current, InOrder, FromServer
  <1>5. CASE DoesLoseLease(d)
    BY <1>f, <1>g, <1>5 DEF DoesLoseLease, SameRow, SameVault, SameEngine, SameNetwork, TakesOver,
        Granted, Current, InOrder, FromServer
  <1>6. CASE DoesWindDown(d)
    BY <1>f, <1>g, <1>6 DEF DoesWindDown, SameRow, SameVault, SameEngine, SameNetwork, TakesOver,
        Granted, Current, InOrder, FromServer
  <1>7. CASE DoesStopped(d)
    BY <1>f, <1>g, <1>7 DEF DoesStopped, SameEngine, SameNetwork, TakesOver, Granted, Current, InOrder,
        FromServer
  <1>8. CASE DoesCrash(d)
    BY <1>f, <1>g, <1>8 DEF DoesCrash, SameRow, GivesUp, TakesOver, Granted, Current, InOrder,
        FromServer
  <1>9. CASE DoesBeginPass(d)
    <2>1. seen'[d] = [ours |-> local[d], theirs |-> server]
      BY <1>9 DEF DoesBeginPass
    <2>2. /\ SameRow /\ SameAgents(d) /\ SameVault(d) /\ SameNetwork(d) /\ server' = server
          /\ pass'[d] = "listed" /\ base'[d] = base[d] /\ saved'[d] = saved[d]
          /\ (takeover'[d] = "done" => phase[d] = "taking" /\ takeover[d] = "done")
      BY <1>g, <1>9 DEF DoesBeginPass, InOrder
    <2>3. seen'[d].ours = local[d] /\ seen'[d].theirs = server
      BY <2>1
    <2>4. (Granted(d)' => Granted(d)) /\ (Current(d) => Current(d)')
      BY <2>2 DEF Granted, Current, SameRow, SameAgents, SameVault
    <2>5. local'[d] = local[d] /\ phase'[d] = phase[d]
      BY <2>2 DEF SameVault, SameAgents
    <2> QED
      BY <1>g, <2>2, <2>3, <2>4, <2>5 DEF TakesOver
  <1>10. CASE DoesSkip(d)
    BY <1>f, <1>g, <1>10 DEF DoesSkip, SameRow, SameAgents, SameVault, SameNetwork, PathEnds, RunEnds,
        TakesOver, Granted, Current, InOrder, FromServer
  <1>11. CASE DoesFetch(d)
    <2>1. ASSUME Granted(d), phase[d] = "taking", takeover[d] # "no" PROVE FenceEpoch(d) = 0
      BY <1>f, <1>g, <1>g, <2>1 DEF Granted, InOrder, FenceEpoch
    <2>2. /\ SameRow /\ SameAgents(d) /\ SameVault(d) /\ server' = server /\ pass[d] = "listed"
          /\ base'[d] = base[d] /\ takeover'[d] = takeover[d] /\ seen'[d].theirs = server
      BY <1>11 DEF DoesFetch
    <2>3. CASE FenceEpoch(d) # 0 /\ pass'[d] = "reconciling"
      BY <1>g, <2>1, <2>2, <2>3 DEF TakesOver, Granted, SameRow, SameAgents
    <2>4. CASE FenceEpoch(d) = 0 /\ seen[d].ours # base[d] /\ pass'[d] = "yielding"
      BY <1>g, <2>2, <2>4 DEF TakesOver, Granted, Current, SameRow, SameAgents, SameVault
    <2>5. CASE seen[d].theirs # base[d] /\ pass'[d] = "pulling"
      BY <1>g, <2>2, <2>5 DEF TakesOver, Granted, Current, SameRow, SameAgents, SameVault
    <2> QED
      BY <1>11, <2>3, <2>4, <2>5 DEF DoesFetch
  <1>12. CASE DoesPull(d)
    BY <1>f, <1>g, <1>12 DEF DoesPull, SameRow, SameAgents, SameNetwork, RunEnds, PathEnds, TakesOver,
        Granted, Current, InOrder, FromServer
  <1>13. CASE DoesYield(d)
    BY <1>f, <1>g, <1>13 DEF DoesYield, SameRow, SameAgents, SameNetwork, PathEnds, RunEnds, TakesOver,
        Granted, Current, InOrder, FromServer
  <1>14. CASE DoesPush(d)
    BY <1>f, <1>g, <1>14 DEF DoesPush, SameRow, SameAgents, SameVault, Sends, TakesOver, Granted,
        Current, InOrder, FromServer, FenceEpoch
  <1>15. CASE DoesReconcile(d)
    <2>1. CASE seen[d].ours = seen[d].theirs /\ PathEnds(d, seen[d].ours) /\ SameNetwork(d)
      BY <1>f, <1>g, <1>15, <2>1 DEF DoesReconcile, SameRow, SameAgents, PathEnds, RunEnds, SameNetwork,
          TakesOver, Granted, Current, InOrder, FromServer, FenceEpoch
    <2>2. CASE base'[d] = base[d] /\ saved'[d] = saved[d] /\ RunEnds(d, FALSE) /\ SameNetwork(d)
      BY <1>f, <1>g, <1>15, <2>2 DEF DoesReconcile, SameRow, SameAgents, RunEnds, SameNetwork,
          TakesOver, Granted, Current, InOrder, FromServer, FenceEpoch
    <2>3. CASE Sends(d, seen[d].ours, seen[d].theirs)
      BY <1>f, <1>g, <1>15, <2>3 DEF DoesReconcile, SameRow, SameAgents, Sends, TakesOver, Granted,
          Current, InOrder, FromServer, FenceEpoch
    <2>4. CASE Sends(d, Merged(seen[d].ours, seen[d].theirs), seen[d].theirs)
      BY <1>f, <1>g, <1>15, <2>4 DEF DoesReconcile, SameRow, SameAgents, Sends, TakesOver, Granted,
          Current, InOrder, FromServer, FenceEpoch
    <2> QED
      BY <1>15, <2>1, <2>2, <2>3, <2>4 DEF DoesReconcile
  <1>16. CASE DoesServePut(d)
    BY <1>f, <1>g, <1>16 DEF DoesServePut, SameRow, SameAgents, SameVault, SameEngine, TakesOver,
        Granted, Current, InOrder, FromServer, Admitted, Accepted
  <1>17. CASE DoesServeStray(d)
    <2>1. /\ SameRow /\ SameAgents(d) /\ SameVault(d) /\ SameEngine(d) /\ takeover'[d] = takeover[d]
      BY <1>17 DEF DoesServeStray
    <2>2. ASSUME Granted(d), phase[d] = "taking" PROVE server' = server
      BY <1>f, <1>g, <1>g, <1>17, <2>2 DEF DoesServeStray, Accepted, Admitted, Granted, InOrder
    <2> QED
      BY <1>g, <2>1, <2>2
      DEF TakesOver, Granted, Current, SameRow, SameAgents, SameVault, SameEngine
  <1>18. CASE DoesStored(d)
    BY <1>f, <1>g, <1>18 DEF DoesStored, SameRow, SameAgents, SameVault, PathEnds, RunEnds, TakesOver,
        Granted, Current, InOrder, FromServer
  <1>19. CASE DoesConflict(d)
    BY <1>f, <1>g, <1>19 DEF DoesConflict, SameRow, SameAgents, SameVault, RunEnds, TakesOver, Granted,
        Current, InOrder, FromServer
  <1>20. CASE DoesStale(d)
    BY <1>f, <1>g, <1>20 DEF DoesStale, SameRow, SameAgents, SameVault, TakesOver, Granted, Current,
        InOrder, FromServer
  <1>21. CASE DoesSaveSnapshot(d)
    BY <1>f, <1>g, <1>21 DEF DoesSaveSnapshot, SameRow, SameAgents, SameVault, SameNetwork, RunEnds,
        TakesOver, Granted, Current, InOrder, FromServer
  <1>22. CASE DoesPassFails(d)
    BY <1>f, <1>g, <1>22 DEF DoesPassFails, SameRow, SameAgents, SameVault, RunEnds, GivesUp, TakesOver,
        Granted, Current, InOrder, FromServer
  <1> QED
    BY <1>1, <1>2, <1>3, <1>4, <1>5, <1>6, <1>7, <1>8, <1>9, <1>10, <1>11, <1>12, <1>13, <1>14,
       <1>15, <1>16, <1>17, <1>18, <1>19, <1>20, <1>21, <1>22
    DEF Does

(* The agent starts with all the service has, and nothing is taken from it.*)
LEMMA KeepsCommand ==
    ASSUME NEW d \in Device, Row, Typed(d), InOrder(d), FromServer(d), live => epoch >= 1,
           ~ BestEffort, server \subseteq server', TakesOver(d), Commands(d), Does(d)
    PROVE  Commands(d)'
  <1>f. /\ epoch \in Nat /\ held[d] \in Nat /\ startedUnder[d] \in Nat /\ wire[d].epoch \in Nat
        /\ stray[d].epoch \in Nat /\ NoPut.epoch = 0 /\ NoPut.content = {} /\ NoPut.ifMatch = {}
        /\ Unseen.ours = {} /\ Unseen.theirs = {} /\ Absent = {} /\ (live => epoch >= 1)
        /\ (wire[d] # NoPut \/ answer[d] # "none" => pass[d] = "sent")
        /\ (answer[d] # "none" => wire[d] = NoPut)
    BY DEF Row, Typed, Numbers, Records, Put, NoPut, Stages, Unseen, Absent
  <1>g. /\ TakesOver(d) /\ Commands(d) /\ ~ BestEffort /\ server \subseteq server'
        /\ InOrder(d) /\ FromServer(d)
    OBVIOUS
  <1>1. CASE DoesAcquire(d)
    BY <1>f, <1>g, <1>1 DEF DoesAcquire, SameVault, SameEngine, SameNetwork, Commands, Granted, InOrder,
        FromServer
  <1>2. CASE DoesRegrant(d)
    BY <1>f, <1>g, <1>2 DEF DoesRegrant, SameVault, SameEngine, SameNetwork, Commands, Granted, InOrder,
        FromServer
  <1>3. CASE DoesStartAgent(d)
    <2>1. /\ phase[d] = "taking" /\ takeover[d] = "done" /\ held'[d] = held[d]
          /\ local'[d] = local[d] /\ server' = server /\ SameRow /\ SameEngine(d) /\ SameNetwork(d)
      BY <1>g, <1>3 DEF DoesStartAgent
    <2>2. ASSUME Granted(d)
          PROVE  /\ pass[d] \notin {"reconciling", "sent"} /\ Current(d)
                 /\ (pass[d] = "yielding" => seen[d].theirs = server /\ server = Absent)
      BY <1>g, <2>1, <2>2 DEF TakesOver
    <2>3. ASSUME Granted(d), NEW put \in {wire[d], stray[d]} PROVE put.epoch # epoch
      BY <1>f, <1>g, <1>g, <2>1, <2>3 DEF Granted, InOrder
    <2>4. Granted(d)' => Granted(d)
      BY <2>1 DEF Granted, SameRow
    <2>5. ASSUME Granted(d) PROVE server \subseteq local[d]
      BY <1>f, <1>g, <2>2, <2>5 DEF Current
    <2> QED
      BY <2>1, <2>2, <2>3, <2>4, <2>5 DEF Commands, SameRow, SameEngine, SameNetwork
  <1>4. CASE DoesAgentWrites(d)
    BY <1>f, <1>g, <1>4 DEF DoesAgentWrites, SameRow, SameAgents, SameEngine, SameNetwork, Commands,
        Granted, InOrder, FromServer
  <1>5. CASE DoesLoseLease(d)
    BY <1>f, <1>g, <1>5 DEF DoesLoseLease, SameRow, SameVault, SameEngine, SameNetwork, Commands,
        Granted, InOrder, FromServer
  <1>6. CASE DoesWindDown(d)
    BY <1>f, <1>g, <1>6 DEF DoesWindDown, SameRow, SameVault, SameEngine, SameNetwork, Commands,
        Granted, InOrder, FromServer
  <1>7. CASE DoesStopped(d)
    BY <1>f, <1>g, <1>7 DEF DoesStopped, SameEngine, SameNetwork, Commands, Granted, InOrder, FromServer
  <1>8. CASE DoesCrash(d)
    BY <1>f, <1>g, <1>8 DEF DoesCrash, SameRow, GivesUp, Commands, Granted, InOrder, FromServer
  <1>9. CASE DoesBeginPass(d)
    BY <1>f, <1>g, <1>9 DEF DoesBeginPass, SameRow, SameAgents, SameVault, SameNetwork, Commands,
        Granted, InOrder, FromServer
  <1>10. CASE DoesSkip(d)
    BY <1>f, <1>g, <1>10 DEF DoesSkip, SameRow, SameAgents, SameVault, SameNetwork, PathEnds, RunEnds,
        Commands, Granted, InOrder, FromServer
  <1>11. CASE DoesFetch(d)
    BY <1>f, <1>g, <1>11 DEF DoesFetch, SameRow, SameAgents, SameVault, SameNetwork, Commands, Granted,
        InOrder, FromServer, FenceEpoch, Merged
  <1>12. CASE DoesPull(d)
    BY <1>f, <1>g, <1>12 DEF DoesPull, SameRow, SameAgents, SameNetwork, RunEnds, PathEnds, Commands,
        Granted, InOrder, FromServer
  <1>13. CASE DoesYield(d)
    BY <1>f, <1>g, <1>13 DEF DoesYield, SameRow, SameAgents, SameNetwork, PathEnds, RunEnds, Commands,
        Granted, InOrder, FromServer
  <1>14. CASE DoesPush(d)
    BY <1>f, <1>g, <1>14 DEF DoesPush, SameRow, SameAgents, SameVault, Sends, Commands, Granted,
        InOrder, FromServer, FenceEpoch, Merged
  <1>15. CASE DoesReconcile(d)
    <2> DEFINE ours == seen[d].ours
               theirs == seen[d].theirs
    <2>0. /\ pass[d] = "reconciling" /\ SameRow /\ SameAgents(d) /\ server' = server
      BY <1>15 DEF DoesReconcile
    <2>1. CASE ours = theirs /\ PathEnds(d, ours) /\ SameNetwork(d) /\ local'[d] = local[d]
      BY <1>f, <1>g, <1>g, <2>0, <2>1
      DEF SameRow, SameAgents, PathEnds, RunEnds, SameNetwork, Commands, Granted
    <2>2. CASE RunEnds(d, FALSE) /\ SameNetwork(d) /\ local'[d] = local[d]
      BY <1>f, <1>g, <1>g, <2>0, <2>2 DEF SameRow, SameAgents, RunEnds, SameNetwork, Commands, Granted
    <2>3. ASSUME NEW content, Sends(d, content, theirs), Granted(d), startedUnder[d] = held[d],
                 content = ours, local'[d] = local[d]
          PROVE  Commands(d)'
      <3>1. /\ wire'[d].content = ours /\ wire'[d].epoch = FenceEpoch(d) /\ stray'[d] = stray[d]
            /\ pass'[d] = "sent" /\ answer'[d] = answer[d]
        BY <2>3 DEF Sends
      <3>2. /\ ours \subseteq local[d] /\ server \subseteq local[d]
            /\ FenceEpoch(d) = epoch /\ answer[d] = "none"
        BY <1>f, <1>g, <1>g, <2>0, <2>3 DEF Commands, FenceEpoch, Granted, Typed, Stages
      <3>3. stray[d].epoch = epoch => stray[d].content \subseteq local[d]
        BY <1>g, <2>3 DEF Commands
      <3> QED
        BY <2>0, <2>3, <3>1, <3>2, <3>3 DEF Commands, SameRow, SameAgents
    <2>4. ASSUME Granted(d), startedUnder[d] = held[d] PROVE Merged(ours, theirs) = ours
      BY <1>g, <2>0, <2>4 DEF Commands, Merged
    <2>5. Granted(d)' /\ startedUnder'[d] = held'[d] => Granted(d) /\ startedUnder[d] = held[d]
      BY <2>0 DEF Granted, SameRow, SameAgents
    <2>6. CASE /\ Sends(d, ours, theirs) /\ local'[d] = local[d]
      BY <2>3, <2>5, <2>6 DEF Commands
    <2>7. CASE /\ Sends(d, Merged(ours, theirs), theirs) /\ local[d] = ours
               /\ local'[d] = Merged(ours, theirs)
      BY <2>3, <2>4, <2>5, <2>7 DEF Commands
    <2> QED
      BY <1>15, <2>1, <2>2, <2>6, <2>7 DEF DoesReconcile
  <1>16. CASE DoesServePut(d)
    BY <1>f, <1>g, <1>16 DEF DoesServePut, SameRow, SameAgents, SameVault, SameEngine, Commands,
        Granted, InOrder, FromServer, Admitted, Accepted
  <1>17. CASE DoesServeStray(d)
    BY <1>f, <1>g, <1>17 DEF DoesServeStray, SameRow, SameAgents, SameVault, SameEngine, Commands,
        Granted, InOrder, FromServer, Admitted, Accepted
  <1>18. CASE DoesStored(d)
    BY <1>f, <1>g, <1>18 DEF DoesStored, SameRow, SameAgents, SameVault, PathEnds, RunEnds, Commands,
        Granted, InOrder, FromServer
  <1>19. CASE DoesConflict(d)
    BY <1>f, <1>g, <1>19 DEF DoesConflict, SameRow, SameAgents, SameVault, RunEnds, Commands, Granted,
        InOrder, FromServer
  <1>20. CASE DoesStale(d)
    BY <1>f, <1>g, <1>20 DEF DoesStale, SameRow, SameAgents, SameVault, Commands, Granted, InOrder,
        FromServer
  <1>21. CASE DoesSaveSnapshot(d)
    BY <1>f, <1>g, <1>21 DEF DoesSaveSnapshot, SameRow, SameAgents, SameVault, SameNetwork, RunEnds,
        Commands, Granted, InOrder, FromServer
  <1>22. CASE DoesPassFails(d)
    BY <1>f, <1>g, <1>22 DEF DoesPassFails, SameRow, SameAgents, SameVault, RunEnds, GivesUp, Commands,
        Granted, InOrder, FromServer
  <1> QED
    BY <1>1, <1>2, <1>3, <1>4, <1>5, <1>6, <1>7, <1>8, <1>9, <1>10, <1>11, <1>12, <1>13, <1>14,
       <1>15, <1>16, <1>17, <1>18, <1>19, <1>20, <1>21, <1>22
    DEF Does

(* A journal only grows, whoever merges it.                                *)
LEMMA KeepsGrowing ==
    ASSUME NEW d \in Device, Row, Typed(d), InOrder(d), FromServer(d), live => epoch >= 1,
           Journal, server \subseteq server', Grows(d), Does(d)
    PROVE  Grows(d)'
  <1>f. /\ epoch \in Nat /\ held[d] \in Nat /\ startedUnder[d] \in Nat /\ wire[d].epoch \in Nat
        /\ stray[d].epoch \in Nat /\ NoPut.epoch = 0 /\ NoPut.content = {} /\ NoPut.ifMatch = {}
        /\ Unseen.ours = {} /\ Unseen.theirs = {} /\ Absent = {} /\ (live => epoch >= 1)
        /\ (wire[d] # NoPut \/ answer[d] # "none" => pass[d] = "sent")
        /\ (answer[d] # "none" => wire[d] = NoPut)
    BY DEF Row, Typed, Numbers, Records, Put, NoPut, Stages, Unseen, Absent
  <1>g. Grows(d) /\ Journal /\ InOrder(d) /\ server \subseteq server' /\ FromServer(d)
    OBVIOUS
  <1>1. CASE DoesAcquire(d)
    BY <1>f, <1>g, <1>1 DEF DoesAcquire, SameVault, SameEngine, SameNetwork, Grows, FromServer
  <1>2. CASE DoesRegrant(d)
    BY <1>f, <1>g, <1>2 DEF DoesRegrant, SameVault, SameEngine, SameNetwork, Grows, FromServer
  <1>3. CASE DoesStartAgent(d)
    BY <1>f, <1>g, <1>3 DEF DoesStartAgent, SameRow, SameEngine, SameNetwork, Grows, FromServer
  <1>4. CASE DoesAgentWrites(d)
    BY <1>f, <1>g, <1>4 DEF DoesAgentWrites, SameRow, SameAgents, SameEngine, SameNetwork, Grows,
        FromServer
  <1>5. CASE DoesLoseLease(d)
    BY <1>f, <1>g, <1>5 DEF DoesLoseLease, SameRow, SameVault, SameEngine, SameNetwork, Grows,
        FromServer
  <1>6. CASE DoesWindDown(d)
    BY <1>f, <1>g, <1>6 DEF DoesWindDown, SameRow, SameVault, SameEngine, SameNetwork, Grows, FromServer
  <1>7. CASE DoesStopped(d)
    BY <1>f, <1>g, <1>7 DEF DoesStopped, SameEngine, SameNetwork, Grows, FromServer
  <1>8. CASE DoesCrash(d)
    BY <1>f, <1>g, <1>8 DEF DoesCrash, SameRow, GivesUp, Grows, FromServer
  <1>9. CASE DoesBeginPass(d)
    <2>1. seen'[d] = [ours |-> local[d], theirs |-> server]
      BY <1>9 DEF DoesBeginPass
    <2>2. /\ SameRow /\ SameAgents(d) /\ SameVault(d) /\ SameNetwork(d) /\ server' = server
          /\ pass'[d] = "listed" /\ base'[d] = base[d] /\ saved'[d] = saved[d]
          /\ (takeover'[d] = "done" => phase[d] = "taking" /\ takeover[d] = "done")
      BY <1>g, <1>9 DEF DoesBeginPass, InOrder
    <2> QED
      BY <1>g, <2>1, <2>2 DEF Grows, FromServer, SameVault, SameNetwork
  <1>10. CASE DoesSkip(d)
    BY <1>f, <1>g, <1>10 DEF DoesSkip, SameRow, SameAgents, SameVault, SameNetwork, PathEnds, RunEnds,
        Grows, FromServer
  <1>11. CASE DoesFetch(d)
    BY <1>f, <1>g, <1>11 DEF DoesFetch, SameRow, SameAgents, SameVault, SameNetwork, Grows, FromServer
  <1>12. CASE DoesPull(d)
    BY <1>f, <1>g, <1>12 DEF DoesPull, SameRow, SameAgents, SameNetwork, RunEnds, PathEnds, Grows,
        FromServer
  <1>13. CASE DoesYield(d)
    BY <1>f, <1>g, <1>13 DEF DoesYield, SameRow, SameAgents, SameNetwork, PathEnds, RunEnds, Grows,
        FromServer
  <1>14. CASE DoesPush(d)
    BY <1>f, <1>g, <1>14 DEF DoesPush, SameRow, SameAgents, SameVault, Sends, Grows, FromServer
  <1>15. CASE DoesReconcile(d)
    <2> DEFINE ours == seen[d].ours
               theirs == seen[d].theirs
    <2>0. /\ pass[d] = "reconciling" /\ server' = server
      BY <1>15 DEF DoesReconcile
    <2>1. CASE ours = theirs /\ PathEnds(d, ours) /\ SameNetwork(d) /\ local'[d] = local[d]
      BY <1>f, <1>g, <1>g, <2>0, <2>1 DEF PathEnds, RunEnds, SameNetwork, Grows
    <2>2. CASE /\ RunEnds(d, FALSE) /\ SameNetwork(d) /\ local'[d] = local[d]
               /\ base'[d] = base[d] /\ saved'[d] = saved[d]
      BY <1>f, <1>g, <1>g, <2>0, <2>2 DEF RunEnds, SameNetwork, Grows
    <2>3. Merged(ours, theirs) = ours \cup theirs
      BY <1>g DEF Merged
    <2>4. ASSUME Sends(d, ours \cup theirs, theirs), ours \cup theirs \subseteq local'[d],
                 local[d] \subseteq local'[d]
          PROVE  Grows(d)'
      <3>1. /\ wire'[d].content = ours \cup theirs /\ wire'[d].ifMatch = theirs
            /\ stray'[d] = stray[d] /\ pass'[d] = "sent" /\ seen'[d].ours = ours \cup theirs
            /\ base'[d] = base[d] /\ saved'[d] = saved[d]
        BY <2>4 DEF Sends
      <3> QED
        BY <1>g, <2>0, <2>4, <3>1 DEF Grows
    <2>5. CASE Merged(ours, theirs) = ours /\ Sends(d, ours, theirs) /\ local'[d] = local[d]
      <3>1. ours \subseteq local[d]
        BY <1>g, <2>0 DEF Grows
      <3> QED
        BY <2>3, <2>4, <2>5, <3>1
    <2>6. CASE /\ Sends(d, Merged(ours, theirs), theirs) /\ local[d] = ours
               /\ local'[d] = Merged(ours, theirs)
      BY <2>3, <2>4, <2>6
    <2> QED
      BY <1>15, <2>1, <2>2, <2>5, <2>6 DEF DoesReconcile
  <1>16. CASE DoesServePut(d)
    BY <1>f, <1>g, <1>16 DEF DoesServePut, SameRow, SameAgents, SameVault, SameEngine, Grows, FromServer
  <1>17. CASE DoesServeStray(d)
    BY <1>f, <1>g, <1>17 DEF DoesServeStray, SameRow, SameAgents, SameVault, SameEngine, Grows,
        FromServer
  <1>18. CASE DoesStored(d)
    BY <1>f, <1>g, <1>18 DEF DoesStored, SameRow, SameAgents, SameVault, PathEnds, RunEnds, Grows,
        FromServer
  <1>19. CASE DoesConflict(d)
    BY <1>f, <1>g, <1>19 DEF DoesConflict, SameRow, SameAgents, SameVault, RunEnds, Grows, FromServer
  <1>20. CASE DoesStale(d)
    BY <1>f, <1>g, <1>20 DEF DoesStale, SameRow, SameAgents, SameVault, Grows, FromServer
  <1>21. CASE DoesSaveSnapshot(d)
    BY <1>f, <1>g, <1>21 DEF DoesSaveSnapshot, SameRow, SameAgents, SameVault, SameNetwork, RunEnds,
        Grows, FromServer
  <1>22. CASE DoesPassFails(d)
    BY <1>f, <1>g, <1>22 DEF DoesPassFails, SameRow, SameAgents, SameVault, RunEnds, GivesUp, Grows,
        FromServer
  <1> QED
    BY <1>1, <1>2, <1>3, <1>4, <1>5, <1>6, <1>7, <1>8, <1>9, <1>10, <1>11, <1>12, <1>13, <1>14,
       <1>15, <1>16, <1>17, <1>18, <1>19, <1>20, <1>21, <1>22
    DEF Does

-----------------------------------------------------------------------------
(* The other devices, and the whole.                                       *)

(* What a step of d, or the lapse of a grant, does to what all share.      *)
Moves(d) ==
    /\ server' = server \/ (SameRow /\ live /\ holder = d)
    /\ \/ (live' => live) /\ holder' = holder /\ epoch' = epoch
       \/ holder' = d /\ epoch' = epoch + 1

Same(e) ==
    /\ SameAgents(e) /\ SameVault(e) /\ SameEngine(e) /\ SameNetwork(e)
    /\ takeover'[e] = takeover[e]

LEMMA StepMoves == ASSUME NEW d \in Device, Does(d) PROVE Moves(d)
  <1>1. CASE DoesAcquire(d)
    BY <1>1 DEF DoesAcquire, Moves
  <1>2. CASE DoesRegrant(d)
    BY <1>2 DEF DoesRegrant, Moves
  <1>3. CASE DoesStartAgent(d)
    BY <1>3 DEF DoesStartAgent, Moves, SameRow
  <1>4. CASE DoesAgentWrites(d)
    BY <1>4 DEF DoesAgentWrites, Moves, SameRow
  <1>5. CASE DoesLoseLease(d)
    BY <1>5 DEF DoesLoseLease, Moves, SameRow
  <1>6. CASE DoesWindDown(d)
    BY <1>6 DEF DoesWindDown, Moves, SameRow
  <1>7. CASE DoesStopped(d)
    BY <1>7 DEF DoesStopped, Moves
  <1>8. CASE DoesCrash(d)
    BY <1>8 DEF DoesCrash, Moves, SameRow
  <1>9. CASE DoesBeginPass(d)
    BY <1>9 DEF DoesBeginPass, Moves, SameRow
  <1>10. CASE DoesSkip(d)
    BY <1>10 DEF DoesSkip, Moves, SameRow
  <1>11. CASE DoesFetch(d)
    BY <1>11 DEF DoesFetch, Moves, SameRow
  <1>12. CASE DoesPull(d)
    BY <1>12 DEF DoesPull, Moves, SameRow
  <1>13. CASE DoesYield(d)
    BY <1>13 DEF DoesYield, Moves, SameRow
  <1>14. CASE DoesPush(d)
    BY <1>14 DEF DoesPush, Moves, SameRow
  <1>15. CASE DoesReconcile(d)
    BY <1>15 DEF DoesReconcile, Moves, SameRow
  <1>16. CASE DoesServePut(d)
    BY <1>16 DEF DoesServePut, Moves, SameRow, Accepted, Admitted
  <1>17. CASE DoesServeStray(d)
    BY <1>17 DEF DoesServeStray, Moves, SameRow, Accepted, Admitted
  <1>18. CASE DoesStored(d)
    BY <1>18 DEF DoesStored, Moves, SameRow
  <1>19. CASE DoesConflict(d)
    BY <1>19 DEF DoesConflict, Moves, SameRow
  <1>20. CASE DoesStale(d)
    BY <1>20 DEF DoesStale, Moves, SameRow
  <1>21. CASE DoesSaveSnapshot(d)
    BY <1>21 DEF DoesSaveSnapshot, Moves, SameRow
  <1>22. CASE DoesPassFails(d)
    BY <1>22 DEF DoesPassFails, Moves, SameRow
  <1> QED
    BY <1>1, <1>2, <1>3, <1>4, <1>5, <1>6, <1>7, <1>8, <1>9, <1>10, <1>11, <1>12, <1>13, <1>14,
       <1>15, <1>16, <1>17, <1>18, <1>19, <1>20, <1>21, <1>22
    DEF Does

LEMMA StepSame == ASSUME Arrays, NEW d \in Device, Only(d), NEW e \in Device, e # d PROVE Same(e)
  BY DEF Arrays, Only, Same, SameAgents, SameVault, SameEngine, SameNetwork

LEMMA StaysTyped == ASSUME NEW e \in Device, Same(e), Typed(e) PROVE Typed(e)'
  <1>1. Numbers(e)' /\ Contents(e)' /\ Records(e)'
    BY DEF Same, SameAgents, SameVault, SameEngine, SameNetwork, Typed, Numbers, Contents, Records
  <1>2. Stages(e)'
    BY DEF Same, SameAgents, SameEngine, SameNetwork, Typed, Stages
  <1> QED
    BY <1>1, <1>2 DEF Typed

LEMMA StaysInOrder ==
    ASSUME NEW d, NEW e \in Device, Same(e), Moves(d), Row, Typed(e), InOrder(e), FromServer(e),
           server \subseteq server'
    PROVE  InOrder(e)' /\ FromServer(e)'
  <1>1. /\ epoch \in Nat /\ held[e] \in Nat /\ startedUnder[e] \in Nat /\ wire[e].epoch \in Nat
        /\ stray[e].epoch \in Nat
    BY DEF Row, Typed, Numbers, Records, Put
  <1>2. epoch' = epoch \/ epoch' = epoch + 1
    BY DEF Moves
  <1>3. InOrder(e)'
    BY <1>1, <1>2 DEF Same, SameAgents, SameNetwork, InOrder
  <1>4. FromServer(e)'
    BY DEF Same, SameEngine, SameNetwork, FromServer
  <1> QED
    BY <1>3, <1>4

(* Nobody but its holder moves what a grant stands for.                    *)
LEMMA StaysInCommand ==
    ASSUME NEW d, NEW e \in Device, e # d, Same(e), Moves(d),
           Keeps(e, wire[e]), Keeps(e, stray[e]), TakesOver(e), Commands(e)
    PROVE  (Keeps(e, wire[e]) /\ Keeps(e, stray[e]) /\ TakesOver(e) /\ Commands(e))'
  <1>1. live' /\ holder' = e => live /\ holder = e /\ epoch' = epoch /\ server' = server
    BY DEF Moves, SameRow
  <1>2. (Granted(e)' => Granted(e) /\ epoch' = epoch /\ server' = server) /\ held'[e] = held[e]
    BY <1>1 DEF Granted, Same, SameAgents
  <1>3. (Keeps(e, wire[e]) /\ Keeps(e, stray[e]))'
    BY <1>1 DEF Keeps, Same, SameNetwork
  <1>4. TakesOver(e)'
    BY <1>2 DEF TakesOver, Current, Same, SameAgents, SameVault, SameEngine
  <1>5. Commands(e)'
    BY <1>2 DEF Commands, Same, SameAgents, SameVault, SameEngine, SameNetwork
  <1> QED
    BY <1>3, <1>4, <1>5

LEMMA StaysGrown == ASSUME NEW e \in Device, Same(e), Grows(e) PROVE Grows(e)'
  BY DEF Same, SameVault, SameEngine, SameNetwork, Grows

LEMMA LapseMoves ==
    ASSUME Lapse, NEW e \in Device PROVE Same(e) /\ Moves(NoDevice) /\ e # NoDevice /\ ~ live'
  <1>1. Same(e)
    BY DEF Lapse, Same, SameAgents, SameVault, SameEngine, SameNetwork, agents, vault, engine, network
  <1> QED
    BY <1>1, AgentFilesAssumption DEF Lapse, Moves

-----------------------------------------------------------------------------
(* Types.                                                                  *)

LEMMA InitTypes == Init => TypeInvariant
  <1> SUFFICES ASSUME Init PROVE TypeInvariant
    OBVIOUS
  <1>1. Arrays
    BY DEF Init, Arrays
  <1>2. Row
    <2>1. live \in BOOLEAN /\ server \in Content
      BY DEF Init, Absent, Content
    <2>2. holder \in Device \cup {NoDevice} /\ epoch \in Nat /\ writes \in 0 .. MaxWrite
      BY AgentFilesAssumption DEF Init
    <2> QED
      BY <2>1, <2>2 DEF Row
  <1>3. ASSUME NEW d \in Device PROVE Typed(d)
    <2>1. Numbers(d)
      BY DEF Init, Numbers
    <2>2. Stages(d)
      BY DEF Init, Stages
    <2>3. Contents(d) /\ Records(d)
      <3>1. Absent \in Content /\ NoPut \in Put /\ Unseen \in [ours : Content, theirs : Content]
        BY DEF Absent, Content, NoPut, Put, Unseen
      <3> QED
        BY <3>1 DEF Init, Contents, Records
    <2> QED
      BY <2>1, <2>2, <2>3 DEF Typed
  <1> QED
    BY <1>1, <1>2, <1>3 DEF TypeInvariant

LEMMA StepTypes == TypeInvariant /\ [Next]_vars => TypeInvariant'
  <1> SUFFICES ASSUME TypeInvariant, [Next]_vars PROVE TypeInvariant'
    OBVIOUS
  <1>t. Row /\ Arrays /\ \A d \in Device : Typed(d)
    BY DEF TypeInvariant
  <1>1. CASE UNCHANGED vars
    <2>1. Row' /\ Arrays'
      BY <1>1, <1>t DEF vars, leaseRow, agents, vault, engine, network, Row, Arrays
    <2>2. ASSUME NEW e \in Device PROVE Same(e)
      BY <1>1 DEF vars, agents, vault, engine, network, Same, SameAgents, SameVault, SameEngine,
         SameNetwork
    <2>3. ASSUME NEW e \in Device PROVE Typed(e)'
      BY <2>2, <1>t, StaysTyped
    <2> QED
      BY <2>1, <2>3 DEF TypeInvariant
  <1>2. CASE Lapse
    <2>1. Row'
      BY <1>2, <1>t DEF Lapse, Row
    <2>2. Arrays'
      BY <1>2, <1>t DEF Lapse, agents, vault, engine, network, Arrays
    <2>3. ASSUME NEW e \in Device PROVE Typed(e)'
      BY <1>2, <1>t, LapseMoves, StaysTyped
    <2> QED
      BY <2>1, <2>2, <2>3 DEF TypeInvariant
  <1>3. ASSUME NEW d \in Device, Step(d) PROVE TypeInvariant'
    <2>1. Only(d) /\ Does(d)
      BY <1>3, <1>t, Apart, StepDoes
    <2>2. Arrays'
      BY <2>1, <1>t DEF Arrays, Only
    <2>3. Numbers(d) /\ Stages(d) /\ Contents(d) /\ Records(d) /\ epoch \in Nat
          /\ server \in Content /\ writes \in 0 .. MaxWrite
      BY <1>t DEF Typed, Row
    <2>4. Row'
      BY <2>1, <2>3, <1>t, KeepsRow
    <2>5. Numbers(d)' /\ Stages(d)'
      BY <2>1, <2>3, KeepsNumbers, KeepsStages
    <2>6. Contents(d)' /\ Records(d)'
      BY <2>1, <2>3, KeepsContents, KeepsRecords
    <2>7. ASSUME NEW e \in Device, e # d PROVE Typed(e)'
      BY <2>1, <2>7, <1>t, StepSame, StaysTyped
    <2>8. Typed(d)'
      BY <2>5, <2>6 DEF Typed
    <2>9. \A e \in Device : Typed(e)'
      BY <2>7, <2>8
    <2> QED
      BY <2>2, <2>4, <2>9 DEF TypeInvariant
  <1> QED
    BY <1>1, <1>2, <1>3, Steps

LEMMA TypesHold == Spec => []TypeInvariant
  BY InitTypes, StepTypes, PTL DEF Spec

LEMMA TypesAre == TypeInvariant => TypeOK
  <1> SUFFICES ASSUME TypeInvariant PROVE TypeOK
    OBVIOUS
  <1>t. Row /\ Arrays /\ \A d \in Device : Numbers(d) /\ Stages(d) /\ Contents(d) /\ Records(d)
    BY DEF TypeInvariant, Typed
  <1>1. held \in [Device -> Nat] /\ startedUnder \in [Device -> Nat]
    BY <1>t DEF Arrays, Numbers
  <1>2. /\ phase \in [Device -> {"off", "taking", "running", "stopping"}]
        /\ pass \in [Device ->
             {"idle", "listed", "pulling", "yielding", "reconciling", "sent", "saving"}]
        /\ takeover \in [Device -> {"no", "under way", "done"}]
        /\ answer \in [Device -> {"none", "stored", "conflict", "stale"}]
        /\ \A d \in Device : wire[d] # NoPut \/ answer[d] # "none" => pass[d] = "sent"
    BY <1>t DEF Arrays, Stages
  <1>3. /\ local \in [Device -> Content] /\ memory \in [Device -> Content]
        /\ base \in [Device -> Content] /\ saved \in [Device -> Content]
    BY <1>t DEF Arrays, Contents
  <1>4. /\ seen \in [Device -> [ours : Content, theirs : Content]]
        /\ wire \in [Device -> Put] /\ stray \in [Device -> Put]
    BY <1>t DEF Arrays, Records
  <1> QED
    BY <1>t, <1>1, <1>2, <1>3, <1>4 DEF TypeOK, Row

(* Every variable keeps its type.                                          *)
THEOREM TypeCorrect == Spec => []TypeOK
  BY TypesHold, TypesAre, PTL

-----------------------------------------------------------------------------
(* What both arguments share.                                              *)

LEMMA InitCommon ==
    ASSUME Init PROVE Common /\ \A d \in Device : Grows(d) /\ TakesOver(d) /\ Commands(d)
  <1>1. TypeInvariant
    BY InitTypes
  <1>2. ~ live /\ epoch = 0 /\ server = {}
    BY DEF Init, Absent
  <1>3. ASSUME NEW d \in Device PROVE InOrder(d) /\ FromServer(d) /\ Grows(d)
    <2>1. /\ held[d] = 0 /\ startedUnder[d] = 0 /\ phase[d] = "off" /\ local[d] = {} /\ base[d] = {}
          /\ saved[d] = {} /\ pass[d] = "idle" /\ seen[d] = Unseen /\ takeover[d] = "no"
          /\ wire[d] = NoPut /\ stray[d] = NoPut /\ answer[d] = "none"
      BY DEF Init, Absent
    <2>2. /\ NoPut.epoch = 0 /\ NoPut.content = {} /\ NoPut.ifMatch = {}
          /\ Unseen.ours = {} /\ Unseen.theirs = {}
      BY DEF NoPut, Unseen, Absent
    <2> QED
      BY <1>2, <2>1, <2>2 DEF InOrder, FromServer, Grows
  <1>4. ASSUME NEW d \in Device PROVE ~ Granted(d)
    BY <1>2 DEF Granted
  <1> QED
    BY <1>1, <1>2, <1>3, <1>4 DEF Common, TakesOver, Commands

(* The PUTs that may be admitted keep what they replace: the service loses *)
(* nothing.                                                                *)
Grown == \A d \in Device : Keeps(d, wire[d]) /\ Keeps(d, stray[d])

LEMMA ServerGrows == ASSUME Common, Grown, [Next]_vars PROVE server \subseteq server'
  <1>1. CASE UNCHANGED vars \/ Lapse
    BY <1>1 DEF vars, Lapse
  <1>2. ASSUME NEW d \in Device, Step(d) PROVE server \subseteq server'
    <2>1. Does(d) /\ Keeps(d, wire[d]) /\ Keeps(d, stray[d])
      BY <1>2, StepDoes DEF Common, TypeInvariant, Grown
    <2>2. CASE DoesServePut(d)
      BY <2>1, <2>2 DEF DoesServePut, Accepted, Admitted, Keeps
    <2>3. CASE DoesServeStray(d)
      BY <2>1, <2>3 DEF DoesServeStray, Accepted, Admitted, Keeps
    <2>4. CASE server' = server
      BY <2>4
    <2>5. DoesServePut(d) \/ DoesServeStray(d) \/ server' = server
      BY <2>1
      DEF Does, DoesAcquire, DoesRegrant, DoesStartAgent, DoesAgentWrites, DoesLoseLease,
          DoesWindDown, DoesStopped, DoesCrash, DoesBeginPass, DoesSkip, DoesFetch, DoesPull,
          DoesYield, DoesPush, DoesReconcile, DoesStored, DoesConflict, DoesStale,
          DoesSaveSnapshot, DoesPassFails
    <2> QED
      BY <2>2, <2>3, <2>4, <2>5
  <1> QED
    BY <1>1, <1>2, Steps

LEMMA StepCommon == ASSUME Common, server \subseteq server', [Next]_vars PROVE Common'
  <1>t. /\ TypeInvariant /\ Row /\ Arrays /\ (live => epoch >= 1) /\ epoch \in Nat
        /\ \A d \in Device : Typed(d) /\ InOrder(d) /\ FromServer(d)
    BY DEF Common, TypeInvariant, Row
  <1>1. TypeInvariant'
    BY <1>t, StepTypes
  <1>2. CASE UNCHANGED vars
    BY <1>1, <1>2, <1>t
    DEF vars, leaseRow, agents, vault, engine, network, Common, InOrder, FromServer
  <1>3. CASE Lapse
    <2>1. ASSUME NEW e \in Device PROVE InOrder(e)' /\ FromServer(e)'
      BY <1>3, <1>t, LapseMoves, StaysInOrder
    <2> QED
      BY <1>1, <1>3, <2>1 DEF Common, Lapse
  <1>4. ASSUME NEW d \in Device, Step(d) PROVE Common'
    <2>1. Only(d) /\ Does(d) /\ Moves(d)
      BY <1>4, <1>t, Apart, StepDoes, StepMoves
    <2>2. InOrder(d)' /\ FromServer(d)'
      BY <2>1, <1>t, KeepsOrder, KeepsSource
    <2>3. ASSUME NEW e \in Device, e # d PROVE InOrder(e)' /\ FromServer(e)'
      BY <2>1, <2>3, <1>t, StepSame, StaysInOrder
    <2>4. live' => epoch' >= 1
      BY <2>1, <1>t DEF Moves
    <2>5. \A e \in Device : InOrder(e)' /\ FromServer(e)'
      BY <2>2, <2>3
    <2> QED
      BY <1>1, <2>4, <2>5 DEF Common
  <1> QED
    BY <1>2, <1>3, <1>4, Steps

-----------------------------------------------------------------------------
(* A file is handed over whole, if a takeover waits for its pass.          *)

LEMMA InitHandover == Init => HandoverInvariant
  <1> SUFFICES ASSUME Init PROVE HandoverInvariant
    OBVIOUS
  <1>1. ASSUME NEW d \in Device, NEW put PROVE Keeps(d, put)
    BY DEF Init, Keeps
  <1> QED
    BY <1>1, InitCommon DEF HandoverInvariant

LEMMA StepHandover ==
    ASSUME ~ BestEffort, HandoverInvariant, [Next]_vars PROVE HandoverInvariant'
  <1> DEFINE Whole(d) == Keeps(d, wire[d]) /\ Keeps(d, stray[d]) /\ TakesOver(d) /\ Commands(d)
  <1>t. /\ Common /\ Row /\ Arrays /\ (live => epoch >= 1)
        /\ \A d \in Device : Typed(d) /\ InOrder(d) /\ FromServer(d)
        /\ \A d \in Device : Whole(d)
    BY DEF HandoverInvariant, Common, TypeInvariant
  <1>1. server \subseteq server' /\ Common'
    BY <1>t, ServerGrows, StepCommon DEF Grown
  <1>2. CASE UNCHANGED vars
    <2>1. /\ UNCHANGED <<live, holder, epoch, held, startedUnder, phase, takeover>>
          /\ UNCHANGED <<server, local, base, pass, seen, answer, wire, stray>>
      BY <1>2 DEF vars, leaseRow, agents, vault, engine, network
    <2>2. ASSUME NEW d \in Device PROVE Whole(d)'
      <3>1. Whole(d)
        BY <1>t
      <3>2. (Keeps(d, wire[d]) /\ Keeps(d, stray[d]))'
        BY <2>1, <3>1 DEF Keeps, Granted, Current
      <3>3. TakesOver(d)'
        BY <2>1, <3>1 DEF TakesOver, Granted, Current
      <3>4. Commands(d)'
        BY <2>1, <3>1 DEF Commands, Granted, Current
      <3> QED
        BY <3>2, <3>3, <3>4
    <2> QED
      BY <1>1, <2>2 DEF HandoverInvariant
  <1>3. CASE Lapse
    <2>1. ASSUME NEW e \in Device PROVE Whole(e)'
      BY <1>3, <1>t, LapseMoves, StaysInCommand
    <2> QED
      BY <1>1, <2>1 DEF HandoverInvariant
  <1>4. ASSUME NEW d \in Device, Step(d) PROVE HandoverInvariant'
    <2>1. Only(d) /\ Does(d) /\ Moves(d)
      BY <1>4, <1>t, Apart, StepDoes, StepMoves
    <2>2. (Keeps(d, wire[d]) /\ Keeps(d, stray[d]))'
      BY <2>1, <1>t, KeepsPuts
    <2>3. TakesOver(d)'
      BY <2>1, <1>1, <1>t, KeepsTakeover
    <2>4. Commands(d)'
      BY <2>1, <1>1, <1>t, KeepsCommand
    <2>5. ASSUME NEW e \in Device, e # d PROVE Whole(e)'
      BY <2>1, <2>5, <1>t, StepSame, StaysInCommand
    <2>6. \A e \in Device : Whole(e)'
      BY <2>2, <2>3, <2>4, <2>5
    <2> QED
      BY <1>1, <2>6 DEF HandoverInvariant
  <1> QED
    BY <1>2, <1>3, <1>4, Steps

LEMMA HandoverHolds == ~ BestEffort => (Spec => []HandoverInvariant)
  <1>a. SUFFICES ASSUME ~ BestEffort PROVE Spec => []HandoverInvariant
    OBVIOUS
  <1>1. HandoverInvariant /\ [Next]_vars => HandoverInvariant'
    BY <1>a, StepHandover
  <1> QED
    BY <1>1, InitHandover, PTL DEF Spec

(* The agent whose writes the service would accept has seen all that was   *)
(* accepted before: true of every takeover that waits for a pass that went *)
(* well, however late the PUTs of earlier grants arrive.                   *)
THEOREM TheHolderIsCurrent == ~ BestEffort => (Spec => []AuthorityIsCurrent)
  <1>1. HandoverInvariant => AuthorityIsCurrent
    BY DEF HandoverInvariant, Commands, Granted, AuthorityIsCurrent, FenceEpoch
  <1>a. SUFFICES ASSUME ~ BestEffort PROVE Spec => []AuthorityIsCurrent
    OBVIOUS
  <1>2. Spec => []HandoverInvariant
    BY <1>a, HandoverHolds
  <1> QED
    BY <1>1, <1>2, PTL

-----------------------------------------------------------------------------
(* A journal survives any takeover.                                        *)

LEMMA JournalGrown == JournalInvariant => Common /\ Grown
  BY DEF JournalInvariant, Grown, Grows, Keeps

LEMMA StepJournal == ASSUME Journal, JournalInvariant, [Next]_vars PROVE JournalInvariant'
  <1>t. /\ Common /\ Row /\ Arrays /\ (live => epoch >= 1)
        /\ \A d \in Device : Typed(d) /\ InOrder(d) /\ FromServer(d) /\ Grows(d)
    BY DEF JournalInvariant, Common, TypeInvariant
  <1>1. server \subseteq server' /\ Common'
    BY JournalGrown, ServerGrows, StepCommon
  <1>2. CASE UNCHANGED vars
    <2>1. \A d \in Device : Grows(d)'
      BY <1>2, <1>t DEF vars, vault, engine, network, Grows
    <2> QED
      BY <1>1, <2>1 DEF JournalInvariant
  <1>3. CASE Lapse
    <2>1. ASSUME NEW e \in Device PROVE Grows(e)'
      BY <1>3, <1>t, LapseMoves, StaysGrown
    <2> QED
      BY <1>1, <2>1 DEF JournalInvariant
  <1>4. ASSUME NEW d \in Device, Step(d) PROVE JournalInvariant'
    <2>1. Only(d) /\ Does(d)
      BY <1>4, <1>t, Apart, StepDoes
    <2>2. Grows(d)'
      BY <2>1, <1>1, <1>t, KeepsGrowing
    <2>3. ASSUME NEW e \in Device, e # d PROVE Grows(e)'
      BY <2>1, <2>3, <1>t, StepSame, StaysGrown
    <2>4. \A e \in Device : Grows(e)'
      BY <2>2, <2>3
    <2> QED
      BY <1>1, <2>4 DEF JournalInvariant
  <1> QED
    BY <1>2, <1>3, <1>4, Steps

LEMMA JournalHolds == Journal => (Spec => []JournalInvariant)
  <1>a. SUFFICES ASSUME Journal PROVE Spec => []JournalInvariant
    OBVIOUS
  <1>1. JournalInvariant /\ [Next]_vars => JournalInvariant'
    BY <1>a, StepJournal
  <1>2. Init => JournalInvariant
    BY InitCommon DEF JournalInvariant
  <1> QED
    BY <1>1, <1>2, PTL DEF Spec

(* What the service accepted from one agent is there after any later       *)
(* agent's writes: of a state file if takeovers wait for their pass, of a  *)
(* journal whatever happens.                                               *)
THEOREM AcceptedIsKept == ~ BestEffort \/ Journal => (Spec => NothingAcceptedIsLost)
  <1>1. HandoverInvariant /\ [Next]_vars => [server \subseteq server']_vars
    BY ServerGrows DEF HandoverInvariant, Grown
  <1>2. JournalInvariant /\ [Next]_vars => [server \subseteq server']_vars
    BY ServerGrows, JournalGrown
  <1>3. ASSUME ~ BestEffort PROVE Spec => NothingAcceptedIsLost
    <2>1. Spec => []HandoverInvariant
      BY <1>3, HandoverHolds
    <2> QED
      BY <1>1, <2>1, PTL DEF Spec, NothingAcceptedIsLost
  <1>4. ASSUME Journal PROVE Spec => NothingAcceptedIsLost
    <2>1. Spec => []JournalInvariant
      BY <1>4, JournalHolds
    <2> QED
      BY <1>2, <2>1, PTL DEF Spec, NothingAcceptedIsLost
  <1> QED
    BY <1>3, <1>4
=============================================================================
