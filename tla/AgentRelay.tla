------------------------------ MODULE AgentRelay ------------------------------
(***************************************************************************)
(* The agent relay (apps/daemon/src/relay/relay.ts) and its link to the    *)
(* always-on machine (relay/link.ts): while this device's agent runs on    *)
(* that machine, one WebSocket brings the machine's agent events here, in  *)
(* the order they happened, and after every connection the relay reads     *)
(* what the clients may have missed, over HTTP, while events keep coming.  *)
(*                                                                         *)
(* Two things stand for all that is shown: the status, which the relay     *)
(* keeps itself (#remote), and one thread, as the clients were last told.  *)
(* Routines go the status's way, approvals the thread's.  One surface      *)
(* stands for the surfaces someone watches.                                *)
(***************************************************************************)
EXTENDS Naturals, Sequences, SequencesExt

CONSTANTS
    Peer,        \* the machines this device may be paired with
    NoPeer,
    Forwards,    \* whether clients ask for the status, which is forwarded
    ReadsFail,   \* whether a read of a resync may fail while the link is up
    MaxVersion,  \* bound on the changes of each thing on each machine
    MaxMoves,    \* bound on the changes of the placement and the credential
    MaxLinks,    \* bound on the connections opened
    MaxWatchers  \* bound on the clients that watch the surface

ASSUME RelayAssumptions ==
    /\ NoPeer \notin Peer
    /\ Forwards \in BOOLEAN /\ ReadsFail \in BOOLEAN
    /\ MaxVersion \in Nat /\ MaxMoves \in Nat /\ MaxLinks \in Nat /\ MaxWatchers \in Nat

Things == {"status", "thread"}

VARIABLES
    relayed,     \* the effective placement is always_on_machine
    credential,  \* MachineCredentialSource.current()
    moves,
    accepts,     \* the machines that take this device's credential
    version,     \* what is so on each machine
    link,        \* #link: the machine it goes to, and the number of its connection
    ws,          \* #ws of the link, and whether its hello has come
    linkState,   \* #state of the link
    opened,      \* connections opened so far
    events,      \* what the machine has sent on the connection, not read yet
    state,       \* #state of the relay
    remote,      \* #remote, and the machine it is about
    thread,      \* what the clients know of the thread, and of which machine
    pushed,      \* #pushed: the thread was pushed since the resync began
    resyncs,     \* the resyncs under way
    relayAsked,  \* the status requests of clients, forwarded and under way
    relayStarted, relayStopped,
    watchers,    \* count of the surface's entry in #surfaces
    source,      \* where that entry is subscribed
    subscribed   \* what the connection was told of the surface

user == <<relayed, credential, moves, accepts>>
linked == <<link, ws, linkState, opened, events>>
surface == <<watchers, source, subscribed>>
relayVars == <<user, version, linked, state, remote, thread, pushed, resyncs, relayAsked, relayStarted, relayStopped,
          surface>>

Nothing == [of |-> NoPeer, version |-> 0]
Known == [of : Peer \cup {NoPeer}, version : 0 .. MaxVersion]
Event == [thing : Things \cup {"hello"}, version : 0 .. MaxVersion]

RelayTypeOK ==
    /\ relayed \in BOOLEAN
    /\ credential \in Peer \cup {NoPeer}
    /\ moves \in 0 .. MaxMoves
    /\ accepts \subseteq Peer
    /\ version \in [Peer -> [Things -> 0 .. MaxVersion]]
    /\ link \in Peer \cup {NoPeer}
    /\ ws \in {"none", "opening", "open", "connected"}
    /\ linkState \in {"connecting", "connected", "unreachable", "rejected"}
    /\ opened \in 0 .. MaxLinks
    /\ events \in Seq(Event)
    /\ state \in {"off", "not_paired", "connecting", "connected", "unreachable"}
    /\ remote \in Known /\ thread \in Known
    /\ pushed \in BOOLEAN
    /\ resyncs \subseteq [to : Peer, current : BOOLEAN,
                          read : [Things -> 0 .. MaxVersion + 1]]
    /\ relayAsked \subseteq [to : Peer, answer : 0 .. MaxVersion + 1]
    /\ relayStarted \in BOOLEAN /\ relayStopped \in BOOLEAN
    /\ watchers \in 0 .. MaxWatchers
    /\ source \in {"none", "local", "link"}
    /\ subscribed \in BOOLEAN

RelayInit ==
    /\ relayed \in BOOLEAN
    /\ credential \in Peer \cup {NoPeer}
    /\ moves = 0
    /\ accepts \in SUBSET Peer
    /\ version = [m \in Peer |-> [t \in Things |-> 0]]
    /\ link = IF relayed THEN credential ELSE NoPeer
    /\ ws = "none"
    /\ linkState = "connecting"
    /\ opened = 0
    /\ events = <<>>
    /\ state = IF ~ relayed THEN "off"
               ELSE IF credential = NoPeer THEN "not_paired" ELSE "connecting"
    /\ remote = Nothing /\ thread = Nothing
    /\ pushed = FALSE
    /\ resyncs = {} /\ relayAsked = {}
    /\ relayStarted = FALSE /\ relayStopped = FALSE
    /\ watchers = 0 /\ source = "none" /\ subscribed = FALSE

-----------------------------------------------------------------------------
(* The state of the relay.                                                 *)

\* #forwarding: requests and events go to the machine.
Forwarding == link # NoPeer /\ state \in {"connected", "connecting"}

\* #useLink with a link to another machine, or none: the old one is closed, and
\* the surface is watched through the new one.
UseLink(m) ==
    /\ link' = m
    /\ ws' = "none"
    /\ linkState' = "connecting"
    /\ events' = <<>>
    /\ remote' = Nothing
    /\ source' = IF watchers = 0 THEN "none" ELSE IF m = NoPeer THEN "local" ELSE "link"
    /\ subscribed' = FALSE
    /\ resyncs' = {[r EXCEPT !.current = FALSE] : r \in resyncs}

\* #apply, called when the placement or the credential changed.  The new link
\* opens its connection at once, if the relay has started.
Apply(r, c) ==
    LET m == IF r THEN c ELSE NoPeer IN
    /\ state' = IF ~ r THEN "off" ELSE IF c = NoPeer THEN "not_paired"
                ELSE IF link = c THEN state ELSE "connecting"
    /\ IF link = m THEN UNCHANGED <<link, ws, linkState, events, remote, source, subscribed, resyncs>>
       ELSE UseLink(m)

Moves == moves < MaxMoves /\ moves' = moves + 1

\* The supervisor's placement, or the machine link's credential, changed.
Move(r, c) ==
    /\ ~ relayStopped /\ Moves
    /\ <<r, c>> # <<relayed, credential>>
    /\ relayed' = r /\ credential' = c
    /\ Apply(r, c)
    /\ UNCHANGED <<accepts, version, opened, thread, pushed, relayAsked, relayStarted, relayStopped, watchers>>

StartRelay ==
    /\ ~ relayStarted /\ ~ relayStopped
    /\ relayStarted' = TRUE
    /\ UNCHANGED <<user, version, linked, state, remote, thread, pushed, resyncs, relayAsked, relayStopped,
                   surface>>

StopRelay ==
    /\ relayStarted /\ ~ relayStopped
    /\ relayStopped' = TRUE /\ relayStarted' = FALSE
    /\ link' = NoPeer /\ ws' = "none" /\ events' = <<>> /\ subscribed' = FALSE
    /\ UNCHANGED <<user, version, linkState, opened, state, remote, thread, pushed, resyncs, relayAsked,
                   watchers, source>>

-----------------------------------------------------------------------------
(* The machine.                                                            *)

Sends == ws \in {"open", "connected"}

\* Something changes there, and is pushed to who is connected.
ChangesThere(m, t) ==
    /\ version[m][t] < MaxVersion
    /\ version' = [version EXCEPT ![m][t] = @ + 1]
    /\ events' = IF link = m /\ Sends
                 THEN Append(events, [thing |-> t, version |-> version'[m][t]]) ELSE events
    /\ UNCHANGED <<user, link, ws, linkState, opened, state, remote, thread, pushed, resyncs, relayAsked,
                   relayStarted, relayStopped, surface>>

\* It takes back this device's credential, and its sockets with it.
Revokes(m) ==
    /\ Moves
    /\ m \in accepts
    /\ accepts' = accepts \ {m}
    /\ UNCHANGED <<relayed, credential, version, linked, state, remote, thread, pushed, resyncs,
                   relayAsked, relayStarted, relayStopped, surface>>

-----------------------------------------------------------------------------
(* The link.                                                               *)

\* #open: by start(), a new link, or the retry timer after a backoff.
Open ==
    /\ relayStarted /\ link # NoPeer /\ ws = "none"
    /\ opened < MaxLinks
    /\ opened' = opened + 1
    /\ ws' = "opening"
    /\ UNCHANGED <<user, version, link, linkState, events, state, remote, thread, pushed, resyncs,
                   relayAsked, relayStarted, relayStopped, surface>>

\* The machine takes the upgrade, and says hello.
Opened ==
    /\ ws = "opening" /\ link \in accepts
    /\ ws' = "open"
    /\ events' = <<[thing |-> "hello", version |-> 0]>>
    /\ UNCHANGED <<user, version, link, linkState, opened, state, remote, thread, pushed, resyncs,
                   relayAsked, relayStarted, relayStopped, surface>>

\* #onConnected and #onLinkState("connected"): who watches is subscribed again,
\* and a resync begins; an earlier one no longer counts.
Hello ==
    /\ events # <<>> /\ Head(events).thing = "hello"
    /\ events' = Tail(events)
    /\ ws' = "connected"
    /\ linkState' = "connected"
    /\ state' = "connected"
    /\ subscribed' = (source = "link")
    /\ pushed' = FALSE
    /\ resyncs' = {[r EXCEPT !.current = FALSE] : r \in resyncs}
                    \cup {[to |-> link, current |-> TRUE,
                           read |-> [t \in Things |-> MaxVersion + 1]]}
    /\ UNCHANGED <<user, version, link, opened, remote, thread, relayAsked, relayStarted, relayStopped,
                   watchers, source>>

\* #fromMachine: what came is what clients are told now.
FromMachine ==
    /\ events # <<>> /\ Head(events).thing # "hello" /\ ws = "connected"
    /\ events' = Tail(events)
    /\ LET e == Head(events)
           known == [of |-> link, version |-> e.version]
       IN \/ e.thing = "status" /\ remote' = known /\ UNCHANGED <<thread, pushed>>
          \/ e.thing = "thread" /\ thread' = known /\ pushed' = TRUE /\ UNCHANGED remote
    /\ UNCHANGED <<user, version, link, ws, linkState, opened, state, resyncs, relayAsked,
                   relayStarted, relayStopped, surface>>

\* The connection ends: it is refused, the machine is gone, a ping went
\* unanswered, the hello did not come in time.  A retry is armed.
Closes ==
    /\ ws # "none" /\ link # NoPeer
    /\ ws' = "none"
    /\ events' = <<>>
    /\ subscribed' = FALSE
    /\ \/ /\ ws = "opening" /\ link \notin accepts
          /\ linkState' = "rejected"
          /\ state' = IF linkState = "rejected" THEN state ELSE "not_paired"
          /\ remote' = IF linkState = "rejected" THEN remote ELSE Nothing
       \/ /\ linkState' = "unreachable"
          /\ state' = IF linkState = "unreachable" THEN state ELSE "unreachable"
          /\ remote' = IF linkState = "unreachable" THEN remote ELSE Nothing
    /\ UNCHANGED <<user, version, link, opened, thread, pushed, resyncs, relayAsked, relayStarted, relayStopped,
                   watchers, source>>

-----------------------------------------------------------------------------
(* Reads over HTTP.                                                        *)

\* The machine answers one read of a resync.
Answers(r, t) ==
    /\ r \in resyncs /\ r.read[t] = MaxVersion + 1
    /\ resyncs' = (resyncs \ {r}) \cup {[r EXCEPT !.read[t] = version[r.to][t]]}
    /\ UNCHANGED <<user, version, linked, state, remote, thread, pushed, relayAsked, relayStarted, relayStopped,
                   surface>>

\* All reads are here: clients are told, but of a thread that was pushed meanwhile.
\* Slip: what was pushed meanwhile is told again as it was read.
ResyncedAll(r) ==
    /\ r \in resyncs /\ \A t \in Things : r.read[t] <= MaxVersion
    /\ resyncs' = resyncs \ {r}
    /\ IF r.current /\ state = "connected"
       THEN /\ remote' = [of |-> r.to, version |-> r.read["status"]]
            /\ thread' = [of |-> r.to, version |-> r.read["thread"]]
       ELSE UNCHANGED <<remote, thread>>
    /\ UNCHANGED <<user, version, linked, state, pushed, relayAsked, relayStarted, relayStopped, surface>>

Resynced(r) ==
    /\ r \in resyncs /\ \A t \in Things : r.read[t] <= MaxVersion
    /\ resyncs' = resyncs \ {r}
    /\ IF r.current /\ state = "connected"
       THEN /\ remote' = [of |-> r.to, version |-> r.read["status"]]
            /\ thread' = IF pushed THEN thread ELSE [of |-> r.to, version |-> r.read["thread"]]
       ELSE UNCHANGED <<remote, thread>>
    /\ UNCHANGED <<user, version, linked, state, pushed, relayAsked, relayStarted, relayStopped, surface>>

\* The machine did not answer in time: nothing is told.  Without ReadsFail, only
\* when the connection is gone too.
ResyncFails(r) ==
    /\ r \in resyncs
    /\ ReadsFail \/ ~ r.current \/ ws # "connected"
    /\ resyncs' = resyncs \ {r}
    /\ UNCHANGED <<user, version, linked, state, remote, thread, pushed, relayAsked, relayStarted, relayStopped,
                   surface>>

\* A client asks for the status, and the middleware forwards it.
AskStatus ==
    /\ Forwards /\ Forwarding /\ relayAsked = {}
    /\ relayAsked' = {[to |-> link, answer |-> MaxVersion + 1]}
    /\ UNCHANGED <<user, version, linked, state, remote, thread, pushed, resyncs, relayStarted, relayStopped,
                   surface>>

StatusAnswered(q) ==
    /\ q \in relayAsked /\ q.answer = MaxVersion + 1
    /\ relayAsked' = {[q EXCEPT !.answer = version[q.to]["status"]]}
    /\ UNCHANGED <<user, version, linked, state, remote, thread, pushed, resyncs, relayStarted, relayStopped,
                   surface>>

\* #forward: the answer is what #remote is now.
Forwarded(q) ==
    /\ q \in relayAsked /\ q.answer <= MaxVersion
    /\ relayAsked' = {}
    /\ remote' = [of |-> q.to, version |-> q.answer]
    /\ UNCHANGED <<user, version, linked, state, thread, pushed, resyncs, relayStarted, relayStopped, surface>>

NotForwarded(q) ==
    /\ q \in relayAsked
    /\ relayAsked' = {}
    /\ UNCHANGED <<user, version, linked, state, remote, thread, pushed, resyncs, relayStarted, relayStopped,
                   surface>>

-----------------------------------------------------------------------------
(* Surfaces.                                                               *)

Watch ==
    /\ watchers < MaxWatchers
    /\ watchers' = watchers + 1
    /\ IF watchers > 0 THEN UNCHANGED <<source, subscribed>>
       ELSE /\ source' = IF link = NoPeer THEN "local" ELSE "link"
            /\ subscribed' = (link # NoPeer /\ ws = "connected")
    /\ UNCHANGED <<user, version, linked, state, remote, thread, pushed, resyncs, relayAsked, relayStarted,
                   relayStopped>>

Unwatch ==
    /\ watchers > 0
    /\ watchers' = watchers - 1
    /\ IF watchers > 1 THEN UNCHANGED <<source, subscribed>>
       ELSE source' = "none" /\ subscribed' = FALSE
    /\ UNCHANGED <<user, version, linked, state, remote, thread, pushed, resyncs, relayAsked, relayStarted,
                   relayStopped>>

-----------------------------------------------------------------------------
LinkSteps == Open \/ Opened \/ Hello \/ FromMachine

Reads ==
    \/ \E r \in resyncs : (\E t \in Things : Answers(r, t)) \/ Resynced(r) \/ ResyncFails(r)
    \/ AskStatus
    \/ \E q \in relayAsked : StatusAnswered(q) \/ Forwarded(q) \/ NotForwarded(q)

RelayNext ==
    \/ \E r \in BOOLEAN, c \in Peer \cup {NoPeer} : Move(r, c)
    \/ StartRelay \/ StopRelay
    \/ \E m \in Peer : Revokes(m) \/ \E t \in Things : ChangesThere(m, t)
    \/ LinkSteps \/ Closes
    \/ Reads
    \/ Watch \/ Unwatch

RelaySpec == RelayInit /\ [][RelayNext]_relayVars

\* The machine refuses a connection it does not accept, and answers reads.
LinkRefused == Closes /\ ws = "opening" /\ link \notin accepts
ResyncSteps == \E r \in resyncs : (\E t \in Things : Answers(r, t)) \/ Resynced(r)

\* The machine answers, and timers fire.
RelayLiveSpec == RelaySpec /\ WF_relayVars(LinkSteps) /\ WF_relayVars(LinkRefused) /\ WF_relayVars(ResyncSteps)

-----------------------------------------------------------------------------
(* Properties.                                                             *)

CaughtUp(t, known) ==
    /\ state = "connected" /\ ~ relayStopped
    /\ ~ \E r \in resyncs : r.current
    /\ t \notin {events[i].thing : i \in DOMAIN events}
    => known = [of |-> link, version |-> version[link][t]]

\* "This device's clients may have missed events: push [what they missed]
\* (skipping what the machine pushed meanwhile, which is newer)": once a resync
\* is over and every event is read, clients know each thread and approval as it
\* is on the machine, however events, reads and reconnections crossed.
ThreadsCatchUp == CaughtUp("thread", thread)

\* The status shown is that of the machine the agent is relayed to.
StatusIsOfTheMachine == Forwarding /\ remote # Nothing => remote.of = link

\* Exactly the surfaces someone here watches are subscribed on every connection,
\* and at the local runtime only while nothing is relayed.
WatchedIsSubscribed ==
    ~ relayStopped =>
        /\ watchers > 0 => source = IF link = NoPeer THEN "local" ELSE "link"
        /\ ws = "connected" => (subscribed <=> watchers > 0)

\* What clients are told the relay does is what its link does.
StateIsTheLinks ==
    ~ relayStopped =>
        /\ (state = "connected") <=> (ws = "connected")
        /\ link = NoPeer <=> (~ relayed \/ credential = NoPeer)
        /\ (state = "off") <=> ~ relayed

\* Together, what the clients are shown of the machine: the status, unless an
\* answer that one machine gave may come after a change to another, and the
\* threads, unless the reads that catch up on them may fail.
RelayShowsTheMachine ==
    /\ RelayTypeOK
    /\ (Forwards => \A m, n \in Peer : m = n) => StatusIsOfTheMachine
    /\ WatchedIsSubscribed
    /\ StateIsTheLinks
    /\ ~ ReadsFail => ThreadsCatchUp

\* Stopped, not accepted, or at the bound.
Excused == relayStopped \/ ~ relayStarted \/ link \notin accepts \/ opened = MaxLinks

\* With a machine that takes this device, the link comes up, and up again
\* whenever it was lost; the clients then learn what they missed.
LinkComesUp ==
    <>[](\/ Excused
         \/ /\ state = "connected"
            /\ thread = [of |-> link, version |-> version[link]["thread"]])
=============================================================================
