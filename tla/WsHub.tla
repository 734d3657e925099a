------------------------------- MODULE WsHub -------------------------------
(***************************************************************************)
(* The daemon's WebSocket hub, apps/daemon/src/ws.ts: who gets which event,*)
(* who watches which live surface, and how a client that is slow, gone or  *)
(* revoked is let go.                                                      *)
(*                                                                         *)
(* Who may connect is the security policy's business and is left out, and  *)
(* so are the contents of events: an event is one that must arrive, one    *)
(* that may be skipped (a token delta), or a frame of a surface.  What a   *)
(* socket has not been read of is counted in events.                       *)
(***************************************************************************)
EXTENDS Naturals, FiniteSets

CONSTANTS
  Clients,      \* connections; an ended one stands for a new one
  Devices,      \* paired devices
  DeviceOf,     \* the device a connection authenticates as, or None
  Surfaces,     \* a thread's browser or computer
  None,
  MaxSurfaces,  \* MAX_SURFACES_PER_CLIENT
  DropAbove,    \* dropThreshold
  MaxBuffered,  \* maxBuffered
  MaxEvents,    \* how many events that must arrive are broadcast
  Fails         \* the runtime may refuse a subscription

ASSUME HubAssumption ==
  /\ IsFiniteSet(Clients) /\ Fails \in BOOLEAN
  /\ {MaxSurfaces, DropAbove, MaxBuffered, MaxEvents} \subseteq Nat

VARIABLES
  sock,      \* each connection's socket
  clients,   \* the connections that get events
  alive,     \* which have answered since the last heartbeat
  there,     \* which still have somebody at the other end
  watches,   \* surfaces: what each connection watches
  unread,    \* bufferedAmount
  count,     \* surfaceSubscriptions: how many watch a surface
  subscribed, \* the runtime's subscriptions that are not released
  sent,      \* how many events that must arrive there have been
  next,      \* the one each connection gets next
  hub        \* "open", "closing" or "closed"

hubVars ==
  <<sock, clients, alive, there, watches, unread, count, subscribed, sent, next, hub>>

HubTypeOK ==
  /\ sock \in [Clients -> {"ended", "open", "closing", "cut"}]
  /\ clients \subseteq Clients
  /\ alive \subseteq Clients /\ there \subseteq Clients
  /\ watches \in [Clients -> SUBSET Surfaces]
  /\ unread \in [Clients -> 0 .. MaxBuffered + 1]
  /\ count \in [Surfaces -> 0 .. Cardinality(Clients)]
  /\ subscribed \in [Surfaces -> 0 .. Cardinality(Clients)]
  /\ sent \in 0 .. MaxEvents
  /\ next \in [Clients -> 0 .. MaxEvents]
  /\ hub \in {"open", "closing", "closed"}

HubInit ==
  /\ sock = [c \in Clients |-> "ended"]
  /\ clients = {} /\ alive = {} /\ there = {}
  /\ watches = [c \in Clients |-> {}]
  /\ unread = [c \in Clients |-> 0]
  /\ count = [s \in Surfaces |-> 0]
  /\ subscribed = [s \in Surfaces |-> 0]
  /\ sent = 0
  /\ next = [c \in Clients |-> 0]
  /\ hub = "open"

-----------------------------------------------------------------------------
(* Sending.                                                                *)

\* Slip: a slow client is spared every event.
TakesWhenFast(c, droppable) == sock[c] = "open" /\ unread[c] <= DropAbove

\* send: a client that is not reading is cut off; a droppable event is skipped
\* for one that is slow.
Overrun(c) == sock[c] = "open" /\ unread[c] > MaxBuffered
Takes(c, droppable) ==
  /\ sock[c] = "open"
  /\ unread[c] <= MaxBuffered
  /\ ~(droppable /\ unread[c] > DropAbove)

Send(to, droppable) ==
  /\ sock' = [c \in Clients |->
                IF c \in to /\ Overrun(c) THEN "cut" ELSE sock[c]]
  /\ unread' = [c \in Clients |->
                  IF c \in to /\ Takes(c, droppable)
                  THEN unread[c] + 1 ELSE unread[c]]

\* An event that must arrive.
Broadcast ==
  /\ hub = "open"
  /\ sent < MaxEvents
  /\ sent' = sent + 1
  /\ Send(clients, FALSE)
  /\ next' = [c \in Clients |->
                IF c \in clients /\ Takes(c, FALSE) THEN sent' ELSE next[c]]
  /\ UNCHANGED <<clients, alive, there, watches, count, subscribed, hub>>

\* A token delta, which the final message makes up for.
BroadcastDelta ==
  /\ hub = "open"
  /\ Send(clients, TRUE)
  /\ UNCHANGED <<clients, alive, there, watches, count, subscribed, sent, next, hub>>

\* sendFrame: a live surface's frame goes to those that watch it.
SendFrame(s) ==
  /\ hub = "open"
  /\ subscribed[s] > 0
  /\ Send({c \in clients : s \in watches[c]}, TRUE)
  /\ UNCHANGED <<clients, alive, there, watches, count, subscribed, sent, next, hub>>

-----------------------------------------------------------------------------
(* What clients send.                                                      *)

\* A closing socket's messages are still handled; nothing is sent to it.
Hears(c) == sock[c] \in {"open", "closing"} /\ c \in there

SubscribeSurface(c, s) ==
  /\ Hears(c)
  /\ s \notin watches[c]
  /\ \/ /\ Cardinality(watches[c]) < MaxSurfaces
        /\ watches' = [watches EXCEPT ![c] = @ \cup {s}]
        /\ count' = [count EXCEPT ![s] = @ + 1]
        /\ subscribed' = IF count[s] = 0
                      THEN [subscribed EXCEPT ![s] = @ + 1] ELSE subscribed
        /\ UNCHANGED <<sock, unread>>
     \/ \* too many, or the runtime refuses: an error is sent
        /\ \/ Cardinality(watches[c]) >= MaxSurfaces
           \/ Fails /\ count[s] = 0
        /\ Send({c}, FALSE)
        /\ UNCHANGED <<watches, count, subscribed>>
  /\ UNCHANGED <<clients, alive, there, sent, next, hub>>

\* What is left of the subscriptions once `c` no longer watches `gone`: the
\* runtime's is released with the last one that watches.
Unwatched(c, gone) ==
  /\ watches' = [watches EXCEPT ![c] = @ \ gone]
  /\ count' = [s \in Surfaces |->
                 IF s \in gone /\ count[s] > 0 THEN count[s] - 1 ELSE count[s]]
  /\ subscribed' = [s \in Surfaces |->
                   IF s \in gone /\ count[s] = 1 THEN subscribed[s] - 1
                   ELSE subscribed[s]]

UnsubscribeSurface(c, s) ==
  /\ Hears(c)
  /\ s \in watches[c]
  /\ Unwatched(c, {s})
  /\ UNCHANGED <<sock, clients, alive, there, unread, sent, next, hub>>

\* The client reads what its socket holds, and answers a ping.
Reads(c) ==
  /\ Hears(c)
  /\ unread[c] > 0
  /\ unread' = [unread EXCEPT ![c] = @ - 1]
  /\ UNCHANGED <<sock, clients, alive, there, watches, count, subscribed, sent,
                 next, hub>>

Pong(c) ==
  /\ Hears(c)
  /\ c \notin alive
  /\ alive' = alive \cup {c}
  /\ UNCHANGED <<sock, clients, there, watches, unread, count, subscribed, sent,
                 next, hub>>

-----------------------------------------------------------------------------
(* Connections.                                                            *)

\* onConnection: the first event it is sent is the hub's hello.
Connect(c) ==
  /\ hub = "open"
  /\ sock[c] = "ended"
  /\ sock' = [sock EXCEPT ![c] = "open"]
  /\ clients' = clients \cup {c}
  /\ alive' = alive \cup {c}
  /\ there' = there \cup {c}
  /\ unread' = [unread EXCEPT ![c] = 1]
  /\ next' = [next EXCEPT ![c] = sent]
  /\ UNCHANGED <<watches, count, subscribed, sent, hub>>

\* The other end vanishes without a word: its socket stays open for now.
Vanishes(c) ==
  /\ sock[c] = "open" /\ c \in there
  /\ there' = there \ {c}
  /\ UNCHANGED <<sock, clients, alive, watches, unread, count, subscribed, sent,
                 next, hub>>

\* The socket's close event: what the client watched is released.  An open
\* socket closes when its client leaves; a closing one that nobody answers any
\* more does not close by itself.
SocketCloses(c) ==
  /\ sock[c] \in {"open", "closing"} => c \in there
  /\ sock[c] # "ended"
  /\ sock' = [sock EXCEPT ![c] = "ended"]
  /\ clients' = clients \ {c}
  /\ alive' = alive \ {c}
  /\ there' = there \ {c}
  /\ unread' = [unread EXCEPT ![c] = 0]
  /\ next' = [next EXCEPT ![c] = 0]
  /\ Unwatched(c, watches[c])
  /\ UNCHANGED <<sent, hub>>

\* The heartbeat: who has not answered the last one is cut off.
Heartbeat ==
  /\ hub = "open"
  /\ sock' = [c \in Clients |->
                IF c \in clients \ alive /\ sock[c] # "ended" THEN "cut"
                ELSE sock[c]]
  /\ alive' = alive \ clients
  /\ UNCHANGED <<clients, there, watches, unread, count, subscribed, sent, next, hub>>

\* closeDevice: a revoked device's connections get nothing more.
Revoke(d) ==
  /\ hub = "open"
  /\ LET gone == {c \in clients : DeviceOf[c] = d} IN
       /\ gone # {}
       /\ clients' = clients \ gone
       /\ sock' = [c \in Clients |->
                     IF c \in gone /\ sock[c] = "open" THEN "closing" ELSE sock[c]]
  /\ UNCHANGED <<alive, there, watches, unread, count, subscribed, sent, next, hub>>

\* The grace a closing socket gets is over.
GraceEnds(c) ==
  /\ sock[c] = "closing"
  /\ sock' = [sock EXCEPT ![c] = "cut"]
  /\ UNCHANGED <<clients, alive, there, watches, unread, count, subscribed, sent,
                 next, hub>>

-----------------------------------------------------------------------------
(* The hub's own end.                                                      *)

CloseHub ==
  /\ hub = "open"
  /\ hub' = "closing"
  /\ sock' = [c \in Clients |->
                IF c \in clients /\ sock[c] = "open" THEN "closing" ELSE sock[c]]
  /\ UNCHANGED <<clients, alive, there, watches, unread, count, subscribed, sent,
                 next>>

\* Every socket has closed: what is still subscribed is released.
HubCloses ==
  /\ hub = "closing"
  /\ \A c \in Clients : sock[c] = "ended"
  /\ hub' = "closed"
  /\ subscribed' = [s \in Surfaces |-> IF count[s] > 0 THEN subscribed[s] - 1 ELSE subscribed[s]]
  /\ count' = [s \in Surfaces |-> 0]
  /\ UNCHANGED <<sock, clients, alive, there, watches, unread, sent, next>>

HubNext ==
  \/ Broadcast \/ BroadcastDelta
  \/ \E s \in Surfaces : SendFrame(s)
  \/ \E c \in Clients, s \in Surfaces :
       SubscribeSurface(c, s) \/ UnsubscribeSurface(c, s)
  \/ \E c \in Clients :
       \/ Reads(c) \/ Pong(c) \/ Connect(c) \/ Vanishes(c)
       \/ SocketCloses(c) \/ GraceEnds(c)
  \/ Heartbeat
  \/ \E d \in Devices : Revoke(d)
  \/ CloseHub \/ HubCloses

HubSpec == HubInit /\ [][HubNext]_hubVars

\* The hub's own timers fire, and a socket that was cut closes.  Clients need
\* not read, answer or leave.
HubFairSpec ==
  /\ HubSpec
  /\ WF_hubVars(Heartbeat)
  /\ WF_hubVars(HubCloses)
  /\ \A c \in Clients :
       WF_hubVars(GraceEnds(c)) /\ WF_hubVars(sock[c] = "cut" /\ SocketCloses(c))

-----------------------------------------------------------------------------
(* Properties.                                                             *)

\* The runtime runs a surface's live view exactly while some connection watches
\* it, once however many do: through every order of subscriptions, refusals,
\* revocations, losses and the hub's close.
RunsWhileWatched ==
  \A s \in Surfaces :
    /\ count[s] = Cardinality({c \in Clients : s \in watches[c]})
    /\ subscribed[s] = IF count[s] > 0 THEN 1 ELSE 0

\* A connection that is still open has been sent every event that must arrive
\* since it came, or it is no longer among those that get any: a slow client
\* misses deltas and frames, and is cut off before it misses anything else.
NothingIsSkipped ==
  \A c \in clients : sock[c] = "open" => next[c] = sent

\* What the hub holds for a client that does not read stays within its bound.
BufferIsBounded ==
  \A c \in Clients : unread[c] <= MaxBuffered + 1

\* Once its device has been revoked nothing more is sent on a connection.
RevokedGetNothing ==
  [][\A c \in Clients : c \notin clients /\ sock[c] # "ended"
       => unread'[c] <= unread[c]]_hubVars

\* The hub: a client gets its events without a gap or is cut off, what waits
\* for it is bounded, what is watched runs exactly while somebody watches, and
\* a revoked device gets nothing more.
ClientsSkipNothing ==
  /\ [](HubTypeOK /\ NothingIsSkipped /\ BufferIsBounded /\ RunsWhileWatched)
  /\ RevokedGetNothing

\* A client that vanishes stops watching and getting, and so does one that has
\* been revoked, though neither says a word.
TheGoneLetGo ==
  \A c \in Clients :
    (sock[c] # "ended" /\ (c \notin there \/ c \notin clients))
      ~> (sock[c] = "ended" /\ watches[c] = {})

\* Closing the hub ends.
HubEnds == hub = "closing" ~> hub = "closed"
=============================================================================
