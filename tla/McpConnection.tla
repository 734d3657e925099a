---------------------------- MODULE McpConnection ----------------------------
(***************************************************************************)
(* One connection to an MCP server, packages/connectors/src/connection.ts. *)
(*                                                                         *)
(* A session is one client with its transport, a child process for a stdio *)
(* server.  A session is opened lazily by the first use (`connecting`), or *)
(* by the background loop after a loss (`reconnecting`); the two, the      *)
(* calls, refreshes of the tool list and `close` all run concurrently on   *)
(* one event loop, and the server may die between any two of their steps.  *)
(* What a promise's settling runs without waiting for an event (adopting a *)
(* session and handing it to the calls that wait) is one step.             *)
(*                                                                         *)
(* The server's tool list is the number of times it has changed.           *)
(***************************************************************************)
EXTENDS Naturals, FiniteSets, SequencesExt

CONSTANTS
  Sessions,      \* sessions; one that is gone and forgotten stands for a new one
  Calls,         \* tool calls, each made once
  Undefined,
  MaxReconnects, \* retry.maxReconnectAttempts
  MaxChanges,    \* how often the server changes its tools
  MaxRefreshes,  \* refreshes under way at once
  SseFallback,   \* source.sseFallback: an http server
  Rushed,        \* a change may be announced between the pages of a listing
  Overtakes,     \* the answer of one tools/list may overtake an earlier one's
  ListsFail      \* a refresh of the tools may fail on a live session

VARIABLES
  currentState,  \* currentState, as the settings show it
  session,       \* the session in use
  tools,         \* the tools offered: which session listed them, and when
  cool,          \* retryAt has not come yet
  negotiated,    \* the transport settled on: the configured one, or legacy SSE
  sse,           \* sessions opened over legacy SSE
  attempt,       \* connecting: the session a lazy attempt opens
  loop,          \* reconnecting: which attempt it is at, and the session it opens
  timer,         \* refreshTimer, for the session that announced a change
  refreshes,     \* tools/list requests of refreshes under way, oldest first
  closeStage,    \* "no", "closing" or "done"
  phase,         \* how far each session is
  listed,        \* the tools its first listing gave a session
  serves,        \* the tools the server has now
  notes,         \* sessions a list_changed notification is on its way to
  toolCalls      \* what became of each call

mcpVars == <<currentState, session, tools, cool, negotiated, sse, attempt, loop, timer,
             refreshes, closeStage, phase, listed, serves, notes, toolCalls>>

Waiting == [at |-> "waiting"]
RunningOn(s) == [at |-> "running", on |-> s]
Settled(how) == [at |-> "ended", how |-> how]

Opening == {"opening", "starting", "listing", "listed"}
ServerRuns == {"starting", "listing", "listed", "live", "disposing"}

Offers == [from : Sessions, at : 0 .. MaxChanges]
Retries == [n : 1 .. MaxReconnects, opens : Sessions \cup {Undefined}]
Requests == [from : Sessions, got : {Undefined} \cup 0 .. MaxChanges]
CallStates ==
  {Waiting} \cup {RunningOn(s) : s \in Sessions}
    \cup {Settled(h) : h \in {"ok", "lost", "refused", "timeout"}}

(* The loop tries at least once: its limit is 5 unless a test sets another. *)
ASSUME McpAssumption ==
  /\ MaxReconnects \in Nat \ {0} /\ MaxChanges \in Nat /\ MaxRefreshes \in Nat
  /\ {SseFallback, Rushed, Overtakes, ListsFail} \subseteq BOOLEAN
  /\ Undefined \notin Sessions \cup Nat \cup {"plain", "sse"}
  /\ Undefined \notin Offers \cup Retries \cup CallStates

McpTypeOK ==
  /\ currentState \in {"idle", "connecting", "connected", "error", "closed"}
  /\ session \in Sessions \cup {Undefined}
  /\ tools \in Offers \cup {Undefined}
  /\ cool \in BOOLEAN
  /\ negotiated \in {Undefined, "plain", "sse"}
  /\ sse \subseteq Sessions
  /\ attempt \in Sessions \cup {Undefined}
  /\ loop \in Retries \cup {Undefined}
  /\ timer \in Sessions \cup {Undefined}
  /\ refreshes \in Seq(Requests) /\ Len(refreshes) <= MaxRefreshes
  /\ closeStage \in {"no", "closing", "done"}
  /\ phase \in [Sessions -> Opening \cup ServerRuns \cup {"ending", "gone"}]
  /\ listed \in [Sessions -> 0 .. MaxChanges]
  /\ serves \in 0 .. MaxChanges
  /\ notes \subseteq Sessions
  /\ toolCalls \in [Calls -> CallStates \cup {Undefined}]

McpInit ==
  /\ currentState = "idle" /\ session = Undefined /\ tools = Undefined
  /\ cool = FALSE /\ negotiated = Undefined /\ sse = {}
  /\ attempt = Undefined /\ loop = Undefined
  /\ timer = Undefined /\ refreshes = <<>>
  /\ closeStage = "no"
  /\ phase = [s \in Sessions |-> "gone"]
  /\ listed = [s \in Sessions |-> 0]
  /\ serves = 0 /\ notes = {}
  /\ toolCalls = [c \in Calls |-> Undefined]

-----------------------------------------------------------------------------
(* What the steps share.                                                   *)

Open == closeStage = "no"

\* The session an attempt, lazy or of the loop, is opening.
Owned(s) == attempt = s \/ (loop # Undefined /\ loop.opens = s)

\* Every call that waits for the attempt goes on, with session `s` or without.
Released(s) ==
  [c \in Calls |->
     IF toolCalls[c] # Waiting THEN toolCalls[c]
     ELSE IF s = Undefined THEN Settled("refused") ELSE RunningOn(s)]

\* The calls made on a session end with it: its client rejects them.
Cut(s) ==
  [c \in Calls |->
     IF toolCalls[c] = RunningOn(s) THEN Settled("lost") ELSE toolCalls[c]]

\* enterError: no tools are offered, and the server is left alone for a while.
EnterError ==
  /\ currentState' = "error"
  /\ tools' = Undefined
  /\ cool' = TRUE

\* lostSession and startReconnect, for the session in use.
LostSession(s) ==
  /\ session' = Undefined
  /\ timer' = Undefined
  /\ currentState' = "connecting"
  /\ loop' = [n |-> 1, opens |-> Undefined]

\* The attempt that was opening `s` has failed for `why`.
AttemptFails(s, why) ==
  IF attempt = s
  THEN /\ attempt' = Undefined
       /\ toolCalls' = Released(Undefined)
       /\ IF Open THEN EnterError ELSE UNCHANGED <<currentState, tools, cool>>
       /\ UNCHANGED loop
  ELSE /\ UNCHANGED attempt
       /\ IF Open /\ why # "config" /\ loop.n < MaxReconnects
          THEN /\ loop' = [n |-> loop.n + 1, opens |-> Undefined]
               /\ UNCHANGED <<currentState, tools, cool, toolCalls>>
          ELSE /\ loop' = Undefined
               /\ toolCalls' = Released(Undefined)
               /\ IF Open THEN EnterError ELSE UNCHANGED <<currentState, tools, cool>>

\* shouldFallBack: a rejected first connection is tried over legacy SSE.
MayFallBack(s) ==
  SseFallback /\ Open /\ s \notin sse /\ negotiated = Undefined

\* connectOnce: a new session is opened, over legacy SSE or not.
Unused(s) ==
  /\ phase[s] = "gone"
  /\ tools # Undefined => tools.from # s
  /\ \A i \in DOMAIN refreshes : refreshes[i].from # s

ConnectOnce(s, fallback) ==
  /\ Unused(s)
  /\ phase' = [phase EXCEPT ![s] = "opening"]
  /\ sse' = IF fallback THEN sse \cup {s} ELSE sse \ {s}

-----------------------------------------------------------------------------
(* Using the connection.                                                   *)

\* ensureSession may begin an attempt: nothing is under way, and the server
\* is not being left alone.
MayBegin ==
  /\ Open /\ session = Undefined /\ loop = Undefined /\ attempt = Undefined
  /\ ~(currentState = "error" /\ cool)

BeginAttempt(s) ==
  /\ ConnectOnce(s, negotiated = "sse")
  /\ attempt' = s
  /\ currentState' = "connecting"

\* ready(): the list of tools is asked for.
Ready ==
  /\ MayBegin
  /\ \E s \in Sessions : BeginAttempt(s)
  /\ UNCHANGED <<session, tools, cool, negotiated, loop, timer, refreshes,
                 closeStage, listed, serves, notes, toolCalls>>

\* callTool: the call runs on the session in use, waits for the attempt or the
\* loop under way, begins an attempt, or is refused.
CallsTool(c) ==
  /\ toolCalls[c] = Undefined
  /\ \/ /\ MayBegin
        /\ \E s \in Sessions : BeginAttempt(s)
        /\ toolCalls' = [toolCalls EXCEPT ![c] = Waiting]
     \/ /\ ~MayBegin
        /\ toolCalls' = [toolCalls EXCEPT ![c] =
             IF session # Undefined THEN RunningOn(session)
             ELSE IF Open /\ (loop # Undefined \/ attempt # Undefined) THEN Waiting
             ELSE Settled("refused")]
        /\ UNCHANGED <<phase, sse, attempt, currentState>>
  /\ UNCHANGED <<session, tools, cool, negotiated, loop, timer, refreshes,
                 closeStage, listed, serves, notes>>

\* The server answers a call.
Answers(c) ==
  /\ \E s \in Sessions : toolCalls[c] = RunningOn(s) /\ phase[s] = "live"
  /\ toolCalls' = [toolCalls EXCEPT ![c] = Settled("ok")]
  /\ UNCHANGED <<currentState, session, tools, cool, negotiated, sse, attempt, loop, timer,
                 refreshes, closeStage, phase, listed, serves, notes>>

\* The call's own time is over, or its caller gives it up.
TimesOut(c) ==
  /\ toolCalls[c] = Waiting \/ \E s \in Sessions : toolCalls[c] = RunningOn(s)
  /\ toolCalls' = [toolCalls EXCEPT ![c] = Settled("timeout")]
  /\ UNCHANGED <<currentState, session, tools, cool, negotiated, sse, attempt, loop, timer,
                 refreshes, closeStage, phase, listed, serves, notes>>

\* An http server answers 404: it has forgotten the session, which is given up.
\* A session that is being closed on purpose is left to that.
Forgotten(c) ==
  /\ SseFallback
  /\ \E s \in Sessions :
       /\ toolCalls[c] = RunningOn(s)
       /\ session = s /\ s \notin sse
       /\ LostSession(s)
       /\ phase' = [phase EXCEPT ![s] = "ending"]
  /\ toolCalls' = [toolCalls EXCEPT ![c] = Settled("lost")]
  /\ UNCHANGED <<tools, cool, negotiated, sse, attempt, refreshes, closeStage, listed,
                 serves, notes>>

-----------------------------------------------------------------------------
(* Opening a session.                                                      *)

\* The loop's delay is over.
BackoffEnds ==
  /\ loop # Undefined /\ loop.opens = Undefined
  /\ \E s \in Sessions :
       /\ ConnectOnce(s, negotiated = "sse")
       /\ loop' = [loop EXCEPT !.opens = s]
  /\ UNCHANGED <<currentState, session, tools, cool, negotiated, attempt, timer,
                 refreshes, closeStage, listed, serves, notes, toolCalls>>

\* Slip: a close during source.open goes unnoticed.
OpenedAnyway(s) ==
  /\ phase[s] = "opening"
  /\ phase' = [phase EXCEPT ![s] = "starting"]
  /\ UNCHANGED <<currentState, session, tools, cool, negotiated, sse, attempt, loop,
                 timer, refreshes, closeStage, listed, serves, notes, toolCalls>>

\* source.open has resolved the launch.  Nothing runs yet: if the connection
\* was closed meanwhile the attempt ends here.
Opened(s) ==
  /\ phase[s] = "opening"
  /\ IF Open
     THEN /\ phase' = [phase EXCEPT ![s] = "starting"]
          /\ UNCHANGED <<currentState, tools, cool, attempt, loop, toolCalls>>
     ELSE /\ phase' = [phase EXCEPT ![s] = "gone"]
          /\ AttemptFails(s, "closed")
  /\ UNCHANGED <<session, negotiated, sse, timer, refreshes, closeStage, listed, serves,
                 notes>>

\* The launch cannot be resolved: a placeholder without a value, a missing cwd.
OpenFails(s) ==
  /\ phase[s] = "opening"
  /\ phase' = [phase EXCEPT ![s] = "gone"]
  /\ AttemptFails(s, "config")
  /\ UNCHANGED <<session, negotiated, sse, timer, refreshes, closeStage, listed, serves,
                 notes>>

\* client.connect is done: the tools are asked for.
Initialized(s) ==
  /\ phase[s] = "starting"
  /\ phase' = [phase EXCEPT ![s] = "listing"]
  /\ UNCHANGED <<currentState, session, tools, cool, negotiated, sse, attempt, loop, timer,
                 refreshes, closeStage, listed, serves, notes, toolCalls>>

\* The server has answered the (first page of the) listing.
Lists(s) ==
  /\ phase[s] = "listing"
  /\ phase' = [phase EXCEPT ![s] = "listed"]
  /\ listed' = [listed EXCEPT ![s] = serves]
  /\ UNCHANGED <<currentState, session, tools, cool, negotiated, sse, attempt, loop, timer,
                 refreshes, closeStage, serves, notes, toolCalls>>

\* adopt: the session is put to use, and the calls that waited run on it.
Adopt(s) ==
  /\ phase[s] = "listed"
  /\ phase' = [phase EXCEPT ![s] = "live"]
  /\ session' = s
  /\ tools' = [from |-> s, at |-> listed[s]]
  /\ cool' = FALSE
  /\ negotiated' = IF s \in sse THEN "sse" ELSE "plain"
  /\ listed' = [listed EXCEPT ![s] = 0]
  /\ currentState' = "connected"
  /\ attempt' = IF attempt = s THEN Undefined ELSE attempt
  /\ loop' = IF attempt = s THEN loop ELSE Undefined
  /\ toolCalls' = Released(s)
  /\ UNCHANGED <<sse, timer, refreshes, closeStage, serves, notes>>

\* The server refuses, exits or says nothing in time: what was started is
\* disposed of before the attempt goes on.
ConnectFails(s) ==
  /\ phase[s] \in {"starting", "listing", "listed"}
  /\ phase' = [phase EXCEPT ![s] = "disposing"]
  /\ UNCHANGED <<currentState, session, tools, cool, negotiated, sse, attempt, loop, timer,
                 refreshes, closeStage, listed, serves, notes, toolCalls>>

-----------------------------------------------------------------------------
(* The end of a session.                                                   *)

\* disposeSession is done: an attempt that waited for it falls back to SSE,
\* or fails.
DisposeEnds(s) ==
  /\ phase[s] \in {"disposing", "ending"}
  /\ \/ /\ ~Owned(s)
        /\ phase' = [phase EXCEPT ![s] = "gone"]
        /\ toolCalls' = Cut(s)
        /\ UNCHANGED <<currentState, tools, cool, sse, attempt, loop>>
     \/ /\ Owned(s)
        /\ phase' = [phase EXCEPT ![s] = "gone"]
        /\ AttemptFails(s, "connect")
        /\ UNCHANGED sse
     \/ /\ Owned(s) /\ MayFallBack(s)
        /\ \E f \in Sessions \ {s} :
             /\ Unused(f)
             /\ phase' = [phase EXCEPT ![s] = "gone", ![f] = "opening"]
             /\ sse' = sse \cup {f}
             /\ attempt' = f
        /\ UNCHANGED <<currentState, tools, cool, loop, toolCalls>>
  /\ notes' = notes \ {s}
  /\ listed' = [listed EXCEPT ![s] = 0]
  /\ UNCHANGED <<session, negotiated, timer, refreshes, closeStage, serves>>

\* handleClose: the server exits, or its connection breaks, while in use.
Dies(s) ==
  /\ phase[s] = "live"
  /\ phase' = [phase EXCEPT ![s] = "gone"]
  /\ session = s
  /\ LostSession(s)
  /\ toolCalls' = Cut(s)
  /\ notes' = notes \ {s}
  /\ UNCHANGED <<tools, cool, negotiated, sse, attempt, refreshes, closeStage, listed,
                 serves>>

\* The cooldown after an error has passed.
CoolsDown ==
  /\ cool
  /\ cool' = FALSE
  /\ UNCHANGED <<currentState, session, tools, negotiated, sse, attempt, loop, timer,
                 refreshes, closeStage, phase, listed, serves, notes, toolCalls>>

\* close(): whatever is open or being opened is stopped.
Close ==
  /\ Open
  /\ closeStage' = "closing"
  /\ currentState' = "closed"
  /\ session' = Undefined
  /\ tools' = Undefined
  /\ timer' = Undefined
  /\ phase' = [s \in Sessions |->
                 IF phase[s] \in {"starting", "listing", "listed", "live"}
                 THEN "disposing" ELSE phase[s]]
  /\ IF loop # Undefined /\ loop.opens = Undefined
     THEN loop' = Undefined /\ toolCalls' = Released(Undefined)
     ELSE UNCHANGED <<loop, toolCalls>>
  /\ UNCHANGED <<cool, negotiated, sse, attempt, refreshes, listed, serves, notes>>

\* What close() returned resolves: its session is disposed of, and the attempt
\* and the loop are over.  A session lost earlier is not waited for.
CloseEnds ==
  /\ closeStage = "closing"
  /\ attempt = Undefined /\ loop = Undefined
  /\ \A s \in Sessions : phase[s] # "disposing"
  /\ closeStage' = "done"
  /\ UNCHANGED <<currentState, session, tools, cool, negotiated, sse, attempt, loop, timer,
                 refreshes, phase, listed, serves, notes, toolCalls>>

-----------------------------------------------------------------------------
(* The tool list.                                                          *)

\* The server changes its tools and says so on every session it has served.
Changes ==
  /\ serves < MaxChanges
  /\ serves' = serves + 1
  /\ notes' = notes \cup {s \in Sessions : phase[s] \in {"listed", "live"}}
  /\ UNCHANGED <<currentState, session, tools, cool, negotiated, sse, attempt, loop, timer,
                 refreshes, closeStage, phase, listed, toolCalls>>

\* scheduleToolsRefresh: a notification of a session not in use is dropped.
Announced(s) ==
  /\ s \in notes
  /\ phase[s] # "listed" \/ Rushed
  /\ notes' = notes \ {s}
  /\ timer' = IF session = s THEN s ELSE timer
  /\ UNCHANGED <<currentState, session, tools, cool, negotiated, sse, attempt, loop,
                 refreshes, closeStage, phase, listed, serves, toolCalls>>

\* The timer fires: the tools are asked for again, beside any earlier request.
RefreshTools ==
  /\ timer # Undefined
  /\ Len(refreshes) < MaxRefreshes
  /\ timer' = Undefined
  /\ refreshes' = Append(refreshes, [from |-> timer, got |-> Undefined])
  /\ UNCHANGED <<currentState, session, tools, cool, negotiated, sse, attempt, loop,
                 closeStage, phase, listed, serves, notes, toolCalls>>

\* The server answers a refresh with the tools it has.
AnswersRefresh(i) ==
  /\ refreshes[i].got = Undefined
  /\ phase[refreshes[i].from] = "live"
  /\ Overtakes \/ \A j \in 1 .. i - 1 : refreshes[j].got # Undefined
  /\ refreshes' = [refreshes EXCEPT ![i].got = serves]
  /\ UNCHANGED <<currentState, session, tools, cool, negotiated, sse, attempt, loop,
                 timer, closeStage, phase, listed, serves, notes, toolCalls>>

\* The answer arrives: the tools of a session no longer in use are dropped.
Refreshed(i) ==
  /\ refreshes[i].got # Undefined
  /\ Overtakes \/ i = 1
  /\ refreshes' = RemoveAt(refreshes, i)
  /\ tools' = IF session = refreshes[i].from
              THEN [from |-> session, at |-> refreshes[i].got] ELSE tools
  /\ UNCHANGED <<currentState, session, cool, negotiated, sse, attempt, loop, timer,
                 closeStage, phase, listed, serves, notes, toolCalls>>

\* A refresh fails, with its session or on its own: the tools stay.
RefreshFails(i) ==
  /\ phase[refreshes[i].from] # "live" \/ ListsFail
  /\ refreshes' = RemoveAt(refreshes, i)
  /\ UNCHANGED <<currentState, session, tools, cool, negotiated, sse, attempt, loop,
                 timer, closeStage, phase, listed, serves, notes, toolCalls>>

-----------------------------------------------------------------------------
McpNext ==
  \/ Ready
  \/ \E c \in Calls : CallsTool(c) \/ Answers(c) \/ TimesOut(c) \/ Forgotten(c)
  \/ BackoffEnds
  \/ \E s \in Sessions :
       \/ Opened(s) \/ OpenFails(s) \/ Initialized(s) \/ Lists(s)
       \/ Adopt(s) \/ ConnectFails(s) \/ DisposeEnds(s) \/ Dies(s) \/ Announced(s)
  \/ CoolsDown
  \/ Close \/ CloseEnds
  \/ Changes
  \/ RefreshTools
  \/ \E i \in DOMAIN refreshes :
       AnswersRefresh(i) \/ Refreshed(i) \/ RefreshFails(i)

McpSpec == McpInit /\ [][McpNext]_mcpVars

\* Every attempt gets somewhere: what a server does not answer ends by the
\* connect deadline, a disposal by its own timeouts and a kill, and the delays
\* are timers.  Calls are not assumed to time out, nor servers to stay up.
Progress(s) ==
  \/ Opened(s) \/ OpenFails(s) \/ Initialized(s) \/ Lists(s) \/ Adopt(s)
  \/ ConnectFails(s) \/ DisposeEnds(s)

McpFairSpec ==
  /\ McpSpec
  /\ \A s \in Sessions : WF_mcpVars(Progress(s))
  /\ WF_mcpVars(BackoffEnds)
  /\ WF_mcpVars(CloseEnds)
  /\ \A i \in 1 .. MaxRefreshes :
       WF_mcpVars(i \in DOMAIN refreshes /\ (Refreshed(i) \/ RefreshFails(i)))

-----------------------------------------------------------------------------
(* Properties.                                                             *)

\* However uses, losses and a close interleave, at most one session is being
\* opened or in use: a server is never run twice.
OneSession ==
  Cardinality({s \in Sessions : phase[s] \in Opening \cup {"live"}}) <= 1

\* Once what close() returned has resolved nothing of the server runs, and
\* nothing is begun any more, wherever the close found the connection.
ClosedIsOver ==
  closeStage = "done" =>
    \A s \in Sessions : phase[s] \notin Opening \cup ServerRuns

\* The state shown is what is going on: connected with a session in use,
\* connecting while one is being opened or the loop waits, and an error only
\* when nothing is under way and no tools are offered.
StateIsTrue ==
  Open =>
    /\ currentState = "connected" <=> session # Undefined
    /\ currentState = "connecting" <=> attempt # Undefined \/ loop # Undefined
    /\ currentState \in {"idle", "error"} => tools = Undefined
    /\ session # Undefined => phase[session] = "live"

\* The tools offered are those of the session in use, those of the one before
\* it only while it is being replaced: an answer to an older session's request
\* never comes through.
ToolsAreTheSessions ==
  /\ session # Undefined => tools # Undefined /\ tools.from = session
  /\ loop # Undefined /\ Open => tools # Undefined

\* A call waits only for something under way, and runs only on a session
\* whose end will be told it.
NobodyWaitsForNothing ==
  \A c \in Calls :
    /\ toolCalls[c] = Waiting => attempt # Undefined \/ loop # Undefined
    /\ \A s \in Sessions :
         toolCalls[c] = RunningOn(s) => phase[s] \in {"live", "disposing", "ending"}

\* Once every announced change has been asked for and answered, the tools
\* offered are the ones the server has: if answers come in the order of their
\* requests, none fails and no change is announced before the session is used.
ToolsCatchUp ==
  /\ ~Rushed /\ ~Overtakes /\ ~ListsFail
  /\ session # Undefined /\ timer = Undefined /\ refreshes = <<>> /\ session \notin notes
  => tools.at = serves

\* A server that failed is left alone until its cooldown has passed, however
\* many ask for its tools or call them.
LeftAlone ==
  [][currentState = "error" /\ cool =>
       \A s \in Sessions : phase[s] = "gone" => phase'[s] = "gone"]_mcpVars

\* All of these: the server runs once and not after a close, the state shown and
\* the tools offered are those of the session in use, nobody waits for nothing,
\* and a server that failed is left alone.
ServerIsConnectedOnce ==
  /\ [](/\ McpTypeOK
        /\ OneSession
        /\ ClosedIsOver
        /\ StateIsTrue
        /\ ToolsAreTheSessions
        /\ NobodyWaitsForNothing
        /\ ToolsCatchUp)
  /\ LeftAlone

\* A connection does not stay on its way: it comes up, fails or is closed.
ComesToRest == currentState = "connecting" ~> currentState # "connecting"

\* A close ends.
CloseResolves == closeStage = "closing" ~> closeStage = "done"

\* A call that waits for the connection is let go, one way or the other,
\* without its own timeout.
WaitersAreReleased ==
  \A c \in Calls : toolCalls[c] = Waiting ~> toolCalls[c] # Waiting
=============================================================================
