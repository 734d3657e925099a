----------------------------- MODULE Connectors -----------------------------
(***************************************************************************)
(* The connector manager, packages/connectors/src/manager.ts, and the tool *)
(* specs it hands out, packages/connectors/src/adapter.ts.                 *)
(*                                                                         *)
(* One configured server with one tool.  A connection is what McpConnection*)
(* shows it to be; here it is only the state and the tool it offers, which *)
(* is known by what the server annotates it with: it "reads" or "writes".  *)
(***************************************************************************)
EXTENDS Naturals, FiniteSets

CONSTANTS
  Conns,     \* connections; one that is closed and forgotten may be made anew
  Getters,   \* callers of getTools
  Launches,  \* how the server may be launched: a change needs a reconnection
  Reloads,   \* reloads that may be under way at once
  Nothing,
  Postures,  \* the approval postures the configuration may have
  Callers    \* calls that agents may have under way through the specs they hold

Annotations == {"reads", "writes"}
ASSUME NothingAssumption == Nothing \notin Annotations \cup Conns \cup Postures
Configs == {Nothing} \cup
  [launch : Launches, posture : Postures, allows : BOOLEAN]

VARIABLES
  config,      \* the configuration in force: Nothing when removed or disabled
  connection,  \* the connection of its entry
  conns,       \* every connection's state and the tool it offers
  connectorsStarted,  \* getTools has been called
  disposed,
  cache,       \* toolCache, Nothing when its generation has passed
  queued,      \* emitQueued
  told,        \* lastEmitted
  annotates,   \* what the server annotates its tool with, Nothing if that may change
  getters,     \* what each getTools waits for
  reloads,     \* reloads waiting for a connection to close, and what they made
  held,        \* the annotation in the tool spec an agent holds
  decided      \* every call under way, by what was made of it when it was evaluated

connectorsVars == <<config, connection, conns, connectorsStarted, disposed, cache, queued, told,
          annotates, getters, reloads, held, decided>>

\* A call: whether approval was found needed, under which posture, and the
\* connection it has gone to since.
Decisions ==
  [needed : BOOLEAN, posture : Postures \cup {Nothing}, on : Conns \cup {Nothing}]

Made(k) == conns[k].state \notin {"none", "closing", "closed"}

ConnectorsTypeOK ==
  /\ config \in Configs
  /\ connection \in Conns \cup {Nothing}
  /\ conns \in [Conns ->
       [state : {"none", "idle", "connecting", "connected", "reconnecting",
                 "error", "closing", "closed"},
        tool : Annotations \cup {Nothing}]]
  /\ connectorsStarted \in BOOLEAN /\ disposed \in BOOLEAN /\ queued \in BOOLEAN
  /\ annotates \in Annotations \cup {Nothing}
  /\ getters \in [Getters -> Conns \cup {Nothing}]
  /\ reloads \in [Reloads ->
       {Nothing} \cup [retired : Conns \cup {Nothing}, created : Conns \cup {Nothing}]]
  /\ cache \in {Nothing} \cup [tool : Annotations \cup {Nothing}]
  /\ held \in Annotations \cup {Nothing}
  /\ decided \in [Callers -> {Nothing} \cup Decisions]

-----------------------------------------------------------------------------
(* What is made of the entry.                                              *)

Built ==
  IF connection # Nothing /\ config # Nothing /\ config.allows
       /\ conns[connection].tool # Nothing
  THEN [tool |-> conns[connection].tool] ELSE [tool |-> Nothing]

\* entryStatus: the state of the connection and whether its tool is counted.
StatusOf(c, k, cs) ==
  IF k = Nothing THEN [state |-> "disabled", tool |-> FALSE]
  ELSE [state |-> IF cs[k].state = "reconnecting" THEN "connecting"
                  ELSE IF cs[k].state \in {"closing", "closed"} THEN "idle"
                  ELSE cs[k].state,
        tool |-> c.allows /\ cs[k].tool # Nothing]

\* Slip: a change while telling is due is taken to be covered by it.
ChangedOnce ==
  /\ cache' = IF queued THEN cache ELSE Nothing
  /\ queued' = TRUE

\* changed(): the cached tools are of a passed generation, and the status is
\* told once what runs now is through.
Changed ==
  /\ cache' = Nothing
  /\ queued' = TRUE

\* ready() on a connection, in the states `cs`.
Readied(cs, k) ==
  IF cs[k].state \in {"idle", "error"}
  THEN [cs EXCEPT ![k].state = "connecting"] ELSE cs

\* close() on a connection.
ClosedIn(cs, k) ==
  IF k # Nothing /\ cs[k].state \notin {"closing", "closed"}
  THEN [cs EXCEPT ![k] = [state |-> "closing", tool |-> Nothing]] ELSE cs

ConnectorsInit ==
  /\ config \in Configs
  /\ \E k \in Conns :
       /\ connection = IF config = Nothing THEN Nothing ELSE k
       /\ conns = [j \in Conns |->
            [state |-> IF j = connection THEN "idle" ELSE "none", tool |-> Nothing]]
  /\ connectorsStarted = FALSE /\ disposed = FALSE
  /\ cache = Nothing /\ queued = FALSE
  /\ told = StatusOf(config, connection, conns)
  /\ annotates \in Annotations \cup {Nothing}
  /\ getters = [g \in Getters |-> Nothing]
  /\ reloads = [r \in Reloads |-> Nothing]
  /\ held = Nothing
  /\ decided = [a \in Callers |-> Nothing]

-----------------------------------------------------------------------------
(* getTools.                                                               *)

\* buildTools: the cached tools while nothing has changed.  They are for an agent,
\* whose session keeps them, or for something else.
Build ==
  /\ cache' = IF cache = Nothing THEN Built ELSE cache
  /\ held' \in {held, cache'.tool}

\* The connection is brought up first, unless it is up, reconnecting on its own
\* or left alone after an error.
GetTools(g) ==
  /\ getters[g] = Nothing
  /\ ~disposed
  /\ connectorsStarted' = TRUE
  /\ \/ /\ connection # Nothing
        /\ conns[connection].state \in {"idle", "error", "connecting"}
        /\ getters' = [getters EXCEPT ![g] = connection]
        /\ conns' = Readied(conns, connection)
        /\ IF conns' # conns THEN Changed ELSE UNCHANGED <<cache, queued>>
        /\ UNCHANGED held
     \/ /\ connection # Nothing =>
             conns[connection].state \in {"connected", "reconnecting", "error"}
        /\ Build
        /\ UNCHANGED <<conns, queued, getters>>
  /\ UNCHANGED <<config, connection, disposed, told, annotates, reloads, decided>>

\* The connection it waited for is up, down or closed.
GetsTools(g) ==
  /\ getters[g] \in Conns
  /\ conns[getters[g]].state # "connecting"
  /\ getters' = [getters EXCEPT ![g] = Nothing]
  /\ IF disposed THEN UNCHANGED <<cache, held>> ELSE Build
  /\ UNCHANGED <<config, connection, conns, connectorsStarted, disposed, queued, told,
                 annotates, reloads, decided>>

-----------------------------------------------------------------------------
(* What the connections do.                                                *)

\* onChange is called after the connection's state, tool or error has changed.
Becomes(k, state, tool) ==
  /\ conns' = [conns EXCEPT ![k] = [state |-> state, tool |-> tool]]
  /\ Changed
  /\ UNCHANGED <<config, connection, connectorsStarted, disposed, told, annotates, getters, reloads,
                 held, decided>>

\* A server keeps to its annotation, unless it is one that doesn't.
MayAnnotate(a) == annotates \in {Nothing, a}

ConnUp(k) ==
  /\ conns[k].state \in {"connecting", "reconnecting"}
  /\ \E a \in Annotations : MayAnnotate(a) /\ Becomes(k, "connected", a)

ConnFails(k) ==
  /\ conns[k].state \in {"connecting", "reconnecting"}
  /\ Becomes(k, "error", Nothing)

ConnLost(k) ==
  /\ conns[k].state = "connected"
  /\ Becomes(k, "reconnecting", conns[k].tool)

ToolListChanged(k) ==
  /\ conns[k].state = "connected"
  /\ \E a \in Annotations : MayAnnotate(a) /\ Becomes(k, "connected", a)

ConnClosed(k) ==
  /\ conns[k].state = "closing"
  /\ conns' = [conns EXCEPT ![k].state = "closed"]
  /\ UNCHANGED <<config, connection, connectorsStarted, disposed, cache, queued, told,
                 annotates, getters, reloads, held, decided>>

\* The microtask that tells the status.
Emit ==
  /\ queued
  /\ queued' = FALSE
  /\ told' = IF disposed THEN told ELSE StatusOf(config, connection, conns)
  /\ UNCHANGED <<config, connection, conns, connectorsStarted, disposed, cache, annotates, getters,
                 reloads, held, decided>>

-----------------------------------------------------------------------------
(* reload and dispose.                                                     *)

\* entryKey: an entry keeps its connection while this stays the same.
Key(c) == IF c = Nothing THEN Nothing ELSE c.launch

\* A connection object not in use yet, or no longer known to anything.
Unseen(k) ==
  /\ conns[k].state \in {"none", "closed"}
  /\ connection # k
  /\ \A g \in Getters : getters[g] # k
  /\ \A r \in Reloads :
       reloads[r] # Nothing => reloads[r].retired # k /\ reloads[r].created # k
  /\ \A a \in Callers : decided[a] # Nothing => decided[a].on # k

\* reload: a policy-only change applies in place; another one replaces the
\* connection, and waits for the old one to close.
Reload(r, c) ==
  /\ ~disposed
  /\ reloads[r] = Nothing
  /\ c # config
  /\ config' = c
  /\ \/ /\ Key(c) = Key(config)
        /\ UNCHANGED <<connection, conns, reloads>>
     \/ /\ Key(c) # Key(config)
        /\ \E k \in Conns :
             /\ Unseen(k)
             /\ connection' = IF c = Nothing THEN Nothing ELSE k
             /\ conns' =
                  LET cs == ClosedIn(conns, connection) IN
                  IF c = Nothing THEN cs
                  ELSE [cs EXCEPT ![k] = [state |-> "idle", tool |-> Nothing]]
             /\ reloads' = [reloads EXCEPT ![r] =
                  [retired |-> connection, created |-> connection']]
  /\ Changed
  /\ UNCHANGED <<connectorsStarted, disposed, told, annotates, getters, held, decided>>

\* The retired connection is closed: what the reload made is brought up, unless
\* it has been closed itself meanwhile.
ReloadEnds(r) ==
  /\ reloads[r] # Nothing
  /\ reloads[r].retired # Nothing => conns[reloads[r].retired].state = "closed"
  /\ reloads' = [reloads EXCEPT ![r] = Nothing]
  /\ conns' = IF connectorsStarted /\ ~disposed /\ reloads[r].created # Nothing
              THEN Readied(conns, reloads[r].created) ELSE conns
  /\ IF conns' # conns THEN Changed ELSE UNCHANGED <<cache, queued>>
  /\ UNCHANGED <<config, connection, connectorsStarted, disposed, told, annotates, getters, held,
                 decided>>

\* dispose.
Dispose ==
  /\ ~disposed
  /\ disposed' = TRUE
  /\ config' = Nothing
  /\ connection' = Nothing
  /\ conns' = ClosedIn(conns, connection)
  /\ cache' = Nothing
  /\ UNCHANGED <<connectorsStarted, queued, told, annotates, getters, reloads, held, decided>>

-----------------------------------------------------------------------------
(* A tool spec in an agent's hands.                                        *)

\* requiresApproval: the posture is the one in force, the annotation the one
\* the spec was made with; a server that is gone fails closed.
RequiresApproval(annotated) ==
  \/ config = Nothing
  \/ config.posture = "always"
  \/ config.posture = "writes" /\ annotated # "reads"

\* alwaysRequireApproval is read once, as the call is evaluated.  The judge, the
\* user and the tool ledger are waited for only then.
Evaluate(a) ==
  /\ held # Nothing
  /\ decided[a] = Nothing
  /\ decided' = [decided EXCEPT ![a] =
       [needed |-> RequiresApproval(held),
        posture |-> IF config = Nothing THEN Nothing ELSE config.posture,
        on |-> Nothing]]
  /\ UNCHANGED <<config, connection, conns, connectorsStarted, disposed, cache, queued,
                 told, annotates, getters, reloads, held>>

\* callTool: the allowed call goes to the connection the entry has now, which is
\* brought up for it if need be.
CallTool(a) ==
  /\ decided[a] # Nothing /\ decided[a].on = Nothing
  /\ connection # Nothing /\ config.allows
  /\ decided' = [decided EXCEPT ![a].on = connection]
  /\ conns' = Readied(conns, connection)
  /\ IF conns' # conns THEN Changed ELSE UNCHANGED <<cache, queued>>
  /\ UNCHANGED <<config, connection, connectorsStarted, disposed, told, annotates, getters,
                 reloads, held>>

\* The session it waits for is there: the call reaches the server.
AtServer(a) ==
  /\ decided[a] # Nothing /\ decided[a].on # Nothing
  /\ conns[decided[a].on].state = "connected"

\* The call runs; or it is denied, given up or refused: its server is gone or
\* closed, its tool filtered, or no session is had in time.
CallEnds(a) ==
  /\ decided[a] # Nothing
  /\ decided' = [decided EXCEPT ![a] = Nothing]
  /\ UNCHANGED <<config, connection, conns, connectorsStarted, disposed, cache, queued,
                 told, annotates, getters, reloads, held>>

-----------------------------------------------------------------------------
ConnectorsNext ==
  \/ \E g \in Getters : GetTools(g) \/ GetsTools(g)
  \/ \E k \in Conns : ConnUp(k) \/ ConnFails(k) \/ ConnLost(k)
                        \/ ToolListChanged(k) \/ ConnClosed(k)
  \/ Emit
  \/ \E r \in Reloads : ReloadEnds(r) \/ \E c \in Configs : Reload(r, c)
  \/ Dispose
  \/ \E a \in Callers : Evaluate(a) \/ CallTool(a) \/ CallEnds(a)

ConnectorsSpec == ConnectorsInit /\ [][ConnectorsNext]_connectorsVars

\* Closing ends, by kill if need be, and what waits for it goes on.
FairConnectorsSpec ==
  /\ ConnectorsSpec
  /\ \A k \in Conns : WF_connectorsVars(ConnClosed(k))
  /\ \A r \in Reloads : WF_connectorsVars(ReloadEnds(r))

-----------------------------------------------------------------------------
(* Properties.                                                             *)

\* The cached tools are what building them anew would give: no change of a
\* connection or of the configuration leaves them behind.
CacheIsCurrent == cache # Nothing => cache = Built

\* What was told last is the status, unless telling it is due.
StatusIsTold ==
  ~queued /\ ~disposed => told = StatusOf(config, connection, conns)

\* A connection no entry has any more is closed or closing, whatever reloads,
\* getTools and dispose run at once.
NothingIsLeftOpen ==
  \A k \in Conns : Made(k) => connection = k

\* A reload brings up what it made, once anybody has asked for tools, even
\* when the next reload or a dispose comes before it is through.
NewServersComeUp ==
  \A k \in Conns :
    connectorsStarted /\ connection = k /\ conns[k].state = "idle"
      ~> conns[k].state # "idle"

\* A call that reaches a tool that writes was found to need approval, if the
\* posture it was evaluated under is "always" or "writes" or its server was gone
\* then: whatever was reloaded between the making of its spec, its evaluation and
\* its running, and on whatever connection it runs, if the server keeps to its
\* annotation.  (A posture that is tightened after the evaluation does not reach
\* the call.)
WritesAreAsked ==
  annotates # Nothing =>
    \A a \in Callers :
      AtServer(a) /\ conns[decided[a].on].tool = "writes"
          /\ decided[a].posture \in {Nothing, "always", "writes"}
        => decided[a].needed

\* The connectors: tools and status follow the configuration, connections it no
\* longer has are closed, and what the server doesn't mark as reading is asked
\* about, by the posture a call is evaluated under.
ConnectorsFollow ==
  /\ ConnectorsTypeOK
  /\ CacheIsCurrent
  /\ StatusIsTold
  /\ NothingIsLeftOpen
  /\ WritesAreAsked
=============================================================================
