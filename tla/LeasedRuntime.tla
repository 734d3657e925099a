----------------------------- MODULE LeasedRuntime -----------------------------
(***************************************************************************)
(* The daemon's agent runtime (apps/daemon/src/leased-runtime.ts): the     *)
(* real runtime, a "stack" here, exists only between activate() and        *)
(* deactivate(); in between a NullAgentRuntime answers.  The calls run one *)
(* at a time, in the order they were made (#enqueue), each waiting for a   *)
(* stack to be created, to start or to stop.                               *)
(*                                                                         *)
(* Stacks are numbered as they are created.  A settings object is the      *)
(* number of the change that made it.                                      *)
(***************************************************************************)
EXTENDS Naturals, Sequences

CONSTANTS
    Caller,       \* whoever calls it and waits for the call
    MaxStacks,    \* bound on the stacks ever created
    MaxSettings   \* bound on the changes of the settings

ASSUME LeasedRuntimeAssumption == MaxSettings \in Nat

VARIABLES
    calls,     \* the running call, first, and those behind it: #queue
    stage,     \* what the running call waits for
    stacks,    \* every stack so far: its settings, and its life
    active,    \* #active: the number of a stack, 0 for null
    started,   \* #started
    closed,    \* #stopped
    settings   \* #settings

runtime == <<calls, stage, stacks, active, started, closed, settings>>

Ops == {"activate", "deactivate", "start", "stop"}
Stages == {"none", "creating", "starting", "stopping"}

RuntimeTypeOK ==
    /\ calls \in Seq([op : Ops, by : Caller])
    /\ stage \in Stages
    /\ stage # "none" => calls # <<>>
    /\ stacks \in Seq([settings : 0 .. MaxSettings,
                       life : {"new", "started", "stopping", "gone"}])
    /\ active \in 0 .. Len(stacks)
    /\ started \in BOOLEAN
    /\ closed \in BOOLEAN
    /\ settings \in 0 .. MaxSettings

RuntimeInit ==
    /\ calls = <<>>
    /\ stage = "none"
    /\ stacks = <<>>
    /\ active = 0
    /\ started = FALSE
    /\ closed = FALSE
    /\ settings = 0

-----------------------------------------------------------------------------
(* Calls.  A caller waits for its call: it has one at a time.              *)

Waits(c) == \E i \in DOMAIN calls : calls[i].by = c

Call(c, o) ==
    /\ ~ Waits(c)
    /\ calls' = Append(calls, [op |-> o, by |-> c])

\* start and stop take effect on the flags at once, the rest waits in the queue.
CallStart(c) ==
    /\ Call(c, "start")
    /\ started' = TRUE
    /\ UNCHANGED <<stage, stacks, active, closed, settings>>

CallStop(c) ==
    /\ Call(c, "stop")
    /\ closed' = TRUE
    /\ UNCHANGED <<stage, stacks, active, started, settings>>

Activations == Len(SelectSeq(calls, LAMBDA call : call.op = "activate"))

CallSwap(c, o) ==
    /\ o \in {"activate", "deactivate"}
    /\ o = "activate" => Len(stacks) + Activations < MaxStacks
    /\ Call(c, o)
    /\ UNCHANGED <<stage, stacks, active, started, closed, settings>>

\* updateSettings: not queued.  The next stack is made from them, and the
\* active one is told.
UpdateSettings ==
    /\ settings < MaxSettings
    /\ settings' = settings + 1
    /\ stacks' = IF active = 0 THEN stacks
                 ELSE [stacks EXCEPT ![active].settings = settings + 1]
    /\ UNCHANGED <<calls, stage, active, started, closed>>

-----------------------------------------------------------------------------
(* The running call.                                                       *)

Running(o) == calls # <<>> /\ Head(calls).op = o

Ends == calls' = Tail(calls) /\ stage' = "none"

Life(i, l) == [stacks EXCEPT ![i].life = l]

\* "No-op when it runs already or after stop()."
\* Slip: a runtime that was stopped is activated all the same.
ActivateClosed ==
    /\ Running("activate") /\ stage = "none"
    /\ IF active # 0 THEN Ends /\ UNCHANGED stacks
       ELSE /\ stacks' = Append(stacks, [settings |-> settings, life |-> "new"])
            /\ stage' = "creating"
            /\ UNCHANGED calls
    /\ UNCHANGED <<active, started, closed, settings>>

Activate ==
    /\ Running("activate") /\ stage = "none"
    /\ IF closed \/ active # 0 THEN Ends /\ UNCHANGED stacks
       ELSE /\ stacks' = Append(stacks, [settings |-> settings, life |-> "new"])
            /\ stage' = "creating"
            /\ UNCHANGED calls
    /\ UNCHANGED <<active, started, closed, settings>>

\* createStack answers (it never throws): the stack is disposed again after a
\* stop(), and started if the daemon has started.
Created ==
    /\ stage = "creating"
    /\ \/ /\ closed
          /\ stage' = "stopping"
          /\ stacks' = Life(Len(stacks), "stopping")
          /\ UNCHANGED <<calls, active>>
       \/ /\ ~ closed
          /\ active' = Len(stacks)
          /\ IF started THEN stage' = "starting" /\ stacks' = Life(Len(stacks), "started")
                             /\ UNCHANGED calls
             ELSE Ends /\ UNCHANGED stacks
    /\ UNCHANGED <<started, closed, settings>>

\* runtime.start() returns, or fails and is logged.
HasStarted ==
    /\ stage = "starting"
    /\ Ends
    /\ UNCHANGED <<stacks, active, started, closed, settings>>

\* deactivate and stop: #active is null, and whoever asks is answered by the
\* NullAgentRuntime, before the stack stops.
Deactivate ==
    /\ (Running("deactivate") \/ Running("stop")) /\ stage = "none"
    /\ IF active = 0 THEN Ends /\ UNCHANGED stacks
       ELSE stacks' = Life(active, "stopping") /\ stage' = "stopping" /\ UNCHANGED calls
    /\ active' = 0
    /\ UNCHANGED <<started, closed, settings>>

\* #dispose: the stack flushed its state and is gone.
Disposed ==
    /\ stage = "stopping"
    /\ stacks' = Life(Len(stacks), "gone")
    /\ Ends
    /\ UNCHANGED <<active, started, closed, settings>>

\* start: the stack that was activated before it is started now.  A stack
\* started already takes no notice.
Start ==
    /\ Running("start") /\ stage = "none"
    /\ IF active = 0 THEN Ends /\ UNCHANGED stacks
       ELSE stacks' = Life(active, "started") /\ stage' = "starting" /\ UNCHANGED calls
    /\ UNCHANGED <<active, started, closed, settings>>

Works ==
    \/ Activate \/ Created \/ HasStarted \/ Deactivate \/ Disposed \/ Start

-----------------------------------------------------------------------------
(* On its own: the callers call as they like.                              *)

CONSTANT MaxCalls   \* bound on the calls waiting at once

RuntimeCalls(c) ==
    /\ Len(calls) < MaxCalls
    /\ \/ \E o \in {"activate", "deactivate"} : CallSwap(c, o)
       \/ ~ started /\ CallStart(c)
       \/ ~ closed /\ CallStop(c)

RuntimeNext == Works \/ UpdateSettings \/ \E c \in Caller : RuntimeCalls(c)

RuntimeSpec == RuntimeInit /\ [][RuntimeNext]_runtime /\ WF_runtime(Works)

-----------------------------------------------------------------------------
(* Properties.                                                             *)

Alive(i) == stacks[i].life # "gone"

\* Whatever the order of the calls, two real runtimes never exist at once: the
\* next is created only when the one before it has flushed its state.
OneStack == \A i, j \in DOMAIN stacks : Alive(i) /\ Alive(j) => i = j

\* Commands and queries never go to a runtime that is stopping or gone.
NeverAnswersFromAStopped == active # 0 => stacks[active].life \in {"new", "started"}

\* "Never activates after stop()": once a stop() has run, nothing runs any more,
\* whichever call it met half way.
GoneAfterStop ==
    closed /\ ~ (\E i \in DOMAIN calls : calls[i].op = "stop")
        => \A i \in DOMAIN stacks : ~ Alive(i) \/ (stage = "stopping" /\ i = Len(stacks))

\* A runtime activated before the daemon's start(), during it or after it has
\* been started once no call is under way.
StartedWhenItShouldBe ==
    calls = <<>> /\ started /\ active # 0 => stacks[active].life = "started"

\* Together, whatever the callers do: one stack at a time, started when it
\* should be, gone once it was stopped, and no call answered by a stopped one.
CallsReachTheStack ==
    /\ RuntimeTypeOK
    /\ OneStack
    /\ NeverAnswersFromAStopped
    /\ GoneAfterStop
    /\ StartedWhenItShouldBe

\* Every call returns: they never wait for one another in a circle.
CallsEnd == \A c \in Caller : Waits(c) ~> ~ Waits(c)
=============================================================================
