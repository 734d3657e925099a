--------------------------- MODULE AgentLease_proofs ---------------------------
(***************************************************************************)
(* At most one agent, for every number of devices and all timings that     *)
(* satisfy Prompt; the service's promises, and that no lease falls silent, *)
(* for all timings.                                                        *)
(***************************************************************************)
EXTENDS AgentLease, TLAPS

-----------------------------------------------------------------------------
(* The transactions on the lease row: every one yields a row.              *)

\* The row of an empty table is a row.
LEMMA NoRowType == NoRow \in LeaseRow
BY LeaseTableAssumption DEF NoRow, LeaseRow, NoPending, Pending, Priority

\* acquireLease writes a row.
LEMMA AcquireType ==
    ASSUME NEW r \in LeaseRow, NEW q \in LeaseRequest
    PROVE  AfterAcquire(r, q) \in LeaseRow
<1>1. NoPending \in Pending
  BY LeaseTableAssumption DEF NoPending, Pending, Priority
<1>2. Grant(r, q) \in LeaseRow
  BY <1>1, LeaseTableAssumption DEF Grant, LeaseRow, LeaseRequest
<1>3. AskToYield(r, q) \in LeaseRow
  BY LeaseTableAssumption DEF AskToYield, LeaseRow, LeaseRequest, Pending
<1> QED
  BY <1>2, <1>3 DEF AfterAcquire

\* A withdrawal, and with it releaseLease, writes a row.
LEMMA ReleaseType ==
    ASSUME NEW r \in LeaseRow, NEW d \in Device, NEW s \in Nat
    PROVE  AfterRelease(r, d, s) \in LeaseRow
<1>1. Withdrawn(r, d) \in LeaseRow
  BY LeaseTableAssumption DEF Withdrawn, LeaseRow, NoPending, Pending, Priority
<1>2. 0 \in (-Grace) .. MaxTTL
  BY LeaseTableAssumption
<1> QED
  BY <1>1, <1>2 DEF AfterRelease, LeaseRow

\* Time leaves a row.
LEMMA AgedType ==
    ASSUME NEW r \in LeaseRow
    PROVE  Aged(r) \in LeaseRow
<1> DEFINE waited == [r.pending EXCEPT !.age = IF r.pending.age < Lapse THEN r.pending.age + 1
                                               ELSE r.pending.age]
           left == IF r.left > -Grace THEN r.left - 1 ELSE r.left
<1>1. waited \in Pending
  BY LeaseTableAssumption DEF LeaseRow, Pending
<1>2. left \in (-Grace) .. MaxTTL
  BY LeaseTableAssumption DEF LeaseRow
<1>3. Aged(r) = [r EXCEPT !.left = left, !.pending = waited]
  BY DEF Aged, LeaseRow
<1> HIDE DEF waited, left
<1> QED
  BY <1>1, <1>2, <1>3 DEF LeaseRow

-----------------------------------------------------------------------------
(* A live grant.                                                           *)

\* Whoever asks, a live grant stays with its holder under its epoch, and only
\* the holder's own renewal moves its end.
LEMMA LiveGrantStays ==
    ASSUME NEW r \in LeaseRow, NEW q \in LeaseRequest, Live(r)
    PROVE  /\ AfterAcquire(r, q).device = r.device
           /\ AfterAcquire(r, q).session = r.session
           /\ AfterAcquire(r, q).epoch = r.epoch
           /\ \/ AfterAcquire(r, q).left = r.left
              \/ Renews(r, q) /\ AfterAcquire(r, q).left = q.ttl
BY DEF AfterAcquire, Granted, Grant, AskToYield, Renews, HeldBy, LeaseRow, LeaseRequest

\* What a granted request leaves is a live grant of its device and session.
LEMMA GrantedIsHeld ==
    ASSUME NEW r \in LeaseRow, NEW q \in LeaseRequest, Granted(r, q)
    PROVE  /\ HeldBy(AfterAcquire(r, q), q.device, q.session)
           /\ AfterAcquire(r, q).left = q.ttl
           /\ AfterAcquire(r, q).epoch = IF Renews(r, q) THEN r.epoch ELSE r.epoch + 1
BY DEF AfterAcquire, Grant, HeldBy, LeaseRow, LeaseRequest

\* A refused request changes nothing but the pending takeover.
LEMMA RefusedChangesNoGrant ==
    ASSUME NEW r \in LeaseRow, NEW q \in LeaseRequest, ~ Granted(r, q)
    PROVE  /\ AfterAcquire(r, q).device = r.device
           /\ AfterAcquire(r, q).session = r.session
           /\ AfterAcquire(r, q).epoch = r.epoch
           /\ AfterAcquire(r, q).left = r.left
           /\ AfterAcquire(r, q).priority = r.priority
BY DEF AfterAcquire, AskToYield, LeaseRow, LeaseRequest

\* A release ends at most the grant of its own device and session.
LEMMA ReleaseEndsOwnGrant ==
    ASSUME NEW r \in LeaseRow, NEW d \in Device, NEW s \in Nat
    PROVE  /\ AfterRelease(r, d, s).device = r.device
           /\ AfterRelease(r, d, s).session = r.session
           /\ AfterRelease(r, d, s).epoch = r.epoch
           /\ AfterRelease(r, d, s).priority = r.priority
           /\ \/ AfterRelease(r, d, s).left = r.left
              \/ Live(r) /\ HeldBy(r, d, s) /\ AfterRelease(r, d, s).left = 0
BY DEF AfterRelease, Withdrawn, Renews, HeldBy, LeaseRow

\* Time takes one tick off a grant and moves it nowhere.
LEMMA AgedGrant ==
    ASSUME NEW r \in LeaseRow
    PROVE  /\ Aged(r).device = r.device
           /\ Aged(r).session = r.session
           /\ Aged(r).epoch = r.epoch
           /\ Aged(r).priority = r.priority
           /\ Aged(r).left =< r.left
           /\ Aged(r).left >= r.left - 1
BY LeaseTableAssumption DEF Aged, LeaseRow

-----------------------------------------------------------------------------
(* Types.                                                                  *)

\* A daemon's request is one the lease table answers.
LEMMA AskForType ==
    ASSUME NEW d \in Device, NEW r \in Request
    PROVE  AskFor(d, r) \in LeaseRequest
BY AgentLeaseAssumption DEF AskFor, Request, LeaseRequest

\* Every wait of a step has a bound.
LEMMA LimitType == \A s \in Steps : Limit[s] \in Nat
BY AgentLeaseAssumption DEF Limit, Steps

\* Giving a request up keeps the network's variables in their types.
LEMMA AbandonType ==
    ASSUME TypeOK, NEW d \in Device, Abandon(d)
    PROVE  /\ request' \in [Device -> Request]
           /\ reply' \in [Device -> Reply]
           /\ late' \in [Device -> Request]
<1>1. NoRequest \in Request /\ NoReply \in Reply
  BY DEF NoRequest, NoReply, Request, Reply, Priority
<1> QED
  BY <1>1 DEF TypeOK, Abandon, HangUp, Set

\* So does the end of a grant.
LEMMA UnavailableType ==
    ASSUME TypeOK, NEW d \in Device, NEW k \in Kinds, NEW b \in BOOLEAN, NEW w \in Int,
           Unavailable(d, k, b, w)
    PROVE  /\ kind' \in [Device -> Kinds]
           /\ asked' \in [Device -> BOOLEAN]
           /\ heldEpoch' \in [Device -> Nat]
           /\ step' \in [Device -> Steps]
           /\ busy' \in [Device -> Nat]
           /\ after' \in [Device -> Int]
           /\ wait' \in [Device -> Int]
<1>1. kind' \in [Device -> Kinds] /\ asked' \in [Device -> BOOLEAN] /\ heldEpoch' \in [Device -> Nat]
  BY DEF TypeOK, Unavailable, Set
<1>2. CASE kind[d] = "held"
  BY <1>1, <1>2 DEF TypeOK, Unavailable, Set, Await, Steps
<1>3. CASE kind[d] # "held"
  BY <1>1, <1>3 DEF TypeOK, Unavailable, EndStep, Set, Await, Steps, Off
<1> QED
  BY <1>2, <1>3

\* And the step's way on from a grant.
LEMMA AfterGrantType ==
    ASSUME TypeOK, NEW d \in Device, NEW yields, AfterGrant(d, yields)
    PROVE  /\ kind' \in [Device -> Kinds]
           /\ step' \in [Device -> Steps]
           /\ busy' \in [Device -> Nat]
           /\ after' \in [Device -> Int]
           /\ wait' \in [Device -> Int]
<1>1. CASE yields /\ ~ stopped[d]
  BY <1>1 DEF TypeOK, AfterGrant, Set, Await, Kinds, Steps
<1>2. CASE ~ (yields /\ ~ stopped[d])
  BY <1>2, AgentLeaseAssumption DEF TypeOK, AfterGrant, EndStep, Set, Await, Kinds, Steps, Off
<1> QED
  BY <1>1, <1>2

\* At first nothing is running and nothing is stored.
LEMMA InitType == Init => TypeOK
<1>1. NoRequest \in Request /\ NoReply \in Reply
  BY DEF NoRequest, NoReply, Request, Reply, Priority
<1> QED
  BY <1>1, NoRowType, AgentLeaseAssumption DEF Init, TypeOK, Kinds, Steps, Off

\* Every step of daemons, service and clock keeps every variable in its type.
LEMMA TypeStep == TypeOK /\ [Next]_vars => TypeOK'
<1> SUFFICES ASSUME TypeOK, [Next]_vars PROVE TypeOK'
  OBVIOUS
<1> USE DEF TypeOK, Set, Await, EndStep, Send, HangUp,
            lease, running, network, process
<1>a. NoRequest \in Request /\ NoReply \in Reply /\ 1 \in Int /\ Off \in Int
  BY DEF NoRequest, NoReply, Request, Reply, Priority, Off
<1>0. CASE UNCHANGED vars
  BY <1>0 DEF vars
<1>1. ASSUME NEW d \in Device, Start(d) PROVE TypeOK'
  BY <1>1, <1>a, AgentLeaseAssumption DEF Start, Kinds
<1>2. ASSUME NEW d \in Device, NEW p \in Priority, SetPriority(d, p) PROVE TypeOK'
  BY <1>2, <1>a DEF SetPriority
<1>3. ASSUME NEW d \in Device, AttemptDue(d) PROVE TypeOK'
  BY <1>3, <1>a DEF AttemptDue
<1>4. ASSUME NEW d \in Device, DeadlineDue(d) PROVE TypeOK'
  BY <1>4, <1>a DEF DeadlineDue
<1>5. ASSUME NEW d \in Device, Stop(d) PROVE TypeOK'
  BY <1>5, <1>a DEF Stop
<1>6. ASSUME NEW d \in Device, BeginAttempt(d) PROVE TypeOK'
  <2>1. CASE stopped[d]
    BY <1>6, <2>1, <1>a DEF BeginAttempt
  <2>2. CASE ~ stopped[d]
    <3>1. Await(d, "asking") /\ Send(d, "acquire")
      BY <1>6, <2>2 DEF BeginAttempt
    <3> QED
      BY <1>6, <3>1, <1>a DEF BeginAttempt, Request, Steps
  <2> QED
    BY <2>1, <2>2
<1>7. ASSUME NEW d \in Device, RunDeadline(d) PROVE TypeOK'
  <2>1. CASE kind[d] = "held" /\ deadline[d] = 0
    <3>1. Unavailable(d, "unreachable", FALSE, Off)
      BY <1>7, <2>1 DEF RunDeadline
    <3> QED
      BY <1>7, <3>1, <1>a, UnavailableType DEF RunDeadline, Kinds
  <2>2. CASE ~ (kind[d] = "held" /\ deadline[d] = 0)
    BY <1>7, <2>2 DEF RunDeadline
  <2> QED
    BY <2>1, <2>2
<1>8. ASSUME NEW d \in Device, RunStop(d) PROVE TypeOK'
  <2>1. kind' \in [Device -> Kinds] /\ queue' = [queue EXCEPT ![d] = {}]
    BY <1>8 DEF RunStop, Kinds
  <2>2. CASE Await(d, "winding") /\ UNCHANGED <<request, reply>>
    BY <1>8, <2>1, <2>2 DEF RunStop, Steps
  <2>3. CASE Await(d, "releasing") /\ Send(d, "release")
    BY <1>8, <2>1, <2>3, <1>a DEF RunStop, Steps, Request
  <2>4. CASE UNCHANGED <<step, busy, request, reply>>
    BY <1>8, <2>1, <2>4 DEF RunStop
  <2> QED
    BY <1>8, <2>2, <2>3, <2>4 DEF RunStop
<1>9. ASSUME NEW d \in Device, ReceiveGrant(d) PROVE TypeOK'
  <2>1. TimeLeft(d) \in 0 .. TTL
    BY AgentLeaseAssumption DEF TimeLeft, AtLeastZero
  <2>2. /\ deadline' \in [Device -> 0 .. TTL] /\ armed' \in [Device -> BOOLEAN]
        /\ heldEpoch' \in [Device -> Nat]
        /\ request' \in [Device -> Request] /\ reply' \in [Device -> Reply]
    BY <1>9, <1>a, <2>1 DEF ReceiveGrant, Reply
  <2>3. /\ kind' \in [Device -> Kinds] /\ step' \in [Device -> Steps]
        /\ busy' \in [Device -> Nat] /\ after' \in [Device -> Int] /\ wait' \in [Device -> Int]
        /\ yieldTo' \in [Device -> BOOLEAN]
    <3>1. CASE kind[d] # "held" /\ ~ stopped[d]
      <4>1. /\ Set(kind, d, "held") /\ Await(d, "syncing")
            /\ Set(yieldTo, d, reply[d].yieldTo) /\ UNCHANGED <<wait, after>>
        BY <1>9, <3>1 DEF ReceiveGrant
      <4> QED
        BY <4>1 DEF Kinds, Steps, Reply
    <3>2. CASE ~ (kind[d] # "held" /\ ~ stopped[d])
      <4>1. AfterGrant(d, reply[d].yieldTo) /\ UNCHANGED yieldTo
        BY <1>9, <3>2 DEF ReceiveGrant
      <4> QED
        BY <4>1, AfterGrantType
    <3> QED
      BY <3>1, <3>2
  <2> QED
    BY <1>9, <2>2, <2>3 DEF ReceiveGrant
<1>10. ASSUME NEW d \in Device, ReceiveRefusal(d) PROVE TypeOK'
  <2> DEFINE w == IF reply[d].asked THEN TakeoverRetry ELSE RetryEvery
  <2>1. w \in Int /\ reply[d].asked \in BOOLEAN /\ "elsewhere" \in Kinds
    BY AgentLeaseAssumption DEF Reply, Kinds
  <2>2. Unavailable(d, "elsewhere", reply[d].asked, w)
    BY <1>10 DEF ReceiveRefusal
  <2> HIDE DEF w
  <2> QED
    BY <1>10, <1>a, <2>1, <2>2, UnavailableType DEF ReceiveRefusal
<1>11. ASSUME NEW d \in Device, AttemptFails(d) PROVE TypeOK'
  <2>0. Abandon(d)
    BY <1>11 DEF AttemptFails
  <2>1. CASE kind[d] = "held" /\ deadline[d] > 0
    BY <1>11, <2>0, <2>1, <1>a, AbandonType DEF AttemptFails, Steps
  <2>2. CASE ~ (kind[d] = "held" /\ deadline[d] > 0)
    <3>1. PICK w \in 1 .. MaxBackoff : Unavailable(d, "unreachable", FALSE, w)
      BY <1>11, <2>2 DEF AttemptFails
    <3>2. w \in Int /\ "unreachable" \in Kinds
      BY AgentLeaseAssumption DEF Kinds
    <3> QED
      BY <1>11, <2>0, <3>1, <3>2, AbandonType, UnavailableType DEF AttemptFails
  <2> QED
    BY <2>1, <2>2
<1>12. ASSUME NEW d \in Device, AgentStarts(d) PROVE TypeOK'
  BY <1>12, <1>a, AgentLeaseAssumption DEF AgentStarts, AfterGrant, Kinds, Steps
<1>13. ASSUME NEW d \in Device, AgentStops(d) PROVE TypeOK'
  BY <1>13, <1>a DEF AgentStops, Steps
<1>14. ASSUME NEW d \in Device, AgentWindsDown(d) PROVE TypeOK'
  BY <1>14, <1>a DEF AgentWindsDown, Steps
<1>15. ASSUME NEW d \in Device, LastStatePushed(d) PROVE TypeOK'
  BY <1>15, <1>a DEF LastStatePushed, Steps, Request
<1>16. ASSUME NEW d \in Device, ReleaseAnswered(d) PROVE TypeOK'
  BY <1>16, <1>a, AgentLeaseAssumption DEF ReleaseAnswered, Released, Kinds, Steps
<1>17. ASSUME NEW d \in Device, ReleaseFails(d) PROVE TypeOK'
  BY <1>17, <1>a, AbandonType, AgentLeaseAssumption DEF ReleaseFails, Released, Kinds, Steps
<1>18. ASSUME NEW d \in Device, ServeAcquire(d) PROVE TypeOK'
  <2>1. row' \in LeaseRow
    BY <1>18, AskForType, AcquireType DEF ServeAcquire
  <2>2. reply' \in [Device -> Reply]
    <3> DEFINE granted == Granted(row, AskFor(d, request[d]))
               yields == granted /\ YieldRequested(row')
               takes == TakesOver(row, AskFor(d, request[d]))
    <3>1. reply' = [reply EXCEPT ![d] = [op |-> IF granted THEN "granted" ELSE "refused",
                                         epoch |-> row'.epoch,
                                         yieldTo |-> yields,
                                         asked |-> takes]]
      BY <1>18 DEF ServeAcquire
    <3>2. yields \in BOOLEAN /\ takes \in BOOLEAN
      BY DEF TakesOver
    <3>3. row'.epoch \in Nat
      BY <2>1 DEF LeaseRow
    <3> HIDE DEF granted, yields, takes
    <3> QED
      BY <3>1, <3>2, <3>3 DEF Reply
  <2> QED
    BY <1>18, <1>a, <2>1, <2>2 DEF ServeAcquire
<1>19. ASSUME NEW d \in Device, ServeRelease(d) PROVE TypeOK'
  <2>1. row' \in LeaseRow
    BY <1>19, ReleaseType DEF ServeRelease, Request
  <2> QED
    BY <1>19, <1>a, <2>1 DEF ServeRelease, NoReply, Reply
<1>20. ASSUME NEW d \in Device, ServeLate(d) PROVE TypeOK'
  <2>1. row' \in LeaseRow
    BY <1>20, AskForType, AcquireType, ReleaseType DEF ServeLate, Request
  <2> QED
    BY <1>20, <1>a, <2>1 DEF ServeLate
<1>21. ASSUME NEW d \in Device, Crash(d) PROVE TypeOK'
  BY <1>21, <1>a, AbandonType, AgentLeaseAssumption DEF Crash, Kinds, Steps
<1>22. CASE Tick
  <2>1. row' \in LeaseRow
    BY <1>22, AgedType DEF Tick
  <2> QED
    BY <1>22, <2>1, AgentLeaseAssumption DEF Tick
<1> QED
  BY <1>0, <1>1, <1>2, <1>3, <1>4, <1>5, <1>6, <1>7, <1>8, <1>9, <1>10, <1>11, <1>12, <1>13,
     <1>14, <1>15, <1>16, <1>17, <1>18, <1>19, <1>20, <1>21, <1>22
     DEF Next, StepOf, Serve, Mishap

\* Whatever happens to daemons, requests and clocks, the lease's bookkeeping
\* stays within its types (agent-lease.ts, store.ts).
THEOREM TypeCorrect == Spec => []TypeOK
BY InitType, TypeStep, PTL DEF Spec
-----------------------------------------------------------------------------
(* Epochs, whatever the timings.                                           *)

\* No step takes the row back to an earlier epoch, or to another device within one.
RowMovesOn ==
    /\ row'.epoch >= row.epoch
    /\ row'.epoch = row.epoch => row'.device = row.device

LEMMA AcquireMovesOn ==
    ASSUME TypeOK, NEW q \in LeaseRequest, row' = AfterAcquire(row, q)
    PROVE  RowMovesOn
<1> USE DEF TypeOK, RowMovesOn
<1>1. CASE ~ Granted(row, q)
  BY <1>1, RefusedChangesNoGrant DEF LeaseRow
<1>2. CASE Granted(row, q) /\ Renews(row, q)
  BY <1>2, LiveGrantStays DEF Renews, LeaseRow
<1>3. CASE Granted(row, q) /\ ~ Renews(row, q)
  BY <1>3, GrantedIsHeld DEF LeaseRow
<1> QED
  BY <1>1, <1>2, <1>3

\* The row is only touched by the service and the clock.
LEMMA RowAlwaysMovesOn == TypeOK /\ [Next]_vars => RowMovesOn
<1> SUFFICES ASSUME TypeOK, [Next]_vars PROVE RowMovesOn
  OBVIOUS
<1>1. CASE UNCHANGED row
  BY <1>1 DEF RowMovesOn, TypeOK, LeaseRow
<1>2. ASSUME NEW d \in Device, ServeAcquire(d) PROVE RowMovesOn
  BY <1>2, AskForType, AcquireMovesOn DEF ServeAcquire, TypeOK
<1>3. ASSUME NEW d \in Device, ServeRelease(d) PROVE RowMovesOn
  BY <1>3, ReleaseEndsOwnGrant DEF ServeRelease, TypeOK, Request, RowMovesOn, LeaseRow
<1>4. ASSUME NEW d \in Device, ServeLate(d) PROVE RowMovesOn
  <2>1. CASE late[d].op = "release"
    BY <1>4, <2>1, ReleaseEndsOwnGrant DEF ServeLate, TypeOK, Request, RowMovesOn, LeaseRow
  <2>2. CASE late[d].op # "release"
    BY <1>4, <2>2, AskForType, AcquireMovesOn DEF ServeLate, TypeOK
  <2> QED
    BY <2>1, <2>2
<1>5. CASE Tick
  BY <1>5, AgedGrant DEF Tick, TypeOK, RowMovesOn, LeaseRow
<1>6. CASE \E d \in Device : Start(d) \/ StepOf(d)
  BY <1>1, <1>6 DEF StepOf, Start, AttemptDue, DeadlineDue, BeginAttempt, RunDeadline, RunStop,
     ReceiveGrant, ReceiveRefusal, AgentStarts, AgentStops, AgentWindsDown, LastStatePushed,
     ReleaseAnswered, Released
<1>7. CASE \E d \in Device : \/ Stop(d) \/ Crash(d) \/ AttemptFails(d) \/ ReleaseFails(d)
                            \/ \E p \in Priority : SetPriority(d, p)
  BY <1>1, <1>7 DEF Stop, Crash, AttemptFails, ReleaseFails, Released, SetPriority
<1> QED
  BY <1>1, <1>2, <1>3, <1>4, <1>5, <1>6, <1>7 DEF Next, Serve, Mishap, vars

\* What a device knows of epochs it has from the service's answer to it.
EpochSources(d) ==
    /\ \/ heldEpoch'[d] \in {heldEpoch[d], 0}
       \/ reply[d].op = "granted" /\ heldEpoch'[d] = reply[d].epoch
    /\ startedUnder'[d] \in {startedUnder[d], heldEpoch[d], 0}
    /\ \/ reply'[d].op # "granted"
       \/ reply'[d] = reply[d]
       \/ reply'[d].epoch = row'.epoch /\ row'.device = d

\* A granted answer carries the epoch of the row that names its device.
LEMMA AnswerSource ==
    ASSUME TypeOK, NEW d \in Device, ServeAcquire(d)
    PROVE  reply'[d].op = "granted" => reply'[d].epoch = row'.epoch /\ row'.device = d
<1> DEFINE q == AskFor(d, request[d])
<1>1. q \in LeaseRequest /\ q.device = d
  BY AskForType DEF TypeOK, AskFor
<1>2. reply'[d].op = "granted" => Granted(row, q)
  BY DEF ServeAcquire, Set, TypeOK
<1>3. reply'[d].epoch = row'.epoch /\ row' = AfterAcquire(row, q)
  BY DEF ServeAcquire, Set, TypeOK
<1> HIDE DEF q
<1> QED
  BY <1>1, <1>2, <1>3, GrantedIsHeld DEF TypeOK, HeldBy

LEMMA EpochsComeFromAnswers ==
    ASSUME TypeOK, [Next]_vars, NEW e \in Device
    PROVE  EpochSources(e)
<1> USE DEF TypeOK, EpochSources, Set, Await, EndStep, Send, HangUp, Unavailable, Abandon,
            lease, running, network, process, NoReply
<1>0. CASE UNCHANGED vars \/ Tick
  BY <1>0 DEF vars, Tick
<1>1. ASSUME NEW d \in Device, Start(d) PROVE EpochSources(e)
  BY <1>1 DEF Start
<1>2. ASSUME NEW d \in Device, StepOf(d) PROVE EpochSources(e)
  <2>1. CASE AttemptDue(d) \/ DeadlineDue(d)
    BY <2>1 DEF AttemptDue, DeadlineDue
  <2>2. CASE BeginAttempt(d)
    BY <2>2 DEF BeginAttempt
  <2>3. CASE RunDeadline(d)
    BY <2>3 DEF RunDeadline
  <2>4. CASE RunStop(d)
    BY <2>4 DEF RunStop
  <2>5. CASE ReceiveGrant(d)
    BY <2>5 DEF ReceiveGrant
  <2>6. CASE ReceiveRefusal(d)
    BY <2>6 DEF ReceiveRefusal
  <2>7. CASE AgentStarts(d)
    BY <2>7 DEF AgentStarts
  <2>8. CASE AgentStops(d) \/ AgentWindsDown(d) \/ LastStatePushed(d)
    BY <2>8 DEF AgentStops, AgentWindsDown, LastStatePushed
  <2>9. CASE ReleaseAnswered(d)
    BY <2>9 DEF ReleaseAnswered, Released
  <2> QED
    BY <1>2, <2>1, <2>2, <2>3, <2>4, <2>5, <2>6, <2>7, <2>8, <2>9 DEF StepOf
<1>3. ASSUME NEW d \in Device, ServeAcquire(d) PROVE EpochSources(e)
  <2>1. CASE e = d
    BY <1>3, <2>1, AnswerSource DEF ServeAcquire
  <2>2. CASE e # d
    BY <1>3, <2>2 DEF ServeAcquire
  <2> QED
    BY <2>1, <2>2
<1>4. ASSUME NEW d \in Device, ServeRelease(d) \/ ServeLate(d) PROVE EpochSources(e)
  BY <1>4 DEF ServeRelease, ServeLate
<1>5. ASSUME NEW d \in Device, Stop(d) \/ \E p \in Priority : SetPriority(d, p)
      PROVE  EpochSources(e)
  BY <1>5 DEF Stop, SetPriority
<1>6. ASSUME NEW d \in Device, AttemptFails(d) PROVE EpochSources(e)
  BY <1>6 DEF AttemptFails
<1>7. ASSUME NEW d \in Device, ReleaseFails(d) PROVE EpochSources(e)
  BY <1>7 DEF ReleaseFails, Released
<1>8. ASSUME NEW d \in Device, Crash(d) PROVE EpochSources(e)
  BY <1>8 DEF Crash
<1> QED
  BY <1>0, <1>1, <1>2, <1>3, <1>4, <1>5, <1>6, <1>7, <1>8 DEF Next, Serve, Mishap

\* So every epoch a device knows stays one it was granted.
LEMMA EpochsStep ==
    ASSUME TypeOK, TypeOK', [Next]_vars, NEW d \in Device, EpochsInOrder(d)
    PROVE  EpochsInOrder(d)'
<1>1. RowMovesOn
  BY RowAlwaysMovesOn
<1>2. EpochSources(d)
  BY EpochsComeFromAnswers
<1>3. row.epoch \in Nat /\ row'.epoch \in Nat /\ reply[d].epoch \in Nat /\ reply'[d].epoch \in Nat
      /\ heldEpoch[d] \in Nat /\ startedUnder[d] \in Nat
  BY DEF TypeOK, LeaseRow, Reply
<1> DEFINE KnownNext(n) == n =< row'.epoch /\ (n = row'.epoch /\ n # 0 => row'.device = d)
<1>4. ASSUME NEW n \in Nat, EpochKnown(d, n) PROVE KnownNext(n)
  BY <1>1, <1>3, <1>4 DEF RowMovesOn, EpochKnown
<1>5. EpochKnown(d, 0)
  BY <1>3 DEF EpochKnown
<1> HIDE DEF KnownNext
<1>6. KnownNext(heldEpoch'[d]) /\ KnownNext(startedUnder'[d])
  BY <1>2, <1>3, <1>4, <1>5 DEF EpochSources, EpochsInOrder
<1>7. ASSUME reply'[d].op = "granted" PROVE KnownNext(reply'[d].epoch)
  <2>1. CASE reply'[d] = reply[d]
    BY <1>3, <1>4, <1>7, <2>1 DEF EpochsInOrder
  <2>2. CASE reply'[d].epoch = row'.epoch /\ row'.device = d
    BY <1>3, <2>2 DEF KnownNext
  <2> QED
    BY <1>2, <1>7, <2>1, <2>2 DEF EpochSources
<1> QED
  BY <1>6, <1>7 DEF KnownNext, EpochsInOrder, EpochKnown

\* At most one of two agents that overlap can change the agent's files, however
\* long requests hang and whatever else is late: agent-supervisor.ts's fence.
THEOREM OverlapFenced == Spec => []OverlapIsFenced
<1> DEFINE InOrder == \A d \in Device : EpochsInOrder(d)
<1>1. Init => InOrder
  <2> SUFFICES ASSUME Init, NEW d \in Device PROVE EpochsInOrder(d)
    OBVIOUS
  <2>1. heldEpoch[d] = 0 /\ startedUnder[d] = 0 /\ reply[d].op = "none" /\ row.epoch = 0
    BY DEF Init, NoReply, NoRow
  <2> QED
    BY <2>1 DEF EpochsInOrder, EpochKnown
<1>2. TypeOK /\ TypeOK' /\ InOrder /\ [Next]_vars => InOrder'
  BY EpochsStep
<1>3. TypeOK /\ InOrder => OverlapIsFenced
  BY DEF TypeOK, LeaseRow, OverlapIsFenced, EpochsInOrder, EpochKnown, MayWrite, EngineFence,
         FenceAdmits
<1> HIDE DEF InOrder
<1> QED
  BY <1>1, <1>2, <1>3, TypeCorrect, PTL DEF Spec
-----------------------------------------------------------------------------
(* One agent: what each step does to the device that takes it.             *)

Sound(d) == StepsInOrder(d) /\ RequestsInOrder(d) /\ DeadlineWatched(d) /\ GrantCovers(d)

\* The waits' bounds, as numbers.
LEMMA Bounds ==
    Prompt => /\ Margin \in Nat /\ RequestTimeout \in Nat /\ StopTime \in Nat
              /\ SyncPassTimeout \in Nat /\ TTL \in Nat /\ Margin < TTL
              /\ RequestTimeout + StopTime < Margin
              /\ RequestTimeout + SyncPassTimeout + Margin =< TTL
              /\ "lateRelease" \notin Events
BY AgentLeaseAssumption DEF Prompt

\* While a device counts on its grant, the service still honours it.
LEMMA GrantIsLive ==
    ASSUME Prompt, TypeOK, NEW d \in Device, Sound(d), CountsOnGrant(d)
    PROVE  row.left > 0 /\ HeldBy(row, d, session[d])
<1>1. row.left \in Int /\ busy[d] \in Nat /\ busy[d] =< Limit[step[d]]
  BY LeaseTableAssumption DEF TypeOK, LeaseRow, Sound, StepsInOrder
<1>2. CASE kind[d] = "held"
  BY <1>1, <1>2, Bounds DEF Sound, StepsInOrder, GrantCovers, CountsOnGrant, Limit
<1>3. CASE agent[d] /\ kind[d] # "held"
  BY <1>1, <1>3, Bounds DEF Sound, StepsInOrder, GrantCovers, CountsOnGrant, Limit
<1>4. CASE reply[d].op = "granted"
  BY <1>1, <1>4, Bounds DEF Sound, StepsInOrder, RequestsInOrder, GrantCovers, CountsOnGrant, Limit
<1> QED
  BY <1>2, <1>3, <1>4 DEF CountsOnGrant

LEMMA StartSound ==
    ASSUME Prompt, TypeOK, NEW d \in Device, Sound(d), Start(d)
    PROVE  Sound(d)'
<1> USE Bounds DEF TypeOK, Sound, StepsInOrder, RequestsInOrder, DeadlineWatched, GrantCovers,
                   CountsOnGrant, Set, lease, running, network, process, Start, Off
<1>1. StepsInOrder(d)'
  OBVIOUS
<1>2. RequestsInOrder(d)'
  BY DEF Request
<1>3. DeadlineWatched(d)'
  OBVIOUS
<1>4. GrantCovers(d)'
  OBVIOUS
<1> QED
  BY <1>1, <1>2, <1>3, <1>4

LEMMA SetPrioritySound ==
    ASSUME Prompt, TypeOK, NEW d \in Device, Sound(d), NEW p \in Priority, SetPriority(d, p)
    PROVE  Sound(d)'
BY DEF TypeOK, Sound, StepsInOrder, RequestsInOrder, DeadlineWatched, GrantCovers,
       CountsOnGrant, Set, lease, running, network, process, SetPriority

LEMMA TimersSound ==
    ASSUME Prompt, TypeOK, NEW d \in Device, Sound(d),
           AttemptDue(d) \/ DeadlineDue(d) \/ Stop(d)
    PROVE  Sound(d)'
<1> USE DEF TypeOK, Sound, StepsInOrder, RequestsInOrder, DeadlineWatched, GrantCovers,
            CountsOnGrant, Set, lease, running, network, process, Off
<1>1. CASE AttemptDue(d)
  BY <1>1 DEF AttemptDue
<1>2. CASE DeadlineDue(d)
  BY <1>2 DEF DeadlineDue
<1>3. CASE Stop(d)
  BY <1>3 DEF Stop
<1> QED
  BY <1>1, <1>2, <1>3

LEMMA BeginAttemptSound ==
    ASSUME Prompt, TypeOK, NEW d \in Device, Sound(d), BeginAttempt(d)
    PROVE  Sound(d)'
<1> USE Bounds DEF TypeOK, Sound, StepsInOrder, RequestsInOrder, DeadlineWatched, GrantCovers,
            CountsOnGrant, Set, lease, running, network, process, BeginAttempt
<1>1. CASE stopped[d]
  BY <1>1
<1>2. CASE ~ stopped[d]
  <2>1. Await(d, "asking") /\ Send(d, "acquire")
    BY <1>2
  <2> QED
    BY <1>2, <2>1 DEF Await, Send, NoReply, Limit, LeaseRow
<1> QED
  BY <1>1, <1>2
LEMMA RunDeadlineSound ==
    ASSUME Prompt, TypeOK, NEW d \in Device, Sound(d), RunDeadline(d)
    PROVE  Sound(d)'
<1> USE Bounds DEF TypeOK, Sound, StepsInOrder, RequestsInOrder, DeadlineWatched, GrantCovers,
            CountsOnGrant, Set, lease, running, network, process, RunDeadline
<1>1. CASE kind[d] = "held" /\ deadline[d] = 0
  BY <1>1 DEF Unavailable, Await, Limit, LeaseRow
<1>2. CASE ~ (kind[d] = "held" /\ deadline[d] = 0)
  BY <1>2
<1> QED
  BY <1>1, <1>2

LEMMA RunStopSound ==
    ASSUME Prompt, TypeOK, NEW d \in Device, Sound(d), RunStop(d)
    PROVE  Sound(d)'
<1> USE Bounds DEF TypeOK, Sound, StepsInOrder, RequestsInOrder, DeadlineWatched, GrantCovers,
            CountsOnGrant, Set, lease, running, network, process, RunStop
<1>1. CASE kind[d] = "held" /\ Await(d, "winding") /\ UNCHANGED <<request, reply>>
  BY <1>1 DEF Await, Limit, LeaseRow
<1>2. CASE kind[d] = "elsewhere" /\ Await(d, "releasing") /\ Send(d, "release")
  BY <1>2 DEF Await, Send, NoReply, Limit, LeaseRow
<1>3. CASE kind[d] # "held" /\ UNCHANGED <<step, busy, request, reply>>
  BY <1>3
<1> QED
  BY <1>1, <1>2, <1>3

LEMMA ReceiveGrantSound ==
    ASSUME Prompt, TypeOK, NEW d \in Device, Sound(d), ReceiveGrant(d)
    PROVE  Sound(d)'
<1> USE Bounds DEF TypeOK, Set, lease, running, network, process
<1>1. /\ step[d] = "asking" /\ reply[d].op = "granted"
      /\ reply[d].epoch = row.epoch /\ row.left + busy[d] >= TTL /\ busy[d] =< RequestTimeout
      /\ HeldBy(row, d, session[d])
      /\ agent[d] => kind[d] = "held" /\ startedUnder[d] = row.epoch
  BY DEF ReceiveGrant, Sound, StepsInOrder, GrantCovers, CountsOnGrant, Limit
<1>2. /\ request'[d].op = "none" /\ reply'[d].op = "none"
      /\ deadline'[d] = AtLeastZero(TTL - Margin - busy[d])
      /\ armed'[d] = TRUE /\ heldEpoch'[d] = row.epoch
      /\ UNCHANGED <<row, session, queue, stopped, late, agent, startedUnder>>
  BY <1>1 DEF ReceiveGrant, HangUp, TimeLeft, NoRequest, NoReply
<1>3. \/ kind'[d] = "held" /\ step'[d] = "syncing" /\ busy'[d] = 0 /\ ~ agent[d]
      \/ kind'[d] = "yielding" /\ step'[d] = "winding" /\ busy'[d] = 0 /\ ~ stopped[d]
      \/ kind'[d] = "held" /\ step'[d] = "none" /\ busy'[d] = 0
  <2>1. CASE kind[d] # "held" /\ ~ stopped[d]
    <3>1. Set(kind, d, "held") /\ Await(d, "syncing")
      BY <2>1 DEF ReceiveGrant
    <3> QED
      BY <1>1, <2>1, <3>1 DEF Await
  <2>2. CASE ~ (kind[d] # "held" /\ ~ stopped[d])
    <3>1. AfterGrant(d, reply[d].yieldTo)
      BY <2>2 DEF ReceiveGrant
    <3> QED
      BY <3>1 DEF AfterGrant, EndStep, Await
  <2> QED
    BY <2>1, <2>2
<1>4. row.left \in Int /\ busy[d] \in Nat
  BY DEF LeaseRow
<1>5. StepsInOrder(d)'
  BY <1>1, <1>2, <1>3 DEF StepsInOrder, Limit
<1>6. RequestsInOrder(d)'
  BY <1>2 DEF Sound, RequestsInOrder
<1>7. DeadlineWatched(d)'
  BY <1>1, <1>2, <1>3, <1>4 DEF Sound, DeadlineWatched, StepsInOrder, AtLeastZero
<1>8. GrantCovers(d)'
  BY <1>1, <1>2, <1>3, <1>4 DEF GrantCovers, CountsOnGrant, AtLeastZero
<1> QED
  BY <1>5, <1>6, <1>7, <1>8 DEF Sound
LEMMA ReceiveRefusalSound ==
    ASSUME Prompt, TypeOK, NEW d \in Device, Sound(d), ReceiveRefusal(d)
    PROVE  Sound(d)'
<1> USE Bounds DEF TypeOK, Sound, StepsInOrder, RequestsInOrder, DeadlineWatched, GrantCovers,
            CountsOnGrant, Set, lease, running, network, process, ReceiveRefusal
<1>1. CASE kind[d] = "held"
  BY <1>1 DEF Unavailable, Await, HangUp, NoRequest, NoReply, Limit, LeaseRow
<1>2. CASE kind[d] # "held"
  BY <1>2 DEF Unavailable, EndStep, Await, HangUp, NoRequest, NoReply, Limit
<1> QED
  BY <1>1, <1>2

\* A request that is given up leaves nothing behind but, at worst, a late acquire.
LEMMA AbandonSound ==
    ASSUME Prompt, TypeOK, NEW d \in Device, RequestsInOrder(d), Abandon(d)
    PROVE  request'[d].op = "none" /\ reply'[d].op = "none" /\ late'[d].op # "release"
BY Bounds DEF TypeOK, RequestsInOrder, Abandon, HangUp, Set, NoRequest, NoReply

LEMMA AttemptFailsSound ==
    ASSUME Prompt, TypeOK, NEW d \in Device, Sound(d), AttemptFails(d)
    PROVE  Sound(d)'
<1> USE Bounds DEF TypeOK, Sound, StepsInOrder, RequestsInOrder, DeadlineWatched, GrantCovers,
            CountsOnGrant, Set, lease, running, network, process, AttemptFails
<1>0. request'[d].op = "none" /\ reply'[d].op = "none" /\ late'[d].op # "release"
  BY AbandonSound
<1>1. CASE kind[d] = "held" /\ deadline[d] > 0
  BY <1>0, <1>1 DEF EndStep, Await, Limit, LeaseRow
<1>2. CASE kind[d] = "held" /\ ~ deadline[d] > 0
  BY <1>0, <1>2 DEF Unavailable, Await, Limit, LeaseRow
<1>3. CASE kind[d] # "held"
  BY <1>0, <1>3 DEF Unavailable, EndStep, Await, Limit
<1> QED
  BY <1>1, <1>2, <1>3

LEMMA AgentStartsSound ==
    ASSUME Prompt, TypeOK, NEW d \in Device, Sound(d), AgentStarts(d)
    PROVE  Sound(d)'
<1> USE Bounds DEF TypeOK, Sound, StepsInOrder, RequestsInOrder, DeadlineWatched, GrantCovers,
            CountsOnGrant, Set, lease, running, network, process, AgentStarts
<1>1. CASE yieldTo[d] /\ ~ stopped[d]
  BY <1>1 DEF AfterGrant, Await, Limit, LeaseRow
<1>2. CASE ~ (yieldTo[d] /\ ~ stopped[d])
  BY <1>2 DEF AfterGrant, EndStep, Await, Limit, LeaseRow
<1> QED
  BY <1>1, <1>2

LEMMA AgentEndsSound ==
    ASSUME Prompt, TypeOK, NEW d \in Device, Sound(d), AgentStops(d) \/ AgentWindsDown(d)
    PROVE  Sound(d)'
<1> USE Bounds DEF TypeOK, Sound, StepsInOrder, RequestsInOrder, DeadlineWatched, GrantCovers,
            CountsOnGrant, Set, lease, running, network, process, EndStep, Await, Limit
<1>1. CASE AgentStops(d)
  BY <1>1 DEF AgentStops
<1>2. CASE AgentWindsDown(d)
  BY <1>2 DEF AgentWindsDown
<1> QED
  BY <1>1, <1>2

LEMMA LastStatePushedSound ==
    ASSUME Prompt, TypeOK, NEW d \in Device, Sound(d), LastStatePushed(d)
    PROVE  Sound(d)'
BY Bounds DEF TypeOK, Sound, StepsInOrder, RequestsInOrder, DeadlineWatched, GrantCovers,
    CountsOnGrant, Set, lease, running, network, process, LastStatePushed, Await, Send, NoReply, Limit

LEMMA ReleaseSound ==
    ASSUME Prompt, TypeOK, NEW d \in Device, Sound(d), ReleaseAnswered(d) \/ ReleaseFails(d)
    PROVE  Sound(d)'
<1> USE Bounds DEF TypeOK, Sound, StepsInOrder, RequestsInOrder, DeadlineWatched, GrantCovers,
            CountsOnGrant, Set, lease, running, network, process
<1>1. /\ step[d] = "releasing" /\ Released(d)
      /\ request'[d].op = "none" /\ reply'[d].op = "none" /\ late'[d].op # "release"
  <2>1. CASE ReleaseAnswered(d)
    BY <2>1 DEF ReleaseAnswered, HangUp, NoRequest, NoReply
  <2>2. CASE ReleaseFails(d)
    BY <2>2, AbandonSound DEF ReleaseFails
  <2> QED
    BY <2>1, <2>2
<1>2. CASE kind[d] = "yielding" /\ ~ stopped[d]
  BY <1>1, <1>2 DEF Released, EndStep, Await, Limit
<1>3. CASE ~ (kind[d] = "yielding" /\ ~ stopped[d])
  BY <1>1, <1>3 DEF Released, EndStep, Await, Limit
<1> QED
  BY <1>2, <1>3

LEMMA CrashSound ==
    ASSUME Prompt, TypeOK, NEW d \in Device, Sound(d), Crash(d)
    PROVE  Sound(d)'
<1>1. request'[d].op = "none" /\ reply'[d].op = "none" /\ late'[d].op # "release"
  BY AbandonSound DEF Crash, Sound
<1> QED
  BY <1>1, Bounds DEF TypeOK, Sound, StepsInOrder, RequestsInOrder, DeadlineWatched, GrantCovers,
     CountsOnGrant, Set, lease, running, network, process, Crash, Await, Limit, Off

-----------------------------------------------------------------------------
(* What the service and the clock do to every device.                      *)

\* A row whose grant the service kept, and at most renewed.
RowKept ==
    /\ row'.device = row.device /\ row'.session = row.session /\ row'.epoch = row.epoch
    /\ row'.left = row.left \/ row'.left = TTL

\* A device takes no part in the step.
Unmoved(e) ==
    /\ session'[e] = session[e] /\ kind'[e] = kind[e] /\ heldEpoch'[e] = heldEpoch[e]
    /\ deadline'[e] = deadline[e] /\ armed'[e] = armed[e] /\ wait'[e] = wait[e]
    /\ queue'[e] = queue[e] /\ stopped'[e] = stopped[e] /\ step'[e] = step[e]
    /\ busy'[e] = busy[e] /\ request'[e] = request[e] /\ reply'[e] = reply[e]
    /\ late'[e] = late[e] /\ agent'[e] = agent[e] /\ startedUnder'[e] = startedUnder[e]
    /\ after'[e] = after[e]

LEMMA UnmovedSound ==
    ASSUME Prompt, TypeOK, NEW e \in Device, Sound(e), Unmoved(e), CountsOnGrant(e) => RowKept
    PROVE  Sound(e)'
<1> USE Bounds DEF Sound, Unmoved, TypeOK
<1>1. StepsInOrder(e)'
  BY DEF StepsInOrder
<1>2. RequestsInOrder(e)'
  BY DEF RequestsInOrder
<1>3. DeadlineWatched(e)'
  BY DEF DeadlineWatched
<1>4. GrantCovers(e)'
  <2>1. CASE CountsOnGrant(e)
    BY <2>1 DEF CountsOnGrant, GrantCovers, RowKept, HeldBy, LeaseRow, DeadlineWatched
  <2>2. CASE ~ CountsOnGrant(e)
    BY <2>2 DEF CountsOnGrant, GrantCovers
  <2> QED
    BY <2>1, <2>2
<1> QED
  BY <1>1, <1>2, <1>3, <1>4

\* An acquire, by whichever device and however late, keeps a grant someone counts on.
LEMMA AcquireKeepsGrant ==
    ASSUME Prompt, TypeOK, NEW d \in Device, NEW r \in Request, row' = AfterAcquire(row, AskFor(d, r)),
           NEW e \in Device, Sound(e), CountsOnGrant(e)
    PROVE  RowKept
<1>1. AskFor(d, r) \in LeaseRequest /\ AskFor(d, r).ttl = TTL
  BY AskForType DEF AskFor
<1> QED
  BY <1>1, GrantIsLive, LiveGrantStays DEF TypeOK, Live, RowKept

\* A release is only under way while its device doesn't count on its grant, and
\* ends no other device's.
LEMMA ReleaseKeepsGrant ==
    ASSUME Prompt, TypeOK, NEW d \in Device, Sound(d), ServeRelease(d),
           NEW e \in Device, Sound(e), CountsOnGrant(e)
    PROVE  RowKept
<1>1. e # d
  BY DEF ServeRelease, Sound, StepsInOrder, RequestsInOrder, CountsOnGrant
<1>2. HeldBy(row, e, session[e])
  BY GrantIsLive
<1> QED
  BY <1>1, <1>2, ReleaseEndsOwnGrant DEF ServeRelease, TypeOK, Request, HeldBy, RowKept
LEMMA ServeAcquireSound ==
    ASSUME Prompt, TypeOK, NEW d \in Device, Sound(d), ServeAcquire(d)
    PROVE  Sound(d)'
<1> DEFINE q == AskFor(d, request[d])
<1> USE Bounds DEF TypeOK
<1>1. /\ step[d] = "asking" /\ request[d].session = session[d]
      /\ row' = AfterAcquire(row, q)
      /\ reply'[d].op = (IF Granted(row, q) THEN "granted" ELSE "refused")
      /\ reply'[d].epoch = row'.epoch /\ request'[d].op = "none"
      /\ UNCHANGED <<session, kind, heldEpoch, deadline, armed, wait, queue, stopped,
                     step, busy, late, agent, startedUnder>>
  BY DEF Sound, RequestsInOrder, ServeAcquire, Set, NoRequest, lease, running, process
<1>2. q \in LeaseRequest /\ q.device = d /\ q.session = session[d] /\ q.ttl = TTL
  BY <1>1, AskForType DEF AskFor
<1> HIDE DEF q
<1>3. StepsInOrder(d)' /\ RequestsInOrder(d)' /\ DeadlineWatched(d)'
  BY <1>1 DEF Sound, StepsInOrder, RequestsInOrder, DeadlineWatched
<1>4. CASE Granted(row, q)
  <2>1. HeldBy(row', d, session[d]) /\ row'.left = TTL
    BY <1>1, <1>2, <1>4, GrantedIsHeld
  <2>2. CountsOnGrant(d) => row'.epoch = row.epoch
    BY <1>1, <1>2, GrantIsLive, LiveGrantStays DEF Live
  <2>3. busy[d] \in Nat /\ ~ (agent[d] /\ step[d] = "winding") /\ step[d] # "syncing"
    BY <1>1
  <2> QED
    BY <1>1, <1>3, <2>1, <2>2, <2>3 DEF Sound, GrantCovers, CountsOnGrant, DeadlineWatched
<1>5. CASE ~ Granted(row, q)
  <2>1. ~ CountsOnGrant(d)
    BY <1>2, <1>5, GrantIsLive DEF Granted, Renews, Live, HeldBy
  <2> QED
    BY <1>1, <1>3, <1>5, <2>1 DEF Sound, GrantCovers, CountsOnGrant
<1> QED
  BY <1>4, <1>5

LEMMA ServeReleaseSound ==
    ASSUME Prompt, TypeOK, NEW d \in Device, Sound(d), ServeRelease(d)
    PROVE  Sound(d)'
<1>1. /\ step[d] = "releasing" /\ ~ agent[d] /\ kind[d] # "held"
      /\ reply'[d].op = "released" /\ request'[d].op = "none"
      /\ UNCHANGED <<session, kind, heldEpoch, deadline, armed, wait, queue, stopped,
                     step, busy, late, agent, startedUnder>>
  BY DEF TypeOK, Sound, RequestsInOrder, StepsInOrder, ServeRelease, Set, NoRequest, NoReply,
         lease, running, process
<1> QED
  BY <1>1 DEF Sound, StepsInOrder, RequestsInOrder, DeadlineWatched, GrantCovers, CountsOnGrant

LEMMA TickSound ==
    ASSUME Prompt, TypeOK, NEW e \in Device, Sound(e), Tick
    PROVE  Sound(e)'
<1> USE Bounds DEF TypeOK
<1>1. /\ ~ Due(e)
      /\ UNCHANGED <<session, kind, heldEpoch, armed, queue, stopped, step,
                     request, reply, late, agent, startedUnder>>
      /\ deadline'[e] = IF deadline[e] > 0 THEN deadline[e] - 1 ELSE 0
      /\ wait'[e] = IF wait[e] > 0 THEN wait[e] - 1 ELSE wait[e]
      /\ busy'[e] = IF step[e] # "none" THEN busy[e] + 1 ELSE 0
  BY DEF Tick, lease, network, process
<1>2. /\ row'.device = row.device /\ row'.session = row.session /\ row'.epoch = row.epoch
      /\ row.left \in Int /\ row'.left \in Int /\ row'.left >= row.left - 1
  <2>1. row' \in LeaseRow
    BY AgedType DEF Tick
  <2> QED
    BY <2>1, AgedGrant DEF Tick, LeaseRow
<1>3. Limit[step[e]] \in Nat
  BY LimitType
<1>4. StepsInOrder(e)'
  BY <1>1, <1>3 DEF Sound, StepsInOrder, Due, Off
<1>5. RequestsInOrder(e)'
  BY <1>1 DEF Sound, RequestsInOrder
<1>6. DeadlineWatched(e)'
  BY <1>1 DEF Sound, DeadlineWatched
<1>7. GrantCovers(e)'
  <2>1. (CountsOnGrant(e) => HeldBy(row, e, session[e]))'
    BY <1>1, <1>2 DEF Sound, GrantCovers, CountsOnGrant, HeldBy
  <2>2. (reply[e].op = "granted" => reply[e].epoch = row.epoch /\ row.left + busy[e] >= TTL)'
    BY <1>1, <1>2 DEF Sound, GrantCovers, RequestsInOrder
  <2>3. ASSUME kind[e] = "held", step[e] = "none" PROVE row'.left >= Margin
    <3>1. deadline[e] > 0
      BY <1>1, <2>3 DEF Sound, DeadlineWatched, Due
    <3> QED
      BY <1>2, <2>3, <3>1 DEF Sound, GrantCovers
  <2>4. (kind[e] = "held" => /\ heldEpoch[e] = row.epoch
                             /\ deadline[e] > 0 => row.left >= deadline[e] + Margin
                             /\ step[e] = "none" => row.left >= Margin
                             /\ step[e] = "asking" => row.left + busy[e] >= Margin
                             /\ step[e] = "syncing" => row.left + busy[e] >= TTL - RequestTimeout)'
    BY <1>1, <1>2, <2>3 DEF Sound, GrantCovers
  <2>5. /\ (agent[e] /\ step[e] = "winding" => heldEpoch[e] = row.epoch /\ row.left + busy[e] >= Margin)'
        /\ (agent[e] /\ step[e] = "stopping" => row.left + busy[e] >= Margin - RequestTimeout)'
        /\ (agent[e] /\ step[e] # "stopping" => startedUnder[e] = heldEpoch[e])'
    BY <1>1, <1>2 DEF Sound, GrantCovers
  <2> QED
    BY <2>1, <2>2, <2>4, <2>5 DEF GrantCovers
<1> QED
  BY <1>4, <1>5, <1>6, <1>7 DEF Sound

-----------------------------------------------------------------------------
(* One agent: every step, for every device.                                *)

\* Only the daemon that takes a step changes; the row changes at the service.
LEMMA OthersUnmoved ==
    ASSUME TypeOK, NEW d \in Device, NEW e \in Device \ {d},
           \/ Start(d) \/ StepOf(d) \/ Serve(d) \/ Mishap(d)
    PROVE  Unmoved(e)
<1> USE DEF TypeOK, Unmoved, Set, Await, EndStep, Send, HangUp, Unavailable, Abandon, AfterGrant,
            Released, lease, running, network, process
<1>1. CASE Start(d) \/ AttemptDue(d) \/ DeadlineDue(d) \/ Stop(d) \/ BeginAttempt(d)
  BY <1>1 DEF Start, AttemptDue, DeadlineDue, Stop, BeginAttempt
<1>2. CASE RunDeadline(d)
  BY <1>2 DEF RunDeadline
<1>3. CASE RunStop(d)
  BY <1>3 DEF RunStop
<1>4. CASE ReceiveGrant(d)
  BY <1>4 DEF ReceiveGrant
<1>5. CASE ReceiveRefusal(d)
  BY <1>5 DEF ReceiveRefusal
<1>6. CASE AgentStarts(d)
  BY <1>6 DEF AgentStarts
<1>7. CASE AgentStops(d) \/ AgentWindsDown(d) \/ LastStatePushed(d)
  BY <1>7 DEF AgentStops, AgentWindsDown, LastStatePushed
<1>8. CASE ReleaseAnswered(d) \/ ReleaseFails(d)
  BY <1>8 DEF ReleaseAnswered, ReleaseFails
<1>9. CASE Serve(d) \/ ServeLate(d)
  BY <1>9 DEF Serve, ServeAcquire, ServeRelease, ServeLate
<1>10. CASE AttemptFails(d)
  BY <1>10 DEF AttemptFails
<1>11. CASE Crash(d)
  BY <1>11 DEF Crash
<1>12. CASE \E p \in Priority : SetPriority(d, p)
  BY <1>12 DEF SetPriority
<1> QED
  BY <1>1, <1>2, <1>3, <1>4, <1>5, <1>6, <1>7, <1>8, <1>9, <1>10, <1>11, <1>12 DEF StepOf, Mishap

\* A step of daemon d itself.
LEMMA DaemonSound ==
    ASSUME Prompt, TypeOK, NEW d \in Device, Sound(d),
           Start(d) \/ StepOf(d) \/ (Mishap(d) /\ ~ ServeLate(d))
    PROVE  Sound(d)' /\ UNCHANGED row
<1>1. Sound(d)'
  BY StartSound, SetPrioritySound, TimersSound, BeginAttemptSound, RunDeadlineSound, RunStopSound,
     ReceiveGrantSound, ReceiveRefusalSound, AttemptFailsSound, AgentStartsSound, AgentEndsSound,
     LastStatePushedSound, ReleaseSound, CrashSound DEF StepOf, Mishap
<1>2. UNCHANGED row
  BY DEF StepOf, Mishap, Start, AttemptDue, DeadlineDue, BeginAttempt, RunDeadline, RunStop,
     ReceiveGrant, ReceiveRefusal, AgentStarts, AgentStops, AgentWindsDown, LastStatePushed,
     ReleaseAnswered, ReleaseFails, Released, Stop, Crash, AttemptFails, SetPriority
<1> QED
  BY <1>1, <1>2

\* A late request reaches the service: no device takes part.
LEMMA ServeLateSound ==
    ASSUME Prompt, TypeOK, NEW d \in Device, Sound(d), ServeLate(d),
           NEW e \in Device, Sound(e)
    PROVE  Sound(e)'
<1>1. late[d].op # "release"
  BY DEF Sound, RequestsInOrder
<1>2. CountsOnGrant(e) => RowKept
  BY <1>1, AcquireKeepsGrant DEF ServeLate, TypeOK
<1>3. CASE e # d
  BY <1>2, <1>3, OthersUnmoved, UnmovedSound DEF Mishap
<1>4. CASE e = d
  <2>1. late'[d].op # "release"
    BY DEF ServeLate, Set, TypeOK, NoRequest
  <2> QED
    BY <1>2, <1>4, <2>1, Bounds
       DEF ServeLate, TypeOK, Sound, StepsInOrder, RequestsInOrder, DeadlineWatched, GrantCovers,
           CountsOnGrant, RowKept, HeldBy, LeaseRow, lease, running, process
<1> QED
  BY <1>3, <1>4

LEMMA SoundStep ==
    ASSUME Prompt, TypeOK, \A d \in Device : Sound(d), [Next]_vars
    PROVE  \A d \in Device : Sound(d)'
<1> SUFFICES ASSUME NEW e \in Device PROVE Sound(e)'
  OBVIOUS
<1>0. CASE UNCHANGED vars
  <2>1. Unmoved(e) /\ RowKept
    BY <1>0 DEF vars, lease, running, network, process, Unmoved, RowKept
  <2> QED
    BY <2>1, UnmovedSound
<1>1. CASE Tick
  BY <1>1, TickSound
<1>2. ASSUME NEW d \in Device, Start(d) \/ StepOf(d) \/ (Mishap(d) /\ ~ ServeLate(d))
      PROVE  Sound(e)'
  <2>1. Sound(d)' /\ RowKept
    BY <1>2, DaemonSound DEF RowKept
  <2> QED
    BY <1>2, <2>1, OthersUnmoved, UnmovedSound
<1>3. ASSUME NEW d \in Device, ServeAcquire(d) PROVE Sound(e)'
  <2>1. CASE e = d
    BY <1>3, <2>1, ServeAcquireSound
  <2>2. CASE e # d
    <3>1. CountsOnGrant(e) => RowKept
      BY <1>3, AcquireKeepsGrant DEF ServeAcquire, TypeOK
    <3> QED
      BY <1>3, <2>2, <3>1, OthersUnmoved, UnmovedSound DEF Serve
  <2> QED
    BY <2>1, <2>2
<1>4. ASSUME NEW d \in Device, ServeRelease(d) PROVE Sound(e)'
  <2>1. CASE e = d
    BY <1>4, <2>1, ServeReleaseSound
  <2>2. CASE e # d
    <3>1. CountsOnGrant(e) => RowKept
      BY <1>4, ReleaseKeepsGrant
    <3> QED
      BY <1>4, <2>2, <3>1, OthersUnmoved, UnmovedSound DEF Serve
  <2> QED
    BY <2>1, <2>2
<1>5. ASSUME NEW d \in Device, ServeLate(d) PROVE Sound(e)'
  BY <1>5, ServeLateSound
<1> QED
  BY <1>0, <1>1, <1>2, <1>3, <1>4, <1>5 DEF Next, Serve
\* An epoch counts grants: a live row was granted at least once.
LiveIsNumbered == Live(row) => row.epoch > 0

LEMMA AcquireNumbers ==
    ASSUME TypeOK, LiveIsNumbered, NEW q \in LeaseRequest, row' = AfterAcquire(row, q)
    PROVE  LiveIsNumbered'
<1> USE DEF TypeOK, LiveIsNumbered, Live
<1>1. CASE ~ Granted(row, q)
  BY <1>1, RefusedChangesNoGrant
<1>2. CASE Granted(row, q) /\ Renews(row, q)
  BY <1>2, LiveGrantStays DEF Renews
<1>3. CASE Granted(row, q) /\ ~ Renews(row, q)
  BY <1>3, GrantedIsHeld DEF LeaseRow
<1> QED
  BY <1>1, <1>2, <1>3

LEMMA NumbersStep == TypeOK /\ LiveIsNumbered /\ [Next]_vars => LiveIsNumbered'
<1> SUFFICES ASSUME TypeOK, LiveIsNumbered, [Next]_vars PROVE LiveIsNumbered'
  OBVIOUS
<1>1. CASE UNCHANGED row
  BY <1>1 DEF LiveIsNumbered
<1>2. ASSUME NEW d \in Device, ServeAcquire(d) PROVE LiveIsNumbered'
  BY <1>2, AskForType, AcquireNumbers DEF ServeAcquire, TypeOK
<1>3. ASSUME NEW d \in Device, ServeRelease(d) PROVE LiveIsNumbered'
  BY <1>3, ReleaseEndsOwnGrant DEF ServeRelease, TypeOK, Request, LiveIsNumbered, Live
<1>4. ASSUME NEW d \in Device, ServeLate(d) PROVE LiveIsNumbered'
  <2>1. CASE late[d].op = "release"
    BY <1>4, <2>1, ReleaseEndsOwnGrant DEF ServeLate, TypeOK, Request, LiveIsNumbered, Live
  <2>2. CASE late[d].op # "release"
    BY <1>4, <2>2, AskForType, AcquireNumbers DEF ServeLate, TypeOK
  <2> QED
    BY <2>1, <2>2
<1>5. CASE Tick
  <2>1. row \in LeaseRow /\ row' \in LeaseRow /\ row' = Aged(row)
    BY <1>5, AgedType DEF Tick, TypeOK
  <2> QED
    BY <2>1, AgedGrant, LeaseTableAssumption DEF LiveIsNumbered, Live, LeaseRow
<1>6. CASE \E d \in Device : Start(d) \/ StepOf(d)
  BY <1>1, <1>6 DEF StepOf, Start, AttemptDue, DeadlineDue, BeginAttempt, RunDeadline, RunStop,
     ReceiveGrant, ReceiveRefusal, AgentStarts, AgentStops, AgentWindsDown, LastStatePushed,
     ReleaseAnswered, Released
<1>7. CASE \E d \in Device : \/ Stop(d) \/ Crash(d) \/ AttemptFails(d) \/ ReleaseFails(d)
                            \/ \E p \in Priority : SetPriority(d, p)
  BY <1>1, <1>7 DEF Stop, Crash, AttemptFails, ReleaseFails, Released, SetPriority
<1> QED
  BY <1>1, <1>2, <1>3, <1>4, <1>5, <1>6, <1>7 DEF Next, Serve, Mishap, vars

-----------------------------------------------------------------------------
(* The theorems.                                                           *)

LEMMA InitSound == Prompt /\ Init => /\ LiveIsNumbered
                                     /\ \A d \in Device : Sound(d) /\ EpochsInOrder(d)
<1> SUFFICES ASSUME Prompt, Init PROVE LiveIsNumbered /\ \A d \in Device : Sound(d) /\ EpochsInOrder(d)
  OBVIOUS
<1>1. LiveIsNumbered
  BY LeaseTableAssumption DEF Init, NoRow, LiveIsNumbered, Live
<1>2. ASSUME NEW d \in Device PROVE Sound(d)
  BY <1>2, Bounds DEF Init, NoRequest, NoReply, Sound, StepsInOrder, RequestsInOrder,
     DeadlineWatched, GrantCovers, CountsOnGrant, Limit, Off
<1>3. ASSUME NEW d \in Device PROVE EpochsInOrder(d)
  <2>1. heldEpoch[d] = 0 /\ startedUnder[d] = 0 /\ reply[d].op = "none" /\ row.epoch = 0
    BY <1>3 DEF Init, NoReply, NoRow
  <2> QED
    BY <2>1 DEF EpochsInOrder, EpochKnown
<1> QED
  BY <1>1, <1>2, <1>3

\* If requests give up in time (Prompt), a grant always covers what its daemon
\* may still do under it: the invariant the other theorems follow from.
THEOREM GrantsCover == ASSUME Prompt PROVE Spec => []GrantInvariant
<1>1. Init => GrantInvariant
  BY InitSound DEF GrantInvariant, LiveIsNumbered, Sound
<1>2. TypeOK /\ TypeOK' /\ GrantInvariant /\ [Next]_vars => GrantInvariant'
  <2> SUFFICES ASSUME TypeOK, TypeOK', GrantInvariant, [Next]_vars PROVE GrantInvariant'
    OBVIOUS
  <2>1. LiveIsNumbered'
    BY NumbersStep DEF GrantInvariant, LiveIsNumbered
  <2>2. \A d \in Device : Sound(d)'
    BY SoundStep DEF GrantInvariant, Sound
  <2>3. \A d \in Device : EpochsInOrder(d)'
    BY EpochsStep DEF GrantInvariant
  <2> QED
    BY <2>1, <2>2, <2>3 DEF GrantInvariant, LiveIsNumbered, Sound
<1> QED
  BY <1>1, <1>2, TypeCorrect, PTL DEF Spec

LEMMA CountedGrantIsLive ==
    ASSUME Prompt, TypeOK, GrantInvariant, NEW d \in Device, CountsOnGrant(d)
    PROVE  Live(row) /\ HeldBy(row, d, session[d]) /\ row.epoch > 0
BY GrantIsLive DEF GrantInvariant, Sound, Live

\* Never two agents, whatever crashes, restarts, stops, handovers and lost
\* requests there are: docs/SYNC.md's "so two agents never overlap".
THEOREM NeverTwoAgents == ASSUME Prompt PROVE Spec => []OneAgent
<1>1. TypeOK /\ GrantInvariant => OneAgent
  BY CountedGrantIsLive DEF OneAgent, CountsOnGrant, HeldBy
<1> QED
  BY <1>1, TypeCorrect, GrantsCover, PTL

\* The service still honours the grant of every agent that hasn't stopped.
THEOREM AgentsAreUnderGrant == ASSUME Prompt PROVE Spec => []AgentUnderGrant
<1>1. TypeOK /\ GrantInvariant => AgentUnderGrant
  BY CountedGrantIsLive DEF AgentUnderGrant, CountsOnGrant
<1> QED
  BY <1>1, TypeCorrect, GrantsCover, PTL

\* Neither fence ever stops an agent its daemon still believes in, so its last
\* state gets out while it winds down.
THEOREM AgentsMayWrite == ASSUME Prompt PROVE Spec => []AgentMayWrite
<1>1. ASSUME TypeOK, GrantInvariant, NEW d \in Device, agent[d], step[d] # "stopping"
      PROVE  MayWrite(d)
  <2>1. Live(row) /\ row.device = d /\ row.epoch > 0
    BY <1>1, CountedGrantIsLive DEF CountsOnGrant, HeldBy
  <2>2. heldEpoch[d] = row.epoch /\ startedUnder[d] = heldEpoch[d]
    BY <1>1 DEF GrantInvariant, GrantCovers, StepsInOrder
  <2> QED
    BY <2>1, <2>2 DEF MayWrite, EngineFence, FenceAdmits
<1>2. TypeOK /\ GrantInvariant => AgentMayWrite
  BY <1>1 DEF AgentMayWrite
<1> QED
  BY <1>2, TypeCorrect, GrantsCover, PTL

\* Only onAcquired turns an agent on.
LEMMA OnlyAgentStarts ==
    ASSUME TypeOK, [Next]_vars, NEW d \in Device, ~ agent[d], agent'[d]
    PROVE  AgentStarts(d)
<1> USE DEF TypeOK, Set, lease, running, network, process
<1>1. CASE UNCHANGED agent
  BY <1>1
<1>2. ASSUME NEW e \in Device, agent' = [agent EXCEPT ![e] = FALSE] PROVE FALSE
  BY <1>2
<1>3. ASSUME NEW e \in Device, AgentStarts(e) PROVE AgentStarts(d)
  <2>1. agent' = [agent EXCEPT ![e] = TRUE]
    BY <1>3 DEF AgentStarts
  <2> QED
    BY <1>3, <2>1
<1>4. ASSUME NEW e \in Device, Start(e) \/ (StepOf(e) /\ ~ AgentStarts(e)) \/ Serve(e) \/ Mishap(e)
      PROVE  UNCHANGED agent \/ agent' = [agent EXCEPT ![e] = FALSE]
  BY <1>4 DEF StepOf, Serve, Mishap, Start, AttemptDue, DeadlineDue, BeginAttempt, RunDeadline,
     RunStop, ReceiveGrant, ReceiveRefusal, AgentStops, AgentWindsDown, LastStatePushed,
     ReleaseAnswered, ReleaseFails, Released, Stop, Crash, AttemptFails, SetPriority, ServeAcquire,
     ServeRelease, ServeLate
<1>5. CASE Tick \/ UNCHANGED vars
  BY <1>1, <1>5 DEF Tick, vars
<1> QED
  BY <1>1, <1>2, <1>3, <1>4, <1>5 DEF Next

\* An agent starts under a grant newer than any other device's agent had.
THEOREM AgentsStartFresh == ASSUME Prompt PROVE Spec => FreshGrant
<1>1. ASSUME TypeOK, GrantInvariant, [Next]_vars, NEW d \in Device, ~ agent[d], agent'[d]
      PROVE  AgentStarts(d)
  BY <1>1, OnlyAgentStarts
<1>2. ASSUME TypeOK, GrantInvariant, NEW d \in Device, AgentStarts(d)
      PROVE  /\ startedUnder'[d] >= startedUnder[d]
             /\ \A e \in Device \ {d} : startedUnder[e] < startedUnder'[d]
  <2>1. kind[d] = "held"
    BY <1>2 DEF AgentStarts, GrantInvariant, StepsInOrder
  <2>2. row.device = d /\ row.epoch > 0 /\ heldEpoch[d] = row.epoch
    BY <1>2, <2>1, CountedGrantIsLive DEF CountsOnGrant, HeldBy, GrantInvariant, GrantCovers
  <2>3. startedUnder'[d] = row.epoch
    BY <1>2, <2>2 DEF AgentStarts, Set, TypeOK
  <2>4. row.epoch \in Nat /\ startedUnder \in [Device -> Nat]
    BY <1>2 DEF TypeOK, LeaseRow
  <2>5. \A e \in Device : EpochKnown(e, startedUnder[e])
    BY <1>2 DEF GrantInvariant, EpochsInOrder
  <2>6. startedUnder[d] =< row.epoch
    BY <2>5 DEF EpochKnown
  <2>7. ASSUME NEW e \in Device \ {d} PROVE startedUnder[e] < row.epoch
    BY <2>2, <2>4, <2>5, <2>7 DEF EpochKnown
  <2> QED
    BY <2>3, <2>4, <2>6, <2>7
<1>3. TypeOK /\ GrantInvariant /\ [Next]_vars =>
        [ \A d \in Device : ~ agent[d] /\ agent'[d] =>
            /\ startedUnder'[d] >= startedUnder[d]
            /\ \A e \in Device \ {d} : startedUnder[e] < startedUnder'[d] ]_vars
  BY <1>1, <1>2
<1> QED
  BY <1>3, TypeCorrect, GrantsCover, PTL DEF Spec, FreshGrant
-----------------------------------------------------------------------------
(* No lease falls silent.                                                  *)

\* An attempt is on its way: its timer runs, or it waits its turn.
AttemptComing(d) == wait[d] # Off \/ "attempt" \in queue[d]

\* AlwaysAsksAgain is about a lease between its steps.  Within them, the step
\* still arms the timer (or leaves an attempt that was there), and whatever
\* winds a lease down that nobody stopped is a yield, which asks again.
AsksOn(d) ==
    /\ kind[d] = "down" => step[d] = "none" /\ queue[d] = {} /\ wait[d] = Off /\ ~ armed[d]
    /\ kind[d] = "stopped" \/ "stop" \in queue[d] => stopped[d]
    /\ kind[d] \notin {"down", "stopped"} /\ ~ stopped[d] =>
          /\ step[d] = "none" => AttemptComing(d)
          /\ step[d] = "stopping" => after[d] # Off \/ AttemptComing(d)
          /\ step[d] \in {"winding", "pushing", "releasing"} => kind[d] = "yielding"

AllAskOn == \A d \in Device : AsksOn(d)

\* The waits of the code are no "never".
LEMMA WaitsEnd ==
    /\ RenewEvery # Off /\ RetryEvery # Off /\ TakeoverRetry # Off
    /\ \A w \in 1 .. MaxBackoff : w # Off
BY AgentLeaseAssumption DEF Off

LEMMA UnavailableAsksOn ==
    ASSUME TypeOK, NEW d \in Device, AsksOn(d), NEW k \in {"elsewhere", "unreachable"}, NEW b,
           NEW w \in Int, w # Off, kind[d] # "down",
           Unavailable(d, k, b, w), queue' = queue, stopped' = stopped
    PROVE  AsksOn(d)'
<1> USE DEF TypeOK, AsksOn, AttemptComing, Set, Await
<1>1. CASE kind[d] = "held"
  BY <1>1 DEF Unavailable
<1>2. CASE kind[d] # "held"
  BY <1>2 DEF Unavailable, EndStep
<1> QED
  BY <1>1, <1>2

LEMMA AfterGrantAsksOn ==
    ASSUME TypeOK, NEW d \in Device, AsksOn(d), NEW y,
           kind[d] # "down" /\ (kind[d] = "stopped" => stopped[d]),
           AfterGrant(d, y), queue' = queue, stopped' = stopped
    PROVE  AsksOn(d)'
<1> USE WaitsEnd DEF TypeOK, AsksOn, AttemptComing, Set, Await
<1>1. CASE y /\ ~ stopped[d]
  BY <1>1 DEF AfterGrant
<1>2. CASE ~ (y /\ ~ stopped[d])
  BY <1>2 DEF AfterGrant, EndStep
<1> QED
  BY <1>1, <1>2

\* A step of daemon d itself leaves another attempt behind.
LEMMA DaemonAsksOn ==
    ASSUME TypeOK, NEW d \in Device, AsksOn(d),
           Start(d) \/ StepOf(d) \/ (Mishap(d) /\ ~ ServeLate(d))
    PROVE  AsksOn(d)'
<1> USE WaitsEnd DEF TypeOK, AsksOn, AttemptComing, Set, Await, lease, running, network, process
<1>1. CASE Start(d)
  BY <1>1 DEF Start, Off
<1>2. CASE \E p \in Priority : SetPriority(d, p)
  BY <1>2 DEF SetPriority, Off
<1>3. CASE AttemptDue(d) \/ DeadlineDue(d) \/ Stop(d)
  BY <1>3 DEF AttemptDue, DeadlineDue, Stop, Off
<1>4. CASE BeginAttempt(d)
  BY <1>4 DEF BeginAttempt
<1>5. CASE RunDeadline(d)
  <2>1. CASE kind[d] = "held" /\ deadline[d] = 0
    BY <1>5, <2>1 DEF RunDeadline, Unavailable
  <2>2. CASE ~ (kind[d] = "held" /\ deadline[d] = 0)
    BY <1>5, <2>2 DEF RunDeadline
  <2> QED
    BY <2>1, <2>2
<1>6. CASE RunStop(d)
  BY <1>6 DEF RunStop
<1>7. CASE ReceiveGrant(d)
  <2>1. CASE kind[d] # "held" /\ ~ stopped[d]
    BY <1>7, <2>1 DEF ReceiveGrant
  <2>2. CASE ~ (kind[d] # "held" /\ ~ stopped[d])
    <3>1. AfterGrant(d, reply[d].yieldTo) /\ queue' = queue /\ stopped' = stopped
      BY <1>7, <2>2 DEF ReceiveGrant
    <3>2. kind[d] # "down" /\ (kind[d] = "stopped" => stopped[d])
      BY <1>7 DEF ReceiveGrant
    <3> HIDE DEF AsksOn
    <3> QED
      BY <3>1, <3>2, AfterGrantAsksOn
  <2> QED
    BY <2>1, <2>2
<1>8. CASE ReceiveRefusal(d)
  <2>1. PICK w \in {TakeoverRetry, RetryEvery} : Unavailable(d, "elsewhere", reply[d].asked, w)
    BY <1>8 DEF ReceiveRefusal
  <2>2. kind[d] # "down" /\ queue' = queue /\ stopped' = stopped /\ w \in Int /\ w # Off
    BY <1>8, AgentLeaseAssumption DEF ReceiveRefusal
  <2> HIDE DEF AsksOn
  <2> QED
    BY <2>1, <2>2, UnavailableAsksOn
<1>9. CASE AttemptFails(d)
  <2>1. CASE kind[d] = "held" /\ deadline[d] > 0
    BY <1>9, <2>1 DEF AttemptFails, EndStep, Off
  <2>2. CASE ~ (kind[d] = "held" /\ deadline[d] > 0)
    <3>1. PICK w \in 1 .. MaxBackoff : Unavailable(d, "unreachable", FALSE, w)
      BY <1>9, <2>2 DEF AttemptFails
    <3>2. kind[d] # "down" /\ queue' = queue /\ stopped' = stopped /\ w \in Int /\ w # Off
      BY <1>9 DEF AttemptFails
    <3> HIDE DEF AsksOn
    <3> QED
      BY <3>1, <3>2, UnavailableAsksOn
  <2> QED
    BY <2>1, <2>2
<1>10. CASE AgentStarts(d)
  <2>1. AfterGrant(d, yieldTo[d]) /\ queue' = queue /\ stopped' = stopped
    BY <1>10 DEF AgentStarts
  <2>2. kind[d] # "down" /\ (kind[d] = "stopped" => stopped[d])
    BY <1>10 DEF AgentStarts
  <2> HIDE DEF AsksOn
  <2> QED
    BY <2>1, <2>2, AfterGrantAsksOn
<1>11. CASE AgentStops(d)
  BY <1>11 DEF AgentStops, EndStep
<1>12. CASE AgentWindsDown(d) \/ LastStatePushed(d)
  BY <1>12 DEF AgentWindsDown, LastStatePushed
<1>13. CASE ReleaseAnswered(d) \/ ReleaseFails(d)
  BY <1>13 DEF ReleaseAnswered, ReleaseFails, Released, EndStep
<1>14. CASE Crash(d)
  BY <1>14 DEF Crash
<1> QED
  BY <1>1, <1>2, <1>3, <1>4, <1>5, <1>6, <1>7, <1>8, <1>9, <1>10, <1>11, <1>12, <1>13, <1>14
     DEF StepOf, Mishap

LEMMA AsksOnStep == TypeOK /\ AllAskOn /\ [Next]_vars => AllAskOn'
<1> SUFFICES ASSUME TypeOK, \A d \in Device : AsksOn(d), [Next]_vars, NEW e \in Device
             PROVE  AsksOn(e)'
  BY DEF AllAskOn
<1>0. CASE UNCHANGED vars
  BY <1>0 DEF vars, lease, running, AsksOn, AttemptComing
<1>1. CASE Tick
  BY <1>1 DEF Tick, AsksOn, AttemptComing, TypeOK, Off
<1>2. ASSUME NEW d \in Device, Start(d) \/ StepOf(d) \/ (Mishap(d) /\ ~ ServeLate(d))
      PROVE  AsksOn(e)'
  <2>1. CASE e = d
    BY <1>2, <2>1, DaemonAsksOn
  <2>2. CASE e # d
    BY <1>2, <2>2, OthersUnmoved DEF Unmoved, AsksOn, AttemptComing
  <2> QED
    BY <2>1, <2>2
<1>3. ASSUME NEW d \in Device, Serve(d) \/ ServeLate(d) PROVE AsksOn(e)'
  BY <1>3 DEF Serve, ServeAcquire, ServeRelease, ServeLate, lease, running, AsksOn, AttemptComing
<1> QED
  BY <1>0, <1>1, <1>2, <1>3 DEF Next

\* However a step ends (an answer, a refusal, a timeout, a deadline, a yield)
\* and whatever was queued behind it, a lease that isn't stopped asks again.
THEOREM NeverFallsSilent == Spec => []AlwaysAsksAgain
<1>1. Init => AllAskOn
  <2>1. ASSUME Init, NEW d \in Device PROVE AsksOn(d)
    <3>1. /\ kind[d] = "down" /\ step[d] = "none" /\ queue[d] = {}
          /\ wait[d] = Off /\ ~ armed[d]
      BY <2>1 DEF Init
    <3> QED
      BY <3>1 DEF AsksOn
  <2> QED
    BY <2>1 DEF AllAskOn
<1>2. AllAskOn => AlwaysAsksAgain
  BY DEF AllAskOn, AsksOn, AttemptComing, AlwaysAsksAgain
<1> QED
  BY <1>1, <1>2, AsksOnStep, TypeCorrect, PTL DEF Spec

-----------------------------------------------------------------------------
(* The service's promises.                                                 *)

\* Requests carry the session of a lease object that was started.
SessionsKnown ==
    \A d \in Device : /\ session[d] =< MaxSession
                       /\ request[d].session =< MaxSession
                       /\ late[d].session =< MaxSession

LEMMA SessionsStep == TypeOK /\ SessionsKnown /\ [Next]_vars => SessionsKnown'
<1> SUFFICES ASSUME TypeOK, SessionsKnown, [Next]_vars, NEW e \in Device
             PROVE  /\ session'[e] =< MaxSession
                    /\ request'[e].session =< MaxSession
                    /\ late'[e].session =< MaxSession
  BY DEF SessionsKnown
<1>0. session[e] =< MaxSession /\ request[e].session =< MaxSession /\ late[e].session =< MaxSession
      /\ MaxSession \in Nat /\ session[e] \in Nat
  BY AgentLeaseAssumption DEF SessionsKnown, TypeOK
<1> USE DEF TypeOK, Set, Send, HangUp, Abandon, lease, running, network, process, NoRequest
<1>1. CASE UNCHANGED vars \/ Tick
  BY <1>0, <1>1 DEF vars, Tick
<1>2. ASSUME NEW d \in Device, d # e, Start(d) \/ StepOf(d) \/ Serve(d) \/ Mishap(d)
      PROVE  session'[e] = session[e] /\ request'[e] = request[e] /\ late'[e] = late[e]
  BY <1>2, OthersUnmoved DEF Unmoved
<1>3. CASE Start(e) \/ AttemptDue(e) \/ DeadlineDue(e) \/ Stop(e)
           \/ \E p \in Priority : SetPriority(e, p)
  BY <1>0, <1>3 DEF Start, AttemptDue, DeadlineDue, Stop, SetPriority
<1>4. CASE BeginAttempt(e)
  BY <1>0, <1>4 DEF BeginAttempt
<1>5. CASE RunStop(e)
  BY <1>0, <1>5 DEF RunStop
<1>6. CASE RunDeadline(e) \/ AgentStarts(e) \/ AgentStops(e) \/ AgentWindsDown(e)
  BY <1>0, <1>6 DEF RunDeadline, AgentStarts, AgentStops, AgentWindsDown
<1>7. CASE ReceiveGrant(e) \/ ReceiveRefusal(e)
  BY <1>0, <1>7 DEF ReceiveGrant, ReceiveRefusal
<1>8. CASE LastStatePushed(e)
  BY <1>0, <1>8 DEF LastStatePushed
<1>9. CASE ReleaseAnswered(e) \/ ReleaseFails(e)
  BY <1>0, <1>9 DEF ReleaseAnswered, ReleaseFails, Released
<1>10. CASE AttemptFails(e)
  BY <1>0, <1>10 DEF AttemptFails
<1>11. CASE Crash(e)
  BY <1>0, <1>11 DEF Crash
<1>12. CASE Serve(e) \/ ServeLate(e)
  BY <1>0, <1>12 DEF Serve, ServeAcquire, ServeRelease, ServeLate
<1> QED
  BY <1>0, <1>1, <1>2, <1>3, <1>4, <1>5, <1>6, <1>7, <1>8, <1>9, <1>10, <1>11, <1>12
     DEF Next, StepOf, Mishap

\* The daemons' requests are requests, and the clock's ticks ticks, of LeaseServer.
LEMMA AcquireImplements ==
    ASSUME NEW d \in Device, NEW r \in Request, r.session =< MaxSession,
           row' = AfterAcquire(row, AskFor(d, r)), row'.epoch =< MaxEpoch
    PROVE  Server!Next
<1> DEFINE q == [device |-> d, session |-> r.session, priority |-> r.priority, ttl |-> TTL]
<1>1. r.session \in 0 .. MaxSession /\ r.priority \in Priority /\ TTL \in 1 .. MaxTTL
  BY AgentLeaseAssumption DEF Request
<1>2. Server!Acquire(q)
  BY DEF AskFor, AfterAcquire, Granted, Renews, HeldBy, Live, Reserved, LivePending, Outranks,
     Grant, NoPending, TakesOver, AskToYield, Server!Acquire, Server!AfterAcquire, Server!Granted,
     Server!Renews, Server!HeldBy, Server!Live, Server!Reserved, Server!LivePending,
     Server!Outranks, Server!Grant, Server!NoPending, Server!TakesOver, Server!AskToYield
<1> QED
  BY <1>1, <1>2 DEF Server!Next, Priority, Server!Priority

LEMMA ReleaseImplements ==
    ASSUME NEW d \in Device, NEW r \in Request, r.session =< MaxSession,
           row' = AfterRelease(row, d, r.session)
    PROVE  Server!Next
<1>1. r.session \in 0 .. MaxSession
  BY AgentLeaseAssumption DEF Request
<1>2. Server!Release(d, r.session)
  BY DEF AfterRelease, Withdrawn, Renews, HeldBy, Live, LivePending, NoPending, Server!Release,
     Server!AfterRelease, Server!Withdrawn, Server!Renews, Server!HeldBy, Server!Live,
     Server!LivePending, Server!NoPending
<1> QED
  BY <1>1, <1>2 DEF Server!Next

\* Whatever the daemons do, crash and lose, the lease endpoints see one of the
\* behaviours LeaseServer allows: its promises hold in the whole system too.
THEOREM ServerImplemented == Spec => ServerSpec
<1>1. Init => SessionsKnown /\ Server!Init
  BY AgentLeaseAssumption DEF Init, SessionsKnown, NoRequest, NoRow, NoPending, Server!Init,
     Server!NoRow, Server!NoPending
<1>2. ASSUME TypeOK, SessionsKnown, [Next]_vars
      PROVE  [Server!Next]_row
  <2>1. ASSUME NEW d \in Device, ServeAcquire(d) PROVE Server!Next
    BY <1>2, <2>1, AcquireImplements DEF ServeAcquire, TypeOK, SessionsKnown
  <2>2. ASSUME NEW d \in Device, ServeRelease(d) PROVE Server!Next
    BY <1>2, <2>2, ReleaseImplements DEF ServeRelease, TypeOK, SessionsKnown
  <2>3. ASSUME NEW d \in Device, ServeLate(d) PROVE Server!Next
    BY <1>2, <2>3, AcquireImplements, ReleaseImplements DEF ServeLate, TypeOK, SessionsKnown
  <2>4. CASE Tick
    BY <2>4 DEF Tick, Aged, Server!Next, Server!Tick, Server!Aged
  <2>5. ASSUME NEW d \in Device, Start(d) \/ StepOf(d) PROVE UNCHANGED row
    BY <2>5 DEF StepOf, Start, AttemptDue, DeadlineDue, BeginAttempt, RunDeadline, RunStop,
       ReceiveGrant, ReceiveRefusal, AgentStarts, AgentStops, AgentWindsDown, LastStatePushed,
       ReleaseAnswered, Released
  <2>6. ASSUME NEW d \in Device, Mishap(d), ~ ServeLate(d) PROVE UNCHANGED row
    BY <2>6 DEF Mishap, Stop, Crash, AttemptFails, ReleaseFails, Released, SetPriority
  <2>7. CASE UNCHANGED vars
    BY <2>7 DEF vars
  <2> QED
    BY <1>2, <2>1, <2>2, <2>3, <2>4, <2>5, <2>6, <2>7 DEF Next, Serve
<1> QED
  BY <1>1, <1>2, TypeCorrect, SessionsStep, PTL DEF Spec, ServerSpec, Server!Spec
=============================================================================
