-------------------------- MODULE AgentMachine_proofs -------------------------
(***************************************************************************)
(* Where the agent runs, for every value of the constants: what the lease  *)
(* server grants (LeaseServer), what becomes of the calls on the runtime   *)
(* that is leased (LeasedRuntime), and what the supervisor makes of both   *)
(* (AgentSupervisor); and how devices trust the machine it runs on: the    *)
(* pairing with it (MachinePairing), the relay to it (AgentRelay) and the  *)
(* devices that are paired with it (PairedDevices).                        *)
(*                                                                         *)
(* The runtime's invariant says everything of the newest stack alone: the  *)
(* ones before it are gone, and the stage the running call waits in says   *)
(* what the newest is doing.  The supervisor's adds where each of its      *)
(* steps, the lease and the calls it made can be at the same time: a call  *)
(* that activates is behind exactly one step of exactly one caller, which  *)
(* is why a running agent always has somebody who is entitled to it.       *)
(***************************************************************************)
EXTENDS LeaseServer, AgentSupervisor, MachinePairing, AgentRelay, PairedDevices, FiniteSetTheorems,
        TLAPS

-----------------------------------------------------------------------------
(* Every transaction yields a row.                                         *)

\* The row of an empty table is a row.
LEMMA NoRowType == NoRow \in LeaseRow
BY LeaseTableAssumption DEF NoRow, LeaseRow, NoPending, Pending, Priority

\* acquireLease writes a row.
LEMMA AcquireType ==
    ASSUME NEW r \in LeaseRow, NEW q \in LeaseRequest
    PROVE  AfterAcquire(r, q) \in LeaseRow
<1>1. NoPending \in Pending
  BY LeaseTableAssumption DEF NoPending, Pending, Priority
<1>2. Grant(r, q) \in LeaseRow
  BY <1>1, LeaseTableAssumption DEF Grant, LeaseRow, LeaseRequest
<1>3. AskToYield(r, q) \in LeaseRow
  BY LeaseTableAssumption DEF AskToYield, LeaseRow, LeaseRequest, Pending
<1> QED
  BY <1>2, <1>3 DEF AfterAcquire

\* A withdrawal, and with it releaseLease, writes a row.
LEMMA ReleaseType ==
    ASSUME NEW r \in LeaseRow, NEW d \in Device, NEW s \in Nat
    PROVE  AfterRelease(r, d, s) \in LeaseRow
<1>1. Withdrawn(r, d) \in LeaseRow
  BY LeaseTableAssumption DEF Withdrawn, LeaseRow, NoPending, Pending, Priority
<1>2. 0 \in (-Grace) .. MaxTTL
  BY LeaseTableAssumption
<1> QED
  BY <1>1, <1>2 DEF AfterRelease, LeaseRow

\* Time leaves a row.
LEMMA AgedType ==
    ASSUME NEW r \in LeaseRow
    PROVE  Aged(r) \in LeaseRow
<1> DEFINE waited == [r.pending EXCEPT !.age = IF r.pending.age < Lapse THEN r.pending.age + 1
                                               ELSE r.pending.age]
           left == IF r.left > -Grace THEN r.left - 1 ELSE r.left
<1>1. waited \in Pending
  BY LeaseTableAssumption DEF LeaseRow, Pending
<1>2. left \in (-Grace) .. MaxTTL
  BY LeaseTableAssumption DEF LeaseRow
<1>3. Aged(r) = [r EXCEPT !.left = left, !.pending = waited]
  BY DEF Aged, LeaseRow
<1> HIDE DEF waited, left
<1> QED
  BY <1>1, <1>2, <1>3 DEF LeaseRow

\* What a step's request is a request for the lemmas about the table.
LEMMA RequestType ==
    ASSUME NEW d \in Device, NEW s \in Session, NEW p \in Priority, NEW t \in 1 .. MaxTTL
    PROVE  [device |-> d, session |-> s, priority |-> p, ttl |-> t] \in LeaseRequest
BY LeaseServerAssumption DEF LeaseRequest

\* Whatever clients ask for, the table holds a lease row (store.ts).
THEOREM TypeCorrect == Spec => []TypeOK
<1>1. Init => TypeOK
  BY NoRowType DEF Init, TypeOK
<1>2. TypeOK /\ [Next]_row => TypeOK'
  <2> SUFFICES ASSUME TypeOK, Next PROVE TypeOK'
    BY DEF TypeOK
  <2>1. ASSUME NEW d \in Device, NEW s \in Session, NEW p \in Priority, NEW t \in 1 .. MaxTTL,
               Acquire([device |-> d, session |-> s, priority |-> p, ttl |-> t])
        PROVE  TypeOK'
    BY <2>1, RequestType, AcquireType DEF Acquire, TypeOK
  <2>2. ASSUME NEW d \in Device, NEW s \in Session, Release(d, s)
        PROVE  TypeOK'
    BY <2>2, ReleaseType, LeaseServerAssumption DEF Release, TypeOK
  <2>3. CASE Tick
    BY <2>3, AgedType DEF Tick, TypeOK
  <2> QED
    BY <2>1, <2>2, <2>3 DEF Next
<1> QED
  BY <1>1, <1>2, PTL DEF Spec

-----------------------------------------------------------------------------
(* A grant has one epoch.                                                  *)

\* A request keeps a live grant and its epoch, or starts the next one.
LEMMA AcquireNamesOneGrant ==
    ASSUME TypeOK, NEW q \in LeaseRequest, Acquire(q)
    PROVE  /\ ~ HeldBy(row', row.device, row.session) => ~ Live(row)
           /\ (row'.epoch # row.epoch) <=> (~ Live(row) /\ Live(row'))
           /\ row'.epoch \in {row.epoch, row.epoch + 1}
<1> USE DEF TypeOK, Acquire
<1>1. CASE ~ Granted(row, q)
  BY <1>1 DEF AfterAcquire, AskToYield, HeldBy, Live, LeaseRow
<1>2. CASE Granted(row, q) /\ Renews(row, q)
  BY <1>2 DEF AfterAcquire, Grant, HeldBy, Live, Renews, LeaseRow, LeaseRequest
<1>3. CASE Granted(row, q) /\ ~ Renews(row, q)
  <2>1. ~ Live(row)
    BY <1>3 DEF Granted
  <2>2. row'.left = q.ttl /\ row'.epoch = row.epoch + 1
    BY <1>3 DEF AfterAcquire, Grant
  <2> QED
    BY <2>1, <2>2, LeaseTableAssumption DEF Live, LeaseRow, LeaseRequest
<1> QED
  BY <1>1, <1>2, <1>3

\* An epoch names one grant to one session of one device, forever: the fence of
\* the agent's files may compare epochs alone (app.ts, requireLeaseEpoch).
THEOREM EpochsNameGrants == Spec => EpochNamesOneGrant
<1>1. ASSUME TypeOK, [Next]_row
      PROVE  [ LET moved == ~ HeldBy(row', row.device, row.session)
               IN  /\ moved => ~ Live(row)
                   /\ (row'.epoch # row.epoch) <=> (~ Live(row) /\ Live(row'))
                   /\ row'.epoch \in {row.epoch, row.epoch + 1} ]_row
  <2>1. CASE UNCHANGED row
    BY <2>1
  <2>2. ASSUME NEW d \in Device, NEW s \in Session, NEW p \in Priority, NEW t \in 1 .. MaxTTL,
               Acquire([device |-> d, session |-> s, priority |-> p, ttl |-> t])
        PROVE  /\ ~ HeldBy(row', row.device, row.session) => ~ Live(row)
               /\ (row'.epoch # row.epoch) <=> (~ Live(row) /\ Live(row'))
               /\ row'.epoch \in {row.epoch, row.epoch + 1}
    BY <1>1, <2>2, RequestType, AcquireNamesOneGrant
  <2>3. ASSUME NEW d \in Device, NEW s \in Session, Release(d, s)
        PROVE  /\ HeldBy(row', row.device, row.session)
               /\ row'.epoch = row.epoch
               /\ Live(row') => Live(row)
    BY <1>1, <2>3, LeaseServerAssumption
       DEF Release, AfterRelease, Withdrawn, Renews, TypeOK, HeldBy, Live, LeaseRow
  <2>4. ASSUME Tick
        PROVE  /\ HeldBy(row', row.device, row.session)
               /\ row'.epoch = row.epoch
               /\ Live(row') => Live(row)
    <3>1. Aged(row) \in LeaseRow
      BY <1>1, AgedType DEF TypeOK
    <3> QED
      BY <1>1, <2>4, <3>1 DEF Tick, Aged, TypeOK, HeldBy, Live, LeaseRow
  <2> QED
    BY <1>1, <2>1, <2>2, <2>3, <2>4 DEF Next
<1> QED
  BY <1>1, TypeCorrect, PTL DEF Spec, EpochNamesOneGrant
-----------------------------------------------------------------------------
(* A waiting device's turn.                                                *)

\* A new grant that passes a waiting device over was asked for as its equal.
LEMMA OnlyEqualsPassAWaiter ==
    ASSUME TypeOK, NEW q \in LeaseRequest, Acquire(q),
           YieldRequested(row), row'.epoch # row.epoch
    PROVE  row'.device = row.pending.device \/ row'.priority = "interactive"
<1>1. Granted(row, q) /\ ~ Renews(row, q)
  BY DEF Acquire, AfterAcquire, AskToYield, Grant, Renews, TypeOK, LeaseRow
<1>2. row'.device = q.device /\ row'.priority = q.priority
  BY <1>1 DEF Acquire, AfterAcquire, Grant
<1>3. row.pending.device = q.device \/ ~ Outranks(row.pending.priority, q.priority)
  BY <1>1 DEF Granted, Reserved, YieldRequested
<1>4. row.pending.priority = "interactive"
  BY DEF YieldRequested, Outranks
<1> QED
  BY <1>2, <1>3, <1>4 DEF Outranks, LeaseRequest, Priority

\* For as long as an interactive device waits, neither the host it waits for nor
\* another host is granted the lease (store.ts, reservationOf).
THEOREM WaitersGetTheirTurn == Spec => WaitersTurn
<1>1. ASSUME TypeOK, [Next]_row
      PROVE  [ (YieldRequested(row) /\ ~ YieldRequested(row') /\ row'.priority = "host")
                 => \/ row'.epoch = row.epoch
                    \/ row'.device = row.pending.device ]_row
  <2>1. CASE UNCHANGED row
    BY <2>1
  <2>2. ASSUME NEW d \in Device, NEW s \in Session, NEW p \in Priority, NEW t \in 1 .. MaxTTL,
               Acquire([device |-> d, session |-> s, priority |-> p, ttl |-> t]),
               YieldRequested(row), row'.epoch # row.epoch
        PROVE  row'.device = row.pending.device \/ row'.priority = "interactive"
    BY <1>1, <2>2, RequestType, OnlyEqualsPassAWaiter
  <2>3. ASSUME NEW d \in Device, NEW s \in Session, Release(d, s)
        PROVE  row'.epoch = row.epoch
    BY <1>1, <2>3 DEF Release, AfterRelease, Withdrawn, TypeOK, LeaseRow
  <2>4. CASE Tick
    BY <1>1, <2>4 DEF Tick, Aged, TypeOK, LeaseRow
  <2> QED
    BY <1>1, <2>1, <2>2, <2>3, <2>4 DEF Next
<1> QED
  BY <1>1, TypeCorrect, PTL DEF Spec, WaitersTurn

-----------------------------------------------------------------------------
(* The leased runtime.                                                     *)

CallRecord == [op : Ops, by : Caller]

\* A call of this kind is under way; of this caller.
Asked(o) == \E i \in DOMAIN calls : calls[i].op = o
AskedBy(c, o) == \E i \in DOMAIN calls : calls[i].by = c /\ calls[i].op = o

\* A caller waits for its call, so it has one at a time.
OneCallEach == \A i, j \in DOMAIN calls : calls[i].by = calls[j].by => i = j

Newest == Len(stacks)

\* What the running call waits for is what the newest stack is doing.
StageSaysWhat ==
    /\ stage = "creating" =>
          active = 0 /\ stacks # <<>> /\ stacks[Newest].life = "new" /\ Running("activate")
    /\ stage = "starting" =>
          /\ active # 0 /\ stacks[Newest].life = "started"
          /\ Running("activate") \/ Running("start")
    /\ stage = "stopping" =>
          /\ active = 0 /\ stacks # <<>> /\ stacks[Newest].life = "stopping"
          /\ ~ Running("start")

\* Every stack but the newest is gone, and the newest is too unless it is
\* active, being created or being stopped.
OnlyTheLast ==
    /\ \A i \in DOMAIN stacks : i # Newest => ~ Alive(i)
    /\ active # 0 => active = Newest /\ stacks[Newest].life \in {"new", "started"}
    /\ active = 0 /\ stage \notin {"creating", "stopping"} =>
          \A i \in DOMAIN stacks : ~ Alive(i)

\* Once a stop() has run, nothing is active and nothing is being created.
StoppedForGood == closed /\ ~ Asked("stop") => active = 0 /\ stage # "creating"

\* Once a start() has run, what is active has been started.
StartedForGood ==
    started /\ ~ Asked("start") /\ active # 0 => stacks[Newest].life = "started"

\* The inductive invariant of the leased runtime.
RuntimeInvariant ==
    /\ RuntimeTypeOK
    /\ OneCallEach
    /\ StageSaysWhat
    /\ OnlyTheLast
    /\ StoppedForGood
    /\ StartedForGood

-----------------------------------------------------------------------------
(* Sequences.                                                              *)

\* What Append does to each position of a sequence.
LEMMA AppendAt ==
    ASSUME NEW S, NEW s \in Seq(S), NEW e \in S
    PROVE  /\ Append(s, e) \in Seq(S)
           /\ Len(Append(s, e)) = Len(s) + 1
           /\ DOMAIN Append(s, e) = 1 .. Len(s) + 1
           /\ \A i \in 1 .. Len(s) : Append(s, e)[i] = s[i]
           /\ Append(s, e)[Len(s) + 1] = e
           /\ Append(s, e) # <<>>
           /\ s # <<>> => Head(Append(s, e)) = Head(s)
<1>1. /\ Append(s, e) \in Seq(S)
      /\ Len(Append(s, e)) = Len(s) + 1
      /\ DOMAIN Append(s, e) = 1 .. Len(s) + 1
      /\ \A i \in 1 .. Len(s) : Append(s, e)[i] = s[i]
      /\ Append(s, e)[Len(s) + 1] = e
      /\ Len(s) \in Nat
  OBVIOUS
<1>2. Append(s, e) # <<>>
  BY <1>1
<1>3. s # <<>> => Len(s) > 0 /\ Head(s) = s[1]
  OBVIOUS
<1>4. Head(Append(s, e)) = Append(s, e)[1]
  BY <1>1, <1>2
<1> QED
  BY <1>1, <1>2, <1>3, <1>4

\* What Tail does to each position of a sequence.
LEMMA TailAt ==
    ASSUME NEW S, NEW s \in Seq(S), s # <<>>
    PROVE  /\ Tail(s) \in Seq(S)
           /\ Len(s) \in Nat /\ Len(s) > 0
           /\ Len(Tail(s)) = Len(s) - 1
           /\ DOMAIN Tail(s) = 1 .. Len(s) - 1
           /\ \A i \in 1 .. Len(s) - 1 : Tail(s)[i] = s[i + 1]
           /\ Head(s) = s[1] /\ Head(s) \in S
OBVIOUS

-----------------------------------------------------------------------------
(* The queue of calls.                                                     *)

\* A call is queued behind those there are.
LEMMA CallAdds ==
    ASSUME RuntimeTypeOK, OneCallEach, NEW c \in Caller, NEW o \in Ops, Call(c, o)
    PROVE  /\ calls' \in Seq(CallRecord) /\ calls' # <<>>
           /\ calls # <<>> => Head(calls') = Head(calls)
           /\ OneCallEach'
           /\ \A p : Asked(p)' <=> Asked(p) \/ p = o
           /\ \A d, p : AskedBy(d, p)' <=> AskedBy(d, p) \/ (d = c /\ p = o)
           /\ \A d : Waits(d)' <=> Waits(d) \/ d = c
<1> DEFINE e == [op |-> o, by |-> c]
<1>1. calls \in Seq(CallRecord) /\ e \in CallRecord /\ calls' = Append(calls, e) /\ ~ Waits(c)
  BY DEF RuntimeTypeOK, CallRecord, Call
<1>2. e.op = o /\ e.by = c
  OBVIOUS
<1> HIDE DEF e
<1>3. /\ calls' \in Seq(CallRecord) /\ calls' # <<>>
      /\ calls # <<>> => Head(calls') = Head(calls)
      /\ DOMAIN calls = 1 .. Len(calls) /\ Len(calls) \in Nat
      /\ DOMAIN calls' = 1 .. Len(calls) + 1
      /\ \A i \in 1 .. Len(calls) : calls'[i] = calls[i]
      /\ calls'[Len(calls) + 1] = e
  BY <1>1, AppendAt
<1>4. \A i \in DOMAIN calls' : i \in DOMAIN calls \/ i = Len(calls) + 1
  BY <1>3
<1>5. \A i \in DOMAIN calls : i \in DOMAIN calls' /\ calls'[i] = calls[i]
  BY <1>3
<1>6. Len(calls) + 1 \in DOMAIN calls'
  BY <1>3
<1>7. OneCallEach'
  BY <1>1, <1>2, <1>3, <1>4, <1>5 DEF OneCallEach, Waits
<1>8. \A p : Asked(p)' <=> Asked(p) \/ p = o
  BY <1>2, <1>3, <1>4, <1>5, <1>6 DEF Asked
<1>9. \A d, p : AskedBy(d, p)' <=> AskedBy(d, p) \/ (d = c /\ p = o)
  BY <1>2, <1>3, <1>4, <1>5, <1>6 DEF AskedBy
<1>10. \A d : Waits(d)' <=> Waits(d) \/ d = c
  BY <1>2, <1>3, <1>4, <1>5, <1>6 DEF Waits
<1> QED
  BY <1>3, <1>7, <1>8, <1>9, <1>10

\* The running call returns, and with it goes what its caller had asked.
LEMMA EndsRemoves ==
    ASSUME RuntimeTypeOK, OneCallEach, calls # <<>>, Ends
    PROVE  /\ calls' \in Seq(CallRecord)
           /\ OneCallEach'
           /\ Head(calls) \in CallRecord
           /\ \A p : Asked(p) <=> Asked(p)' \/ Head(calls).op = p
           /\ \A d, p : AskedBy(d, p)' <=> AskedBy(d, p) /\ Head(calls).by # d
           /\ \A d : Waits(d)' <=> Waits(d) /\ Head(calls).by # d
           /\ AskedBy(Head(calls).by, Head(calls).op)
<1>1. calls \in Seq(CallRecord) /\ calls' = Tail(calls)
  BY DEF RuntimeTypeOK, CallRecord, Ends
<1>2. /\ calls' \in Seq(CallRecord)
      /\ Head(calls) = calls[1] /\ Head(calls) \in CallRecord
      /\ DOMAIN calls = 1 .. Len(calls) /\ Len(calls) \in Nat /\ Len(calls) > 0
      /\ DOMAIN calls' = 1 .. Len(calls) - 1
      /\ \A i \in 1 .. Len(calls) - 1 : calls'[i] = calls[i + 1]
  BY <1>1, TailAt
<1>3. \A i \in DOMAIN calls' : i + 1 \in DOMAIN calls /\ calls'[i] = calls[i + 1] /\ i + 1 # 1
  BY <1>2
<1>4. \A j \in DOMAIN calls : j = 1 \/ (j - 1 \in DOMAIN calls' /\ calls'[j - 1] = calls[j])
  BY <1>2
<1>5. 1 \in DOMAIN calls
  BY <1>2
<1>6. \A i, j \in DOMAIN calls' : i + 1 = j + 1 => i = j
  BY <1>2
<1>7. OneCallEach'
  BY <1>3, <1>6 DEF OneCallEach
<1>8. ASSUME NEW p PROVE Asked(p) <=> Asked(p)' \/ Head(calls).op = p
  <2>1. ASSUME Asked(p) PROVE Asked(p)' \/ Head(calls).op = p
    BY <1>2, <1>4, <2>1 DEF Asked
  <2>2. Asked(p)' => Asked(p)
    BY <1>3 DEF Asked
  <2>3. Head(calls).op = p => Asked(p)
    BY <1>2, <1>5 DEF Asked
  <2> QED
    BY <2>1, <2>2, <2>3
<1>a. \A j \in DOMAIN calls : calls[j].by = Head(calls).by => j = 1
  BY <1>2, <1>5 DEF OneCallEach
<1>b. \A i \in DOMAIN calls' : calls'[i].by # Head(calls).by
  BY <1>3, <1>a
<1>c. \A j \in DOMAIN calls : calls[j].by # Head(calls).by => j # 1
  BY <1>2
<1> HIDE DEF OneCallEach
<1>9. \A d, p : AskedBy(d, p)' <=> AskedBy(d, p) /\ Head(calls).by # d
  <2> SUFFICES ASSUME NEW d, NEW p
               PROVE  AskedBy(d, p)' <=> AskedBy(d, p) /\ Head(calls).by # d
    OBVIOUS
  <2>1. AskedBy(d, p)' => AskedBy(d, p) /\ Head(calls).by # d
    BY <1>3, <1>b DEF AskedBy
  <2>2. AskedBy(d, p) /\ Head(calls).by # d => AskedBy(d, p)'
    BY <1>4, <1>c DEF AskedBy
  <2> QED
    BY <2>1, <2>2
<1>10. \A d : Waits(d)' <=> Waits(d) /\ Head(calls).by # d
  <2> SUFFICES ASSUME NEW d
               PROVE  Waits(d)' <=> Waits(d) /\ Head(calls).by # d
    OBVIOUS
  <2>1. Waits(d)' => Waits(d) /\ Head(calls).by # d
    BY <1>3, <1>b DEF Waits
  <2>2. Waits(d) /\ Head(calls).by # d => Waits(d)'
    BY <1>4, <1>c DEF Waits
  <2> QED
    BY <2>1, <2>2
<1>11. AskedBy(Head(calls).by, Head(calls).op)
  BY <1>2, <1>5 DEF AskedBy
<1> QED
  BY <1>2, <1>7, <1>8, <1>9, <1>10, <1>11

\* A queue that stays the same.
LEMMA SameCalls ==
    ASSUME UNCHANGED calls
    PROVE  /\ OneCallEach' = OneCallEach
           /\ \A p : Asked(p)' = Asked(p)
           /\ \A d, p : AskedBy(d, p)' = AskedBy(d, p)
           /\ \A d : Waits(d)' = Waits(d)
           /\ \A o : Running(o)' = Running(o)
BY DEF OneCallEach, Asked, AskedBy, Waits, Running

-----------------------------------------------------------------------------
(* The stacks.                                                             *)

Lives == {"new", "started", "stopping", "gone"}
Stack == [settings : 0 .. MaxSettings, life : Lives]

\* A stack in another life: the others stay as they are.
LEMMA LifeAt ==
    ASSUME stacks \in Seq(Stack), NEW i \in DOMAIN stacks, NEW l \in Lives
    PROVE  /\ Life(i, l) \in Seq(Stack)
           /\ Len(Life(i, l)) = Len(stacks) /\ DOMAIN Life(i, l) = DOMAIN stacks
           /\ Life(i, l)[i].life = l
           /\ \A j \in DOMAIN stacks : j # i => Life(i, l)[j] = stacks[j]
<1>1. DOMAIN stacks = 1 .. Len(stacks) /\ Len(stacks) \in Nat /\ \A j \in DOMAIN stacks : stacks[j] \in Stack
  OBVIOUS
<1>2. [stacks[i] EXCEPT !.life = l] \in Stack /\ [stacks[i] EXCEPT !.life = l].life = l
  BY <1>1 DEF Stack
<1>3. Life(i, l) = [j \in 1 .. Len(stacks) |-> IF j = i THEN [stacks[i] EXCEPT !.life = l] ELSE stacks[j]]
  BY <1>1 DEF Life
<1>4. \A j \in 1 .. Len(stacks) : Life(i, l)[j] \in Stack
  BY <1>1, <1>2, <1>3
<1>5. Life(i, l) \in Seq(Stack) /\ Len(Life(i, l)) = Len(stacks)
  BY <1>1, <1>3, <1>4
<1> QED
  BY <1>1, <1>2, <1>3, <1>5

\* What the invariant says of a stack in terms of the last one alone.
LEMMA NewestStack ==
    ASSUME RuntimeInvariant
    PROVE  /\ stacks \in Seq(Stack) /\ DOMAIN stacks = 1 .. Newest /\ Newest \in Nat
           /\ stacks # <<>> => Newest \in DOMAIN stacks /\ stacks[Newest].life \in Lives
           /\ active # 0 => stacks # <<>> /\ active = Newest
<1>1. stacks \in Seq(Stack) /\ active \in 0 .. Len(stacks)
  BY DEF RuntimeInvariant, RuntimeTypeOK, Stack, Lives
<1>2. DOMAIN stacks = 1 .. Newest /\ Newest \in Nat /\ (stacks # <<>> => Newest > 0) /\ (Newest > 0 => stacks # <<>>)
  BY <1>1 DEF Newest
<1>3. \A i \in DOMAIN stacks : stacks[i] \in Stack
  BY <1>1
<1>a. \A i \in DOMAIN stacks : stacks[i].life \in Lives
  BY <1>3 DEF Stack
<1>4. active # 0 => active = Newest
  BY DEF RuntimeInvariant, OnlyTheLast
<1> QED
  BY <1>1, <1>2, <1>a, <1>4

-----------------------------------------------------------------------------
(* The invariant of the runtime is kept by every step.                     *)

\* A call that is queued, and takes effect on the flags at once.
LEMMA CallKeeps ==
    ASSUME RuntimeInvariant, NEW c \in Caller, NEW o \in Ops, Call(c, o),
           UNCHANGED <<stage, stacks, active, settings>>,
           closed' \in BOOLEAN, closed' => closed \/ o = "stop",
           started' \in BOOLEAN, started' => started \/ o = "start"
    PROVE  RuntimeInvariant'
<1>1. RuntimeTypeOK /\ OneCallEach
  BY DEF RuntimeInvariant
<1>2. /\ calls' \in Seq(CallRecord) /\ calls' # <<>>
      /\ calls # <<>> => Head(calls') = Head(calls)
      /\ OneCallEach'
      /\ \A p : Asked(p)' <=> Asked(p) \/ p = o
  BY <1>1, CallAdds
<1>3. RuntimeTypeOK'
  BY <1>1, <1>2 DEF RuntimeTypeOK, CallRecord
<1>4. stage # "none" => \A p : Running(p)' <=> Running(p)
  BY <1>1, <1>2 DEF RuntimeTypeOK, Running
<1>5. StageSaysWhat'
  BY <1>4 DEF RuntimeInvariant, StageSaysWhat, Newest
<1>6. OnlyTheLast'
  BY DEF RuntimeInvariant, OnlyTheLast, Newest, Alive
<1>7. StoppedForGood'
  BY <1>2 DEF RuntimeInvariant, StoppedForGood
<1>8. StartedForGood'
  BY <1>2 DEF RuntimeInvariant, StartedForGood, Newest
<1> QED
  BY <1>2, <1>3, <1>5, <1>6, <1>7, <1>8 DEF RuntimeInvariant

\* activate() and deactivate() are queued.
LEMMA CallSwapKeeps ==
    ASSUME RuntimeInvariant, NEW c \in Caller, NEW o, CallSwap(c, o)
    PROVE  RuntimeInvariant'
<1>1. o \in Ops /\ Call(c, o) /\ UNCHANGED <<stage, stacks, active, started, closed, settings>>
  BY DEF CallSwap, Ops
<1>2. closed \in BOOLEAN /\ started \in BOOLEAN
  BY DEF RuntimeInvariant, RuntimeTypeOK
<1> QED
  BY <1>1, <1>2, CallKeeps

\* start() is queued.
LEMMA CallStartKeeps ==
    ASSUME RuntimeInvariant, NEW c \in Caller, CallStart(c)
    PROVE  RuntimeInvariant'
<1>1. "start" \in Ops /\ Call(c, "start") /\ UNCHANGED <<stage, stacks, active, closed, settings>>
      /\ started' = TRUE
  BY DEF CallStart, Ops
<1>2. closed \in BOOLEAN
  BY DEF RuntimeInvariant, RuntimeTypeOK
<1> QED
  BY <1>1, <1>2, CallKeeps

\* stop() is queued.
LEMMA CallStopKeeps ==
    ASSUME RuntimeInvariant, NEW c \in Caller, CallStop(c)
    PROVE  RuntimeInvariant'
<1>1. "stop" \in Ops /\ Call(c, "stop") /\ UNCHANGED <<stage, stacks, active, started, settings>>
      /\ closed' = TRUE
  BY DEF CallStop, Ops
<1>2. started \in BOOLEAN
  BY DEF RuntimeInvariant, RuntimeTypeOK
<1> QED
  BY <1>1, <1>2, CallKeeps

\* A call that ends with the stacks as they are, or with their last one gone.
LEMMA EndKeeps ==
    ASSUME RuntimeInvariant, calls # <<>>, Ends,
           UNCHANGED <<started, closed, settings>>,
           stacks' \in Seq(Stack), active' \in 0 .. Len(stacks'),
           OnlyTheLast',
           Running("stop") => active' = 0,
           active' # 0 => active' = active \/ ~ closed,
           Running("start") /\ active' # 0 => stacks'[Newest'].life = "started",
           active' # 0 => \/ stacks'[Newest'].life = "started"
                         \/ (active' = active /\ Newest' = Newest /\ stacks'[Newest'].life = stacks[Newest].life)
                         \/ ~ started
    PROVE  RuntimeInvariant'
<1>1. RuntimeTypeOK /\ OneCallEach
  BY DEF RuntimeInvariant
<1>2. /\ calls' \in Seq(CallRecord)
      /\ OneCallEach'
      /\ \A p : Asked(p) <=> Asked(p)' \/ Head(calls).op = p
  BY <1>1, EndsRemoves
<1>3. stage' = "none"
  BY DEF Ends
<1>4. RuntimeTypeOK'
  BY <1>1, <1>2, <1>3 DEF RuntimeTypeOK, CallRecord, Stack, Lives, Stages
<1>5. StageSaysWhat'
  BY <1>3 DEF StageSaysWhat
<1>6. StoppedForGood'
  BY <1>2, <1>3 DEF RuntimeInvariant, StoppedForGood, Running
<1>7. StartedForGood'
  BY <1>2 DEF RuntimeInvariant, StartedForGood, Running
<1> QED
  BY <1>2, <1>4, <1>5, <1>6, <1>7 DEF RuntimeInvariant

\* activate() runs: a stack is created behind the last, which is gone.
LEMMA ActivateKeeps ==
    ASSUME RuntimeInvariant, Activate
    PROVE  RuntimeInvariant'
<1>1. /\ RuntimeTypeOK /\ calls # <<>> /\ stage = "none" /\ Running("activate") /\ ~ Running("start")
      /\ ~ Running("stop")
      /\ UNCHANGED <<active, started, closed, settings>>
  BY DEF RuntimeInvariant, Activate, Running
<1>2. CASE closed \/ active # 0
  <2>1. Ends /\ UNCHANGED stacks
    BY <1>2 DEF Activate
  <2>2. stacks' \in Seq(Stack) /\ active' \in 0 .. Len(stacks') /\ Newest' = Newest
    BY <1>1, <2>1, NewestStack DEF RuntimeTypeOK, Newest
  <2>3. OnlyTheLast'
    BY <1>1, <2>1 DEF RuntimeInvariant, OnlyTheLast, Newest, Alive, Ends
  <2> QED
    BY <1>1, <2>1, <2>2, <2>3, EndKeeps
<1>3. CASE ~ (closed \/ active # 0)
  <2> DEFINE new == [settings |-> settings, life |-> "new"]
  <2>1. stacks' = Append(stacks, new) /\ stage' = "creating" /\ UNCHANGED calls /\ active = 0 /\ ~ closed
    BY <1>3 DEF Activate
  <2>2. new \in Stack /\ new.life = "new"
    BY <1>1 DEF RuntimeTypeOK, Stack, Lives
  <2> HIDE DEF new
  <2>3. /\ stacks' \in Seq(Stack) /\ DOMAIN stacks' = 1 .. Newest + 1 /\ Newest' = Newest + 1
        /\ stacks' # <<>> /\ stacks'[Newest + 1] = new
        /\ \A i \in 1 .. Newest : stacks'[i] = stacks[i]
        /\ DOMAIN stacks = 1 .. Newest /\ Newest \in Nat
    BY <2>1, <2>2, AppendAt, NewestStack DEF Newest
  <2>4. RuntimeTypeOK'
    BY <1>1, <2>1, <2>3 DEF RuntimeTypeOK, Stages, Stack, Lives, Newest
  <2>5. StageSaysWhat'
    BY <1>1, <2>1, <2>2, <2>3 DEF StageSaysWhat, Running
  <2>6. \A i \in DOMAIN stacks : stacks[i].life = "gone"
    BY <1>1, <2>1 DEF RuntimeInvariant, OnlyTheLast, Alive
  <2>7. OnlyTheLast'
    BY <1>1, <2>1, <2>3, <2>6 DEF OnlyTheLast, Alive
  <2>8. StoppedForGood' /\ StartedForGood' /\ OneCallEach'
    BY <1>1, <2>1, SameCalls DEF RuntimeInvariant, StoppedForGood, StartedForGood
  <2> QED
    BY <2>4, <2>5, <2>7, <2>8 DEF RuntimeInvariant
<1> QED
  BY <1>2, <1>3

\* The last stack takes up another life, and the call that had it do so waits.
LEMMA LifeKeeps ==
    ASSUME RuntimeInvariant, stacks # <<>>, NEW l \in Lives \ {"gone", "new"},
           stacks' = Life(Newest, l), calls # <<>>,
           UNCHANGED <<calls, started, closed, settings>>,
           l = "started" => /\ stage' = "starting" /\ active' = Newest
                            /\ Running("activate") \/ Running("start")
                            /\ active # 0 \/ ~ closed,
           l = "stopping" => stage' = "stopping" /\ active' = 0 /\ ~ Running("start")
    PROVE  RuntimeInvariant'
<1>1. RuntimeTypeOK /\ stacks \in Seq(Stack) /\ Newest \in DOMAIN stacks /\ Newest \in Nat /\ Newest # 0
      /\ DOMAIN stacks = 1 .. Newest
  BY NewestStack DEF RuntimeInvariant
<1>2. l = "started" \/ l = "stopping"
  BY DEF Lives
<1>3. /\ stacks' \in Seq(Stack) /\ DOMAIN stacks' = DOMAIN stacks /\ Newest' = Newest /\ stacks' # <<>>
      /\ stacks'[Newest].life = l
      /\ \A j \in DOMAIN stacks : j # Newest => stacks'[j] = stacks[j]
  BY <1>1, LifeAt DEF Newest
<1>4. RuntimeTypeOK'
  BY <1>1, <1>2, <1>3 DEF RuntimeTypeOK, Stages, Stack, Lives, Newest
<1>5. StageSaysWhat'
  BY <1>1, <1>2, <1>3, SameCalls DEF StageSaysWhat
<1>6. \A j \in DOMAIN stacks : j # Newest => stacks[j].life = "gone"
  BY DEF RuntimeInvariant, OnlyTheLast, Alive
<1>7. OnlyTheLast'
  BY <1>1, <1>2, <1>3, <1>6 DEF OnlyTheLast, Alive
<1>8. StoppedForGood' /\ StartedForGood' /\ OneCallEach'
  BY <1>2, <1>3, SameCalls DEF RuntimeInvariant, StoppedForGood, StartedForGood
<1> QED
  BY <1>4, <1>5, <1>7, <1>8 DEF RuntimeInvariant

\* createStack answers.
LEMMA CreatedKeeps ==
    ASSUME RuntimeInvariant, Created
    PROVE  RuntimeInvariant'
<1>1. /\ stage = "creating" /\ calls # <<>> /\ Running("activate") /\ ~ Running("start")
      /\ ~ Running("stop")
      /\ active = 0 /\ stacks # <<>> /\ stacks[Newest].life = "new"
      /\ UNCHANGED <<started, closed, settings>>
  BY DEF RuntimeInvariant, StageSaysWhat, Created, Running
<1>2. /\ stacks \in Seq(Stack) /\ DOMAIN stacks = 1 .. Newest /\ Newest \in Nat /\ Newest \in DOMAIN stacks
  BY <1>1, NewestStack
<1>3. CASE closed
  BY <1>1, <1>2, <1>3, LifeKeeps DEF Created, Newest, Lives
<1>4. CASE ~ closed /\ started
  BY <1>1, <1>2, <1>4, LifeKeeps DEF Created, Newest, Lives
<1>5. CASE ~ closed /\ ~ started
  <2>1. active' = Newest /\ Ends /\ UNCHANGED stacks /\ Newest' = Newest
    BY <1>5 DEF Created, Newest
  <2>2. active' \in 0 .. Len(stacks')
    BY <1>2, <2>1 DEF Newest
  <2>3. OnlyTheLast'
    BY <1>1, <1>2, <2>1 DEF RuntimeInvariant, OnlyTheLast, Alive
  <2> QED
    BY <1>1, <1>2, <1>5, <2>1, <2>2, <2>3, EndKeeps
<1> QED
  BY <1>3, <1>4, <1>5

\* runtime.start() returns.
LEMMA HasStartedKeeps ==
    ASSUME RuntimeInvariant, HasStarted
    PROVE  RuntimeInvariant'
<1>1. /\ RuntimeTypeOK /\ stage = "starting" /\ calls # <<>> /\ ~ Running("stop") /\ active # 0
      /\ stacks[Newest].life = "started" /\ Ends
      /\ UNCHANGED <<stacks, active, started, closed, settings>> /\ Newest' = Newest
  BY DEF RuntimeInvariant, StageSaysWhat, HasStarted, Running, Newest
<1>2. stacks' \in Seq(Stack) /\ active' \in 0 .. Len(stacks')
  BY <1>1, NewestStack DEF RuntimeTypeOK
<1>3. OnlyTheLast'
  BY <1>1 DEF RuntimeInvariant, OnlyTheLast, Alive
<1> QED
  BY <1>1, <1>2, <1>3, EndKeeps

\* deactivate() or stop() runs.
LEMMA DeactivateKeeps ==
    ASSUME RuntimeInvariant, Deactivate
    PROVE  RuntimeInvariant'
<1>1. /\ stage = "none" /\ calls # <<>> /\ ~ Running("start") /\ active' = 0
      /\ UNCHANGED <<started, closed, settings>>
  BY DEF Deactivate, Running
<1>2. CASE active = 0
  <2>1. Ends /\ UNCHANGED stacks /\ Newest' = Newest
    BY <1>2 DEF Deactivate, Newest
  <2>2. stacks' \in Seq(Stack) /\ active' \in 0 .. Len(stacks')
    BY <1>1, <2>1, NewestStack DEF Newest
  <2>3. OnlyTheLast'
    BY <1>1, <1>2, <2>1 DEF RuntimeInvariant, OnlyTheLast, Alive
  <2> QED
    BY <1>1, <2>1, <2>2, <2>3, EndKeeps
<1>3. CASE active # 0
  <2>1. stacks # <<>> /\ active = Newest
    BY <1>3, NewestStack
  <2>2. stacks' = Life(Newest, "stopping") /\ stage' = "stopping" /\ UNCHANGED calls
    BY <1>3, <2>1 DEF Deactivate
  <2> QED
    BY <1>1, <2>1, <2>2, LifeKeeps DEF Lives
<1> QED
  BY <1>2, <1>3

\* The stack that was stopped is gone.
LEMMA DisposedKeeps ==
    ASSUME RuntimeInvariant, Disposed
    PROVE  RuntimeInvariant'
<1>1. /\ RuntimeTypeOK /\ stage = "stopping" /\ calls # <<>> /\ active = 0 /\ stacks # <<>>
      /\ ~ Running("start") /\ Ends /\ stacks' = Life(Newest, "gone")
      /\ UNCHANGED <<active, started, closed, settings>>
  BY DEF RuntimeInvariant, RuntimeTypeOK, StageSaysWhat, Disposed, Newest
<1>2. /\ stacks \in Seq(Stack) /\ DOMAIN stacks = 1 .. Newest /\ Newest \in Nat /\ Newest \in DOMAIN stacks
  BY <1>1, NewestStack
<1>3. /\ stacks' \in Seq(Stack) /\ DOMAIN stacks' = DOMAIN stacks /\ Len(stacks') = Len(stacks)
      /\ stacks'[Newest].life = "gone"
      /\ \A j \in DOMAIN stacks : j # Newest => stacks'[j] = stacks[j]
  BY <1>1, <1>2, LifeAt DEF Lives
<1>4. \A j \in DOMAIN stacks : j # Newest => stacks[j].life = "gone"
  BY DEF RuntimeInvariant, OnlyTheLast, Alive
<1>5. OnlyTheLast'
  BY <1>1, <1>3, <1>4 DEF OnlyTheLast, Alive
<1>6. active' \in 0 .. Len(stacks')
  BY <1>1, <1>2, <1>3 DEF Newest
<1> QED
  BY <1>1, <1>3, <1>5, <1>6, EndKeeps

\* start() runs.
LEMMA StartKeeps ==
    ASSUME RuntimeInvariant, Start
    PROVE  RuntimeInvariant'
<1>1. /\ stage = "none" /\ calls # <<>> /\ Running("start") /\ ~ Running("stop")
      /\ UNCHANGED <<active, started, closed, settings>>
  BY DEF Start, Running
<1>2. CASE active = 0
  <2>1. Ends /\ UNCHANGED stacks /\ Newest' = Newest
    BY <1>2 DEF Start, Newest
  <2>2. stacks' \in Seq(Stack) /\ active' \in 0 .. Len(stacks')
    BY <1>1, <1>2, <2>1, NewestStack DEF Newest
  <2>3. OnlyTheLast'
    BY <1>1, <1>2, <2>1 DEF RuntimeInvariant, OnlyTheLast, Alive
  <2> QED
    BY <1>1, <1>2, <2>1, <2>2, <2>3, EndKeeps
<1>3. CASE active # 0
  <2>1. stacks # <<>> /\ active = Newest
    BY <1>3, NewestStack
  <2>2. stacks' = Life(Newest, "started") /\ stage' = "starting" /\ UNCHANGED calls
    BY <1>3, <2>1 DEF Start
  <2> QED
    BY <1>1, <1>3, <2>1, <2>2, LifeKeeps DEF Lives
<1> QED
  BY <1>2, <1>3

\* New settings change no life.
LEMMA UpdateSettingsKeeps ==
    ASSUME RuntimeInvariant, UpdateSettings
    PROVE  RuntimeInvariant'
<1>1. /\ RuntimeTypeOK /\ settings < MaxSettings /\ settings' = settings + 1
      /\ settings + 1 \in 0 .. MaxSettings
      /\ UNCHANGED <<calls, stage, active, started, closed>>
  BY LeasedRuntimeAssumption DEF RuntimeInvariant, RuntimeTypeOK, UpdateSettings
<1>2. stacks \in Seq(Stack) /\ DOMAIN stacks = 1 .. Newest /\ Newest \in Nat
      /\ (stacks # <<>> => Newest \in DOMAIN stacks) /\ (active # 0 => stacks # <<>> /\ active = Newest)
  BY NewestStack
<1>3. /\ stacks' \in Seq(Stack) /\ DOMAIN stacks' = DOMAIN stacks /\ Newest' = Newest
      /\ \A i \in DOMAIN stacks : stacks'[i].life = stacks[i].life
      /\ stacks # <<>> => stacks' # <<>>
  <2>1. CASE active = 0
    BY <1>2, <2>1 DEF UpdateSettings, Newest
  <2>2. CASE active # 0
    <3>1. stacks' = [i \in 1 .. Newest |-> IF i = active THEN [stacks[i] EXCEPT !.settings = settings + 1]
                                        ELSE stacks[i]]
      BY <1>2, <2>2 DEF UpdateSettings
    <3>a. \A i \in 1 .. Newest : stacks[i] \in Stack
      BY <1>2
    <3>2. \A i \in 1 .. Newest : /\ [stacks[i] EXCEPT !.settings = settings + 1] \in Stack
                              /\ [stacks[i] EXCEPT !.settings = settings + 1].life = stacks[i].life
      BY <1>1, <3>a DEF Stack
    <3>3. \A i \in 1 .. Newest : stacks'[i] \in Stack /\ stacks'[i].life = stacks[i].life
      BY <1>2, <3>1, <3>2
    <3>4. stacks' \in Seq(Stack) /\ Newest' = Newest /\ DOMAIN stacks' = 1 .. Newest
      BY <1>2, <3>1, <3>3 DEF Newest
    <3> QED
      BY <1>2, <3>3, <3>4
  <2> QED
    BY <2>1, <2>2
<1>4. RuntimeTypeOK'
  BY <1>1, <1>2, <1>3 DEF RuntimeTypeOK, Stack, Lives, Newest
<1>5. StageSaysWhat'
  BY <1>1, <1>2, <1>3, SameCalls DEF RuntimeInvariant, StageSaysWhat
<1>6. OnlyTheLast'
  BY <1>1, <1>2, <1>3 DEF RuntimeInvariant, OnlyTheLast, Alive
<1>7. StoppedForGood' /\ StartedForGood' /\ OneCallEach'
  BY <1>1, <1>2, <1>3, SameCalls DEF RuntimeInvariant, StoppedForGood, StartedForGood
<1> QED
  BY <1>4, <1>5, <1>6, <1>7 DEF RuntimeInvariant

\* The running call goes on.
LEMMA WorksKeeps ==
    ASSUME RuntimeInvariant, Works
    PROVE  RuntimeInvariant'
BY ActivateKeeps, CreatedKeeps, HasStartedKeeps, DeactivateKeeps, DisposedKeeps, StartKeeps DEF
   Works

\* A runtime starts without a stack and without a call.
LEMMA RuntimeInitInvariant == RuntimeInit => RuntimeInvariant
<1> SUFFICES ASSUME RuntimeInit PROVE RuntimeInvariant
  OBVIOUS
<1>1. calls = <<>> /\ stacks = <<>> /\ stage = "none" /\ active = 0 /\ started = FALSE /\ closed = FALSE
      /\ settings = 0 /\ Newest = 0 /\ DOMAIN stacks = {} /\ DOMAIN calls = {}
  BY DEF RuntimeInit, Newest
<1>a. calls \in Seq([op : Ops, by : Caller])
  BY <1>1
<1>b. stacks \in Seq([settings : 0 .. MaxSettings, life : {"new", "started", "stopping", "gone"}])
  BY <1>1
<1>2. RuntimeTypeOK
  <2>1. active \in 0 .. Len(stacks) /\ settings \in 0 .. MaxSettings
    BY <1>1, LeasedRuntimeAssumption DEF Newest
  <2> QED
    BY <1>1, <1>a, <1>b, <2>1 DEF RuntimeTypeOK, Stages
<1>3. OneCallEach /\ StageSaysWhat /\ OnlyTheLast /\ StoppedForGood /\ StartedForGood
  BY <1>1 DEF OneCallEach, StageSaysWhat, OnlyTheLast, StoppedForGood, StartedForGood
<1> QED
  BY <1>2, <1>3 DEF RuntimeInvariant

\* Every step of the runtime keeps the invariant.
LEMMA RuntimeStep == RuntimeInvariant /\ [RuntimeNext]_runtime => RuntimeInvariant'
<1> SUFFICES ASSUME RuntimeInvariant, [RuntimeNext]_runtime
             PROVE  RuntimeInvariant'
  OBVIOUS
<1>1. CASE Works
  BY <1>1, WorksKeeps
<1>2. CASE UpdateSettings
  BY <1>2, UpdateSettingsKeeps
<1>3. ASSUME NEW c \in Caller, RuntimeCalls(c)
      PROVE  RuntimeInvariant'
  BY <1>3, CallSwapKeeps, CallStartKeeps, CallStopKeeps DEF RuntimeCalls
<1>4. CASE UNCHANGED runtime
  BY <1>4 DEF runtime, RuntimeInvariant, RuntimeTypeOK, OneCallEach, StageSaysWhat, OnlyTheLast,
     StoppedForGood, StartedForGood, Newest, Alive, Asked, Running
<1> QED
  BY <1>1, <1>2, <1>3, <1>4 DEF RuntimeNext

\* The invariant holds of the runtime, whoever calls it.
LEMMA RuntimeHolds == RuntimeSpec => []RuntimeInvariant
BY RuntimeInitInvariant, RuntimeStep, PTL DEF RuntimeSpec

\* The invariant has the runtime's promises.
LEMMA RuntimePromises == RuntimeInvariant => CallsReachTheStack
<1> SUFFICES ASSUME RuntimeInvariant PROVE CallsReachTheStack
  OBVIOUS
<1>1. RuntimeTypeOK
  BY DEF RuntimeInvariant
<1>2. OneStack
  BY DEF RuntimeInvariant, OnlyTheLast, OneStack
<1>3. NeverAnswersFromAStopped
  BY DEF RuntimeInvariant, OnlyTheLast, NeverAnswersFromAStopped
<1>4. GoneAfterStop
  BY NewestStack DEF RuntimeInvariant, OnlyTheLast, StoppedForGood, StageSaysWhat, GoneAfterStop,
     Asked, Newest
<1>5. StartedWhenItShouldBe
  BY DEF RuntimeInvariant, OnlyTheLast, StartedForGood, StartedWhenItShouldBe, Asked
<1> QED
  BY <1>1, <1>2, <1>3, <1>4, <1>5 DEF CallsReachTheStack

\* LeasedAgentRuntime: whatever the order of the calls and of the changes of the
\* settings, one stack exists at a time, it is started when it should be, and
\* none answers that was stopped.
THEOREM RuntimeIsRight == RuntimeSpec => []CallsReachTheStack
BY RuntimeHolds, RuntimePromises, PTL

-----------------------------------------------------------------------------
(* The supervisor.                                                         *)

Leaves == {"letting go", "pushing", "off"}

\* Where the running step is, what it is for and what is arranged meanwhile.
SupervisorAt ==
    /\ pc # "none" => steps # <<>>
    /\ pc \in Leaves \cup {"configuring", "deciding", "before the lease"} => arrangement = "idle"
    /\ pc = "entering" => arrangement \in {"standalone", "unavailable", "relayed"}
    /\ releasing <=> pc = "letting go"
    /\ pc \in Leaves => (next = "end" <=> Head(steps) = "stop")
    /\ pc \in Leaves /\ next = "configure" => Head(steps) = "apply"
    /\ pc \in Leaves /\ next = "enter" => desired # "idle"
    /\ pc \in {"configuring", "deciding"} => Head(steps) = "apply"
    /\ pc \in {"entering", "before the lease"} => Head(steps) # "stop"

\* The lease is there for its arrangement alone, or while #leave waits for it to
\* be let go of, and its kind says which of its steps it may be in.
LeaseAt ==
    /\ arrangement = "lease" => ~ lease.stopped
    /\ releasing => lease.stopped
    /\ arrangement # "lease" /\ ~ releasing =>
          lease.kind = "stopped" /\ lease.step = "none"
    /\ lease.kind = "stopped" => lease.stopped
    /\ lease.kind = "checking" => lease.step \in {"none", "asking"}
    /\ lease.kind = "held" => lease.step \in {"none", "asking", "pulling", "activating"}
    /\ lease.kind = "yielding" =>
          \/ lease.step \in {"winding", "passing", "releasing"}
          \/ lease.step = "none" /\ lease.stopped /\ lease.epoch = 0
    /\ lease.kind \in {"elsewhere", "unreachable"} => lease.step \in {"none", "asking", "stopping"}
    /\ lease.kind = "stopped" => lease.step \in {"none", "winding", "passing", "releasing"}
    /\ lease.step = "activating" => startedUnder = lease.epoch

\* The lease has an epoch only while the service's row is its.
GrantAt ==
    /\ grant.mine => grant.epoch # 0
    /\ lease.epoch # 0 => grant = [epoch |-> lease.epoch, mine |-> TRUE]
    /\ lease.kind = "held" => lease.epoch # 0
    /\ lease.kind \in {"checking", "elsewhere", "unreachable"} => lease.epoch = 0
    /\ lease.kind = "stopped" /\ lease.step = "none" => lease.epoch = 0

\* Who has called the runtime for what: the supervisor activates it for an agent
\* that runs without sync, the lease for one it was granted, the daemon never.
CallsAt ==
    /\ AskedBy("supervisor", "activate") => pc = "entering" /\ arrangement = "standalone"
    /\ Waits("supervisor") => pc \in {"off", "entering", "before the lease"}
    /\ AskedBy("lease", "activate") => lease.step = "activating"
    /\ Waits("lease") => lease.step \in {"activating", "stopping", "winding"}
    /\ ~ AskedBy("lease", "start") /\ ~ AskedBy("lease", "stop")
    /\ ~ AskedBy("daemon", "activate")

\* The agent may run: alone, or under the grant it was started under.
Entitled ==
    \/ arrangement = "standalone"
    \/ /\ arrangement = "lease" \/ releasing
       /\ lease.kind = "held" /\ lease.step # "pulling" /\ lease.epoch = startedUnder

\* A stack that is active, and not about to stop, is entitled to.
RunsEntitled == active # 0 /\ ~ Leaving => Entitled

\* A lease that is being let go of: its agent stopped before it is released.
WoundUp ==
    lease.step \in {"winding", "passing", "releasing"} /\ lease.epoch # 0 =>
        /\ ~ Waits("lease") => active = 0 /\ stage = "none"
        /\ lease.step = "releasing" => synced

\* How far the shutdown is, and what is left in the queue then.
ClosingAt ==
    /\ stopped <=> closing # "no"
    /\ closing \in {"runtime", "done"} => closed /\ \A i \in DOMAIN steps : steps[i] # "stop"
    /\ ~ stopped => \A i \in DOMAIN steps : steps[i] # "stop"
    /\ \A i, j \in DOMAIN steps : steps[i] = "stop" /\ i < j => steps[j] = "watched"
    /\ stopped /\ (\A i \in DOMAIN steps : steps[i] # "stop") =>
          arrangement = "idle" /\ pc = "none" /\ \A i \in DOMAIN steps : steps[i] = "watched"
    /\ closing = "done" => ~ Waits("daemon")

\* The inductive invariant of the supervisor, its lease and its runtime.
SupervisorInvariant ==
    /\ RuntimeInvariant
    /\ SupervisorTypeOK
    /\ SupervisorAt
    /\ LeaseAt
    /\ GrantAt
    /\ CallsAt
    /\ RunsEntitled
    /\ WoundUp
    /\ ClosingAt

\* A step still to come decides again.
Later ==
    \E i \in DOMAIN steps :
        /\ steps[i] \in {"reconcile", "apply"}
        /\ \/ i > 1
           \/ pc \in {"none", "configuring", "deciding"}
           \/ pc \in Leaves /\ next = "configure"

\* The running step decided on what still applies.
Follows ==
    /\ pc \in Leaves => next = "enter" /\ desired = Desired
    /\ pc = "before the lease" => Desired = "lease"
    /\ pc \in {"none", "entering", "configuring", "deciding"} => arrangement = Desired

\* A change is followed by a step that has yet to decide.
ChoicesFollowed == token # "bad" /\ (stopped \/ Later \/ Follows)

-----------------------------------------------------------------------------
(* What the runtime's own steps do to the calls and to the active stack.   *)

\* What Leaving says, in terms of the calls asked.
LEMMA LeavingAsked == Leaving <=> Asked("deactivate") \/ Asked("stop")
BY DEF Leaving, Asked

\* A caller asks for one thing at a time.
LEMMA OneOpEach ==
    ASSUME OneCallEach, NEW d, NEW o, NEW p, AskedBy(d, o), AskedBy(d, p)
    PROVE  o = p
BY DEF OneCallEach, AskedBy

\* Who asks waits, who waits asked, and what is asked was asked by somebody.
LEMMA AskerWaits ==
    /\ \A d, p : AskedBy(d, p) => Waits(d) /\ Asked(p)
    /\ RuntimeTypeOK => \A d : Waits(d) => d \in Caller /\ \E p \in Ops : AskedBy(d, p)
    /\ RuntimeTypeOK => \A p : Asked(p) => \E d \in Caller : AskedBy(d, p)
<1>1. \A d, p : AskedBy(d, p) => Waits(d) /\ Asked(p)
  BY DEF AskedBy, Waits, Asked
<1>2. RuntimeTypeOK => \A i \in DOMAIN calls : calls[i].op \in Ops /\ calls[i].by \in Caller
  <2> SUFFICES ASSUME RuntimeTypeOK
               PROVE  \A i \in DOMAIN calls : calls[i].op \in Ops /\ calls[i].by \in Caller
    OBVIOUS
  <2>a. calls \in Seq(CallRecord)
    BY DEF RuntimeTypeOK, CallRecord
  <2>1. \A i \in DOMAIN calls : calls[i] \in CallRecord
    BY <2>a
  <2> QED
    BY <2>1 DEF CallRecord
<1> QED
  BY <1>1, <1>2 DEF AskedBy, Waits, Asked

\* Calls only return: none is added, and a deactivate() that did leaves nothing.
CallsOnlyEnd ==
    /\ \A d, p : AskedBy(d, p)' => AskedBy(d, p)
    /\ \A d : Waits(d)' => Waits(d)
    /\ Leaving => Leaving' \/ active' = 0
    /\ \A d : AskedBy(d, "deactivate") /\ ~ Waits(d)' => active' = 0 /\ stage' = "none"

\* The running call returns.
LEMMA EndDoes ==
    ASSUME RuntimeInvariant, calls # <<>>, Ends,
           Running("deactivate") \/ Running("stop") => active' = 0
    PROVE  CallsOnlyEnd /\ \E d \in Caller : AskedBy(d, Head(calls).op)
<1>1. RuntimeTypeOK /\ OneCallEach
  BY DEF RuntimeInvariant
<1>2. /\ Head(calls) \in CallRecord
      /\ \A p : Asked(p) <=> Asked(p)' \/ Head(calls).op = p
      /\ \A d, p : AskedBy(d, p)' <=> AskedBy(d, p) /\ Head(calls).by # d
      /\ \A d : Waits(d)' <=> Waits(d) /\ Head(calls).by # d
      /\ AskedBy(Head(calls).by, Head(calls).op)
  BY <1>1, EndsRemoves
<1>3. Leaving => Leaving' \/ active' = 0
  <2>1. Asked("deactivate") \/ Asked("stop")
            => Asked("deactivate")' \/ Asked("stop")' \/ active' = 0
    BY <1>2 DEF Running
  <2>2. Leaving' <=> Asked("deactivate")' \/ Asked("stop")'
    BY DEF Leaving, Asked
  <2> QED
    BY <2>1, <2>2, LeavingAsked
<1>4. ASSUME NEW d, AskedBy(d, "deactivate"), ~ Waits(d)'
      PROVE  active' = 0 /\ stage' = "none"
  <2>1. Waits(d) /\ Head(calls).by = d
    BY <1>2, <1>4, AskerWaits
  <2>2. Head(calls).op = "deactivate"
    BY <1>1, <1>2, <1>4, <2>1, OneOpEach
  <2> QED
    BY <2>2 DEF Running, Ends
<1>5. Head(calls).by \in Caller
  BY <1>2 DEF CallRecord
<1> QED
  BY <1>2, <1>3, <1>4, <1>5 DEF CallsOnlyEnd

\* No call returns.
LEMMA SameDoes ==
    ASSUME UNCHANGED calls
    PROVE  CallsOnlyEnd
<1>1. (\A d, p : AskedBy(d, p)' = AskedBy(d, p)) /\ (\A d : Waits(d)' = Waits(d)) /\ (Leaving' = Leaving)
  BY DEF AskedBy, Waits, Leaving
<1> QED
  BY <1>1, AskerWaits DEF CallsOnlyEnd

\* No activate() is under way.
NobodyActivates == \A d \in Caller : ~ AskedBy(d, "activate")

\* What the runtime's own steps do to the calls and to the active stack.
LEMMA WorksDo ==
    ASSUME RuntimeInvariant, Works
    PROVE  /\ CallsOnlyEnd
           /\ UNCHANGED <<started, closed, settings>>
           /\ NobodyActivates => /\ active' # 0 => active # 0
                                 /\ active = 0 /\ stage = "none" => stage' = "none"
<1> DEFINE Quiet == NobodyActivates => /\ active' # 0 => active # 0
                                       /\ active = 0 /\ stage = "none" => stage' = "none"
<1>0. calls # <<>> /\ UNCHANGED <<started, closed, settings>>
  BY DEF RuntimeInvariant, RuntimeTypeOK, Works, Activate, Created, HasStarted, Deactivate,
     Disposed,
     Start, Running
<1>a. Running("activate") => ~ NobodyActivates
  <2>1. RuntimeTypeOK
    BY DEF RuntimeInvariant
  <2>2. Running("activate") => Asked("activate")
    <3>1. calls \in Seq(CallRecord)
      BY <2>1 DEF RuntimeTypeOK, CallRecord
    <3>2. 1 \in DOMAIN calls /\ Head(calls) = calls[1]
      BY <1>0, <3>1, TailAt
    <3> QED
      BY <3>2 DEF Running, Asked
  <2> QED
    BY <2>1, <2>2, AskerWaits DEF NobodyActivates
<1>1. CASE Activate
  <2>1. Running("activate") /\ active' = active /\ (Ends \/ UNCHANGED calls)
    BY <1>1 DEF Activate
  <2>2. CallsOnlyEnd
    BY <1>0, <2>1, EndDoes, SameDoes DEF Running
  <2> QED
    BY <1>0, <1>a, <2>1, <2>2
<1>2. CASE Created
  <2>1. Running("activate") /\ (Ends \/ UNCHANGED calls)
    BY <1>2 DEF RuntimeInvariant, StageSaysWhat, Created
  <2>2. CallsOnlyEnd
    BY <1>0, <2>1, EndDoes, SameDoes DEF Running
  <2> QED
    BY <1>0, <1>a, <2>1, <2>2
<1>3. CASE HasStarted
  <2>1. Ends /\ active' = active /\ stage' = "none" /\ ~ Running("deactivate") /\ ~ Running("stop")
    BY <1>3 DEF RuntimeInvariant, StageSaysWhat, HasStarted, Ends, Running
  <2>2. CallsOnlyEnd
    BY <1>0, <2>1, EndDoes
  <2> QED
    BY <1>0, <2>1, <2>2
<1>4. CASE Deactivate
  <2>1. (Ends \/ UNCHANGED calls) /\ active' = 0 /\ (active = 0 => Ends)
    BY <1>4 DEF Deactivate
  <2>2. CallsOnlyEnd
    BY <1>0, <2>1, EndDoes, SameDoes
  <2> QED
    BY <1>0, <2>1, <2>2 DEF Ends
<1>5. CASE Disposed
  <2>1. Ends /\ active' = 0 /\ stage' = "none"
    BY <1>5 DEF RuntimeInvariant, StageSaysWhat, Disposed, Ends
  <2>2. CallsOnlyEnd
    BY <1>0, <2>1, EndDoes
  <2> QED
    BY <1>0, <2>1, <2>2
<1>6. CASE Start
  <2>1. (Ends \/ UNCHANGED calls) /\ active' = active /\ (active = 0 => Ends)
        /\ ~ Running("deactivate") /\ ~ Running("stop")
    BY <1>6 DEF Start, Running
  <2>2. CallsOnlyEnd
    BY <1>0, <2>1, EndDoes, SameDoes
  <2> QED
    BY <1>0, <2>1, <2>2 DEF Ends
<1> QED
  BY <1>1, <1>2, <1>3, <1>4, <1>5, <1>6 DEF Works

-----------------------------------------------------------------------------
(* Steps of the lease.                                                     *)

\* The lease, and the row of the service.
LeaseRecord == [kind : {"checking", "held", "yielding", "elsewhere", "unreachable", "stopped"},
                epoch : 0 .. MaxGrants, stopped : BOOLEAN, yield : BOOLEAN,
                step : {"none", "asking", "pulling", "activating", "stopping", "winding",
                        "passing", "releasing"}]
GrantRecord == [epoch : 0 .. MaxGrants, mine : BOOLEAN]

\* The supervisor's own variables.
OwnTypes ==
    /\ placement \in Placements
    /\ machine \in BOOLEAN
    /\ config \in {"none", "remote"}
    /\ token \in {"ok", "absent", "bad"}
    /\ prepared \in {"none", "noclient", "client"}
    /\ changes \in 0 .. MaxChanges
    /\ steps \in Seq({"reconcile", "apply", "watched", "stop"})
    /\ pc \in {"none", "letting go", "pushing", "off", "configuring", "deciding",
               "entering", "before the lease"}
    /\ desired \in Arrangements
    /\ next \in {"end", "configure", "enter"}
    /\ arrangement \in Arrangements
    /\ releasing \in BOOLEAN
    /\ stopped \in BOOLEAN
    /\ closing \in {"no", "agent", "runtime", "done"}

\* The lease's variables.
LeaseTypes ==
    /\ lease \in LeaseRecord
    /\ startedUnder \in 0 .. MaxGrants
    /\ grant \in GrantRecord
    /\ synced \in BOOLEAN

\* The type invariant, by whose variables they are.
LEMMA TypesApart ==
    /\ SupervisorTypeOK <=> RuntimeTypeOK /\ OwnTypes /\ LeaseTypes
    /\ SupervisorTypeOK' <=> RuntimeTypeOK' /\ OwnTypes' /\ LeaseTypes'
BY Zenon DEF SupervisorTypeOK, OwnTypes, LeaseTypes, LeaseRecord, GrantRecord

\* A step that leaves the supervisor's own variables alone, or changes how far
\* the shutdown is.
LEMMA OwnButClosing ==
    ASSUME OwnTypes,
           UNCHANGED <<placement, machine, config, token, changes, steps, pc, desired, next,
                       prepared, arrangement, releasing, stopped>>,
           closing' \in {"no", "agent", "runtime", "done"}
    PROVE  OwnTypes'
<1>1. /\ (placement \in Placements)' /\ (machine \in BOOLEAN)' /\ (config \in {"none", "remote"})'
      /\ (token \in {"ok", "absent", "bad"})' /\ (prepared \in {"none", "noclient", "client"})'
      /\ (changes \in 0 .. MaxChanges)'
  BY DEF OwnTypes
<1>2. (steps \in Seq({"reconcile", "apply", "watched", "stop"}))'
  BY DEF OwnTypes
<1>3. /\ (pc \in {"none", "letting go", "pushing", "off", "configuring", "deciding",
                  "entering", "before the lease"})'
      /\ (desired \in Arrangements)' /\ (next \in {"end", "configure", "enter"})'
      /\ (arrangement \in Arrangements)' /\ (releasing \in BOOLEAN)' /\ (stopped \in BOOLEAN)'
  BY DEF OwnTypes
<1> QED
  BY <1>1, <1>2, <1>3 DEF OwnTypes

LEMMA OwnFrame ==
    ASSUME OwnTypes,
           UNCHANGED <<placement, machine, config, token, changes, steps, pc, desired, next,
                       prepared, arrangement, releasing, stopped, closing>>
    PROVE  OwnTypes'
<1>1. closing' \in {"no", "agent", "runtime", "done"}
  BY DEF OwnTypes
<1> QED
  BY <1>1, OwnButClosing

\* A call of activate() or deactivate(): who has asked for what then.
LEMMA SwapDoes ==
    ASSUME RuntimeInvariant, NEW c \in Caller, NEW o, CallSwap(c, o)
    PROVE  /\ RuntimeInvariant'
           /\ o \in {"activate", "deactivate"} /\ ~ Waits(c)
           /\ \A d, p : AskedBy(d, p)' <=> AskedBy(d, p) \/ (d = c /\ p = o)
           /\ \A d : Waits(d)' <=> Waits(d) \/ d = c
           /\ UNCHANGED <<stage, stacks, active, started, closed, settings>>
           /\ Leaving' <=> Leaving \/ o = "deactivate"
<1>1. /\ RuntimeTypeOK /\ OneCallEach /\ o \in Ops /\ Call(c, o) /\ o \in {"activate", "deactivate"}
      /\ ~ Waits(c) /\ UNCHANGED <<stage, stacks, active, started, closed, settings>>
  BY DEF RuntimeInvariant, CallSwap, Call, Ops
<1>2. RuntimeInvariant'
  BY CallSwapKeeps
<1>3. /\ \A p : Asked(p)' <=> Asked(p) \/ p = o
      /\ \A d, p : AskedBy(d, p)' <=> AskedBy(d, p) \/ (d = c /\ p = o)
      /\ \A d : Waits(d)' <=> Waits(d) \/ d = c
  BY <1>1, CallAdds
<1>4. Leaving' <=> Asked("deactivate")' \/ Asked("stop")'
  BY DEF Leaving, Asked
<1>5. Leaving' <=> Leaving \/ o = "deactivate"
  BY <1>1, <1>3, <1>4, LeavingAsked
<1> QED
  BY <1>1, <1>2, <1>3, <1>5

\* A step that leaves the runtime alone.
LEMMA SameRuntime ==
    ASSUME UNCHANGED runtime
    PROVE  /\ RuntimeInvariant' <=> RuntimeInvariant
           /\ RuntimeTypeOK' <=> RuntimeTypeOK
           /\ \A d, p : AskedBy(d, p)' <=> AskedBy(d, p)
           /\ \A d : Waits(d)' <=> Waits(d)
           /\ UNCHANGED <<stage, stacks, active, started, closed, settings>>
           /\ Leaving' <=> Leaving
BY DEF runtime, RuntimeInvariant, RuntimeTypeOK, OneCallEach, StageSaysWhat, OnlyTheLast,
   StoppedForGood,
   StartedForGood, Newest, Alive, Asked, AskedBy, Waits, Running, Leaving

\* The part of the state a step of the lease leaves alone.
LEMMA LeaseFrame ==
    ASSUME SupervisorInvariant, LeaseOnly, UNCHANGED runtime \/ \E o : CallSwap("lease", o),
           LeaseTypes', LeaseAt', GrantAt', CallsAt', RunsEntitled', WoundUp'
    PROVE  SupervisorInvariant'
<1>1. RuntimeInvariant /\ "lease" \in Caller /\ "daemon" # "lease"
  BY AgentSupervisorAssumption DEF SupervisorInvariant
<1>2. RuntimeInvariant' /\ closed' = closed /\ (Waits("daemon")' <=> Waits("daemon"))
  BY <1>1, SwapDoes, SameRuntime
<1>3. UNCHANGED <<placement, machine, config, token, changes, steps, pc, desired, next, prepared,
                  arrangement, releasing, stopped, closing>>
  BY DEF LeaseOnly, choices, running
<1>4. SupervisorTypeOK'
  <2>1. RuntimeTypeOK'
    BY <1>2 DEF RuntimeInvariant
  <2>2. OwnTypes
    BY TypesApart DEF SupervisorInvariant
  <2>3. OwnTypes'
    BY <1>3, <2>2, OwnFrame
  <2> QED
    BY <2>1, <2>3, TypesApart
<1>5. SupervisorAt'
  BY <1>3 DEF SupervisorInvariant, SupervisorAt
<1>6. ClosingAt'
  BY <1>2, <1>3 DEF SupervisorInvariant, ClosingAt
<1> QED
  BY <1>2, <1>4, <1>5, <1>6 DEF SupervisorInvariant

\* What the invariant says of the lease, and of whom it may have called.
LEMMA LeaseFacts ==
    ASSUME SupervisorInvariant
    PROVE  /\ LeaseTypes /\ LeaseAt /\ GrantAt /\ CallsAt /\ RunsEntitled /\ WoundUp
           /\ RuntimeInvariant /\ RuntimeTypeOK
           /\ lease.step # "none" \/ lease.kind # "stopped" =>
                 /\ arrangement = "lease" \/ releasing
                 /\ arrangement # "standalone"
<1>1. lease.step # "none" \/ lease.kind # "stopped" => arrangement = "lease" \/ releasing
  BY DEF SupervisorInvariant, LeaseAt
<1>2. releasing => arrangement = "idle"
  BY DEF SupervisorInvariant, SupervisorAt, Leaves
<1>3. RuntimeTypeOK /\ LeaseTypes
  BY TypesApart DEF SupervisorInvariant
<1> QED
  BY <1>1, <1>2, <1>3 DEF SupervisorInvariant

\* A step of the lease that calls nothing.
LEMMA QuietLease ==
    ASSUME SupervisorInvariant, LeaseOnly, UNCHANGED runtime,
           Waits("lease") => lease'.step = lease.step,
           LeaseTypes', LeaseAt', GrantAt', Entitled => Entitled', WoundUp'
    PROVE  SupervisorInvariant'
<1>1. CallsAt /\ RunsEntitled /\ UNCHANGED <<pc, arrangement, active>>
  BY LeaseFacts DEF LeaseOnly, running, runtime
<1>a. /\ AskedBy("supervisor", "activate")' <=> AskedBy("supervisor", "activate")
      /\ AskedBy("lease", "activate")' <=> AskedBy("lease", "activate")
      /\ AskedBy("lease", "start")' <=> AskedBy("lease", "start")
      /\ AskedBy("lease", "stop")' <=> AskedBy("lease", "stop")
      /\ AskedBy("daemon", "activate")' <=> AskedBy("daemon", "activate")
      /\ Waits("supervisor")' <=> Waits("supervisor")
      /\ Waits("lease")' <=> Waits("lease")
  BY SameRuntime
<1>b. AskedBy("lease", "activate") => Waits("lease")
  BY AskerWaits
<1>2. CallsAt'
  BY <1>1, <1>a, <1>b DEF CallsAt
<1>3. RunsEntitled'
  BY <1>1, SameRuntime DEF RunsEntitled
<1> QED
  BY <1>2, <1>3, LeaseFrame

\* A step of the lease that calls the runtime and waits for it.
LEMMA SwapLease ==
    ASSUME SupervisorInvariant, LeaseOnly, NEW o, CallSwap("lease", o),
           o = "activate" => lease'.step = "activating" /\ Entitled',
           o = "deactivate" => lease'.step \in {"stopping", "winding"},
           LeaseTypes', LeaseAt', GrantAt'
    PROVE  SupervisorInvariant'
<1>1. CallsAt /\ RuntimeInvariant /\ "lease" \in Caller /\ UNCHANGED <<pc, arrangement>>
  BY LeaseFacts, AgentSupervisorAssumption DEF LeaseOnly, running
<1>2. /\ o \in {"activate", "deactivate"} /\ ~ Waits("lease")
      /\ \A d, p : AskedBy(d, p)' <=> AskedBy(d, p) \/ (d = "lease" /\ p = o)
      /\ \A d : Waits(d)' <=> Waits(d) \/ d = "lease"
      /\ Leaving' <=> Leaving \/ o = "deactivate"
  BY <1>1, SwapDoes
<1>a. /\ AskedBy("supervisor", "activate")' <=> AskedBy("supervisor", "activate")
      /\ AskedBy("lease", "activate")' <=> AskedBy("lease", "activate") \/ o = "activate"
      /\ AskedBy("lease", "start")' <=> AskedBy("lease", "start")
      /\ AskedBy("lease", "stop")' <=> AskedBy("lease", "stop")
      /\ AskedBy("daemon", "activate")' <=> AskedBy("daemon", "activate")
      /\ Waits("supervisor")' <=> Waits("supervisor")
      /\ Waits("lease")'
  BY <1>2
<1>b. ~ AskedBy("lease", "activate")
  BY <1>2, AskerWaits
<1>3. CallsAt'
  BY <1>1, <1>2, <1>a, <1>b DEF CallsAt
<1>4. RunsEntitled'
  BY <1>2 DEF RunsEntitled
<1>5. WoundUp'
  BY <1>2 DEF WoundUp
<1> QED
  BY <1>3, <1>4, <1>5, LeaseFrame

\* The lease asks the service.
LEMMA AskKeeps ==
    ASSUME SupervisorInvariant, Ask
    PROVE  SupervisorInvariant'
<1>1. /\ LeaseOnly /\ UNCHANGED <<runtime, startedUnder, grant, synced>>
      /\ UNCHANGED <<arrangement, releasing>>
      /\ lease.step = "none" /\ ~ lease.stopped /\ lease' = [lease EXCEPT !.step = "asking"]
  BY DEF Ask, LeaseOnly
<1>2. LeaseTypes'
  BY <1>1, LeaseFacts DEF LeaseTypes, LeaseRecord
<1>3. /\ lease'.kind = lease.kind /\ lease'.epoch = lease.epoch /\ lease'.stopped = lease.stopped
      /\ lease'.step = "asking"
  BY <1>1, LeaseFacts DEF LeaseTypes, LeaseRecord
<1>4. LeaseAt' /\ GrantAt'
  BY <1>1, <1>3, LeaseFacts DEF LeaseAt, GrantAt
<1>5. Waits("lease") => lease'.step = lease.step
  BY <1>1, LeaseFacts DEF CallsAt
<1>6. (Entitled => Entitled') /\ WoundUp'
  BY <1>1, <1>3 DEF Entitled, WoundUp
<1> QED
  BY <1>1, <1>2, <1>4, <1>5, <1>6, QuietLease

\* A renewal that failed before the deadline.
LEMMA NotRenewedKeeps ==
    ASSUME SupervisorInvariant, NotRenewed
    PROVE  SupervisorInvariant'
<1>1. /\ LeaseOnly /\ UNCHANGED <<runtime, startedUnder, grant, synced>>
      /\ UNCHANGED <<arrangement, releasing>>
      /\ lease.step = "asking" /\ lease.kind = "held" /\ lease' = [lease EXCEPT !.step = "none"]
  BY DEF NotRenewed, LeaseOnly
<1>2. LeaseTypes'
  BY <1>1, LeaseFacts DEF LeaseTypes, LeaseRecord
<1>3. /\ lease'.kind = lease.kind /\ lease'.epoch = lease.epoch /\ lease'.stopped = lease.stopped
      /\ lease'.step = "none"
  BY <1>1, LeaseFacts DEF LeaseTypes, LeaseRecord
<1>4. LeaseAt' /\ GrantAt'
  BY <1>1, <1>3, LeaseFacts DEF LeaseAt, GrantAt
<1>5. Waits("lease") => lease'.step = lease.step
  BY <1>1, LeaseFacts DEF CallsAt
<1>6. (Entitled => Entitled') /\ WoundUp'
  BY <1>1, <1>3 DEF Entitled, WoundUp
<1> QED
  BY <1>1, <1>2, <1>4, <1>5, <1>6, QuietLease

\* A grant: the first one, a renewal, or one that is to be given up again.
LEMMA GrantedKeeps ==
    ASSUME SupervisorInvariant, NEW yield \in BOOLEAN, LeaseGranted(yield)
    PROVE  SupervisorInvariant'
<1> DEFINE l == [lease EXCEPT !.kind = "held", !.epoch = grant'.epoch, !.yield = yield]
<1>1. /\ LeaseOnly /\ UNCHANGED <<startedUnder, synced, arrangement, releasing>>
      /\ lease.step = "asking" /\ (grant.mine \/ grant.epoch < MaxGrants)
      /\ grant' = [epoch |-> IF grant.mine THEN grant.epoch ELSE grant.epoch + 1, mine |-> TRUE]
  BY DEF LeaseGranted, LeaseOnly
<1>2. ~ Waits("lease") /\ lease.kind # "stopped" /\ lease.kind # "yielding"
  BY <1>1, LeaseFacts DEF CallsAt, LeaseAt, LeaseTypes, LeaseRecord
<1>3. /\ grant' \in GrantRecord /\ grant'.epoch # 0 /\ grant'.mine
      /\ grant' = [epoch |-> grant'.epoch, mine |-> TRUE]
      /\ lease.kind = "held" => grant'.epoch = lease.epoch
  BY <1>1, LeaseFacts, AgentSupervisorAssumption DEF LeaseTypes, GrantRecord, GrantAt
<1>4. /\ l \in LeaseRecord /\ l.kind = "held" /\ l.epoch = grant'.epoch /\ l.stopped = lease.stopped
      /\ l.yield = yield
  BY <1>3, LeaseFacts DEF LeaseTypes, LeaseRecord, GrantRecord
<1>5. CASE lease.stopped \/ (lease.kind = "held" /\ ~ yield)
  <2>1. lease' = [l EXCEPT !.step = "none"] /\ UNCHANGED runtime
    BY <1>5 DEF LeaseGranted
  <2> HIDE DEF l
  <2>2. /\ lease' \in LeaseRecord /\ lease'.kind = "held" /\ lease'.epoch = grant'.epoch
        /\ lease'.stopped = lease.stopped /\ lease'.step = "none"
    BY <1>4, <2>1 DEF LeaseRecord
  <2>3. LeaseTypes' /\ LeaseAt' /\ GrantAt'
    BY <1>1, <1>3, <2>2, LeaseFacts DEF LeaseTypes, LeaseAt, GrantAt
  <2>4. (Entitled => Entitled') /\ WoundUp'
    BY <1>1, <1>3, <2>2 DEF Entitled, WoundUp
  <2> QED
    BY <1>1, <1>2, <2>1, <2>3, <2>4, QuietLease
<1>6. CASE ~ lease.stopped /\ lease.kind = "held" /\ yield
  <2> DEFINE m == [l EXCEPT !.kind = "yielding"]
  <2>1. lease' = [m EXCEPT !.step = "winding"] /\ CallSwap("lease", "deactivate")
    BY <1>6 DEF LeaseGranted, WindDown
  <2> HIDE DEF l
  <2>2. /\ lease' \in LeaseRecord /\ lease'.kind = "yielding" /\ lease'.epoch = grant'.epoch
        /\ lease'.stopped = lease.stopped /\ lease'.step = "winding"
    BY <1>4, <2>1 DEF LeaseRecord
  <2>3. LeaseTypes' /\ LeaseAt' /\ GrantAt'
    BY <1>1, <1>3, <2>2, LeaseFacts DEF LeaseTypes, LeaseAt, GrantAt
  <2> QED
    BY <1>1, <2>1, <2>2, <2>3, SwapLease
<1>7. CASE ~ lease.stopped /\ lease.kind # "held"
  <2>1. lease' = [l EXCEPT !.step = "pulling"] /\ UNCHANGED runtime
    BY <1>7 DEF LeaseGranted
  <2> HIDE DEF l
  <2>2. /\ lease' \in LeaseRecord /\ lease'.kind = "held" /\ lease'.epoch = grant'.epoch
        /\ lease'.stopped = lease.stopped /\ lease'.step = "pulling"
    BY <1>4, <2>1 DEF LeaseRecord
  <2>3. LeaseTypes' /\ LeaseAt' /\ GrantAt'
    BY <1>1, <1>3, <2>2, LeaseFacts DEF LeaseTypes, LeaseAt, GrantAt
  <2>4. (Entitled => Entitled') /\ WoundUp'
    BY <1>1, <1>7, <2>2 DEF Entitled, WoundUp
  <2> QED
    BY <1>1, <1>2, <2>1, <2>3, <2>4, QuietLease
<1> QED
  BY <1>5, <1>6, <1>7

\* onAcquired notes the grant and starts the agent.
LEMMA PulledKeeps ==
    ASSUME SupervisorInvariant, Pulled
    PROVE  SupervisorInvariant'
<1>1. /\ LeaseOnly /\ UNCHANGED <<grant, synced, arrangement, releasing>>
      /\ lease.step = "pulling" /\ startedUnder' = lease.epoch
      /\ CallSwap("lease", "activate") /\ lease' = [lease EXCEPT !.step = "activating"]
  BY DEF Pulled, LeaseOnly
<1>2. /\ lease'.kind = lease.kind /\ lease'.epoch = lease.epoch /\ lease'.stopped = lease.stopped
      /\ lease'.step = "activating" /\ lease' \in LeaseRecord
  BY <1>1, LeaseFacts DEF LeaseTypes, LeaseRecord
<1>3. LeaseTypes'
  BY <1>1, <1>2, LeaseFacts DEF LeaseTypes, LeaseRecord
<1>4. lease.kind = "held" /\ (arrangement = "lease" \/ releasing)
  BY <1>1, LeaseFacts DEF LeaseAt, LeaseTypes, LeaseRecord
<1>5. LeaseAt' /\ GrantAt'
  BY <1>1, <1>2, <1>4, LeaseFacts DEF LeaseAt, GrantAt
<1>6. Entitled'
  BY <1>1, <1>2, <1>4 DEF Entitled
<1> QED
  BY <1>1, <1>2, <1>3, <1>5, <1>6, SwapLease

\* The agent has started.
LEMMA ActivatedKeeps ==
    ASSUME SupervisorInvariant, Activated
    PROVE  SupervisorInvariant'
<1>1. /\ LeaseOnly /\ UNCHANGED <<startedUnder, grant, synced, arrangement, releasing>>
      /\ lease.step = "activating" /\ ~ Waits("lease")
  BY DEF Activated, LeaseOnly
<1>2. lease.kind = "held" /\ lease.epoch # 0
  BY <1>1, LeaseFacts DEF LeaseAt, LeaseTypes, LeaseRecord, GrantAt
<1>3. CASE lease.yield /\ ~ lease.stopped
  <2>1. lease' = [[lease EXCEPT !.kind = "yielding"] EXCEPT !.step = "winding"]
        /\ CallSwap("lease", "deactivate")
    BY <1>3 DEF Activated, WindDown
  <2>2. /\ lease' \in LeaseRecord /\ lease'.kind = "yielding" /\ lease'.epoch = lease.epoch
        /\ lease'.stopped = lease.stopped /\ lease'.step = "winding"
    BY <2>1, LeaseFacts DEF LeaseTypes, LeaseRecord
  <2>3. LeaseTypes' /\ LeaseAt' /\ GrantAt'
    BY <1>1, <1>2, <2>2, LeaseFacts DEF LeaseTypes, LeaseAt, GrantAt
  <2> QED
    BY <1>1, <2>1, <2>2, <2>3, SwapLease
<1>4. CASE ~ (lease.yield /\ ~ lease.stopped)
  <2>1. lease' = [lease EXCEPT !.step = "none"] /\ UNCHANGED runtime
    BY <1>4 DEF Activated
  <2>2. /\ lease' \in LeaseRecord /\ lease'.kind = "held" /\ lease'.epoch = lease.epoch
        /\ lease'.stopped = lease.stopped /\ lease'.step = "none"
    BY <1>2, <2>1, LeaseFacts DEF LeaseTypes, LeaseRecord
  <2>3. LeaseTypes' /\ LeaseAt' /\ GrantAt'
    BY <1>1, <1>2, <2>2, LeaseFacts DEF LeaseTypes, LeaseAt, GrantAt
  <2>4. (Entitled => Entitled') /\ WoundUp'
    BY <1>1, <2>2 DEF Entitled, WoundUp
  <2> QED
    BY <1>1, <2>1, <2>3, <2>4, QuietLease
<1> QED
  BY <1>3, <1>4

\* The lease is elsewhere, or the service out of reach.
LEMMA UnavailableKeeps ==
    ASSUME SupervisorInvariant, NEW k \in {"elsewhere", "unreachable"}, Unavailable(k)
    PROVE  SupervisorInvariant'
<1>0. lease \in LeaseRecord /\ 0 \in 0 .. MaxGrants
  BY LeaseFacts, AgentSupervisorAssumption DEF LeaseTypes
<1>1. /\ LeaseOnly /\ UNCHANGED <<startedUnder, grant, synced, arrangement, releasing>>
      /\ lease.step \in {"asking", "none"} /\ (lease.step = "none" => lease.kind = "held")
  BY DEF Unavailable, LeaseOnly
<1>2. ~ Waits("lease") /\ (arrangement = "lease" \/ releasing)
  BY <1>1, LeaseFacts DEF CallsAt
<1>3. CASE /\ CallSwap("lease", "deactivate")
           /\ lease' = [lease EXCEPT !.kind = k, !.epoch = 0, !.step = "stopping"]
  <2>1. /\ lease' \in LeaseRecord /\ lease'.kind = k /\ lease'.epoch = 0
        /\ lease'.stopped = lease.stopped /\ lease'.step = "stopping"
    BY <1>0, <1>3 DEF LeaseRecord
  <2>2. LeaseTypes' /\ LeaseAt' /\ GrantAt'
    BY <1>1, <1>2, <2>1, LeaseFacts DEF LeaseTypes, LeaseAt, GrantAt
  <2> QED
    BY <1>1, <1>3, <2>1, <2>2, SwapLease
<1>4. CASE /\ lease.kind # "held"
           /\ lease' = [lease EXCEPT !.kind = k, !.epoch = 0, !.step = "none"]
           /\ UNCHANGED runtime
  <2>1. /\ lease' \in LeaseRecord /\ lease'.kind = k /\ lease'.epoch = 0
        /\ lease'.stopped = lease.stopped /\ lease'.step = "none"
    BY <1>0, <1>4 DEF LeaseRecord
  <2>2. LeaseTypes' /\ LeaseAt' /\ GrantAt'
    BY <1>1, <1>2, <2>1, LeaseFacts DEF LeaseTypes, LeaseAt, GrantAt
  <2>3. (Entitled => Entitled') /\ WoundUp'
    BY <1>1, <1>4, <2>1 DEF Entitled, WoundUp
  <2> QED
    BY <1>1, <1>2, <1>4, <2>2, <2>3, QuietLease
<1> QED
  BY <1>3, <1>4 DEF Unavailable

\* The agent that lost its lease has stopped.
LEMMA AgentStoppedKeeps ==
    ASSUME SupervisorInvariant, AgentStopped
    PROVE  SupervisorInvariant'
<1>1. /\ LeaseOnly /\ UNCHANGED <<runtime, startedUnder, grant, synced, arrangement, releasing>>
      /\ lease.step = "stopping" /\ ~ Waits("lease") /\ lease' = [lease EXCEPT !.step = "none"]
  BY DEF AgentStopped, LeaseOnly
<1>2. /\ lease' \in LeaseRecord /\ lease'.kind = lease.kind /\ lease'.epoch = lease.epoch
      /\ lease'.stopped = lease.stopped /\ lease'.step = "none"
  BY <1>1, LeaseFacts DEF LeaseTypes, LeaseRecord
<1>3. lease.kind \in {"elsewhere", "unreachable"}
  BY <1>1, LeaseFacts DEF LeaseAt, LeaseTypes, LeaseRecord
<1>4. LeaseTypes' /\ LeaseAt' /\ GrantAt'
  BY <1>1, <1>2, <1>3, LeaseFacts DEF LeaseTypes, LeaseAt, GrantAt
<1>5. (Entitled => Entitled') /\ WoundUp'
  BY <1>1, <1>2, <1>3 DEF Entitled, WoundUp
<1> QED
  BY <1>1, <1>4, <1>5, QuietLease

\* The agent has stopped before the release.
LEMMA WoundDownKeeps ==
    ASSUME SupervisorInvariant, WoundDown
    PROVE  SupervisorInvariant'
<1>1. /\ LeaseOnly /\ UNCHANGED <<runtime, startedUnder, grant, synced, arrangement, releasing>>
      /\ lease.step = "winding" /\ ~ Waits("lease") /\ lease' = [lease EXCEPT !.step = "passing"]
  BY DEF WoundDown, LeaseOnly
<1>2. /\ lease' \in LeaseRecord /\ lease'.kind = lease.kind /\ lease'.epoch = lease.epoch
      /\ lease'.stopped = lease.stopped /\ lease'.step = "passing"
  BY <1>1, LeaseFacts DEF LeaseTypes, LeaseRecord
<1>3. lease.kind \in {"yielding", "stopped"}
  BY <1>1, LeaseFacts DEF LeaseAt, LeaseTypes, LeaseRecord
<1>4. LeaseTypes' /\ LeaseAt' /\ GrantAt'
  BY <1>1, <1>2, <1>3, LeaseFacts DEF LeaseTypes, LeaseAt, GrantAt
<1>5. WoundUp'
  BY <1>1, <1>2, LeaseFacts, SameRuntime DEF WoundUp
<1>6. Entitled => Entitled'
  BY <1>1, <1>2, <1>3 DEF Entitled
<1> QED
  BY <1>1, <1>4, <1>5, <1>6, QuietLease

\* What the agent wrote is pushed.
LEMMA PassedKeeps ==
    ASSUME SupervisorInvariant, Passed
    PROVE  SupervisorInvariant'
<1>1. /\ LeaseOnly /\ UNCHANGED <<runtime, startedUnder, grant, arrangement, releasing>>
      /\ lease.step = "passing" /\ lease' = [lease EXCEPT !.step = "releasing"] /\ synced' = TRUE
  BY DEF Passed, LeaseOnly
<1>2. /\ lease' \in LeaseRecord /\ lease'.kind = lease.kind /\ lease'.epoch = lease.epoch
      /\ lease'.stopped = lease.stopped /\ lease'.step = "releasing"
  BY <1>1, LeaseFacts DEF LeaseTypes, LeaseRecord
<1>3. lease.kind \in {"yielding", "stopped"} /\ ~ Waits("lease")
  BY <1>1, LeaseFacts DEF LeaseAt, LeaseTypes, LeaseRecord, CallsAt
<1>4. LeaseTypes' /\ LeaseAt' /\ GrantAt'
  BY <1>1, <1>2, <1>3, LeaseFacts DEF LeaseTypes, LeaseAt, GrantAt
<1>5. WoundUp'
  BY <1>1, <1>2, <1>3, LeaseFacts, SameRuntime DEF WoundUp
<1>6. Entitled => Entitled'
  BY <1>1, <1>2, <1>3 DEF Entitled
<1> QED
  BY <1>1, <1>3, <1>4, <1>5, <1>6, QuietLease

\* The release returns.
LEMMA ReleasedKeeps ==
    ASSUME SupervisorInvariant, Released
    PROVE  SupervisorInvariant'
<1> DEFINE k == IF lease.stopped THEN lease.kind ELSE "checking"
<1>1. /\ LeaseOnly /\ UNCHANGED <<runtime, startedUnder, synced, arrangement, releasing>>
      /\ lease.step = "releasing"
      /\ lease' = [lease EXCEPT !.epoch = 0, !.step = "none", !.kind = k]
      /\ grant' \in {grant, [grant EXCEPT !.mine = FALSE]}
  BY DEF Released, LeaseOnly
<1>a. lease \in LeaseRecord /\ 0 \in 0 .. MaxGrants
  BY LeaseFacts, AgentSupervisorAssumption DEF LeaseTypes
<1>b. k \in {"checking", "held", "yielding", "elsewhere", "unreachable", "stopped"}
  BY <1>a DEF LeaseRecord
<1> HIDE DEF k
<1>2. /\ lease' \in LeaseRecord /\ lease'.kind = k /\ lease'.epoch = 0
      /\ lease'.stopped = lease.stopped /\ lease'.step = "none"
  BY <1>1, <1>a, <1>b DEF LeaseRecord
<1> USE DEF k
<1>3. lease.kind \in {"yielding", "stopped"} /\ ~ Waits("lease") /\ (arrangement = "lease" \/ releasing)
  BY <1>1, LeaseFacts DEF LeaseAt, LeaseTypes, LeaseRecord, CallsAt
<1>4. grant' \in GrantRecord /\ (grant'.mine => grant' = grant)
  BY <1>1, LeaseFacts DEF LeaseTypes, GrantRecord
<1>5. LeaseTypes' /\ LeaseAt' /\ GrantAt'
  BY <1>1, <1>2, <1>3, <1>4, LeaseFacts DEF LeaseTypes, LeaseAt, GrantAt
<1>6. (Entitled => Entitled') /\ WoundUp'
  BY <1>1, <1>2, <1>3 DEF Entitled, WoundUp
<1> QED
  BY <1>1, <1>3, <1>5, <1>6, QuietLease

\* The lease is stopped.
LEMMA StopLeaseKeeps ==
    ASSUME SupervisorInvariant, StopLease
    PROVE  SupervisorInvariant'
<1>1. /\ LeaseOnly /\ UNCHANGED <<startedUnder, grant, synced, arrangement, releasing>>
      /\ lease.step = "none" /\ lease.stopped /\ lease.kind # "stopped"
  BY DEF StopLease, LeaseOnly
<1>2. ~ Waits("lease") /\ (arrangement = "lease" \/ releasing)
  BY <1>1, LeaseFacts DEF CallsAt
<1>3. CASE lease.kind = "held" /\ WindDown([lease EXCEPT !.kind = "stopped"])
  <2>1. /\ CallSwap("lease", "deactivate")
        /\ lease' = [[lease EXCEPT !.kind = "stopped"] EXCEPT !.step = "winding"]
    BY <1>3 DEF WindDown
  <2>2. /\ lease' \in LeaseRecord /\ lease'.kind = "stopped" /\ lease'.epoch = lease.epoch
        /\ lease'.stopped = lease.stopped /\ lease'.step = "winding"
    BY <2>1, LeaseFacts DEF LeaseTypes, LeaseRecord
  <2>3. LeaseTypes' /\ LeaseAt' /\ GrantAt'
    BY <1>1, <1>2, <2>2, LeaseFacts DEF LeaseTypes, LeaseAt, GrantAt
  <2> QED
    BY <1>1, <2>1, <2>2, <2>3, SwapLease
<1>4. CASE /\ lease.kind = "elsewhere"
           /\ lease' = [lease EXCEPT !.kind = "stopped", !.step = "releasing"]
           /\ UNCHANGED runtime
  <2>1. /\ lease' \in LeaseRecord /\ lease'.kind = "stopped" /\ lease'.epoch = lease.epoch
        /\ lease'.stopped = lease.stopped /\ lease'.step = "releasing" /\ lease.epoch = 0
    BY <1>4, LeaseFacts DEF LeaseTypes, LeaseRecord, GrantAt
  <2>2. LeaseTypes' /\ LeaseAt' /\ GrantAt'
    BY <1>1, <1>2, <2>1, LeaseFacts DEF LeaseTypes, LeaseAt, GrantAt
  <2>3. (Entitled => Entitled') /\ WoundUp'
    BY <1>1, <1>4, <2>1 DEF Entitled, WoundUp
  <2> QED
    BY <1>1, <1>2, <1>4, <2>2, <2>3, QuietLease
<1>5. CASE /\ lease.kind # "held"
           /\ lease' = [lease EXCEPT !.kind = "stopped"]
           /\ UNCHANGED runtime
  <2>1. /\ lease' \in LeaseRecord /\ lease'.kind = "stopped" /\ lease'.epoch = lease.epoch
        /\ lease'.stopped = lease.stopped /\ lease'.step = "none"
    BY <1>1, <1>5, LeaseFacts DEF LeaseTypes, LeaseRecord
  <2>2. lease.epoch = 0
    BY <1>1, <1>5, LeaseFacts DEF LeaseAt, GrantAt, LeaseTypes, LeaseRecord
  <2>3. LeaseTypes' /\ LeaseAt' /\ GrantAt'
    BY <1>1, <1>2, <2>1, <2>2, LeaseFacts DEF LeaseTypes, LeaseAt, GrantAt
  <2>4. (Entitled => Entitled') /\ WoundUp'
    BY <1>1, <1>5, <2>1 DEF Entitled, WoundUp
  <2> QED
    BY <1>1, <1>2, <1>5, <2>3, <2>4, QuietLease
<1> QED
  BY <1>3, <1>4, <1>5 DEF StopLease

\* The service's grant runs out.
LEMMA LapsesKeeps ==
    ASSUME SupervisorInvariant, Lapses
    PROVE  SupervisorInvariant'
<1>1. /\ LeaseOnly /\ UNCHANGED <<runtime, startedUnder, lease, synced, arrangement, releasing>>
      /\ lease.epoch = 0
  BY DEF Lapses, LeaseOnly
<1>a. grant \in GrantRecord /\ MaxGrants \in Nat
  BY LeaseFacts, AgentSupervisorAssumption DEF LeaseTypes
<1>b. ASSUME grant' = [grant EXCEPT !.mine = FALSE]
      PROVE  grant' \in GrantRecord /\ ~ grant'.mine
  BY <1>a, <1>b DEF GrantRecord
<1>c. ASSUME ~ grant.mine, grant.epoch < MaxGrants, grant' = [grant EXCEPT !.epoch = @ + 1]
      PROVE  grant' \in GrantRecord /\ ~ grant'.mine
  BY <1>a, <1>c DEF GrantRecord
<1>2. grant' \in GrantRecord /\ ~ grant'.mine
  BY <1>b, <1>c DEF Lapses
<1>3. LeaseTypes' /\ LeaseAt' /\ GrantAt'
  BY <1>1, <1>2, LeaseFacts DEF LeaseTypes, LeaseAt, GrantAt
<1>4. (Entitled => Entitled') /\ WoundUp'
  BY <1>1, SameRuntime DEF Entitled, WoundUp
<1> QED
  BY <1>1, <1>3, <1>4, QuietLease

\* Every step of the lease and of the service.
LEMMA LeaseStepsKeep ==
    ASSUME SupervisorInvariant, LeaseSteps \/ Lapses
    PROVE  SupervisorInvariant'
BY AskKeeps, NotRenewedKeeps, GrantedKeeps, PulledKeeps, ActivatedKeeps, UnavailableKeeps,
   AgentStoppedKeeps,
   WoundDownKeeps, PassedKeeps, ReleasedKeeps, StopLeaseKeeps, LapsesKeeps DEF LeaseSteps
-----------------------------------------------------------------------------
(* The queue of the supervisor's steps.                                    *)

\* The names of the supervisor's steps.
StepNames == {"reconcile", "apply", "watched", "stop"}

\* The invariant, from its parts ...
LEMMA PartsMake ==
    ASSUME RuntimeInvariant', OwnTypes', LeaseTypes', SupervisorAt', LeaseAt', GrantAt', CallsAt',
           RunsEntitled', WoundUp', ClosingAt'
    PROVE  SupervisorInvariant'
<1>1. RuntimeTypeOK'
  BY DEF RuntimeInvariant
<1>2. SupervisorTypeOK'
  BY <1>1, TypesApart
<1> QED
  BY <1>2 DEF SupervisorInvariant

\* ... and back.
LEMMA PartsAre ==
    ASSUME SupervisorInvariant
    PROVE  /\ RuntimeInvariant /\ RuntimeTypeOK /\ OwnTypes /\ LeaseTypes /\ SupervisorAt /\ LeaseAt
           /\ GrantAt /\ CallsAt /\ RunsEntitled /\ WoundUp /\ ClosingAt
           /\ steps \in Seq(StepNames)
<1>1. SupervisorTypeOK
  BY DEF SupervisorInvariant
<1>2. RuntimeTypeOK /\ OwnTypes /\ LeaseTypes
  BY <1>1, TypesApart
<1>3. steps \in Seq(StepNames)
  BY <1>2 DEF OwnTypes, StepNames
<1> QED
  BY <1>2, <1>3 DEF SupervisorInvariant

\* The step that runs is over.
LEMMA StepEnds ==
    ASSUME steps \in Seq(StepNames), steps # <<>>, steps' = Tail(steps), pc' = "none", ClosingAt,
           UNCHANGED <<stopped, closing, closed>>, Waits("daemon")' <=> Waits("daemon"),
           \/ arrangement' = "idle"
           \/ Head(steps) # "stop" /\ (pc # "none" \/ arrangement' = arrangement)
    PROVE  steps' \in Seq(StepNames) /\ ClosingAt'
<1>1. /\ steps' \in Seq(StepNames)
      /\ DOMAIN steps = 1 .. Len(steps) /\ Len(steps) \in Nat /\ Len(steps) > 0
      /\ DOMAIN steps' = 1 .. Len(steps) - 1
      /\ \A i \in 1 .. Len(steps) - 1 : steps'[i] = steps[i + 1]
      /\ Head(steps) = steps[1]
  BY TailAt
<1>2. /\ 1 \in DOMAIN steps
      /\ \A i \in DOMAIN steps' : i + 1 \in DOMAIN steps /\ steps'[i] = steps[i + 1] /\ 1 < i + 1
      /\ \A j \in DOMAIN steps : j = 1 \/ (j - 1 \in DOMAIN steps' /\ steps'[j - 1] = steps[j])
      /\ \A i, j \in DOMAIN steps' : i < j => i + 1 < j + 1
  BY <1>1
<1>3. (stopped <=> closing # "no")' /\ (closing = "done" => ~ Waits("daemon"))'
  BY DEF ClosingAt
<1>4. /\ (closing \in {"runtime", "done"} => closed /\ \A i \in DOMAIN steps : steps[i] # "stop")'
      /\ (~ stopped => \A i \in DOMAIN steps : steps[i] # "stop")'
  BY <1>2 DEF ClosingAt
<1>5. (\A i, j \in DOMAIN steps : steps[i] = "stop" /\ i < j => steps[j] = "watched")'
  BY <1>2 DEF ClosingAt
<1>6. ASSUME stopped', (\A i \in DOMAIN steps : steps[i] # "stop")'
      PROVE  /\ arrangement' = "idle"
             /\ (\A i \in DOMAIN steps : steps[i] = "watched")'
  <2>1. CASE steps[1] = "stop"
    <3>1. \A j \in DOMAIN steps : 1 < j => steps[j] = "watched"
      BY <1>2, <2>1 DEF ClosingAt
    <3> QED
      BY <1>1, <1>2, <2>1, <3>1
  <2>2. CASE steps[1] # "stop"
    <3>1. \A i \in DOMAIN steps : steps[i] # "stop"
      BY <1>2, <1>6, <2>2
    <3>2. arrangement = "idle" /\ pc = "none" /\ \A i \in DOMAIN steps : steps[i] = "watched"
      BY <1>6, <3>1 DEF ClosingAt
    <3> QED
      BY <1>2, <3>2
  <2> QED
    BY <2>1, <2>2
<1> QED
  BY <1>1, <1>3, <1>4, <1>5, <1>6 DEF ClosingAt

\* The step that runs goes on.
LEMMA StepGoesOn ==
    ASSUME steps \in Seq(StepNames), steps # <<>>, ClosingAt,
           UNCHANGED <<steps, stopped, closing, closed>>, Waits("daemon")' <=> Waits("daemon"),
           ~ stopped \/ pc # "none" \/ Head(steps) # "watched" \/ arrangement # "idle"
    PROVE  ClosingAt'
<1>1. 1 \in DOMAIN steps /\ Head(steps) = steps[1]
  BY TailAt
<1> QED
  BY <1>1 DEF ClosingAt

\* Another step is queued.
LEMMA StepAdded ==
    ASSUME steps \in Seq(StepNames), NEW s \in StepNames, steps' = Append(steps, s)
    PROVE  /\ steps' \in Seq(StepNames) /\ steps' # <<>>
           /\ steps # <<>> => Head(steps') = Head(steps)
           /\ \A i \in DOMAIN steps : i \in DOMAIN steps' /\ steps'[i] = steps[i]
           /\ \A i \in DOMAIN steps' : i \in DOMAIN steps \/ (i = Len(steps) + 1 /\ steps'[i] = s)
           /\ Len(steps) + 1 \in DOMAIN steps' /\ steps'[Len(steps) + 1] = s
           /\ \A i \in DOMAIN steps' : i <= Len(steps) + 1 /\ i \in Nat
           /\ \A i \in DOMAIN steps : i \in Nat /\ i # Len(steps) + 1
<1>1. /\ steps' \in Seq(StepNames) /\ steps' # <<>>
      /\ steps # <<>> => Head(steps') = Head(steps)
      /\ DOMAIN steps' = 1 .. Len(steps) + 1
      /\ \A i \in 1 .. Len(steps) : steps'[i] = steps[i]
      /\ steps'[Len(steps) + 1] = s
      /\ DOMAIN steps = 1 .. Len(steps) /\ Len(steps) \in Nat
  BY AppendAt
<1> QED
  BY <1>1

\* A step that is queued while nothing is being shut down, or that a watcher
\* of a relayed agent asks for.
LEMMA AddedCloses ==
    ASSUME steps \in Seq(StepNames), NEW s \in StepNames, steps' = Append(steps, s), ClosingAt,
           s # "stop", ~ stopped \/ (s = "watched" /\ arrangement # "idle"),
           UNCHANGED <<stopped, closing, closed, pc, arrangement>>,
           Waits("daemon")' <=> Waits("daemon")
    PROVE  ClosingAt'
<1>1. /\ \A i \in DOMAIN steps : i \in DOMAIN steps' /\ steps'[i] = steps[i]
      /\ \A i \in DOMAIN steps' : i \in DOMAIN steps \/ (i = Len(steps) + 1 /\ steps'[i] = s)
  BY StepAdded
<1>2. (stopped <=> closing # "no")' /\ (closing = "done" => ~ Waits("daemon"))'
  BY DEF ClosingAt
<1>3. /\ (closing \in {"runtime", "done"} => closed /\ \A i \in DOMAIN steps : steps[i] # "stop")'
      /\ (~ stopped => \A i \in DOMAIN steps : steps[i] # "stop")'
  BY <1>1 DEF ClosingAt
<1>4. (\A i, j \in DOMAIN steps : steps[i] = "stop" /\ i < j => steps[j] = "watched")'
  BY <1>1 DEF ClosingAt
<1>5. ~ (stopped /\ \A i \in DOMAIN steps : steps[i] # "stop")'
      \/ (arrangement = "idle" /\ pc = "none" /\ \A i \in DOMAIN steps : steps[i] = "watched")'
  BY <1>1 DEF ClosingAt
<1> QED
  BY <1>2, <1>3, <1>4, <1>5 DEF ClosingAt

-----------------------------------------------------------------------------
(* Steps of the supervisor.                                                *)

\* The runtime, the lease and the arrangement stay as they are.
LEMMA OnlyPlans ==
    ASSUME SupervisorInvariant,
           UNCHANGED <<runtime, lease, grant, synced, startedUnder, releasing, arrangement>>,
           OwnTypes', SupervisorAt', ClosingAt', Waits("supervisor") => pc' = pc
    PROVE  SupervisorInvariant'
<1>1. /\ RuntimeInvariant' /\ UNCHANGED <<stage, active>>
      /\ Leaving' <=> Leaving
      /\ Waits("supervisor")' <=> Waits("supervisor")
      /\ Waits("lease")' <=> Waits("lease")
      /\ AskedBy("supervisor", "activate")' <=> AskedBy("supervisor", "activate")
      /\ AskedBy("lease", "activate")' <=> AskedBy("lease", "activate")
      /\ AskedBy("lease", "start")' <=> AskedBy("lease", "start")
      /\ AskedBy("lease", "stop")' <=> AskedBy("lease", "stop")
      /\ AskedBy("daemon", "activate")' <=> AskedBy("daemon", "activate")
  BY PartsAre, SameRuntime
<1>2. LeaseTypes' /\ LeaseAt' /\ GrantAt'
  BY PartsAre DEF LeaseTypes, LeaseAt, GrantAt
<1>3. AskedBy("supervisor", "activate") => Waits("supervisor")
  BY AskerWaits
<1>4. CallsAt'
  BY <1>1, <1>3, PartsAre DEF CallsAt
<1>5. RunsEntitled'
  BY <1>1, PartsAre DEF RunsEntitled, Entitled
<1>6. WoundUp'
  BY <1>1, PartsAre DEF WoundUp
<1> QED
  BY <1>1, <1>2, <1>4, <1>5, <1>6, PartsMake

\* The supervisor calls the runtime, and there is no lease.
LEMMA SwapSupervisor ==
    ASSUME SupervisorInvariant, NEW o, CallSwap("supervisor", o),
           o = "activate" => arrangement' = "standalone" /\ pc' = "entering",
           pc' \in {"off", "entering", "before the lease"},
           UNCHANGED <<lease, grant, startedUnder>>, synced' = synced \/ synced' = TRUE,
           arrangement # "lease", arrangement' # "lease", ~ releasing',
           releasing => lease.kind = "stopped" /\ lease.step = "none",
           OwnTypes', SupervisorAt', ClosingAt'
    PROVE  SupervisorInvariant'
<1>1. "supervisor" \in Caller
  BY AgentSupervisorAssumption
<1>2. /\ RuntimeInvariant'
      /\ o \in {"activate", "deactivate"} /\ ~ Waits("supervisor")
      /\ \A d, p : AskedBy(d, p)' <=> AskedBy(d, p) \/ (d = "supervisor" /\ p = o)
      /\ \A d : Waits(d)' <=> Waits(d) \/ d = "supervisor"
      /\ UNCHANGED <<stage, stacks, active, started, closed, settings>>
      /\ Leaving' <=> Leaving \/ o = "deactivate"
  BY <1>1, PartsAre, SwapDoes
<1>3. /\ Waits("lease")' <=> Waits("lease")
      /\ AskedBy("supervisor", "activate")' => AskedBy("supervisor", "activate") \/ o = "activate"
      /\ AskedBy("lease", "activate")' <=> AskedBy("lease", "activate")
      /\ AskedBy("lease", "start")' <=> AskedBy("lease", "start")
      /\ AskedBy("lease", "stop")' <=> AskedBy("lease", "stop")
      /\ AskedBy("daemon", "activate")' <=> AskedBy("daemon", "activate")
  BY <1>2
<1>4. ~ AskedBy("supervisor", "activate")
  BY <1>2, AskerWaits
<1>5. lease.kind = "stopped" /\ lease.step = "none" /\ lease.epoch = 0
  BY PartsAre DEF LeaseAt, GrantAt
<1>6. LeaseTypes'
  BY PartsAre DEF LeaseTypes
<1>7. LeaseAt' /\ GrantAt'
  BY <1>5, PartsAre DEF LeaseAt, GrantAt
<1>8. CallsAt'
  BY <1>2, <1>3, <1>4, PartsAre DEF CallsAt
<1>9. RunsEntitled'
  BY <1>2 DEF RunsEntitled, Entitled
<1>10. WoundUp'
  BY <1>5 DEF WoundUp
<1> QED
  BY <1>2, <1>6, <1>7, <1>8, <1>9, <1>10, PartsMake

\* #leave.
LEMMA LeaveKeeps ==
    ASSUME SupervisorInvariant, pc \in {"none", "deciding"}, steps # <<>>, NEW then, Leave(then),
           then \in {"end", "configure", "enter"}, desired' \in Arrangements,
           then = "end" <=> Head(steps) = "stop",
           then = "configure" => Head(steps) = "apply",
           then = "enter" => desired' # "idle",
           ~ stopped \/ Head(steps) # "watched",
           UNCHANGED <<choices, steps, prepared, startedUnder, stopped, closing, grant, synced>>
    PROVE  SupervisorInvariant'
<1>1. /\ arrangement' = "idle" /\ next' = then
      /\ UNCHANGED <<placement, machine, config, token, changes, steps, prepared, startedUnder, stopped,
                     closing, grant, synced>>
  BY DEF Leave, choices
<1>2. ~ Waits("supervisor") /\ ~ releasing /\ "supervisor" \in Caller /\ "daemon" # "supervisor"
  BY PartsAre, AgentSupervisorAssumption DEF CallsAt, SupervisorAt
<1>a. pc' \in {"letting go", "pushing", "off"} /\ releasing' \in BOOLEAN /\ (releasing' <=> pc' = "letting go")
  <2>1. releasing \in BOOLEAN
    BY PartsAre DEF OwnTypes
  <2> QED
    BY <1>2, <2>1 DEF Leave
<1>3. OwnTypes'
  <2>1. (steps \in Seq({"reconcile", "apply", "watched", "stop"}))'
    BY <1>1, PartsAre DEF OwnTypes
  <2>2. /\ (placement \in Placements)' /\ (machine \in BOOLEAN)' /\ (config \in {"none", "remote"})'
        /\ (token \in {"ok", "absent", "bad"})' /\ (prepared \in {"none", "noclient", "client"})'
        /\ (changes \in 0 .. MaxChanges)' /\ (stopped \in BOOLEAN)'
        /\ (closing \in {"no", "agent", "runtime", "done"})'
    BY <1>1, PartsAre DEF OwnTypes
  <2>3. arrangement' \in Arrangements
    BY <1>1 DEF Arrangements
  <2> QED
    BY <1>1, <1>a, <2>1, <2>2, <2>3 DEF OwnTypes
<1>4. SupervisorAt'
  BY <1>1, <1>a DEF SupervisorAt, Leaves
<1>5. ASSUME closed' = closed, Waits("daemon")' <=> Waits("daemon") PROVE ClosingAt'
  <2>1. ~ stopped \/ pc # "none" \/ Head(steps) # "watched" \/ arrangement # "idle"
    OBVIOUS
  <2> QED
    BY <1>1, <1>5, <2>1, PartsAre, StepGoesOn
<1>6. CASE arrangement = "lease"
  <2>1. /\ pc' = "letting go" /\ releasing' = TRUE /\ lease' = [lease EXCEPT !.stopped = TRUE]
        /\ UNCHANGED runtime
    BY <1>6 DEF Leave
  <2>2. /\ lease' \in LeaseRecord /\ lease'.kind = lease.kind /\ lease'.epoch = lease.epoch
        /\ lease'.stopped = TRUE /\ lease'.step = lease.step
    BY <2>1, PartsAre DEF LeaseTypes, LeaseRecord
  <2>3. LeaseTypes' /\ LeaseAt' /\ GrantAt'
    BY <1>1, <1>6, <2>1, <2>2, PartsAre DEF LeaseTypes, LeaseAt, GrantAt
  <2>4. /\ RuntimeInvariant' /\ closed' = closed /\ active' = active /\ stage' = stage
        /\ Leaving' <=> Leaving
        /\ Waits("supervisor")' <=> Waits("supervisor")
        /\ Waits("lease")' <=> Waits("lease")
        /\ Waits("daemon")' <=> Waits("daemon")
        /\ AskedBy("supervisor", "activate")' <=> AskedBy("supervisor", "activate")
        /\ AskedBy("lease", "activate")' <=> AskedBy("lease", "activate")
        /\ AskedBy("lease", "start")' <=> AskedBy("lease", "start")
        /\ AskedBy("lease", "stop")' <=> AskedBy("lease", "stop")
        /\ AskedBy("daemon", "activate")' <=> AskedBy("daemon", "activate")
    BY <2>1, PartsAre, SameRuntime
  <2>5. ~ AskedBy("supervisor", "activate")
    BY <1>2, AskerWaits
  <2>6. CallsAt'
    BY <1>2, <2>2, <2>4, <2>5, PartsAre DEF CallsAt
  <2>7. RunsEntitled'
    BY <1>1, <1>6, <2>1, <2>2, <2>4, PartsAre DEF RunsEntitled, Entitled
  <2>8. WoundUp'
    BY <1>1, <2>2, <2>4, PartsAre DEF WoundUp
  <2> QED
    BY <1>3, <1>4, <1>5, <2>3, <2>4, <2>6, <2>7, <2>8, PartsMake
<1>7. CASE arrangement = "relayed"
  <2>1. UNCHANGED <<runtime, releasing, lease>>
    BY <1>7 DEF Leave
  <2>2. /\ RuntimeInvariant' /\ closed' = closed /\ active' = active /\ stage' = stage
        /\ Leaving' <=> Leaving
        /\ Waits("supervisor")' <=> Waits("supervisor")
        /\ Waits("lease")' <=> Waits("lease")
        /\ Waits("daemon")' <=> Waits("daemon")
        /\ AskedBy("supervisor", "activate")' <=> AskedBy("supervisor", "activate")
        /\ AskedBy("lease", "activate")' <=> AskedBy("lease", "activate")
        /\ AskedBy("lease", "start")' <=> AskedBy("lease", "start")
        /\ AskedBy("lease", "stop")' <=> AskedBy("lease", "stop")
        /\ AskedBy("daemon", "activate")' <=> AskedBy("daemon", "activate")
    BY <2>1, PartsAre, SameRuntime
  <2>3. ~ AskedBy("supervisor", "activate")
    BY <1>2, AskerWaits
  <2>4. CallsAt'
    BY <1>2, <2>1, <2>2, <2>3, PartsAre DEF CallsAt
  <2>5. LeaseTypes' /\ LeaseAt' /\ GrantAt'
    BY <1>1, <1>2, <1>7, <2>1, PartsAre DEF LeaseTypes, LeaseAt, GrantAt
  <2>6. RunsEntitled'
    BY <1>2, <1>7, <2>2, PartsAre DEF RunsEntitled, Entitled
  <2>7. WoundUp'
    BY <1>1, <2>1, <2>2, PartsAre DEF WoundUp
  <2> QED
    BY <1>3, <1>4, <1>5, <2>2, <2>4, <2>5, <2>6, <2>7, PartsMake
<1>8. CASE arrangement # "lease" /\ arrangement # "relayed"
  <2>1. pc' = "off" /\ CallSwap("supervisor", "deactivate") /\ UNCHANGED <<releasing, lease>>
    BY <1>8 DEF Leave, Off
  <2>2. closed' = closed /\ (Waits("daemon")' <=> Waits("daemon"))
    BY <1>2, <2>1, PartsAre, SwapDoes
  <2> QED
    BY <1>1, <1>2, <1>3, <1>4, <1>5, <1>8, <2>1, <2>2, SwapSupervisor
<1> QED
  BY <1>6, <1>7, <1>8

\* #reconcile: the settings are compared with the arrangement, and it is left or kept.
LEMMA ReconcileKeeps ==
    ASSUME SupervisorInvariant, Reconcile
    PROVE  SupervisorInvariant'
<1>1. /\ steps # <<>> /\ pc \in {"none", "deciding"}
      /\ (Head(steps) = "reconcile" /\ pc = "none") \/ pc = "deciding"
      /\ Decide /\ UNCHANGED <<choices, prepared, startedUnder, stopped, closing, grant, synced>>
  BY PartsAre DEF Reconcile, At, SupervisorAt
<1>2. Head(steps) \in {"reconcile", "apply"} /\ ~ Waits("supervisor")
  BY <1>1, PartsAre DEF SupervisorAt, CallsAt
<1>3. CASE stopped \/ (arrangement = Desired /\ Desired # "unavailable")
  <2>1. EndStep /\ UNCHANGED <<runtime, arrangement, releasing, lease>>
    BY <1>1, <1>3 DEF Decide
  <2>2. /\ steps' = Tail(steps) /\ pc' = "none" /\ UNCHANGED <<desired, next>>
        /\ UNCHANGED <<placement, machine, config, token, changes>>
    BY <1>1, <2>1 DEF EndStep, choices
  <2>3. closed' = closed /\ (Waits("daemon")' <=> Waits("daemon"))
    BY <2>1, SameRuntime
  <2>4. steps' \in Seq(StepNames) /\ ClosingAt'
    BY <1>1, <1>2, <2>1, <2>2, <2>3, PartsAre, StepEnds
  <2>5. OwnTypes'
    <3>1. OwnTypes
      BY PartsAre
    <3>2. pc' \in {"none"} /\ (steps \in Seq({"reconcile", "apply", "watched", "stop"}))'
      BY <2>2, <2>4 DEF StepNames
    <3> QED
      BY <1>1, <2>1, <2>2, <3>1, <3>2 DEF OwnTypes
  <2>6. ~ releasing
    BY <1>1, PartsAre DEF SupervisorAt
  <2>7. SupervisorAt'
    BY <2>1, <2>2, <2>6 DEF SupervisorAt, Leaves
  <2> QED
    BY <1>1, <1>2, <2>1, <2>4, <2>5, <2>7, OnlyPlans
<1>4. CASE ~ (stopped \/ (arrangement = Desired /\ Desired # "unavailable"))
  <2>1. desired' = Desired /\ Leave("enter") /\ UNCHANGED steps
    BY <1>1, <1>4 DEF Decide
  <2>2. Desired \in Arrangements /\ Desired # "idle"
    BY PartsAre DEF Desired, Arrangements, OwnTypes
  <2> QED
    BY <1>1, <1>2, <1>4, <2>1, <2>2, LeaveKeeps
<1> QED
  BY <1>3, <1>4

\* applySync and stop.
LEMMA LeaveFirstKeeps ==
    ASSUME SupervisorInvariant, LeaveFirst("apply", "configure") \/ LeaveFirst("stop", "end")
    PROVE  SupervisorInvariant'
<1>1. desired \in Arrangements
  BY PartsAre DEF OwnTypes
<1> QED
  BY <1>1, LeaveKeeps DEF LeaveFirst, At

\* What #leave waited for is done: the lease stopped, or the pass ended.
LEMMA LetGoKeeps ==
    ASSUME SupervisorInvariant, LetGo \/ Pushed
    PROVE  SupervisorInvariant'
<1>1. /\ pc \in {"letting go", "pushing"} /\ pc' = "off" /\ CallSwap("supervisor", "deactivate")
      /\ UNCHANGED <<placement, machine, config, token, changes, steps, desired, next, prepared,
                     arrangement, startedUnder, stopped, closing, lease, grant>>
      /\ releasing' = FALSE /\ (synced' = synced \/ synced' = TRUE)
      /\ releasing => lease.kind = "stopped" /\ lease.step = "none"
  <2>1. (releasing <=> pc = "letting go") /\ releasing \in BOOLEAN
    BY PartsAre DEF SupervisorAt, OwnTypes
  <2>2. CASE LetGo
    BY <2>2 DEF LetGo, Off, choices
  <2>3. CASE Pushed
    BY <2>1, <2>3 DEF Pushed, Off, arranged, choices
  <2> QED
    BY <2>2, <2>3
<1>2. arrangement = "idle" /\ steps # <<>> /\ "supervisor" \in Caller /\ "daemon" # "supervisor"
  BY <1>1, PartsAre, AgentSupervisorAssumption DEF SupervisorAt, Leaves
<1>3. closed' = closed /\ (Waits("daemon")' <=> Waits("daemon"))
  BY <1>1, <1>2, PartsAre, SwapDoes
<1>4. ClosingAt'
  BY <1>1, <1>2, <1>3, PartsAre, StepGoesOn
<1>5. OwnTypes'
  <2>1. (steps \in Seq({"reconcile", "apply", "watched", "stop"}))'
    BY <1>1, PartsAre DEF OwnTypes
  <2> QED
    BY <1>1, <2>1, PartsAre DEF OwnTypes, choices
<1>6. SupervisorAt'
  BY <1>1, <1>2, PartsAre DEF SupervisorAt, Leaves
<1> QED
  BY <1>1, <1>2, <1>4, <1>5, <1>6, SwapSupervisor

\* #leave is over, and the step goes on to what it left for.
LEMMA LeftKeeps ==
    ASSUME SupervisorInvariant, Left
    PROVE  SupervisorInvariant'
<1>1. /\ pc = "off" /\ ~ Waits("supervisor")
      /\ UNCHANGED <<placement, machine, config, token, changes, releasing, startedUnder, stopped, closing,
                     lease, grant, synced>>
  BY DEF Left, choices
<1>2. /\ arrangement = "idle" /\ steps # <<>> /\ ~ releasing
      /\ next = "end" <=> Head(steps) = "stop"
      /\ next = "configure" => Head(steps) = "apply"
      /\ next = "enter" => desired # "idle"
      /\ "supervisor" \in Caller /\ "daemon" # "supervisor"
  BY <1>1, PartsAre, AgentSupervisorAssumption DEF SupervisorAt, Leaves
<1>3. CASE next = "end"
  <2>1. /\ steps' = Tail(steps) /\ pc' = "none"
        /\ UNCHANGED <<desired, next, runtime, arrangement, prepared>>
    BY <1>3 DEF Left, EndStep
  <2>2. closed' = closed /\ (Waits("daemon")' <=> Waits("daemon"))
    BY <2>1, SameRuntime
  <2>3. steps' \in Seq(StepNames) /\ ClosingAt'
    BY <1>1, <1>2, <2>1, <2>2, PartsAre, StepEnds
  <2>4. OwnTypes'
    BY <1>1, <2>1, <2>3, PartsAre DEF OwnTypes, StepNames
  <2>5. SupervisorAt'
    BY <1>1, <1>2, <2>1 DEF SupervisorAt, Leaves
  <2> QED
    BY <1>1, <2>1, <2>3, <2>4, <2>5, OnlyPlans
<1>4. CASE next = "configure"
  <2>1. /\ pc' = "configuring" /\ prepared' = "none"
        /\ UNCHANGED <<runtime, steps, desired, next, arrangement>>
    BY <1>4 DEF Left
  <2>2. closed' = closed /\ (Waits("daemon")' <=> Waits("daemon"))
    BY <2>1, SameRuntime
  <2>3. ClosingAt'
    BY <1>1, <1>2, <2>1, <2>2, PartsAre, StepGoesOn
  <2>4. (steps \in Seq({"reconcile", "apply", "watched", "stop"}))'
    BY <2>1, PartsAre DEF OwnTypes
  <2>5. OwnTypes'
    BY <1>1, <2>1, <2>4, PartsAre DEF OwnTypes
  <2>6. SupervisorAt'
    BY <1>1, <1>2, <1>4, <2>1 DEF SupervisorAt, Leaves
  <2> QED
    BY <1>1, <2>1, <2>3, <2>5, <2>6, OnlyPlans
<1>5. CASE next = "enter"
  <2> DEFINE o == IF desired = "standalone" THEN "activate" ELSE "deactivate"
  <2>1. /\ pc' = IF desired = "lease" THEN "before the lease" ELSE "entering"
        /\ arrangement' = IF desired = "lease" THEN "idle" ELSE desired
        /\ CallSwap("supervisor", o)
        /\ UNCHANGED <<steps, desired, next, prepared>>
    BY <1>5 DEF Left
  <2>2. o = "activate" => arrangement' = "standalone" /\ pc' = "entering"
    BY <2>1
  <2> HIDE DEF o
  <2>3. closed' = closed /\ (Waits("daemon")' <=> Waits("daemon"))
    BY <1>2, <2>1, PartsAre, SwapDoes
  <2>4. ClosingAt'
    BY <1>1, <1>2, <2>1, <2>3, PartsAre, StepGoesOn
  <2>5. (steps \in Seq({"reconcile", "apply", "watched", "stop"}))'
    BY <2>1, PartsAre DEF OwnTypes
  <2>6. arrangement' \in Arrangements /\ desired \in Arrangements
    BY <2>1, PartsAre DEF OwnTypes, Arrangements
  <2>7. OwnTypes'
    <3>1. OwnTypes
      BY PartsAre
    <3>2. pc' \in {"before the lease", "entering"} /\ UNCHANGED <<desired, next, prepared>>
      BY <2>1
    <3>3. /\ (placement \in Placements)' /\ (machine \in BOOLEAN)' /\ (config \in {"none", "remote"})'
          /\ (token \in {"ok", "absent", "bad"})' /\ (changes \in 0 .. MaxChanges)'
          /\ (prepared \in {"none", "noclient", "client"})'
      BY <1>1, <3>1, <3>2 DEF OwnTypes
    <3>4. /\ (desired \in Arrangements)' /\ (next \in {"end", "configure", "enter"})'
          /\ (releasing \in BOOLEAN)' /\ (stopped \in BOOLEAN)'
          /\ (closing \in {"no", "agent", "runtime", "done"})'
      BY <1>1, <3>1, <3>2 DEF OwnTypes
    <3> QED
      BY <2>5, <2>6, <3>2, <3>3, <3>4 DEF OwnTypes
  <2>8. SupervisorAt'
    BY <1>1, <1>2, <1>5, <2>1, <2>6 DEF SupervisorAt, Leaves, Arrangements
  <2>9. arrangement' # "lease" /\ arrangement # "lease" /\ ~ releasing'
        /\ pc' \in {"off", "entering", "before the lease"}
    BY <1>1, <1>2, <2>1
  <2> QED
    BY <1>1, <1>2, <2>1, <2>2, <2>4, <2>7, <2>8, <2>9, SwapSupervisor
<1> QED
  BY <1>3, <1>4, <1>5, PartsAre DEF OwnTypes

\* SyncController.configure returned.
LEMMA ConfiguredKeeps ==
    ASSUME SupervisorInvariant, Configured
    PROVE  SupervisorInvariant'
<1>1. /\ pc = "configuring"
      /\ UNCHANGED <<runtime, placement, machine, config, token, changes, arrangement, releasing, startedUnder,
                     stopped, closing, lease, grant, synced>>
  BY DEF Configured, choices
<1>2. /\ arrangement = "idle" /\ steps # <<>> /\ ~ releasing /\ Head(steps) = "apply"
      /\ ~ Waits("supervisor")
  BY <1>1, PartsAre DEF SupervisorAt, CallsAt
<1>3. closed' = closed /\ (Waits("daemon")' <=> Waits("daemon"))
  BY <1>1, SameRuntime
<1>4. CASE EndStep /\ UNCHANGED prepared
  <2>1. /\ steps' = Tail(steps) /\ pc' = "none" /\ UNCHANGED <<desired, next, prepared>>
    BY <1>4 DEF EndStep
  <2>2. steps' \in Seq(StepNames) /\ ClosingAt'
    BY <1>1, <1>2, <1>3, <2>1, PartsAre, StepEnds
  <2>3. OwnTypes'
    BY <1>1, <2>1, <2>2, PartsAre DEF OwnTypes, StepNames
  <2>4. SupervisorAt'
    BY <1>1, <1>2, <2>1 DEF SupervisorAt, Leaves
  <2> QED
    BY <1>1, <1>2, <2>2, <2>3, <2>4, OnlyPlans
<1>5. CASE prepared' = Prepared(config, token) /\ pc' = "deciding" /\ UNCHANGED <<steps, desired, next>>
  <2>1. ClosingAt'
    BY <1>1, <1>2, <1>3, <1>5, PartsAre, StepGoesOn
  <2>2. (steps \in Seq({"reconcile", "apply", "watched", "stop"}))'
    BY <1>5, PartsAre DEF OwnTypes
  <2>3. prepared' \in {"none", "noclient", "client"}
    BY <1>5 DEF Prepared
  <2>4. OwnTypes'
    BY <1>1, <1>5, <2>2, <2>3, PartsAre DEF OwnTypes
  <2>5. SupervisorAt'
    BY <1>1, <1>2, <1>5 DEF SupervisorAt, Leaves
  <2> QED
    BY <1>1, <1>2, <1>5, <2>1, <2>4, <2>5, OnlyPlans
<1> QED
  BY <1>4, <1>5 DEF Configured

\* #enter returned.
LEMMA EnteredKeeps ==
    ASSUME SupervisorInvariant, Entered
    PROVE  SupervisorInvariant'
<1>1. /\ pc \in {"entering", "before the lease"} /\ ~ Waits("supervisor")
      /\ steps' = Tail(steps) /\ pc' = "none"
      /\ UNCHANGED <<runtime, placement, machine, config, token, changes, prepared, releasing, startedUnder,
                     stopped, closing, grant, synced, desired, next>>
  BY DEF Entered, choices, EndStep
<1>2. /\ steps # <<>> /\ ~ releasing /\ Head(steps) # "stop"
      /\ pc = "before the lease" => arrangement = "idle"
  BY <1>1, PartsAre DEF SupervisorAt
<1>3. closed' = closed /\ (Waits("daemon")' <=> Waits("daemon"))
  BY <1>1, SameRuntime
<1>4. steps' \in Seq(StepNames) /\ ClosingAt'
  BY <1>1, <1>2, <1>3, PartsAre, StepEnds
<1>5. arrangement' \in Arrangements
  BY PartsAre DEF Entered, OwnTypes, Arrangements
<1>6. OwnTypes'
  BY <1>1, <1>4, <1>5, PartsAre DEF OwnTypes, StepNames
<1>7. SupervisorAt'
  BY <1>1, <1>2 DEF SupervisorAt, Leaves
<1>8. CASE pc = "entering"
  <2>1. UNCHANGED <<arrangement, lease>>
    BY <1>8 DEF Entered
  <2> QED
    BY <1>1, <1>4, <1>6, <1>7, <2>1, OnlyPlans
<1>9. CASE pc = "before the lease"
  <2>1. arrangement' = "lease" /\ lease' = [NoLease EXCEPT !.kind = "checking", !.stopped = FALSE]
    BY <1>9 DEF Entered
  <2>2. lease.kind = "stopped" /\ lease.step = "none"
    BY <1>2, <1>9, PartsAre DEF LeaseAt
  <2>a. 0 \in 0 .. MaxGrants
    BY AgentSupervisorAssumption
  <2>3. /\ lease' \in LeaseRecord /\ lease'.kind = "checking" /\ lease'.epoch = 0 /\ lease'.stopped = FALSE
        /\ lease'.step = "none" /\ arrangement' = "lease"
    BY <2>1, <2>a DEF NoLease, LeaseRecord
  <2>4. LeaseTypes' /\ LeaseAt' /\ GrantAt'
    BY <1>1, <1>2, <2>3, PartsAre DEF LeaseTypes, LeaseAt, GrantAt
  <2>5. /\ RuntimeInvariant' /\ active' = active /\ stage' = stage
        /\ Leaving' <=> Leaving
        /\ Waits("supervisor")' <=> Waits("supervisor")
        /\ Waits("lease")' <=> Waits("lease")
        /\ AskedBy("supervisor", "activate")' <=> AskedBy("supervisor", "activate")
        /\ AskedBy("lease", "activate")' <=> AskedBy("lease", "activate")
        /\ AskedBy("lease", "start")' <=> AskedBy("lease", "start")
        /\ AskedBy("lease", "stop")' <=> AskedBy("lease", "stop")
        /\ AskedBy("daemon", "activate")' <=> AskedBy("daemon", "activate")
    BY <1>1, PartsAre, SameRuntime
  <2>6. ~ AskedBy("supervisor", "activate") /\ ~ Waits("lease") /\ ~ AskedBy("lease", "activate")
    BY <1>1, <2>2, PartsAre, AskerWaits DEF CallsAt
  <2>7. CallsAt'
    BY <1>1, <2>5, <2>6, PartsAre DEF CallsAt
  <2>8. RunsEntitled'
    BY <1>2, <1>9, <2>2, <2>5, PartsAre DEF RunsEntitled, Entitled
  <2>9. WoundUp'
    BY <2>3 DEF WoundUp
  <2> QED
    BY <1>4, <1>6, <1>7, <2>4, <2>5, <2>7, <2>8, <2>9, PartsMake
<1> QED
  BY <1>1, <1>8, <1>9

\* #watched.
LEMMA WatchedKeeps ==
    ASSUME SupervisorInvariant, Watched
    PROVE  SupervisorInvariant'
<1>1. /\ steps # <<>> /\ Head(steps) = "watched" /\ pc = "none"
      /\ UNCHANGED <<placement, machine, config, token, changes, prepared, arrangement, releasing,
                     startedUnder, stopped, closing, lease, grant, synced>>
  BY DEF Watched, At, choices, arranged
<1>2. ~ Waits("supervisor") /\ ~ releasing /\ "supervisor" \in Caller /\ "daemon" # "supervisor"
  BY <1>1, PartsAre, AgentSupervisorAssumption DEF CallsAt, SupervisorAt
<1>3. CASE arrangement = "relayed"
  <2>1. /\ CallSwap("supervisor", "deactivate") /\ pc' = "entering"
        /\ UNCHANGED <<steps, desired, next>>
    BY <1>3 DEF Watched, Off
  <2>2. closed' = closed /\ (Waits("daemon")' <=> Waits("daemon"))
    BY <1>2, <2>1, PartsAre, SwapDoes
  <2>3. ClosingAt'
    BY <1>1, <1>3, <2>1, <2>2, PartsAre, StepGoesOn
  <2>4. (steps \in Seq({"reconcile", "apply", "watched", "stop"}))'
    BY <2>1, PartsAre DEF OwnTypes
  <2>5. OwnTypes'
    BY <1>1, <2>1, <2>4, PartsAre DEF OwnTypes
  <2>6. SupervisorAt'
    BY <1>1, <1>2, <1>3, <2>1 DEF SupervisorAt, Leaves
  <2> QED
    BY <1>1, <1>2, <1>3, <2>1, <2>3, <2>5, <2>6, SwapSupervisor
<1>4. CASE arrangement # "relayed"
  <2>1. /\ steps' = Tail(steps) /\ pc' = "none" /\ UNCHANGED <<desired, next, runtime>>
    BY <1>4 DEF Watched, EndStep
  <2>2. closed' = closed /\ (Waits("daemon")' <=> Waits("daemon"))
    BY <2>1, SameRuntime
  <2>3. steps' \in Seq(StepNames) /\ ClosingAt'
    BY <1>1, <2>1, <2>2, PartsAre, StepEnds
  <2>4. OwnTypes'
    BY <1>1, <2>1, <2>3, PartsAre DEF OwnTypes, StepNames
  <2>5. SupervisorAt'
    BY <1>1, <1>2, <2>1 DEF SupervisorAt, Leaves
  <2> QED
    BY <1>1, <2>1, <2>3, <2>4, <2>5, OnlyPlans
<1> QED
  BY <1>3, <1>4

\* Every step of the supervisor's.
LEMMA SupervisorKeeps ==
    ASSUME SupervisorInvariant, Supervisor
    PROVE  SupervisorInvariant'
BY ReconcileKeeps, LeaveFirstKeeps, LetGoKeeps, LeftKeeps, ConfiguredKeeps, EnteredKeeps,
   WatchedKeeps
   DEF Supervisor

-----------------------------------------------------------------------------
(* The daemon and its user.                                                *)

\* Whoever asks for an agent is entitled to it, and no lease is being let go of.
LEMMA ActivationEntitled ==
    ASSUME SupervisorInvariant, ~ NobodyActivates
    PROVE  /\ Entitled
           /\ lease.step \notin {"winding", "passing", "releasing"}
<1>1. PICK d \in Caller : AskedBy(d, "activate")
  BY DEF NobodyActivates
<1>2. d = "supervisor" \/ d = "lease"
  BY <1>1, PartsAre, AgentSupervisorAssumption DEF CallsAt
<1>3. CASE d = "supervisor"
  <2>1. arrangement = "standalone" /\ pc = "entering"
    BY <1>1, <1>3, PartsAre DEF CallsAt
  <2> QED
    BY <2>1, PartsAre DEF Entitled, LeaseAt, SupervisorAt
<1>4. CASE d = "lease"
  <2>1. lease.step = "activating"
    BY <1>1, <1>4, PartsAre DEF CallsAt
  <2>2. lease.kind = "held" /\ startedUnder = lease.epoch
    BY <2>1, PartsAre DEF LeaseAt, LeaseTypes, LeaseRecord
  <2>3. arrangement = "lease" \/ releasing
    BY <2>1, LeaseFacts
  <2> QED
    BY <2>1, <2>2, <2>3 DEF Entitled
<1> QED
  BY <1>2, <1>3, <1>4

\* The runtime's own steps.
LEMMA RuntimeKeeps ==
    ASSUME SupervisorInvariant, Runtime
    PROVE  SupervisorInvariant'
<1>1. /\ Works
      /\ synced' = IF stage = "stopping" THEN FALSE ELSE synced
      /\ UNCHANGED <<placement, machine, config, token, changes, steps, pc, desired, next, prepared,
                     arrangement, releasing, startedUnder, stopped, closing, lease, grant>>
  BY DEF Runtime, choices, running, arranged
<1>2. RuntimeInvariant' /\ CallsOnlyEnd /\ closed' = closed
  BY <1>1, PartsAre, WorksKeeps, WorksDo
<1>a. NobodyActivates => /\ active' # 0 => active # 0
                         /\ active = 0 /\ stage = "none" => stage' = "none"
  BY <1>1, PartsAre, WorksDo
<1>3. OwnTypes'
  BY <1>1, PartsAre, OwnFrame
<1>4. LeaseTypes'
  BY <1>1, PartsAre DEF LeaseTypes
<1>5. SupervisorAt' /\ LeaseAt' /\ GrantAt'
  <2>1. SupervisorAt /\ LeaseAt /\ GrantAt
    BY PartsAre
  <2>2. SupervisorAt'
    BY <1>1, <2>1 DEF SupervisorAt
  <2>3. LeaseAt'
    BY <1>1, <2>1 DEF LeaseAt
  <2>4. GrantAt'
    BY <1>1, <2>1 DEF GrantAt
  <2> QED
    BY <2>2, <2>3, <2>4
<1>6. CallsAt'
  BY <1>1, <1>2, PartsAre DEF CallsAt, CallsOnlyEnd
<1>7. ClosingAt'
  BY <1>1, <1>2, PartsAre DEF ClosingAt, CallsOnlyEnd
<1>8. RunsEntitled'
  <2>1. Entitled' <=> Entitled
    BY <1>1 DEF Entitled
  <2>2. CASE ~ NobodyActivates
    BY <2>1, <2>2, ActivationEntitled DEF RunsEntitled
  <2>3. CASE NobodyActivates
    BY <1>2, <1>a, <2>1, <2>3, PartsAre DEF RunsEntitled, CallsOnlyEnd
  <2> QED
    BY <2>2, <2>3
<1>9. WoundUp'
  <2> SUFFICES ASSUME lease.step \in {"winding", "passing", "releasing"}, lease.epoch # 0
               PROVE  /\ ~ Waits("lease")' => active' = 0 /\ stage' = "none"
                      /\ lease.step = "releasing" => synced'
    BY <1>1 DEF WoundUp
  <2>1. NobodyActivates
    BY ActivationEntitled
  <2>2. ASSUME ~ Waits("lease")'
        PROVE  active' = 0 /\ stage' = "none"
    <3>1. CASE ~ Waits("lease")
      BY <1>a, <2>1, <3>1, PartsAre DEF WoundUp
    <3>2. CASE Waits("lease")
      <4>1. PICK p \in Ops : AskedBy("lease", p)
        BY <3>2, PartsAre, AskerWaits
      <4>2. "lease" \in Caller
        BY AgentSupervisorAssumption
      <4>3. p = "deactivate"
        BY <2>1, <4>1, <4>2, PartsAre DEF CallsAt, NobodyActivates, Ops
      <4> QED
        BY <1>2, <2>2, <4>1, <4>3 DEF CallsOnlyEnd
    <3> QED
      BY <3>1, <3>2
  <2>3. ASSUME lease.step = "releasing"
        PROVE  synced'
    <3>1. ~ Waits("lease")
      BY <2>3, PartsAre DEF CallsAt
    <3>2. stage = "none" /\ synced
      BY <2>3, <3>1, PartsAre DEF WoundUp
    <3> QED
      BY <1>1, <3>2
  <2> QED
    BY <2>2, <2>3
<1> QED
  BY <1>2, <1>3, <1>4, <1>5, <1>6, <1>7, <1>8, <1>9, PartsMake

\* A call of the daemon's: start, or stop.
LEMMA DaemonCalls ==
    ASSUME SupervisorInvariant, NEW o \in {"start", "stop"}, Call("daemon", o),
           UNCHANGED <<stage, stacks, active, settings>>,
           closed' = closed \/ (closed' = TRUE /\ o = "stop"),
           started' = started \/ (started' = TRUE /\ o = "start"),
           UNCHANGED <<choices, running, prepared, arrangement, releasing, startedUnder, stopped, lease,
                       grant, synced>>,
           closing' \in {"no", "agent", "runtime", "done"}, ClosingAt'
    PROVE  SupervisorInvariant'
<1>1. "daemon" \in Caller /\ o \in Ops /\ RuntimeTypeOK /\ OneCallEach
  BY PartsAre, AgentSupervisorAssumption DEF Ops, RuntimeInvariant
<1>2. closed \in BOOLEAN /\ started \in BOOLEAN
  BY <1>1 DEF RuntimeTypeOK
<1>3. RuntimeInvariant'
  <2>1. closed' \in BOOLEAN /\ (closed' => closed \/ o = "stop")
    <3>1. CASE closed' = closed
      BY <1>2, <3>1
    <3>2. CASE closed' = TRUE /\ o = "stop"
      BY <3>2
    <3> QED
      BY <3>1, <3>2
  <2>2. started' \in BOOLEAN /\ (started' => started \/ o = "start")
    <3>1. CASE started' = started
      BY <1>2, <3>1
    <3>2. CASE started' = TRUE /\ o = "start"
      BY <3>2
    <3> QED
      BY <3>1, <3>2
  <2> QED
    BY <1>1, <2>1, <2>2, PartsAre, CallKeeps
<1>4. /\ \A p : Asked(p)' <=> Asked(p) \/ p = o
      /\ \A d, p : AskedBy(d, p)' <=> AskedBy(d, p) \/ (d = "daemon" /\ p = o)
      /\ \A d : Waits(d)' <=> Waits(d) \/ d = "daemon"
  BY <1>1, CallAdds
<1>5. Leaving => Leaving'
  <2>1. Leaving' <=> Asked("deactivate")' \/ Asked("stop")'
    BY DEF Leaving, Asked
  <2> QED
    BY <1>4, <2>1, LeavingAsked
<1>6. /\ Waits("supervisor")' <=> Waits("supervisor")
      /\ Waits("lease")' <=> Waits("lease")
      /\ AskedBy("supervisor", "activate")' <=> AskedBy("supervisor", "activate")
      /\ AskedBy("lease", "activate")' <=> AskedBy("lease", "activate")
      /\ AskedBy("lease", "start")' <=> AskedBy("lease", "start")
      /\ AskedBy("lease", "stop")' <=> AskedBy("lease", "stop")
      /\ AskedBy("daemon", "activate")' <=> AskedBy("daemon", "activate")
  BY <1>4
<1>7. UNCHANGED <<placement, machine, config, token, changes, steps, pc, desired, next>>
  BY DEF choices, running
<1>8. OwnTypes'
  BY <1>7, PartsAre, OwnButClosing
<1>9. LeaseTypes'
  BY PartsAre DEF LeaseTypes
<1>10. SupervisorAt' /\ LeaseAt' /\ GrantAt'
  <2>1. SupervisorAt /\ LeaseAt /\ GrantAt
    BY PartsAre
  <2>2. SupervisorAt'
    BY <1>7, <2>1 DEF SupervisorAt
  <2>3. LeaseAt'
    BY <2>1 DEF LeaseAt
  <2>4. GrantAt'
    BY <2>1 DEF GrantAt
  <2> QED
    BY <2>2, <2>3, <2>4
<1>11. CallsAt'
  BY <1>6, <1>7, PartsAre DEF CallsAt
<1>12. RunsEntitled'
  BY <1>5, PartsAre DEF RunsEntitled, Entitled
<1>13. WoundUp'
  BY <1>6, PartsAre DEF WoundUp
<1> QED
  BY <1>3, <1>8, <1>9, <1>10, <1>11, <1>12, <1>13, PartsMake

\* The daemon starts the runtime.
LEMMA StartRuntimeKeeps ==
    ASSUME SupervisorInvariant, StartRuntime
    PROVE  SupervisorInvariant'
<1>1. /\ Call("daemon", "start") /\ started' = TRUE /\ UNCHANGED <<stage, stacks, active, closed, settings>>
      /\ closing = "no"
      /\ UNCHANGED <<choices, running, arranged, lease, grant, synced>>
  BY DEF StartRuntime, CallStart
<1>2. /\ UNCHANGED <<prepared, arrangement, releasing, startedUnder, stopped, closing, steps, pc>>
      /\ closing' \in {"no", "agent", "runtime", "done"}
  BY <1>1 DEF arranged, running
<1>3. ClosingAt'
  BY <1>1, <1>2, PartsAre DEF ClosingAt
<1> QED
  BY <1>1, <1>2, <1>3, DaemonCalls

\* The daemon stops the runtime, once the supervisor has stopped.
LEMMA ShutdownRuntimeKeeps ==
    ASSUME SupervisorInvariant, ShutdownRuntime
    PROVE  SupervisorInvariant'
<1>1. /\ Call("daemon", "stop") /\ closed' = TRUE /\ UNCHANGED <<stage, stacks, active, started, settings>>
      /\ closing = "agent" /\ "stop" \notin ToSet(steps) /\ closing' = "runtime"
      /\ UNCHANGED <<choices, running, prepared, arrangement, releasing, startedUnder, stopped, lease,
                     grant, synced>>
  BY DEF ShutdownRuntime, CallStop
<1>2. (\A i \in DOMAIN steps : steps[i] # "stop") /\ UNCHANGED <<steps, pc>>
  BY <1>1 DEF ToSet, running
<1>3. ClosingAt'
  BY <1>1, <1>2, PartsAre DEF ClosingAt
<1> QED
  BY <1>1, <1>3, DaemonCalls

\* The daemon is closed.
LEMMA ClosedKeeps ==
    ASSUME SupervisorInvariant, Closed
    PROVE  SupervisorInvariant'
<1>1. /\ closing = "runtime" /\ ~ Waits("daemon") /\ closing' = "done"
      /\ UNCHANGED runtime
      /\ UNCHANGED <<placement, machine, config, token, changes, steps, pc, desired, next, prepared,
                     arrangement, releasing, startedUnder, stopped, lease, grant, synced>>
  BY DEF Closed, choices, running
<1>2. closed' = closed /\ (Waits("daemon")' <=> Waits("daemon"))
  BY <1>1, SameRuntime
<1>3. ClosingAt'
  BY <1>1, <1>2, PartsAre DEF ClosingAt
<1>4. OwnTypes'
  BY <1>1, PartsAre, OwnButClosing
<1>5. SupervisorAt'
  BY <1>1, PartsAre DEF SupervisorAt
<1> QED
  BY <1>1, <1>3, <1>4, <1>5, OnlyPlans

\* A step is queued, by a change of the user's, by the watcher or by the shutdown.
LEMMA QueuedKeeps ==
    ASSUME SupervisorInvariant, NEW s \in StepNames, steps' = Append(steps, s),
           UNCHANGED <<runtime, pc, desired, next, prepared, arrangement, releasing, startedUnder, lease,
                       grant, synced>>,
           placement' \in Placements, machine' \in BOOLEAN, config' \in {"none", "remote"},
           token' \in {"ok", "absent", "bad"}, changes' \in 0 .. MaxChanges,
           stopped' \in BOOLEAN, closing' \in {"no", "agent", "runtime", "done"}, ClosingAt'
    PROVE  SupervisorInvariant'
<1>1. /\ steps' \in Seq(StepNames) /\ steps' # <<>>
      /\ steps # <<>> => Head(steps') = Head(steps)
  BY PartsAre, StepAdded
<1>2. OwnTypes'
  BY <1>1, PartsAre DEF OwnTypes, StepNames
<1>3. SupervisorAt'
  BY <1>1, PartsAre DEF SupervisorAt, Leaves
<1> QED
  BY <1>2, <1>3, OnlyPlans

\* The number of changes stays within its bound.
LEMMA ChangedTypes ==
    ASSUME SupervisorInvariant, Changes
    PROVE  changes' \in 0 .. MaxChanges
<1>1. changes \in 0 .. MaxChanges /\ MaxChanges \in Nat
  BY PartsAre, AgentSupervisorAssumption DEF OwnTypes
<1> QED
  BY <1>1 DEF Changes

\* Another placement.
LEMMA SetPlacementKeeps ==
    ASSUME SupervisorInvariant, NEW p \in Placements, SetPlacement(p)
    PROVE  SupervisorInvariant'
<1>1. /\ Changes /\ closing = "no" /\ placement' = p
      /\ UNCHANGED <<runtime, machine, config, token, pc, desired, next, arranged, lease, grant, synced>>
      /\ steps' = IF stopped THEN steps ELSE Append(steps, "reconcile")
  BY DEF SetPlacement, Queue
<1>2. ~ stopped
  BY <1>1, PartsAre DEF ClosingAt
<1>3. UNCHANGED <<prepared, arrangement, releasing, startedUnder, stopped, closing>>
  BY <1>1 DEF arranged
<1>4. closed' = closed /\ (Waits("daemon")' <=> Waits("daemon"))
  BY <1>1, SameRuntime
<1>5. "reconcile" \in StepNames /\ "reconcile" # "stop"
  BY DEF StepNames
<1>6. ClosingAt'
  BY <1>1, <1>2, <1>3, <1>4, <1>5, PartsAre, AddedCloses
<1>7. /\ placement' \in Placements /\ machine' \in BOOLEAN /\ config' \in {"none", "remote"}
      /\ token' \in {"ok", "absent", "bad"}
      /\ stopped' \in BOOLEAN /\ closing' \in {"no", "agent", "runtime", "done"}
  BY <1>1, <1>3, PartsAre DEF OwnTypes
<1>8. changes' \in 0 .. MaxChanges
  BY <1>1, ChangedTypes
<1> QED
  BY <1>1, <1>2, <1>3, <1>5, <1>6, <1>7, <1>8, QueuedKeeps

\* Another machine, or none.
LEMMA SetMachineKeeps ==
    ASSUME SupervisorInvariant, SetMachine
    PROVE  SupervisorInvariant'
<1>1. /\ Changes /\ machine' = ~ machine
      /\ UNCHANGED <<runtime, placement, config, token, pc, desired, next, arranged, lease, grant, synced>>
      /\ steps' = IF stopped THEN steps ELSE Append(steps, "reconcile")
  BY DEF SetMachine, Queue
<1>3. UNCHANGED <<prepared, arrangement, releasing, startedUnder, stopped, closing>>
  BY <1>1 DEF arranged
<1>4. closed' = closed /\ (Waits("daemon")' <=> Waits("daemon"))
  BY <1>1, SameRuntime
<1>5. "reconcile" \in StepNames /\ "reconcile" # "stop"
  BY DEF StepNames
<1>7. /\ placement' \in Placements /\ machine' \in BOOLEAN /\ config' \in {"none", "remote"}
      /\ token' \in {"ok", "absent", "bad"}
      /\ stopped' \in BOOLEAN /\ closing' \in {"no", "agent", "runtime", "done"}
  BY <1>1, <1>3, PartsAre DEF OwnTypes
<1>8. changes' \in 0 .. MaxChanges
  BY <1>1, ChangedTypes
<1>9. CASE stopped
  <2>1. steps' = steps
    BY <1>1, <1>9
  <2>2. ClosingAt'
    BY <1>1, <1>3, <1>4, <2>1, PartsAre DEF ClosingAt
  <2>3. (steps \in Seq({"reconcile", "apply", "watched", "stop"}))'
    BY <2>1, PartsAre DEF OwnTypes
  <2>4. OwnTypes'
    BY <1>1, <1>3, <1>7, <1>8, <2>3, PartsAre DEF OwnTypes
  <2>5. SupervisorAt'
    BY <1>1, <1>3, <2>1, PartsAre DEF SupervisorAt
  <2> QED
    BY <1>1, <1>3, <2>2, <2>4, <2>5, OnlyPlans
<1>10. CASE ~ stopped
  <2>1. ClosingAt'
    BY <1>1, <1>3, <1>4, <1>5, <1>10, PartsAre, AddedCloses
  <2> QED
    BY <1>1, <1>3, <1>5, <1>7, <1>8, <1>10, <2>1, QueuedKeeps
<1> QED
  BY <1>9, <1>10

\* Sync set up or removed.
LEMMA SetSyncKeeps ==
    ASSUME SupervisorInvariant, NEW c \in {"none", "remote"}, NEW t \in Tokens, SetSync(c, t)
    PROVE  SupervisorInvariant'
<1>1. /\ Changes /\ closing = "no" /\ config' = c /\ token' = t
      /\ UNCHANGED <<runtime, placement, machine, pc, desired, next, arranged, lease, grant, synced>>
      /\ steps' = Append(steps, "apply")
  BY DEF SetSync
<1>2. ~ stopped
  BY <1>1, PartsAre DEF ClosingAt
<1>3. UNCHANGED <<prepared, arrangement, releasing, startedUnder, stopped, closing>>
  BY <1>1 DEF arranged
<1>4. closed' = closed /\ (Waits("daemon")' <=> Waits("daemon"))
  BY <1>1, SameRuntime
<1>5. "apply" \in StepNames /\ "apply" # "stop"
  BY DEF StepNames
<1>6. ClosingAt'
  BY <1>1, <1>2, <1>3, <1>4, <1>5, PartsAre, AddedCloses
<1>7. /\ placement' \in Placements /\ machine' \in BOOLEAN /\ config' \in {"none", "remote"}
      /\ token' \in {"ok", "absent", "bad"}
      /\ stopped' \in BOOLEAN /\ closing' \in {"no", "agent", "runtime", "done"}
  BY <1>1, <1>3, PartsAre, AgentSupervisorAssumption DEF OwnTypes
<1>8. changes' \in 0 .. MaxChanges
  BY <1>1, ChangedTypes
<1> QED
  BY <1>1, <1>3, <1>5, <1>6, <1>7, <1>8, QueuedKeeps

\* The watcher saw another holder.
LEMMA HolderSeenKeeps ==
    ASSUME SupervisorInvariant, HolderSeen
    PROVE  SupervisorInvariant'
<1>1. /\ arrangement = "relayed" /\ steps' = Append(steps, "watched")
      /\ UNCHANGED <<runtime, choices, pc, desired, next, arranged, lease, grant, synced>>
  BY DEF HolderSeen
<1>3. UNCHANGED <<placement, machine, config, token, changes, prepared, arrangement, releasing, startedUnder,
                  stopped, closing>>
  BY <1>1 DEF arranged, choices
<1>4. closed' = closed /\ (Waits("daemon")' <=> Waits("daemon"))
  BY <1>1, SameRuntime
<1>5. "watched" \in StepNames /\ "watched" # "stop"
  BY DEF StepNames
<1>6. ClosingAt'
  BY <1>1, <1>3, <1>4, <1>5, PartsAre, AddedCloses
<1>7. /\ placement' \in Placements /\ machine' \in BOOLEAN /\ config' \in {"none", "remote"}
      /\ token' \in {"ok", "absent", "bad"} /\ changes' \in 0 .. MaxChanges
      /\ stopped' \in BOOLEAN /\ closing' \in {"no", "agent", "runtime", "done"}
  BY <1>1, <1>3, PartsAre DEF OwnTypes
<1> QED
  BY <1>1, <1>3, <1>5, <1>6, <1>7, QueuedKeeps

\* The daemon is asked to stop.
LEMMA ShutdownKeeps ==
    ASSUME SupervisorInvariant, Shutdown
    PROVE  SupervisorInvariant'
<1>1. /\ closing = "no" /\ stopped' = TRUE /\ closing' = "agent" /\ steps' = Append(steps, "stop")
      /\ UNCHANGED <<runtime, placement, machine, config, token, changes, pc, desired, next, prepared,
                     arrangement, releasing, startedUnder, lease, grant, synced>>
  BY DEF Shutdown, choices
<1>2. "stop" \in StepNames
  BY DEF StepNames
<1>3. ~ stopped /\ \A i \in DOMAIN steps : steps[i] # "stop"
  BY <1>1, PartsAre DEF ClosingAt
<1>4. /\ \A i \in DOMAIN steps : steps'[i] = steps[i]
      /\ \A i \in DOMAIN steps' : i \in DOMAIN steps \/ (i = Len(steps) + 1 /\ steps'[i] = "stop")
      /\ Len(steps) + 1 \in DOMAIN steps' /\ steps'[Len(steps) + 1] = "stop"
      /\ \A i \in DOMAIN steps' : i <= Len(steps) + 1 /\ i \in Nat
  BY <1>1, <1>2, PartsAre, StepAdded
<1>5. \A i, j \in DOMAIN steps' : steps'[i] = "stop" => ~ (i < j)
  <2> SUFFICES ASSUME NEW i \in DOMAIN steps', NEW j \in DOMAIN steps', steps'[i] = "stop"
               PROVE  ~ (i < j)
    OBVIOUS
  <2>1. i = Len(steps) + 1
    BY <1>3, <1>4
  <2>2. j <= Len(steps) + 1 /\ i \in Nat /\ j \in Nat
    BY <1>4
  <2> QED
    BY <2>1, <2>2
<1>6. ClosingAt'
  BY <1>1, <1>4, <1>5 DEF ClosingAt
<1>7. /\ placement' \in Placements /\ machine' \in BOOLEAN /\ config' \in {"none", "remote"}
      /\ token' \in {"ok", "absent", "bad"} /\ changes' \in 0 .. MaxChanges
      /\ stopped' \in BOOLEAN /\ closing' \in {"no", "agent", "runtime", "done"}
  BY <1>1, PartsAre DEF OwnTypes
<1> QED
  BY <1>1, <1>2, <1>6, <1>7, QueuedKeeps

\* A step of somebody else.
LEMMA StutterKeeps ==
    ASSUME SupervisorInvariant, UNCHANGED vars
    PROVE  SupervisorInvariant'
<1>1. /\ UNCHANGED runtime
      /\ UNCHANGED <<placement, machine, config, token, changes, steps, pc, desired, next, prepared,
                     arrangement, releasing, startedUnder, stopped, closing, lease, grant, synced>>
  BY DEF vars, choices, running, arranged
<1>2. OwnTypes'
  BY <1>1, PartsAre, OwnFrame
<1>3. closed' = closed /\ (Waits("daemon")' <=> Waits("daemon"))
  BY <1>1, SameRuntime
<1>4. SupervisorAt' /\ ClosingAt'
  BY <1>1, <1>3, PartsAre DEF SupervisorAt, ClosingAt
<1> QED
  BY <1>1, <1>2, <1>4, OnlyPlans

-----------------------------------------------------------------------------
(* The invariant holds.                                                    *)

\* A daemon that starts.
LEMMA SupervisorInitInvariant == SupervisorInit => SupervisorInvariant
<1> SUFFICES ASSUME SupervisorInit PROVE SupervisorInvariant
  OBVIOUS
<1>1. RuntimeInvariant /\ RuntimeInit
  BY RuntimeInitInvariant DEF SupervisorInit
<1>2. calls = <<>> /\ DOMAIN calls = {} /\ active = 0 /\ stage = "none" /\ closed = FALSE
  BY <1>1 DEF RuntimeInit
<1>3. (\A d, p : ~ AskedBy(d, p)) /\ (\A d : ~ Waits(d))
  BY <1>2 DEF AskedBy, Waits
<1>4. /\ steps = <<"reconcile">> /\ pc = "none" /\ desired = "idle" /\ next = "end" /\ arrangement = "idle"
      /\ lease = NoLease /\ releasing = FALSE /\ startedUnder = 0
      /\ grant = [epoch |-> 0, mine |-> FALSE] /\ synced = TRUE /\ stopped = FALSE /\ closing = "no"
      /\ changes = 0 /\ prepared = Prepared(config, token)
      /\ placement \in Placements /\ machine \in BOOLEAN /\ config \in {"none", "remote"}
      /\ token \in {"ok", "absent"}
  BY DEF SupervisorInit
<1>5. steps \in Seq({"reconcile", "apply", "watched", "stop"})
      /\ steps # <<>> /\ \A i \in DOMAIN steps : steps[i] = "reconcile"
  BY <1>4
<1>6. 0 \in 0 .. MaxGrants /\ 0 \in 0 .. MaxChanges
  BY AgentSupervisorAssumption
<1>7. prepared \in {"none", "noclient", "client"}
  BY <1>4 DEF Prepared
<1>8. OwnTypes
  BY <1>4, <1>5, <1>6, <1>7 DEF OwnTypes, Arrangements
<1>9. /\ lease.kind = "stopped" /\ lease.epoch = 0 /\ lease.stopped = TRUE /\ lease.step = "none"
      /\ lease \in LeaseRecord /\ grant \in GrantRecord /\ grant.mine = FALSE
  BY <1>4, <1>6 DEF NoLease, LeaseRecord, GrantRecord
<1>10. LeaseTypes
  BY <1>4, <1>6, <1>9 DEF LeaseTypes
<1>11. SupervisorTypeOK
  BY <1>1, <1>8, <1>10, TypesApart DEF RuntimeInvariant
<1>12. SupervisorAt
  BY <1>4, <1>5 DEF SupervisorAt, Leaves
<1>13. LeaseAt /\ GrantAt
  BY <1>4, <1>9 DEF LeaseAt, GrantAt
<1>14. CallsAt
  BY <1>3 DEF CallsAt
<1>15. RunsEntitled /\ WoundUp
  BY <1>2, <1>9 DEF RunsEntitled, WoundUp
<1>16. ClosingAt
  BY <1>4, <1>5 DEF ClosingAt
<1> QED
  BY <1>1, <1>11, <1>12, <1>13, <1>14, <1>15, <1>16 DEF SupervisorInvariant

\* Every step keeps the supervisor's invariant.
LEMMA SupervisorStep == SupervisorInvariant /\ [SupervisorNext]_vars => SupervisorInvariant'
<1> SUFFICES ASSUME SupervisorInvariant, [SupervisorNext]_vars
             PROVE  SupervisorInvariant'
  OBVIOUS
<1>1. CASE Supervisor \/ LeaseSteps \/ Lapses
  BY <1>1, SupervisorKeeps, LeaseStepsKeep
<1>2. CASE Daemon
  BY <1>2, RuntimeKeeps, StartRuntimeKeeps, ShutdownRuntimeKeeps, ClosedKeeps DEF Daemon
<1>3. CASE User
  BY <1>3, SetPlacementKeeps, SetMachineKeeps, SetSyncKeeps, ShutdownKeeps DEF User
<1>4. CASE HolderSeen
  BY <1>4, HolderSeenKeeps
<1>5. CASE UNCHANGED vars
  BY <1>5, StutterKeeps
<1> QED
  BY <1>1, <1>2, <1>3, <1>4, <1>5 DEF SupervisorNext

\* The invariant holds.
LEMMA SupervisorHolds == SupervisorSpec => []SupervisorInvariant
BY SupervisorInitInvariant, SupervisorStep, PTL DEF SupervisorSpec

-----------------------------------------------------------------------------
(* What the invariant promises.                                            *)

\* Who is entitled runs alone or has a fence.
LEMMA EntitledIsFenced ==
    ASSUME SupervisorInvariant, Entitled
    PROVE  arrangement = "standalone" \/ Fence # 0
BY PartsAre DEF Entitled, Fence, GrantAt

\* The agent that runs is entitled to.
LEMMA EntitledHolds ==
    ASSUME SupervisorInvariant
    PROVE  AgentIsEntitled
<1>1. CASE active # 0 /\ ~ Leaving
  BY <1>1, EntitledIsFenced, PartsAre DEF RunsEntitled, AgentIsEntitled
<1>2. CASE stage = "creating"
  <2>1. Running("activate") /\ calls # <<>>
    BY <1>2, PartsAre DEF RuntimeInvariant, StageSaysWhat, Running
  <2>2. calls \in Seq(CallRecord)
    BY PartsAre DEF RuntimeTypeOK, CallRecord
  <2>3. 1 \in DOMAIN calls /\ Head(calls) = calls[1]
    BY <2>1, <2>2, TailAt
  <2>4. Asked("activate")
    BY <2>1, <2>3 DEF Running, Asked
  <2>5. ~ NobodyActivates
    BY <2>4, PartsAre, AskerWaits DEF NobodyActivates
  <2> QED
    BY <2>5, ActivationEntitled, EntitledIsFenced DEF AgentIsEntitled
<1> QED
  BY <1>1, <1>2 DEF AgentIsEntitled

\* A held lease is released after the agent.
LEMMA ReleasedHolds ==
    ASSUME SupervisorInvariant
    PROVE  ReleasedAfterTheAgent
<1> SUFFICES ASSUME lease.step = "releasing", lease.epoch # 0
             PROVE  synced /\ \A i \in DOMAIN stacks : ~ Alive(i)
  BY DEF ReleasedAfterTheAgent
<1>1. ~ Waits("lease")
  BY PartsAre DEF CallsAt
<1>2. active = 0 /\ stage = "none" /\ synced
  BY <1>1, PartsAre DEF WoundUp
<1> QED
  BY <1>2, PartsAre DEF RuntimeInvariant, OnlyTheLast

\* A fence is a grant the service still has.
LEMMA FenceHolds ==
    ASSUME SupervisorInvariant
    PROVE  FenceIsGranted
BY PartsAre DEF FenceIsGranted, Fence, GrantAt

\* Nothing is left after the shutdown.
LEMMA NothingLeftHolds ==
    ASSUME SupervisorInvariant
    PROVE  NothingLeft
<1> SUFFICES ASSUME closing = "done"
             PROVE  /\ calls = <<>> /\ \A i \in DOMAIN stacks : ~ Alive(i)
                    /\ lease.kind = "stopped" /\ lease.step = "none"
  BY DEF NothingLeft
<1>1. /\ closed /\ (\A i \in DOMAIN steps : steps[i] # "stop") /\ stopped
      /\ arrangement = "idle" /\ pc = "none" /\ ~ Waits("daemon")
  BY PartsAre DEF ClosingAt
<1>2. lease.kind = "stopped" /\ lease.step = "none"
  BY <1>1, PartsAre DEF SupervisorAt, LeaseAt
<1>3. ~ Waits("supervisor") /\ ~ Waits("lease")
  BY <1>1, <1>2, PartsAre DEF CallsAt
<1>4. \A d : ~ Waits(d)
  BY <1>1, <1>3, PartsAre, AskerWaits, AgentSupervisorAssumption
<1>5. calls = <<>>
  <2>1. calls \in Seq(CallRecord)
    BY PartsAre DEF RuntimeTypeOK, CallRecord
  <2>2. calls # <<>> => 1 \in DOMAIN calls
    BY <2>1, TailAt
  <2> QED
    BY <1>4, <2>2 DEF Waits
<1>6. stage = "none" /\ ~ Asked("stop")
  BY <1>5, PartsAre DEF RuntimeTypeOK, Asked
<1>7. active = 0
  BY <1>1, <1>6, PartsAre DEF RuntimeInvariant, StoppedForGood
<1> QED
  BY <1>2, <1>5, <1>6, <1>7, PartsAre DEF RuntimeInvariant, OnlyTheLast

\* AgentSupervisor: whatever the user changes and however the service answers, the
\* agent runs only where it is entitled to, its lease is released only after it
\* stopped, a fence is one the service has granted, and a shutdown leaves nothing.
THEOREM SupervisorIsRight ==
    SupervisorSpec => [](/\ SupervisorTypeOK /\ AgentIsEntitled /\ ReleasedAfterTheAgent
                         /\ FenceIsGranted /\ NothingLeft)
<1> DEFINE Promise == /\ SupervisorTypeOK /\ AgentIsEntitled /\ ReleasedAfterTheAgent
                      /\ FenceIsGranted /\ NothingLeft
<1>1. SupervisorInvariant => Promise
  BY EntitledHolds, ReleasedHolds, FenceHolds, NothingLeftHolds DEF SupervisorInvariant
<1> HIDE DEF Promise
<1>2. SupervisorSpec => []Promise
  BY <1>1, SupervisorHolds, PTL
<1> QED
  BY <1>2 DEF Promise

-----------------------------------------------------------------------------
(* The arrangement follows the choices.                                    *)

\* A step that decides.
Decides(i) == steps[i] \in {"reconcile", "apply"}

\* A step that decides comes next.
LEMMA LaterInTail ==
    ASSUME steps \in Seq(StepNames), steps # <<>>, steps' = Tail(steps), pc' = "none",
           NEW i \in DOMAIN steps, i > 1, Decides(i)
    PROVE  Later'
<1>1. /\ DOMAIN steps = 1 .. Len(steps) /\ Len(steps) \in Nat /\ DOMAIN steps' = 1 .. Len(steps) - 1
      /\ \A j \in 1 .. Len(steps) - 1 : steps'[j] = steps[j + 1]
  BY TailAt
<1>2. i - 1 \in DOMAIN steps' /\ steps'[i - 1] = steps[i]
  BY <1>1
<1> QED
  BY <1>2 DEF Later, Decides

\* A change queues a step that decides.
LEMMA LaterQueued ==
    ASSUME steps \in Seq(StepNames), NEW s \in {"reconcile", "apply"}, steps' = Append(steps, s),
           pc' = pc, pc # "none" => steps # <<>>
    PROVE  Later'
<1>1. s \in StepNames
  BY DEF StepNames
<1>2. Len(steps) + 1 \in DOMAIN steps' /\ steps'[Len(steps) + 1] = s
  BY <1>1, StepAdded
<1>3. steps # <<>> => Len(steps) + 1 > 1
  OBVIOUS
<1> QED
  BY <1>2, <1>3 DEF Later

\* A step that changes none of what the supervisor decides from.
LEMMA ChoicesFrame ==
    ASSUME ChoicesFollowed, UNCHANGED <<placement, machine, token, steps, pc, desired, next, prepared,
                                        arrangement, stopped>>
    PROVE  ChoicesFollowed'
BY DEF ChoicesFollowed, Later, Follows, Desired, Effective

\* What applies depends on these alone.
LEMMA SameDesired ==
    ASSUME UNCHANGED <<placement, machine, prepared>>
    PROVE  Desired' = Desired
BY DEF Desired, Effective

\* The running step is the first of the queue.
LEMMA HeadAt ==
    ASSUME SupervisorInvariant, steps # <<>>
    PROVE  1 \in DOMAIN steps /\ Head(steps) = steps[1] /\ \A i \in DOMAIN steps : i # 1 => i > 1
<1>1. DOMAIN steps = 1 .. Len(steps) /\ Len(steps) \in Nat /\ Len(steps) > 0 /\ Head(steps) = steps[1]
  BY PartsAre, TailAt
<1> QED
  BY <1>1

\* The step stop() queued runs after stop() was called.
LEMMA StopMeansStopped ==
    ASSUME SupervisorInvariant, steps # <<>>, Head(steps) = "stop"
    PROVE  stopped
BY HeadAt, PartsAre DEF ClosingAt

\* The steps of the supervisor follow the choices.
LEMMA SupervisorFollows ==
    ASSUME SupervisorInvariant, ChoicesFollowed, Supervisor
    PROVE  ChoicesFollowed'
<1>0. /\ UNCHANGED <<placement, machine, config, token, stopped>>
      /\ token # "bad" /\ (stopped \/ Later \/ Follows) /\ steps # <<>>
  <2>1. UNCHANGED <<placement, machine, config, token, stopped>>
    BY DEF Supervisor, Reconcile, LeaveFirst, LetGo, Pushed, Left, Configured, Entered, Watched,
       choices, arranged
  <2>2. steps # <<>>
    BY PartsAre DEF Supervisor, Reconcile, LeaveFirst, LetGo, Pushed, Left, Configured, Entered,
       Watched, At,
       SupervisorAt
  <2> QED
    BY <2>1, <2>2 DEF ChoicesFollowed
<1>1. CASE Reconcile
  <2>1. prepared' = prepared
    BY <1>1 DEF Reconcile
  <2>2. CASE EndStep /\ UNCHANGED arrangement /\ (stopped \/ arrangement = Desired)
    BY <1>0, <2>1, <2>2, SameDesired DEF EndStep, ChoicesFollowed, Follows, Leaves
  <2>3. CASE desired' = Desired /\ Leave("enter")
    <3>1. pc' \in Leaves /\ next' = "enter"
      BY <2>3 DEF Leave, Leaves
    <3> QED
      BY <1>0, <2>1, <2>3, <3>1, SameDesired DEF ChoicesFollowed, Follows, Leaves
  <2> QED
    BY <1>1, <2>2, <2>3 DEF Reconcile, Decide
<1>2. CASE LeaveFirst("apply", "configure")
  <2>1. pc' \in Leaves /\ next' = "configure" /\ Head(steps) = "apply" /\ steps' = steps
    BY <1>2 DEF LeaveFirst, Leave, Leaves, At
  <2> QED
    BY <1>0, <2>1, HeadAt DEF ChoicesFollowed, Later
<1>3. CASE LeaveFirst("stop", "end")
  BY <1>0, <1>3, StopMeansStopped DEF LeaveFirst, At, ChoicesFollowed
<1>4. CASE LetGo \/ Pushed
  <2>1. /\ pc \in Leaves /\ pc' \in Leaves
        /\ UNCHANGED <<steps, desired, next, prepared, arrangement>>
    BY <1>4 DEF LetGo, Pushed, Leaves, arranged
  <2> QED
    BY <1>0, <2>1, SameDesired DEF ChoicesFollowed, Later, Follows, Leaves
<1>5. CASE Left
  <2>1. pc = "off" /\ pc \in Leaves
    BY <1>5 DEF Left, Leaves
  <2>2. CASE next = "end"
    BY <1>0, <2>1, <2>2, PartsAre, StopMeansStopped DEF SupervisorAt, ChoicesFollowed
  <2>3. CASE next = "configure"
    <3>1. Head(steps) = "apply" /\ pc' = "configuring" /\ steps' = steps
      BY <1>5, <2>1, <2>3, PartsAre DEF Left, SupervisorAt
    <3> QED
      BY <1>0, <3>1, HeadAt DEF ChoicesFollowed, Later
  <2>4. CASE next = "enter"
    <3>1. /\ pc' = IF desired = "lease" THEN "before the lease" ELSE "entering"
          /\ arrangement' = IF desired = "lease" THEN "idle" ELSE desired
          /\ UNCHANGED <<steps, desired, next, prepared>>
      BY <1>5, <2>4 DEF Left
    <3>2. Later => Later'
      BY <2>1, <2>4, <3>1 DEF Later
    <3>3. Follows => Follows'
      BY <1>0, <2>1, <3>1, SameDesired DEF Follows, Leaves
    <3> QED
      BY <1>0, <3>2, <3>3 DEF ChoicesFollowed
  <2> QED
    BY <2>2, <2>3, <2>4, PartsAre DEF OwnTypes
<1>6. CASE Configured
  <2>1. pc = "configuring" /\ pc' = "deciding" /\ steps' = steps
    BY <1>0, <1>6 DEF Configured
  <2>2. Head(steps) = "apply"
    BY <2>1, PartsAre DEF SupervisorAt
  <2> QED
    BY <1>0, <2>1, <2>2, HeadAt DEF ChoicesFollowed, Later
<1>7. CASE Entered
  <2>1. /\ pc \in {"entering", "before the lease"} /\ pc' = "none" /\ steps' = Tail(steps)
        /\ prepared' = prepared
        /\ arrangement' = IF pc = "entering" THEN arrangement ELSE "lease"
    BY <1>7 DEF Entered, EndStep
  <2>2. CASE Later
    <3>1. PICK i \in DOMAIN steps : Decides(i) /\ i > 1
      BY <2>1, <2>2 DEF Later, Leaves, Decides
    <3> QED
      BY <1>0, <2>1, <3>1, PartsAre, LaterInTail DEF ChoicesFollowed
  <2>3. CASE Follows
    BY <1>0, <2>1, <2>3, SameDesired DEF ChoicesFollowed, Follows, Leaves
  <2> QED
    BY <1>0, <2>2, <2>3 DEF ChoicesFollowed
<1>8. CASE Watched
  <2>1. /\ pc = "none" /\ Head(steps) = "watched" /\ prepared' = prepared /\ arrangement' = arrangement
        /\ \/ pc' = "entering" /\ steps' = steps
           \/ pc' = "none" /\ steps' = Tail(steps)
    BY <1>8 DEF Watched, At, EndStep, arranged
  <2>2. CASE Later
    <3>1. PICK i \in DOMAIN steps : Decides(i)
      BY <2>2 DEF Later, Decides
    <3>2. i > 1
      BY <1>0, <2>1, <3>1, HeadAt DEF Decides
    <3>3. CASE steps' = steps
      BY <3>1, <3>2, <3>3, <1>0 DEF ChoicesFollowed, Later, Decides
    <3>4. CASE pc' = "none" /\ steps' = Tail(steps)
      BY <1>0, <3>1, <3>2, <3>4, PartsAre, LaterInTail DEF ChoicesFollowed
    <3> QED
      BY <2>1, <3>3, <3>4
  <2>3. CASE Follows
    BY <1>0, <2>1, <2>3, SameDesired DEF ChoicesFollowed, Follows, Leaves
  <2> QED
    BY <1>0, <2>2, <2>3 DEF ChoicesFollowed
<1> QED
  BY <1>1, <1>2, <1>3, <1>4, <1>5, <1>6, <1>7, <1>8 DEF Supervisor

\* Every step leaves a decision that applies, or one to come.
LEMMA ChoicesStep ==
    ASSUME "bad" \notin Tokens
    PROVE  SupervisorInvariant /\ ChoicesFollowed /\ [SupervisorNext]_vars => ChoicesFollowed'
<1> SUFFICES ASSUME SupervisorInvariant, ChoicesFollowed, [SupervisorNext]_vars
             PROVE  ChoicesFollowed'
  OBVIOUS
<1>0. /\ steps \in Seq(StepNames) /\ (pc # "none" => steps # <<>>)
      /\ token # "bad" /\ (stopped \/ Later \/ Follows)
  BY PartsAre DEF SupervisorAt, ChoicesFollowed
<1>1. CASE Supervisor
  BY <1>1, SupervisorFollows
<1>2. CASE LeaseSteps \/ Lapses \/ Runtime \/ StartRuntime \/ ShutdownRuntime \/ Closed \/ UNCHANGED vars
  <2>1. UNCHANGED <<choices, running, prepared, arrangement, stopped>>
    BY <1>2 DEF LeaseSteps, Lapses, Runtime, StartRuntime, ShutdownRuntime, Closed, vars, LeaseOnly,
       arranged,
       Ask, NotRenewed, Pulled, Activated, AgentStopped, WoundDown, Passed, Released, StopLease, LeaseGranted,
       Unavailable
  <2> QED
    BY <2>1, ChoicesFrame DEF choices, running
<1>3. ASSUME NEW p \in Placements, SetPlacement(p)
      PROVE  ChoicesFollowed'
  <2>1. /\ UNCHANGED <<token, stopped, pc>>
        /\ steps' = IF stopped THEN steps ELSE Append(steps, "reconcile")
    BY <1>3 DEF SetPlacement, Queue, arranged
  <2> QED
    BY <1>0, <2>1, LaterQueued DEF ChoicesFollowed
<1>4. CASE SetMachine
  <2>1. /\ UNCHANGED <<token, stopped, pc>>
        /\ steps' = IF stopped THEN steps ELSE Append(steps, "reconcile")
    BY <1>4 DEF SetMachine, Queue, arranged
  <2> QED
    BY <1>0, <2>1, LaterQueued DEF ChoicesFollowed
<1>5. ASSUME NEW c \in {"none", "remote"}, NEW t \in Tokens, SetSync(c, t)
      PROVE  ChoicesFollowed'
  <2>1. UNCHANGED <<stopped, pc>> /\ steps' = Append(steps, "apply") /\ token' # "bad"
    BY <1>5 DEF SetSync, arranged
  <2> QED
    BY <1>0, <2>1, LaterQueued DEF ChoicesFollowed
<1>6. CASE Shutdown
  BY <1>0, <1>6 DEF Shutdown, ChoicesFollowed, choices
<1>7. CASE HolderSeen
  <2>1. /\ UNCHANGED <<placement, machine, token, pc, desired, next, prepared, arrangement, stopped>>
        /\ steps' = Append(steps, "watched")
    BY <1>7 DEF HolderSeen, choices, arranged
  <2>2. \A i \in DOMAIN steps : i \in DOMAIN steps' /\ steps'[i] = steps[i]
    BY <1>0, <2>1, StepAdded DEF StepNames
  <2>3. Later => Later'
    BY <2>1, <2>2 DEF Later
  <2>4. Follows => Follows'
    BY <2>1, SameDesired DEF Follows
  <2> QED
    BY <1>0, <2>1, <2>3, <2>4 DEF ChoicesFollowed
<1> QED
  BY <1>1, <1>2, <1>3, <1>4, <1>5, <1>6, <1>7 DEF SupervisorNext, Daemon, User

\* The first step has yet to decide.
LEMMA ChoicesInit == SupervisorInit => ChoicesFollowed
<1> SUFFICES ASSUME SupervisorInit PROVE ChoicesFollowed
  OBVIOUS
<1>1. steps = <<"reconcile">> /\ pc = "none" /\ token \in {"ok", "absent"}
  BY DEF SupervisorInit
<1>2. 1 \in DOMAIN steps /\ steps[1] = "reconcile"
  BY <1>1
<1> QED
  BY <1>1, <1>2 DEF ChoicesFollowed, Later

\* With no step left, the choices are settled on.
LEMMA SettledHolds ==
    ASSUME SupervisorInvariant, ChoicesFollowed
    PROVE  SettlesOnTheChoices
<1> SUFFICES ASSUME steps = <<>>, ~ stopped
             PROVE  arrangement = Desired
  BY DEF SettlesOnTheChoices
<1>1. pc = "none"
  BY PartsAre DEF SupervisorAt
<1>2. ~ Later
  BY DEF Later
<1> QED
  BY <1>1, <1>2 DEF ChoicesFollowed, Follows

\* All promises of the supervisor together.  A token file that is there but can't
\* be read has applySync fail and the arrangement idle; the last promise, that the
\* arrangement is the one the choices ask for, is of readable ones.
THEOREM SupervisorRunsWhereItShould ==
    ASSUME "bad" \notin Tokens
    PROVE  SupervisorSpec => []AgentRunsWhereItShould
<1>1. SupervisorInvariant /\ ChoicesFollowed => AgentRunsWhereItShould
  BY EntitledHolds, ReleasedHolds, FenceHolds, NothingLeftHolds, SettledHolds
     DEF SupervisorInvariant, AgentRunsWhereItShould
<1>2. SupervisorInvariant /\ ChoicesFollowed /\ [SupervisorNext]_vars => ChoicesFollowed'
  BY ChoicesStep
<1> QED
  BY <1>1, <1>2, ChoicesInit, SupervisorHolds, PTL DEF SupervisorSpec

-----------------------------------------------------------------------------
(* The machine a device is paired with.                                    *)

\* The credential each request of a client has to do with: one that a machine
\* issued to it, or the one it is to revoke, at the machine that issued it.
CallsTokens ==
    \A c \in Request :
        /\ call[c].at = "asking" => call[c].to \in Machine
        /\ call[c].at = "asking" /\ call[c].token # None => issuer[call[c].token] = call[c].to
        /\ call[c].at \in {"writing", "settling"} =>
              /\ call[c].to \in Machine /\ call[c].token # None
              /\ issuer[call[c].token] = call[c].to
        /\ call[c].at = "revoking" =>
              /\ call[c].to \in Machine /\ call[c].token # None
              /\ issuer[call[c].token] = call[c].to

\* A credential that is kept, told or checked was issued, and the one told or
\* checked by the machine it is told of, or checked at.
KeptTokens ==
    /\ stored # None => issuer[stored] \in Machine
    /\ told # None => chosen \in Machine /\ issuer[told] = chosen
    /\ checking.token # None => checking.url \in Machine /\ issuer[checking.token] = checking.url

\* Who listens is told, unless a pairing ended halfway: its settings could not be saved.
IsTold == ~ SettingsFail => ListenersKnow

PairingInvariant ==
    PairingTypeOK /\ CallsTokens /\ KeptTokens /\ RestartKeepsIt /\ IsTold

\* None is no credential.
LEMMA NoneIsNoToken == None \notin Token
  BY DEF None, Token

\* The credential for a machine is the one there is, or none.
LEMMA CredentialIs ==
    ASSUME NEW m, NEW t \in Token \cup {None}
    PROVE  /\ Credential(m, t) \in Token \cup {None}
           /\ Credential(m, t) # None =>
                 /\ Credential(m, t) = t /\ t # None
                 /\ m # NoMachine /\ issuer[t] = m
           /\ Credential(m, None) = None
  BY NoneIsNoToken DEF Credential, IssuerOf

LEMMA PairingStarts == PairingInit => PairingInvariant
<1> SUFFICES ASSUME PairingInit PROVE PairingInvariant
  OBVIOUS
<1>1. PairingTypeOK
  BY DEF PairingInit, PairingTypeOK, Idle, NoCheck, Outcomes, Machines
<1>2. CallsTokens
  BY DEF PairingInit, CallsTokens, Idle
<1>3. KeptTokens
  BY DEF PairingInit, KeptTokens, NoCheck
<1>4. RestartKeepsIt /\ IsTold
  BY DEF PairingInit, RestartKeepsIt, IsTold, ListenersKnow, Current, Credential, IssuerOf
<1> QED
  BY <1>1, <1>2, <1>3, <1>4 DEF PairingInvariant

\* Credentials keep their issuer: so does the one there is.
LEMMA SameCurrent ==
    ASSUME PairingTypeOK, KeptTokens, UNCHANGED <<chosen, stored>>,
           \A u \in Token : issuer[u] # NoMachine => issuer'[u] = issuer[u]
    PROVE  Current' = Current
<1>1. stored # None => issuer[stored] # NoMachine /\ stored \in Token
  BY PairingAssumptions DEF PairingTypeOK, KeptTokens
<1>2. issuer'[stored] = issuer[stored] \/ stored = None
  BY <1>1
<1> QED
  BY <1>2 DEF Current, Credential, IssuerOf

\* Who listens is up to date as long as nothing is settled and nothing kept is new.
LEMMA SameListeners ==
    ASSUME PairingInvariant, UNCHANGED <<chosen, stored, tokenFile, told>>,
           \A u \in Token : issuer[u] # NoMachine => issuer'[u] = issuer[u],
           \A c \in Request : call[c].at = "settling" => call'[c].at = "settling"
    PROVE  RestartKeepsIt' /\ IsTold'
<1>1. Current' = Current
  BY SameCurrent DEF PairingInvariant
<1> QED
  BY <1>1 DEF PairingInvariant, RestartKeepsIt, IsTold, ListenersKnow

\* Every step keeps the credentials where they belong.
LEMMA PairingStep == PairingInvariant /\ [PairingNext]_pairingVars => PairingInvariant'
<1> SUFFICES ASSUME PairingInvariant, [PairingNext]_pairingVars PROVE PairingInvariant'
  OBVIOUS
<1> USE NoneIsNoToken, PairingAssumptions
<1>0. PairingTypeOK /\ CallsTokens /\ KeptTokens /\ RestartKeepsIt /\ IsTold
  BY DEF PairingInvariant
<1>1. ASSUME NEW c \in Request, Check(c)
      PROVE  PairingInvariant'
  <2>1. PairingTypeOK'
    BY <1>0, <1>1, CredentialIs DEF PairingTypeOK, Check, CheckOnce, To, Current, Outcomes, Machines
  <2>2. CallsTokens'
    BY <1>0, <1>1, CredentialIs DEF PairingTypeOK, CallsTokens, KeptTokens, Check, CheckOnce, To,
       Current, Outcomes, Machines
  <2>3. KeptTokens'
    BY <1>0, <1>1, CredentialIs DEF PairingTypeOK, CallsTokens, KeptTokens, RestartKeepsIt,
       Machines, Check, CheckOnce, To, Current, Outcomes
  <2>4. RestartKeepsIt' /\ IsTold'
    <3>1. /\ UNCHANGED <<chosen, stored, tokenFile, told>>
          /\ \A u \in Token : issuer[u] # NoMachine => issuer'[u] = issuer[u]
      BY <1>0, <1>1 DEF Check, CheckOnce, To, Current, Outcomes, PairingTypeOK
    <3>2. \A e \in Request : call[e].at = "settling" => call'[e].at = "settling"
      BY <1>0, <1>1 DEF Check, CheckOnce, To, Current, Outcomes, PairingTypeOK
    <3> QED
      BY <1>0, <3>1, <3>2, SameListeners DEF PairingInvariant
  <2> QED
    BY <2>1, <2>2, <2>3, <2>4 DEF PairingInvariant
<1>2. ASSUME Checked
      PROVE  PairingInvariant'
  <2>1. PairingTypeOK'
    BY <1>0, <1>2, CredentialIs DEF PairingTypeOK, Checked, NoCheck, Outcomes, Machines
  <2>2. CallsTokens'
    BY <1>0, <1>2, CredentialIs DEF PairingTypeOK, CallsTokens, KeptTokens, Checked, NoCheck,
       Outcomes, Machines
  <2>3. KeptTokens'
    BY <1>0, <1>2, CredentialIs DEF PairingTypeOK, CallsTokens, KeptTokens, RestartKeepsIt,
       Machines, Checked, NoCheck, Outcomes
  <2>4. RestartKeepsIt' /\ IsTold'
    <3>1. /\ UNCHANGED <<chosen, stored, tokenFile, told>>
          /\ \A u \in Token : issuer[u] # NoMachine => issuer'[u] = issuer[u]
      BY <1>0, <1>2 DEF Checked, NoCheck, Outcomes, PairingTypeOK
    <3>2. \A e \in Request : call[e].at = "settling" => call'[e].at = "settling"
      BY <1>0, <1>2 DEF Checked, NoCheck, Outcomes, PairingTypeOK
    <3> QED
      BY <1>0, <3>1, <3>2, SameListeners DEF PairingInvariant
  <2> QED
    BY <2>1, <2>2, <2>3, <2>4 DEF PairingInvariant
<1>3. ASSUME NEW c \in Request, Waited(c)
      PROVE  PairingInvariant'
  <2>1. PairingTypeOK'
    BY <1>0, <1>3, CredentialIs DEF PairingTypeOK, Waited, Idle, Machines
  <2>2. CallsTokens'
    BY <1>0, <1>3, CredentialIs DEF PairingTypeOK, CallsTokens, KeptTokens, Waited, Idle, Machines
  <2>3. KeptTokens'
    BY <1>0, <1>3, CredentialIs DEF PairingTypeOK, CallsTokens, KeptTokens, RestartKeepsIt,
       Machines, Waited, Idle
  <2>4. RestartKeepsIt' /\ IsTold'
    <3>1. /\ UNCHANGED <<chosen, stored, tokenFile, told>>
          /\ \A u \in Token : issuer[u] # NoMachine => issuer'[u] = issuer[u]
      BY <1>0, <1>3 DEF Waited, Idle, PairingTypeOK
    <3>2. \A e \in Request : call[e].at = "settling" => call'[e].at = "settling"
      BY <1>0, <1>3 DEF Waited, Idle, PairingTypeOK
    <3> QED
      BY <1>0, <3>1, <3>2, SameListeners DEF PairingInvariant
  <2> QED
    BY <2>1, <2>2, <2>3, <2>4 DEF PairingInvariant
<1>4. ASSUME NEW c \in Request, NEW m \in Machine, Pair(c, m)
      PROVE  PairingInvariant'
  <2>1. PairingTypeOK'
    BY <1>0, <1>4, CredentialIs DEF PairingTypeOK, Pair, Idle, Machines
  <2>2. CallsTokens'
    BY <1>0, <1>4, CredentialIs DEF PairingTypeOK, CallsTokens, KeptTokens, Pair, Idle, Machines
  <2>3. KeptTokens'
    BY <1>0, <1>4, CredentialIs DEF PairingTypeOK, CallsTokens, KeptTokens, RestartKeepsIt,
       Machines, Pair, Idle
  <2>4. RestartKeepsIt' /\ IsTold'
    <3>1. /\ UNCHANGED <<chosen, stored, tokenFile, told>>
          /\ \A u \in Token : issuer[u] # NoMachine => issuer'[u] = issuer[u]
      BY <1>0, <1>4 DEF Pair, Idle, PairingTypeOK
    <3>2. \A e \in Request : call[e].at = "settling" => call'[e].at = "settling"
      BY <1>0, <1>4 DEF Pair, Idle, PairingTypeOK
    <3> QED
      BY <1>0, <3>1, <3>2, SameListeners DEF PairingInvariant
  <2> QED
    BY <2>1, <2>2, <2>3, <2>4 DEF PairingInvariant
<1>5. ASSUME NEW c \in Request, Issues(c)
      PROVE  PairingInvariant'
  <2>1. PairingTypeOK'
    BY <1>0, <1>5, CredentialIs DEF PairingTypeOK, Issues, Issued, Machines
  <2>2. CallsTokens'
    BY <1>0, <1>5, CredentialIs DEF PairingTypeOK, CallsTokens, KeptTokens, Issues, Issued, Machines
  <2>3. KeptTokens'
    BY <1>0, <1>5, CredentialIs DEF PairingTypeOK, CallsTokens, KeptTokens, RestartKeepsIt,
       Machines, Issues, Issued
  <2>4. RestartKeepsIt' /\ IsTold'
    <3>1. /\ UNCHANGED <<chosen, stored, tokenFile, told>>
          /\ \A u \in Token : issuer[u] # NoMachine => issuer'[u] = issuer[u]
      BY <1>0, <1>5 DEF Issues, Issued, PairingTypeOK
    <3>2. \A e \in Request : call[e].at = "settling" => call'[e].at = "settling"
      BY <1>0, <1>5 DEF Issues, Issued, PairingTypeOK
    <3> QED
      BY <1>0, <3>1, <3>2, SameListeners DEF PairingInvariant
  <2> QED
    BY <2>1, <2>2, <2>3, <2>4 DEF PairingInvariant
<1>6. ASSUME NEW c \in Request, Answered(c)
      PROVE  PairingInvariant'
  <2>1. PairingTypeOK'
    BY <1>0, <1>6, CredentialIs DEF PairingTypeOK, Answered, To, Machines
  <2>2. CallsTokens'
    BY <1>0, <1>6, CredentialIs DEF PairingTypeOK, CallsTokens, KeptTokens, Answered, To, Machines
  <2>3. KeptTokens'
    BY <1>0, <1>6, CredentialIs DEF PairingTypeOK, CallsTokens, KeptTokens, RestartKeepsIt,
       Machines, Answered, To
  <2>4. RestartKeepsIt' /\ IsTold'
    <3>1. /\ UNCHANGED <<chosen, stored, tokenFile, told>>
          /\ \A u \in Token : issuer[u] # NoMachine => issuer'[u] = issuer[u]
      BY <1>0, <1>6 DEF Answered, To, PairingTypeOK
    <3>2. \A e \in Request : call[e].at = "settling" => call'[e].at = "settling"
      BY <1>0, <1>6 DEF Answered, To, PairingTypeOK
    <3> QED
      BY <1>0, <3>1, <3>2, SameListeners DEF PairingInvariant
  <2> QED
    BY <2>1, <2>2, <2>3, <2>4 DEF PairingInvariant
<1>7. ASSUME NEW c \in Request, PairFails(c)
      PROVE  PairingInvariant'
  <2>1. PairingTypeOK'
    BY <1>0, <1>7, CredentialIs DEF PairingTypeOK, PairFails, Idle, Machines
  <2>2. CallsTokens'
    BY <1>0, <1>7, CredentialIs DEF PairingTypeOK, CallsTokens, KeptTokens, PairFails, Idle,
       Machines
  <2>3. KeptTokens'
    BY <1>0, <1>7, CredentialIs DEF PairingTypeOK, CallsTokens, KeptTokens, RestartKeepsIt,
       Machines, PairFails, Idle
  <2>4. RestartKeepsIt' /\ IsTold'
    <3>1. /\ UNCHANGED <<chosen, stored, tokenFile, told>>
          /\ \A u \in Token : issuer[u] # NoMachine => issuer'[u] = issuer[u]
      BY <1>0, <1>7 DEF PairFails, Idle, PairingTypeOK
    <3>2. \A e \in Request : call[e].at = "settling" => call'[e].at = "settling"
      BY <1>0, <1>7 DEF PairFails, Idle, PairingTypeOK
    <3> QED
      BY <1>0, <3>1, <3>2, SameListeners DEF PairingInvariant
  <2> QED
    BY <2>1, <2>2, <2>3, <2>4 DEF PairingInvariant
<1>8. ASSUME NEW c \in Request, TokenWritten(c)
      PROVE  PairingInvariant'
  <2>1. PairingTypeOK'
    BY <1>0, <1>8, CredentialIs DEF PairingTypeOK, TokenWritten, To, NoCheck, Outcomes, Machines
  <2>2. CallsTokens'
    BY <1>0, <1>8, CredentialIs DEF PairingTypeOK, CallsTokens, KeptTokens, TokenWritten, To,
       NoCheck, Outcomes, Machines
  <2>3. KeptTokens'
    BY <1>0, <1>8, CredentialIs DEF PairingTypeOK, CallsTokens, KeptTokens, RestartKeepsIt,
       Machines, TokenWritten, To, NoCheck, Outcomes
  <2>4. RestartKeepsIt' /\ IsTold'
    BY <1>0, <1>8 DEF RestartKeepsIt, IsTold, ListenersKnow, Current, Credential, IssuerOf,
       TokenWritten, To, NoCheck, Outcomes, PairingTypeOK
  <2> QED
    BY <2>1, <2>2, <2>3, <2>4 DEF PairingInvariant
<1>9. ASSUME NEW c \in Request, Settled(c)
      PROVE  PairingInvariant'
  <2>1. PairingTypeOK'
    BY <1>0, <1>9, CredentialIs DEF PairingTypeOK, Settled, To, Outcomes, Machines
  <2>2. CallsTokens'
    BY <1>0, <1>9, CredentialIs DEF PairingTypeOK, CallsTokens, KeptTokens, Settled, To, Outcomes,
       Machines
  <2>3. KeptTokens'
    BY <1>0, <1>9, CredentialIs DEF PairingTypeOK, CallsTokens, KeptTokens, RestartKeepsIt,
       Machines, Settled, To, Outcomes
  <2>4. RestartKeepsIt' /\ IsTold'
    BY <1>0, <1>9 DEF RestartKeepsIt, IsTold, ListenersKnow, Current, Credential, IssuerOf, Settled,
       To, Outcomes, PairingTypeOK
  <2> QED
    BY <2>1, <2>2, <2>3, <2>4 DEF PairingInvariant
<1>10. ASSUME NEW c \in Request, Unpair(c)
      PROVE  PairingInvariant'
  <2>1. PairingTypeOK'
    BY <1>0, <1>10, CredentialIs DEF PairingTypeOK, Unpair, Idle, IssuerOf, Machines
  <2>2. CallsTokens'
    BY <1>0, <1>10, CredentialIs DEF PairingTypeOK, CallsTokens, KeptTokens, Unpair, Idle, IssuerOf,
       Machines
  <2>3. KeptTokens'
    BY <1>0, <1>10, CredentialIs DEF PairingTypeOK, CallsTokens, KeptTokens, RestartKeepsIt,
       Machines, Unpair, Idle, IssuerOf
  <2>4. RestartKeepsIt' /\ IsTold'
    <3>1. /\ UNCHANGED <<chosen, stored, tokenFile, told>>
          /\ \A u \in Token : issuer[u] # NoMachine => issuer'[u] = issuer[u]
      BY <1>0, <1>10 DEF Unpair, Idle, IssuerOf, PairingTypeOK
    <3>2. \A e \in Request : call[e].at = "settling" => call'[e].at = "settling"
      BY <1>0, <1>10 DEF Unpair, Idle, IssuerOf, PairingTypeOK
    <3> QED
      BY <1>0, <3>1, <3>2, SameListeners DEF PairingInvariant
  <2> QED
    BY <2>1, <2>2, <2>3, <2>4 DEF PairingInvariant
<1>11. ASSUME NEW c \in Request, Revoked(c)
      PROVE  PairingInvariant'
  <2>1. PairingTypeOK'
    <3>1. PICK answered \in BOOLEAN :
             call' = [call EXCEPT ![c].at = "removing", ![c].answered = answered]
      BY <1>11 DEF Revoked
    <3>2. valid' \subseteq Token
      BY <1>0, <1>11 DEF Revoked, PairingTypeOK
    <3> DEFINE r == [call[c] EXCEPT !.at = "removing", !.answered = answered]
    <3>3. call' = [call EXCEPT ![c] = r]
      BY <1>0, <3>1 DEF PairingTypeOK
    <3>4. r \in [at : {"removing"}, to : Machines, token : Token \cup {None}, answered : BOOLEAN]
      <4>1. call[c] \in [at : {"idle", "asking", "writing", "settling", "waiting", "revoking", "removing"},
                         to : Machines, token : Token \cup {None}, answered : BOOLEAN]
        BY <1>0, <1>11 DEF PairingTypeOK
      <4> QED
        BY <4>1
    <3> HIDE DEF r
    <3>5. call' \in [Request -> [at : {"idle", "asking", "writing", "settling", "waiting", "revoking",
                                       "removing"},
                                 to : Machines, token : Token \cup {None}, answered : BOOLEAN]]
      BY <1>0, <3>3, <3>4 DEF PairingTypeOK
    <3> QED
      BY <1>0, <1>11, <3>2, <3>5 DEF PairingTypeOK, Revoked
  <2>2. CallsTokens'
    BY <1>0, <1>11, CredentialIs DEF PairingTypeOK, CallsTokens, KeptTokens, Revoked, Machines
  <2>3. KeptTokens'
    BY <1>0, <1>11, CredentialIs DEF PairingTypeOK, CallsTokens, KeptTokens, RestartKeepsIt,
       Machines, Revoked
  <2>4. RestartKeepsIt' /\ IsTold'
    <3>1. /\ UNCHANGED <<chosen, stored, tokenFile, told>>
          /\ \A u \in Token : issuer[u] # NoMachine => issuer'[u] = issuer[u]
      BY <1>0, <1>11 DEF Revoked, PairingTypeOK
    <3>2. \A e \in Request : call[e].at = "settling" => call'[e].at = "settling"
      BY <1>0, <1>11 DEF Revoked, PairingTypeOK
    <3> QED
      BY <1>0, <3>1, <3>2, SameListeners DEF PairingInvariant
  <2> QED
    BY <2>1, <2>2, <2>3, <2>4 DEF PairingInvariant
<1>12. ASSUME NEW c \in Request, Removed(c)
      PROVE  PairingInvariant'
  <2>1. PairingTypeOK'
    BY <1>0, <1>12, CredentialIs DEF PairingTypeOK, Removed, Idle, NoCheck, Outcomes, Machines
  <2>2. CallsTokens'
    BY <1>0, <1>12, CredentialIs DEF PairingTypeOK, CallsTokens, KeptTokens, Removed, Idle, NoCheck,
       Outcomes, Machines
  <2>3. KeptTokens'
    BY <1>0, <1>12, CredentialIs DEF PairingTypeOK, CallsTokens, KeptTokens, RestartKeepsIt,
       Machines, Removed, Idle, NoCheck, Outcomes
  <2>4. RestartKeepsIt' /\ IsTold'
    BY <1>0, <1>12 DEF RestartKeepsIt, IsTold, ListenersKnow, Current, Credential, IssuerOf,
       Removed, Idle, NoCheck, Outcomes, PairingTypeOK
  <2> QED
    BY <2>1, <2>2, <2>3, <2>4 DEF PairingInvariant
<1>13. ASSUME NEW c \in Request, NotRemoved(c)
      PROVE  PairingInvariant'
  <2>1. PairingTypeOK'
    BY <1>0, <1>13, CredentialIs DEF PairingTypeOK, NotRemoved, Idle, Machines
  <2>2. CallsTokens'
    BY <1>0, <1>13, CredentialIs DEF PairingTypeOK, CallsTokens, KeptTokens, NotRemoved, Idle,
       Machines
  <2>3. KeptTokens'
    BY <1>0, <1>13, CredentialIs DEF PairingTypeOK, CallsTokens, KeptTokens, RestartKeepsIt,
       Machines, NotRemoved, Idle
  <2>4. RestartKeepsIt' /\ IsTold'
    <3>1. /\ UNCHANGED <<chosen, stored, tokenFile, told>>
          /\ \A u \in Token : issuer[u] # NoMachine => issuer'[u] = issuer[u]
      BY <1>0, <1>13 DEF NotRemoved, Idle, PairingTypeOK
    <3>2. \A e \in Request : call[e].at = "settling" => call'[e].at = "settling"
      BY <1>0, <1>13 DEF NotRemoved, Idle, PairingTypeOK
    <3> QED
      BY <1>0, <3>1, <3>2, SameListeners DEF PairingInvariant
  <2> QED
    BY <2>1, <2>2, <2>3, <2>4 DEF PairingInvariant
<1>14. ASSUME NEW m \in Machines, ChangeMachine(m)
      PROVE  PairingInvariant'
  <2>1. PairingTypeOK'
    BY <1>0, <1>14, CredentialIs DEF PairingTypeOK, ChangeMachine, Machines
  <2>2. CallsTokens'
    BY <1>0, <1>14, CredentialIs DEF PairingTypeOK, CallsTokens, KeptTokens, ChangeMachine, Machines
  <2>3. KeptTokens'
    BY <1>0, <1>14, CredentialIs DEF PairingTypeOK, CallsTokens, KeptTokens, RestartKeepsIt,
       Machines, ChangeMachine
  <2>4. RestartKeepsIt' /\ IsTold'
    BY <1>0, <1>14 DEF RestartKeepsIt, IsTold, ListenersKnow, Current, Credential, IssuerOf,
       ChangeMachine, PairingTypeOK
  <2> QED
    BY <2>1, <2>2, <2>3, <2>4 DEF PairingInvariant
<1>15. ASSUME NEW t \in Token, RevokesItself(t)
      PROVE  PairingInvariant'
  <2>1. PairingTypeOK'
    BY <1>0, <1>15, CredentialIs DEF PairingTypeOK, RevokesItself, Machines
  <2>2. CallsTokens'
    BY <1>0, <1>15, CredentialIs DEF PairingTypeOK, CallsTokens, KeptTokens, RevokesItself, Machines
  <2>3. KeptTokens'
    BY <1>0, <1>15, CredentialIs DEF PairingTypeOK, CallsTokens, KeptTokens, RestartKeepsIt,
       Machines, RevokesItself
  <2>4. RestartKeepsIt' /\ IsTold'
    <3>1. /\ UNCHANGED <<chosen, stored, tokenFile, told>>
          /\ \A u \in Token : issuer[u] # NoMachine => issuer'[u] = issuer[u]
      BY <1>0, <1>15 DEF RevokesItself, PairingTypeOK
    <3>2. \A e \in Request : call[e].at = "settling" => call'[e].at = "settling"
      BY <1>0, <1>15 DEF RevokesItself, PairingTypeOK
    <3> QED
      BY <1>0, <3>1, <3>2, SameListeners DEF PairingInvariant
  <2> QED
    BY <2>1, <2>2, <2>3, <2>4 DEF PairingInvariant
<1>16. ASSUME Restart
      PROVE  PairingInvariant'
  <2>1. PairingTypeOK'
    BY <1>0, <1>16, CredentialIs DEF PairingTypeOK, Restart, Idle, NoCheck, Outcomes, Machines
  <2>2. CallsTokens'
    BY <1>0, <1>16, CredentialIs DEF PairingTypeOK, CallsTokens, KeptTokens, Restart, Idle, NoCheck,
       Outcomes, Machines
  <2>3. KeptTokens'
    BY <1>0, <1>16, CredentialIs DEF PairingTypeOK, CallsTokens, KeptTokens, RestartKeepsIt,
       Machines, Restart, Idle, NoCheck, Outcomes
  <2>4. RestartKeepsIt' /\ IsTold'
    BY <1>0, <1>16 DEF RestartKeepsIt, IsTold, ListenersKnow, Current, Credential, IssuerOf,
       Restart, Idle, NoCheck, Outcomes, PairingTypeOK
  <2> QED
    BY <2>1, <2>2, <2>3, <2>4 DEF PairingInvariant
<1>17. CASE UNCHANGED pairingVars
  BY <1>0, <1>17 DEF pairingVars, PairingInvariant, PairingTypeOK, CallsTokens, KeptTokens,
     RestartKeepsIt,
                    IsTold, ListenersKnow, Current, Credential, IssuerOf
<1>18. ASSUME NEW c \in Request, NotSettled(c)
      PROVE  PairingInvariant'
  <2>1. PairingTypeOK'
    BY <1>0, <1>18 DEF PairingTypeOK, NotSettled, Idle, Machines
  <2>2. CallsTokens'
    BY <1>0, <1>18 DEF PairingTypeOK, CallsTokens, NotSettled, Idle
  <2>3. KeptTokens'
    BY <1>0, <1>18 DEF KeptTokens, NotSettled
  <2>4. RestartKeepsIt' /\ IsTold'
    <3>1. Current' = Current
      BY <1>0, <1>18, SameCurrent DEF NotSettled
    <3> QED
      BY <1>0, <1>18, <3>1 DEF NotSettled, RestartKeepsIt, IsTold
  <2> QED
    BY <2>1, <2>2, <2>3, <2>4 DEF PairingInvariant
<1> QED
  BY <1>1, <1>2, <1>3, <1>4, <1>5, <1>6, <1>7, <1>8, <1>9, <1>10, <1>11, <1>12, <1>13, <1>14,
     <1>15, <1>16, <1>17, <1>18 DEF PairingNext, PairingSteps

LEMMA PairingHolds == PairingSpec => []PairingInvariant
  BY PairingStarts, PairingStep, PTL DEF PairingSpec

\* Every request carries a credential to the machine that issued it.
LEMMA StaysHome == PairingInvariant => TokenStaysHome
  BY NoneIsNoToken DEF PairingInvariant, PairingTypeOK, CallsTokens, KeptTokens, TokenStaysHome,
     IssuerOf

\* Only a check's end tells about a machine: the one it was of, if it is the vault's.
LEMMA ChecksIt ==
    PairingInvariant /\ [PairingNext]_pairingVars =>
        [\A m \in Machine : last'.url = m /\ last.url # m => chosen = m]_pairingVars
<1> SUFFICES ASSUME PairingInvariant, PairingNext, NEW m \in Machine, last'.url = m, last.url # m
             PROVE  chosen = m
  BY DEF pairingVars
<1>1. last'.url # NoMachine
  BY PairingAssumptions
<1>2. CASE Checked
  BY <1>1, <1>2 DEF Checked, PairingInvariant, PairingTypeOK
<1>3. CASE last' \in {last, NoCheck}
  BY <1>1, <1>3 DEF NoCheck
<1> QED
  BY <1>2, <1>3 DEF PairingNext, PairingSteps, Waited, Issues, Answered, PairFails, TokenWritten,
     Settled, NotSettled, Revoked, Removed, NotRemoved, Check, CheckOnce, Unpair, Pair,
     ChangeMachine, RevokesItself, Restart

\* OneMachineIsTrusted, for all machines, requests and pairings, whatever cannot be saved: a
\* credential goes to the machine that issued it and to no other, a restart keeps it, who
\* relays is told which it is (unless the settings could not be saved), and only the vault's
\* machine is checked.
THEOREM PairingTrustsOneMachine == PairingSpec => OneMachineIsTrusted
<1>1. PairingInvariant =>
         PairingTypeOK /\ TokenStaysHome /\ RestartKeepsIt /\ (~ SettingsFail => ListenersKnow)
  BY StaysHome DEF PairingInvariant, IsTold
<1>2. PairingSpec => ChecksTheMachine
  BY ChecksIt, PairingHolds, PTL DEF PairingSpec, ChecksTheMachine
<1> QED
  BY <1>1, <1>2, PairingHolds, PTL DEF OneMachineIsTrusted

-----------------------------------------------------------------------------
(* The relay to the machine.                                               *)

\* The link goes to the machine the agent is relayed to.
LinkAt == link = IF relayed /\ ~ relayStopped THEN credential ELSE NoPeer

\* A connection is that of a link; the hello comes first, and only once.
SocketAt ==
    /\ link = NoPeer => ws = "none"
    /\ ws \in {"none", "opening"} => events = <<>>
    /\ ws = "open" => events # <<>>
    /\ \A i \in DOMAIN events : events[i].thing = "hello" <=> ws = "open" /\ i = 1

\* The relay and its link agree on whether they are connected.
StateAt ==
    ~ relayStopped =>
        /\ (state = "off") <=> ~ relayed
        /\ (state = "connected") <=> (ws = "connected")
        /\ (linkState = "connected") <=> (ws = "connected")

\* A surface nobody watches is subscribed nowhere.
SurfaceAt == (watchers = 0 => source = "none") /\ WatchedIsSubscribed

OnePeer == Forwards => \A m, n \in Peer : m = n

\* What the relay knows of a status is of the machine it is linked to.
RemoteAt ==
    /\ relayAsked # {} => Forwards
    /\ OnePeer => (remote # Nothing /\ link # NoPeer => remote.of = link)

\* The resync that counts reads from the machine of the link.
CurrentAt == ~ relayStopped => \A r \in resyncs : r.current => r.to = link

\* The thread as it is on the machine, no event of it is on its way, and event i is
\* the last one of it that is.
Now == [of |-> link, version |-> version[link]["thread"]]
Quiet == \A i \in DOMAIN events : events[i].thing # "thread"
IsLast(i) ==
    events[i].thing = "thread" /\ \A j \in DOMAIN events : events[j].thing = "thread" => j <= i

\* The last event of the thread that is on its way tells how it is.
EventsAt == \A i \in DOMAIN events : IsLast(i) => events[i].version = version[link]["thread"]

\* Clients know the thread as it is, or an event of it is on its way, or the resync
\* is under way, and has read it as it is unless an event told them.
ThreadAt ==
    ~ ReadsFail /\ ws = "connected" /\ Quiet =>
        /\ pushed => thread = Now
        /\ (~ \E r \in resyncs : r.current) => thread = Now
        /\ ~ pushed =>
              \A r \in resyncs : r.current /\ r.read["thread"] <= MaxVersion =>
                                    r.read["thread"] = version[link]["thread"]

\* Types, in parts.
UserTypes ==
    /\ relayed \in BOOLEAN /\ credential \in Peer \cup {NoPeer}
    /\ moves \in 0 .. MaxMoves /\ accepts \subseteq Peer
    /\ version \in [Peer -> [Things -> 0 .. MaxVersion]]
LinkTypes ==
    /\ link \in Peer \cup {NoPeer}
    /\ ws \in {"none", "opening", "open", "connected"}
    /\ linkState \in {"connecting", "connected", "unreachable", "rejected"}
    /\ state \in {"off", "not_paired", "connecting", "connected", "unreachable"}
    /\ opened \in 0 .. MaxLinks
ShownTypes == remote \in Known /\ thread \in Known
ReadRecord == [to : Peer, current : BOOLEAN, read : [Things -> 0 .. MaxVersion + 1]]
AskRecord == [to : Peer, answer : 0 .. MaxVersion + 1]
FlagTypes ==
    /\ relayStarted \in BOOLEAN /\ relayStopped \in BOOLEAN /\ subscribed \in BOOLEAN
    /\ source \in {"none", "local", "link"}

RelayInvariant ==
    /\ RelayTypeOK
    /\ LinkAt /\ SocketAt /\ StateAt /\ SurfaceAt /\ RemoteAt /\ CurrentAt
    /\ EventsAt /\ ThreadAt

\* The parts are the whole.
LEMMA RelayParts ==
    RelayTypeOK <=> /\ UserTypes /\ LinkTypes /\ FlagTypes /\ pushed \in BOOLEAN
                    /\ watchers \in 0 .. MaxWatchers
                    /\ events \in Seq(Event) /\ ShownTypes
                    /\ resyncs \subseteq ReadRecord /\ relayAsked \subseteq AskRecord
  BY DEF RelayTypeOK, UserTypes, LinkTypes, ShownTypes, ReadRecord, AskRecord, FlagTypes

\* What is known of a thing is a record of it; so is a read, and a request.
LEMMA KnownIs ==
    ASSUME NEW m \in Peer \cup {NoPeer}, NEW v \in 0 .. MaxVersion
    PROVE  [of |-> m, version |-> v] \in Known
  BY DEF Known

LEMMA NothingIs == Nothing \in Known
  BY RelayAssumptions DEF Known, Nothing

LEMMA ReadIs ==
    ASSUME NEW r \in ReadRecord
    PROVE  /\ [r EXCEPT !.current = FALSE] \in ReadRecord
           /\ [r EXCEPT !.current = FALSE].current = FALSE
           /\ [r EXCEPT !.current = FALSE].to = r.to
           /\ [r EXCEPT !.current = FALSE].read = r.read
           /\ \A t \in Things, v \in 0 .. MaxVersion + 1 :
                 /\ [r EXCEPT !.read[t] = v] \in ReadRecord
                 /\ [r EXCEPT !.read[t] = v].to = r.to
                 /\ [r EXCEPT !.read[t] = v].current = r.current
                 /\ [r EXCEPT !.read[t] = v].read = [r.read EXCEPT ![t] = v]
  BY DEF ReadRecord

\* A resync that no longer counts.
LEMMA Superseded ==
    ASSUME NEW R \in SUBSET ReadRecord, NEW e \in {[r EXCEPT !.current = FALSE] : r \in R}
    PROVE  ~ e.current
<1>1. PICK r \in R : e = [r EXCEPT !.current = FALSE]
  OBVIOUS
<1>2. e.current = FALSE
  BY <1>1, ReadIs
<1> QED
  BY <1>2

LEMMA RelayStarts == RelayInit => RelayInvariant
<1> SUFFICES ASSUME RelayInit PROVE RelayInvariant
  OBVIOUS
<1>1. events = <<>> /\ events \in Seq(Event)
  BY DEF RelayInit
<1>2. UserTypes /\ LinkTypes
  BY RelayAssumptions DEF RelayInit, UserTypes, LinkTypes
<1>3. FlagTypes
  BY DEF RelayInit, FlagTypes
<1>4. pushed \in BOOLEAN /\ resyncs \subseteq ReadRecord /\ relayAsked \subseteq AskRecord
  BY DEF RelayInit
<1>5. watchers \in 0 .. MaxWatchers
  BY RelayAssumptions DEF RelayInit
<1>6. ShownTypes
  BY NothingIs DEF RelayInit, ShownTypes
<1>7. RelayTypeOK
  BY <1>1, <1>2, <1>3, <1>4, <1>5, <1>6, RelayParts
<1>8. LinkAt /\ SocketAt /\ StateAt
  BY <1>1, RelayAssumptions DEF RelayInit, LinkAt, SocketAt, StateAt
<1>9. SurfaceAt /\ RemoteAt /\ CurrentAt
  BY RelayAssumptions DEF RelayInit, SurfaceAt, WatchedIsSubscribed, RemoteAt, CurrentAt
<1>10. EventsAt /\ ThreadAt
  BY <1>1 DEF RelayInit, EventsAt, ThreadAt
<1> QED
  BY <1>7, <1>8, <1>9, <1>10 DEF RelayInvariant

\* The user's choices, and what is so on the machines, keep their types.
LEMMA UserTypesStep ==
    ASSUME RelayInvariant, RelayNext PROVE UserTypes'
<1>0. UserTypes
  BY RelayParts DEF RelayInvariant
<1>1. ASSUME NEW r \in BOOLEAN, NEW c \in Peer \cup {NoPeer}, Move(r, c)
      PROVE  UserTypes'
  BY <1>0, <1>1, RelayAssumptions DEF UserTypes, Move, Moves, Apply, UseLink, user, linked,
     surface
<1>2. ASSUME NEW m \in Peer, Revokes(m)
      PROVE  UserTypes'
  BY <1>0, <1>2, RelayAssumptions DEF UserTypes, Revokes, Moves, user, linked, surface
<1>3. ASSUME NEW m \in Peer, NEW t \in Things, ChangesThere(m, t)
      PROVE  UserTypes'
  BY <1>0, <1>3, RelayAssumptions DEF UserTypes, ChangesThere, Sends, user, linked, surface
<1>4. CASE UNCHANGED <<relayed, credential, moves, accepts, version>>
  BY <1>0, <1>4 DEF UserTypes
<1> QED
  BY <1>1, <1>2, <1>3, <1>4 DEF RelayNext, LinkSteps, Reads, user, linked, surface, StartRelay,
     StopRelay, Open, Opened, Hello, FromMachine, Closes, Answers, Resynced, ResyncFails,
     AskStatus, StatusAnswered, Forwarded, NotForwarded, Watch, Unwatch

\* So do the link,
LEMMA LinkTypesStep ==
    ASSUME RelayInvariant, RelayNext PROVE LinkTypes'
<1>0. UserTypes /\ LinkTypes
  BY RelayParts DEF RelayInvariant
<1>1. ASSUME NEW r \in BOOLEAN, NEW c \in Peer \cup {NoPeer}, Move(r, c)
      PROVE  LinkTypes'
  <2>1. (IF r THEN c ELSE NoPeer) \in Peer \cup {NoPeer}
    OBVIOUS
  <2> QED
    BY <1>0, <1>1, <2>1 DEF LinkTypes, Move, Apply, UseLink
<1>2. CASE StopRelay
  BY <1>0, <1>2, RelayAssumptions DEF LinkTypes, StopRelay, user, linked, surface
<1>3. CASE Open
  BY <1>0, <1>3, RelayAssumptions DEF LinkTypes, Open, user, linked, surface
<1>4. CASE Opened
  BY <1>0, <1>4, RelayAssumptions DEF LinkTypes, Opened, user, linked, surface
<1>5. CASE Hello
  BY <1>0, <1>5, RelayAssumptions DEF LinkTypes, Hello, user, linked, surface
<1>6. CASE Closes
  BY <1>0, <1>6, RelayAssumptions DEF LinkTypes, Closes, user, linked, surface
<1>7. CASE UNCHANGED <<link, ws, linkState, state, opened>>
  BY <1>0, <1>7 DEF LinkTypes
<1> QED
  BY <1>1, <1>2, <1>3, <1>4, <1>5, <1>6, <1>7 DEF RelayNext, LinkSteps, Reads, user, linked,
     surface, StartRelay, Revokes, ChangesThere, FromMachine, Answers, Resynced, ResyncFails,
     AskStatus, StatusAnswered, Forwarded, NotForwarded, Watch, Unwatch

\* the events that are on their way,
LEMMA EventTypesStep ==
    ASSUME RelayInvariant, RelayNext PROVE events' \in Seq(Event)
<1>0. events \in Seq(Event)
  BY RelayParts DEF RelayInvariant
<1>1. ASSUME NEW r \in BOOLEAN, NEW c \in Peer \cup {NoPeer}, Move(r, c)
      PROVE  events' \in Seq(Event)
  <2>1. events' \in {events, <<>>}
    BY <1>1 DEF Move, Apply, UseLink
  <2>2. <<>> \in Seq(Event)
    OBVIOUS
  <2> QED
    BY <1>0, <2>1, <2>2
<1>2. CASE StopRelay
  BY <1>0, <1>2, RelayAssumptions DEF UserTypes, Event, StopRelay, user, linked, surface
<1>3. ASSUME NEW m \in Peer, NEW t \in Things, ChangesThere(m, t)
      PROVE  events' \in Seq(Event)
  <2>1. version'[m][t] \in 0 .. MaxVersion
    BY <1>3, UserTypesStep DEF UserTypes
  <2> DEFINE e == [thing |-> t, version |-> version'[m][t]]
  <2>2. e \in Event
    BY <2>1 DEF Event
  <2>3. events' \in {events, Append(events, e)}
    BY <1>3 DEF ChangesThere
  <2> HIDE DEF e
  <2> QED
    BY <1>0, <2>2, <2>3
<1>4. CASE Opened
  BY <1>0, <1>4, RelayAssumptions DEF UserTypes, Event, Opened, user, linked, surface
<1>5. CASE Hello
  BY <1>0, <1>5, RelayAssumptions DEF UserTypes, Event, Hello, user, linked, surface
<1>6. CASE FromMachine
  BY <1>0, <1>6, RelayAssumptions DEF UserTypes, Event, FromMachine, user, linked, surface
<1>7. CASE Closes
  BY <1>0, <1>7, RelayAssumptions DEF UserTypes, Event, Closes, user, linked, surface
<1>8. CASE UNCHANGED events
  BY <1>0, <1>8 DEF UserTypes, Event
<1> QED
  BY <1>1, <1>2, <1>3, <1>4, <1>5, <1>6, <1>7, <1>8 DEF RelayNext, LinkSteps, Reads, user,
     linked, surface, StartRelay, Revokes, Open, Answers, Resynced, ResyncFails, AskStatus,
     StatusAnswered, Forwarded, NotForwarded, Watch, Unwatch

\* the flags,
LEMMA FlagTypesStep ==
    ASSUME RelayInvariant, RelayNext PROVE FlagTypes'
<1>0. FlagTypes
  BY RelayParts DEF RelayInvariant
<1>1. CASE StartRelay
  BY <1>0, <1>1, RelayAssumptions DEF FlagTypes, StartRelay, user, linked, surface
<1>2. CASE StopRelay
  BY <1>0, <1>2, RelayAssumptions DEF FlagTypes, StopRelay, user, linked, surface
<1>3. ASSUME NEW r \in BOOLEAN, NEW c \in Peer \cup {NoPeer}, Move(r, c)
      PROVE  FlagTypes'
  BY <1>0, <1>3, RelayAssumptions DEF FlagTypes, Move, Moves, Apply, UseLink, user, linked,
     surface
<1>4. CASE Hello
  BY <1>0, <1>4, RelayAssumptions DEF FlagTypes, Hello, user, linked, surface
<1>5. CASE Closes
  BY <1>0, <1>5, RelayAssumptions DEF FlagTypes, Closes, user, linked, surface
<1>6. CASE Watch
  BY <1>0, <1>6, RelayAssumptions DEF FlagTypes, Watch, user, linked, surface
<1>7. CASE Unwatch
  BY <1>0, <1>7, RelayAssumptions DEF FlagTypes, Unwatch, user, linked, surface
<1>8. CASE UNCHANGED <<relayStarted, relayStopped, source, subscribed>>
  BY <1>0, <1>8 DEF FlagTypes
<1> QED
  BY <1>1, <1>2, <1>3, <1>4, <1>5, <1>6, <1>7, <1>8 DEF RelayNext, LinkSteps, Reads, user,
     linked, surface, Revokes, ChangesThere, Open, Opened, FromMachine, Answers, Resynced,
     ResyncFails, AskStatus, StatusAnswered, Forwarded, NotForwarded

\* the watchers of the surface,
LEMMA WatcherTypesStep ==
    ASSUME RelayInvariant, RelayNext PROVE watchers' \in 0 .. MaxWatchers
<1>0. watchers \in 0 .. MaxWatchers
  BY RelayParts DEF RelayInvariant
<1>1. CASE Watch
  BY <1>0, <1>1, RelayAssumptions DEF Watch, user, linked, surface
<1>2. CASE Unwatch
  BY <1>0, <1>2, RelayAssumptions DEF Unwatch, user, linked, surface
<1>3. CASE UNCHANGED watchers
  BY <1>0, <1>3
<1> QED
  BY <1>1, <1>2, <1>3 DEF RelayNext, LinkSteps, Reads, user, linked, surface, Move, StartRelay,
     StopRelay, Revokes, ChangesThere, Open, Opened, Hello, FromMachine, Closes, Answers,
     Resynced, ResyncFails, AskStatus, StatusAnswered, Forwarded, NotForwarded

\* what is shown,
LEMMA ShownTypesStep ==
    ASSUME RelayInvariant, RelayNext PROVE ShownTypes'
<1>0. ShownTypes /\ events \in Seq(Event) /\ LinkTypes /\ resyncs \subseteq ReadRecord
      /\ relayAsked \subseteq AskRecord
  BY RelayParts DEF RelayInvariant
<1>1. ASSUME NEW r \in BOOLEAN, NEW c \in Peer \cup {NoPeer}, Move(r, c)
      PROVE  ShownTypes'
  <2>1. remote' \in {remote, Nothing} /\ thread' = thread
    BY <1>1 DEF Move, Apply, UseLink
  <2> QED
    BY <1>0, <2>1, NothingIs DEF ShownTypes
<1>2. CASE FromMachine
  <2> DEFINE e == Head(events)
             known == [of |-> link, version |-> e.version]
  <2>1. e \in Event
    BY <1>0, <1>2 DEF FromMachine
  <2>2. e.version \in 0 .. MaxVersion /\ link \in Peer \cup {NoPeer}
    BY <1>0, <2>1 DEF Event, LinkTypes
  <2>3. known \in Known
    BY <2>2, KnownIs
  <2>4. remote' \in {remote, known} /\ thread' \in {thread, known}
    BY <1>2 DEF FromMachine
  <2> HIDE DEF known
  <2> QED
    BY <1>0, <2>3, <2>4 DEF ShownTypes
<1>3. CASE Closes
  <2>1. remote' \in {remote, Nothing} /\ thread' = thread
    BY <1>3 DEF Closes
  <2> QED
    BY <1>0, <2>1, NothingIs DEF ShownTypes
<1>4. ASSUME NEW r \in resyncs, Resynced(r)
      PROVE  ShownTypes'
  <2> DEFINE read(t) == [of |-> r.to, version |-> r.read[t]]
  <2>1. CASE UNCHANGED <<remote, thread>>
    BY <1>0, <2>1 DEF ShownTypes
  <2>2. CASE remote' = read("status") /\ thread' \in {thread, read("thread")}
    <3>1. \A t \in Things : r.read[t] \in 0 .. MaxVersion /\ r.to \in Peer \cup {NoPeer}
      BY <1>0, <1>4, RelayAssumptions DEF Resynced, ReadRecord
    <3>2. read("status") \in Known /\ read("thread") \in Known
      BY <3>1, KnownIs DEF Things
    <3> HIDE DEF read
    <3> QED
      BY <1>0, <2>2, <3>2 DEF ShownTypes
  <2> QED
    BY <1>4, <2>1, <2>2 DEF Resynced
<1>5. ASSUME NEW q \in relayAsked, Forwarded(q)
      PROVE  ShownTypes'
  <2>1. q.answer \in 0 .. MaxVersion /\ q.to \in Peer \cup {NoPeer}
    BY <1>0, <1>5, RelayAssumptions DEF Forwarded, AskRecord
  <2> QED
    BY <1>0, <1>5, <2>1, KnownIs DEF Forwarded, ShownTypes
<1>6. CASE UNCHANGED <<remote, thread>>
  BY <1>0, <1>6 DEF ShownTypes
<1> QED
  BY <1>1, <1>2, <1>3, <1>4, <1>5, <1>6 DEF RelayNext, LinkSteps, Reads, user, linked, surface,
     StartRelay, StopRelay, Revokes, ChangesThere, Open, Opened, Hello, Answers, ResyncFails,
     AskStatus, StatusAnswered, NotForwarded, Watch, Unwatch

\* the resyncs,
LEMMA ResyncTypesStep ==
    ASSUME RelayInvariant, RelayNext PROVE resyncs' \subseteq ReadRecord
<1>0. UserTypes /\ LinkTypes /\ resyncs \subseteq ReadRecord
  BY RelayParts DEF RelayInvariant
<1>1. ASSUME NEW r \in BOOLEAN, NEW c \in Peer \cup {NoPeer}, Move(r, c)
      PROVE  resyncs' \subseteq ReadRecord
  <2>1. resyncs' \in {resyncs, {[e EXCEPT !.current = FALSE] : e \in resyncs}}
    BY <1>1 DEF Move, Apply, UseLink
  <2> QED
    BY <1>0, <2>1, ReadIs
<1>2. CASE Hello
  <2> DEFINE new == [to |-> link, current |-> TRUE, read |-> [t \in Things |-> MaxVersion + 1]]
  <2>1. link \in Peer
    BY <1>0, <1>2 DEF Hello, LinkTypes, RelayInvariant, SocketAt
  <2>2. MaxVersion + 1 \in 0 .. MaxVersion + 1
    BY RelayAssumptions
  <2>3. new \in ReadRecord
    BY <2>1, <2>2 DEF ReadRecord
  <2>4. resyncs' = {[e EXCEPT !.current = FALSE] : e \in resyncs} \cup {new}
    BY <1>2 DEF Hello
  <2> HIDE DEF new
  <2> QED
    BY <1>0, <2>3, <2>4, ReadIs
<1>3. ASSUME NEW r \in resyncs, NEW t \in Things, Answers(r, t)
      PROVE  resyncs' \subseteq ReadRecord
  <2>1. r \in ReadRecord /\ r.to \in Peer
    BY <1>0, <1>3 DEF ReadRecord
  <2>2. version[r.to][t] \in 0 .. MaxVersion + 1
    <3>1. version[r.to] \in [Things -> 0 .. MaxVersion]
      BY <1>0, <2>1 DEF UserTypes
    <3> QED
      BY <1>3, <3>1, RelayAssumptions
  <2> DEFINE new == [r EXCEPT !.read[t] = version[r.to][t]]
  <2>3. new \in ReadRecord
    BY <1>3, <2>1, <2>2, ReadIs
  <2>4. resyncs' = (resyncs \ {r}) \cup {new}
    BY <1>3 DEF Answers
  <2> HIDE DEF new
  <2> QED
    BY <1>0, <2>3, <2>4
<1>4. ASSUME NEW r \in resyncs, Resynced(r)
      PROVE  resyncs' \subseteq ReadRecord
  BY <1>0, <1>4, RelayAssumptions DEF Resynced, user, linked, surface
<1>5. ASSUME NEW r \in resyncs, ResyncFails(r)
      PROVE  resyncs' \subseteq ReadRecord
  BY <1>0, <1>5, RelayAssumptions DEF ResyncFails, user, linked, surface
<1>6. CASE UNCHANGED resyncs
  BY <1>0, <1>6
<1> QED
  BY <1>1, <1>2, <1>3, <1>4, <1>5, <1>6 DEF RelayNext, LinkSteps, Reads, user, linked, surface,
     StartRelay, StopRelay, Revokes, ChangesThere, Open, Opened, FromMachine, Closes, AskStatus,
     StatusAnswered, Forwarded, NotForwarded, Watch, Unwatch

\* and the requests that are forwarded.
LEMMA AskTypesStep ==
    ASSUME RelayInvariant, RelayNext PROVE relayAsked' \subseteq AskRecord
<1>0. UserTypes /\ LinkTypes /\ relayAsked \subseteq AskRecord
  BY RelayParts DEF RelayInvariant
<1>1. CASE AskStatus
  <2>1. link \in Peer /\ MaxVersion + 1 \in 0 .. MaxVersion + 1
    BY <1>0, <1>1, RelayAssumptions DEF AskStatus, Forwarding, LinkTypes
  <2> QED
    BY <1>1, <2>1 DEF AskStatus, AskRecord
<1>2. ASSUME NEW q \in relayAsked, StatusAnswered(q)
      PROVE  relayAsked' \subseteq AskRecord
  <2>1. q \in AskRecord /\ q.to \in Peer
    BY <1>0, <1>2 DEF AskRecord
  <2>2. version[q.to]["status"] \in 0 .. MaxVersion + 1
    <3>1. version[q.to] \in [Things -> 0 .. MaxVersion]
      BY <1>0, <2>1 DEF UserTypes
    <3> QED
      BY <3>1, RelayAssumptions DEF Things
  <2>3. [q EXCEPT !.answer = version[q.to]["status"]] \in AskRecord
    BY <2>1, <2>2 DEF AskRecord
  <2> QED
    BY <1>2, <2>3 DEF StatusAnswered
<1>3. ASSUME NEW q \in relayAsked, Forwarded(q)
      PROVE  relayAsked' \subseteq AskRecord
  BY <1>0, <1>3, RelayAssumptions DEF Forwarded, user, linked, surface
<1>4. ASSUME NEW q \in relayAsked, NotForwarded(q)
      PROVE  relayAsked' \subseteq AskRecord
  BY <1>0, <1>4, RelayAssumptions DEF NotForwarded, user, linked, surface
<1>5. CASE UNCHANGED relayAsked
  BY <1>0, <1>5
<1> QED
  BY <1>1, <1>2, <1>3, <1>4, <1>5 DEF RelayNext, LinkSteps, Reads, user, linked, surface, Move,
     StartRelay, StopRelay, Revokes, ChangesThere, Open, Opened, Hello, FromMachine, Closes,
     Answers, Resynced, ResyncFails, Watch, Unwatch

LEMMA RelayTypesStep == ASSUME RelayInvariant, RelayNext PROVE RelayTypeOK'
<1>1. pushed' \in BOOLEAN
  BY RelayParts DEF RelayInvariant, RelayNext, LinkSteps, Reads, user, linked, surface, Move,
     StartRelay,
     StopRelay, Revokes, ChangesThere, Open, Opened, Hello, FromMachine, Closes, Answers, Resynced,
     ResyncFails, AskStatus, StatusAnswered, Forwarded, NotForwarded, Watch, Unwatch
<1> QED
  BY <1>1, UserTypesStep, LinkTypesStep, EventTypesStep, FlagTypesStep, WatcherTypesStep,
     ShownTypesStep,
     ResyncTypesStep, AskTypesStep
     DEF RelayTypeOK, UserTypes, LinkTypes, ShownTypes, ReadRecord, AskRecord, FlagTypes

\* The link follows the choices.
LEMMA LinkAtStep ==
    ASSUME RelayInvariant, RelayNext PROVE LinkAt'
<1>0. LinkAt
  BY RelayParts DEF RelayInvariant
<1>1. ASSUME NEW r \in BOOLEAN, NEW c \in Peer \cup {NoPeer}, Move(r, c)
      PROVE  LinkAt'
  BY <1>0, <1>1, RelayAssumptions DEF LinkAt, Move, Moves, Apply, UseLink, user, linked, surface
<1>2. CASE StartRelay
  BY <1>0, <1>2, RelayAssumptions DEF LinkAt, StartRelay, user, linked, surface
<1>3. CASE StopRelay
  BY <1>0, <1>3, RelayAssumptions DEF LinkAt, StopRelay, user, linked, surface
<1>4. CASE UNCHANGED <<relayStopped, link, relayed, credential>>
  BY <1>0, <1>4 DEF LinkAt
<1> QED
  BY <1>1, <1>2, <1>3, <1>4 DEF RelayNext, LinkSteps, Reads, user, linked, surface, Revokes,
     ChangesThere, Open, Opened, Hello, FromMachine, Closes, Answers, Resynced, ResyncFails,
     AskStatus, StatusAnswered, Forwarded, NotForwarded, Watch, Unwatch

\* The hello comes first.
LEMMA SocketAtStep ==
    ASSUME RelayInvariant, RelayNext PROVE SocketAt'
<1>0. SocketAt /\ LinkTypes /\ events \in Seq(Event)
  BY RelayParts DEF RelayInvariant
<1>1. ASSUME NEW r \in BOOLEAN, NEW c \in Peer \cup {NoPeer}, Move(r, c)
      PROVE  SocketAt'
  BY <1>0, <1>1, RelayAssumptions DEF SocketAt, Move, Moves, Apply, UseLink, user, linked,
     surface
<1>2. CASE StopRelay
  BY <1>0, <1>2, RelayAssumptions DEF SocketAt, StopRelay, user, linked, surface
<1>3. ASSUME NEW m \in Peer, NEW t \in Things, ChangesThere(m, t)
      PROVE  SocketAt'
  <2> DEFINE e == [thing |-> t, version |-> version'[m][t]]
  <2>1. UNCHANGED <<link, ws>> /\ e.thing # "hello"
    BY <1>3 DEF ChangesThere, Things
  <2>2. CASE events' = events
    BY <1>0, <2>1, <2>2 DEF SocketAt
  <2>3. CASE Sends /\ link # NoPeer /\ events' = Append(events, e)
    <3> HIDE DEF e
    <3>1. /\ DOMAIN events' = 1 .. Len(events) + 1 /\ Len(events) \in Nat
          /\ \A i \in 1 .. Len(events) : events'[i] = events[i]
          /\ events'[Len(events) + 1] = e
      BY <1>0, <2>3
    <3>2. ws = "open" => Len(events) > 0
      BY <1>0 DEF SocketAt
    <3>3. ASSUME NEW i \in DOMAIN events'
          PROVE  events'[i].thing = "hello" <=> ws' = "open" /\ i = 1
      <4>1. CASE i \in DOMAIN events
        BY <1>0, <2>1, <3>1, <4>1 DEF SocketAt
      <4>2. CASE i = Len(events) + 1
        BY <2>1, <3>1, <3>2, <4>2
      <4> QED
        BY <1>0, <3>1, <4>1, <4>2
    <3>4. events' # <<>>
      BY <1>0, <2>3
    <3> QED
      BY <1>0, <2>1, <2>3, <3>3, <3>4 DEF SocketAt, Sends
  <2> QED
    BY <1>3, <2>2, <2>3, RelayAssumptions DEF ChangesThere
<1>4. CASE Open
  BY <1>0, <1>4, RelayAssumptions DEF SocketAt, Open, user, linked, surface
<1>5. CASE Opened
  BY <1>0, <1>5, RelayAssumptions DEF SocketAt, Opened, user, linked, surface
<1>6. CASE Hello
  BY <1>0, <1>6, RelayAssumptions DEF SocketAt, Hello, user, linked, surface
<1>7. CASE FromMachine
  BY <1>0, <1>7, RelayAssumptions DEF SocketAt, FromMachine, user, linked, surface
<1>8. CASE Closes
  BY <1>0, <1>8, RelayAssumptions DEF SocketAt, Closes, user, linked, surface
<1>9. CASE UNCHANGED <<link, ws, events>>
  BY <1>0, <1>9 DEF SocketAt
<1> QED
  BY <1>1, <1>2, <1>3, <1>4, <1>5, <1>6, <1>7, <1>8, <1>9 DEF RelayNext, LinkSteps, Reads, user,
     linked, surface, StartRelay, Revokes, Answers, Resynced, ResyncFails, AskStatus,
     StatusAnswered, Forwarded, NotForwarded, Watch, Unwatch

\* The relay and its link agree.
LEMMA StateAtStep ==
    ASSUME RelayInvariant, RelayNext PROVE StateAt'
<1>0. StateAt /\ LinkAt /\ SocketAt /\ LinkTypes
  BY RelayParts DEF RelayInvariant
<1>1. ASSUME NEW r \in BOOLEAN, NEW c \in Peer \cup {NoPeer}, Move(r, c)
      PROVE  StateAt'
  BY <1>0, <1>1, RelayAssumptions DEF StateAt, LinkAt, SocketAt, Move, Moves, Apply, UseLink,
     user, linked, surface
<1>2. CASE StartRelay
  BY <1>0, <1>2, RelayAssumptions DEF StateAt, LinkAt, SocketAt, StartRelay, user, linked,
     surface
<1>3. CASE StopRelay
  BY <1>0, <1>3, RelayAssumptions DEF StateAt, LinkAt, SocketAt, StopRelay, user, linked,
     surface
<1>4. CASE Open
  BY <1>0, <1>4, RelayAssumptions DEF StateAt, LinkAt, SocketAt, Open, user, linked, surface
<1>5. CASE Opened
  BY <1>0, <1>5, RelayAssumptions DEF StateAt, LinkAt, SocketAt, Opened, user, linked, surface
<1>6. CASE Hello
  BY <1>0, <1>6, RelayAssumptions DEF StateAt, LinkAt, SocketAt, Hello, user, linked, surface
<1>7. CASE Closes
  BY <1>0, <1>7, RelayAssumptions DEF StateAt, LinkAt, SocketAt, Closes, user, linked, surface
<1>8. CASE UNCHANGED <<relayStopped, relayed, link, ws, linkState, state>>
  BY <1>0, <1>8 DEF StateAt, LinkAt, SocketAt
<1> QED
  BY <1>1, <1>2, <1>3, <1>4, <1>5, <1>6, <1>7, <1>8 DEF RelayNext, LinkSteps, Reads, user,
     linked, surface, Revokes, ChangesThere, FromMachine, Answers, Resynced, ResyncFails,
     AskStatus, StatusAnswered, Forwarded, NotForwarded, Watch, Unwatch

\* What is watched is subscribed.
LEMMA SurfaceAtStep ==
    ASSUME RelayInvariant, RelayNext PROVE SurfaceAt'
<1>0. SurfaceAt /\ SocketAt /\ LinkTypes /\ watchers \in 0 .. MaxWatchers
  BY RelayParts DEF RelayInvariant
<1>1. ASSUME NEW r \in BOOLEAN, NEW c \in Peer \cup {NoPeer}, Move(r, c)
      PROVE  SurfaceAt'
  BY <1>0, <1>1, RelayAssumptions DEF SurfaceAt, SocketAt, WatchedIsSubscribed, Move, Moves,
     Apply, UseLink, user, linked, surface
<1>2. CASE StartRelay
  BY <1>0, <1>2, RelayAssumptions DEF SurfaceAt, SocketAt, WatchedIsSubscribed, StartRelay,
     user, linked, surface
<1>3. CASE StopRelay
  BY <1>0, <1>3, RelayAssumptions DEF SurfaceAt, SocketAt, WatchedIsSubscribed, StopRelay, user,
     linked, surface
<1>4. CASE Open
  BY <1>0, <1>4, RelayAssumptions DEF SurfaceAt, SocketAt, WatchedIsSubscribed, Open, user,
     linked, surface
<1>5. CASE Opened
  BY <1>0, <1>5, RelayAssumptions DEF SurfaceAt, SocketAt, WatchedIsSubscribed, Opened, user,
     linked, surface
<1>6. CASE Hello
  <2>1. link # NoPeer /\ UNCHANGED <<relayStopped, link, watchers, source>>
    BY <1>0, <1>6 DEF Hello, SocketAt
  <2>2. subscribed' <=> source = "link"
    BY <1>6 DEF Hello
  <2>3. ~ relayStopped => (watchers > 0 <=> source = "link")
    BY <1>0, <2>1 DEF SurfaceAt, WatchedIsSubscribed
  <2> QED
    BY <1>0, <2>1, <2>2, <2>3 DEF SurfaceAt, WatchedIsSubscribed
<1>7. CASE Closes
  BY <1>0, <1>7, RelayAssumptions DEF SurfaceAt, SocketAt, WatchedIsSubscribed, Closes, user,
     linked, surface
<1>8. CASE Watch
  <2>1. UNCHANGED <<relayStopped, link, ws>> /\ watchers' > 0
    BY <1>0, <1>8 DEF Watch, linked
  <2>2. CASE watchers > 0
    BY <1>0, <1>8, <2>1, <2>2 DEF SurfaceAt, WatchedIsSubscribed, Watch
  <2>3. CASE watchers = 0
    <3>1. source' = IF link = NoPeer THEN "local" ELSE "link"
      BY <1>8, <2>3 DEF Watch
    <3>2. subscribed' = (link # NoPeer /\ ws = "connected")
      BY <1>8, <2>3 DEF Watch
    <3>3. ws = "connected" => subscribed'
      BY <1>0, <3>2 DEF SocketAt
    <3> QED
      BY <2>1, <3>1, <3>3 DEF SurfaceAt, WatchedIsSubscribed
  <2> QED
    BY <1>0, <2>2, <2>3
<1>9. CASE Unwatch
  BY <1>0, <1>9, RelayAssumptions DEF SurfaceAt, SocketAt, WatchedIsSubscribed, Unwatch, user,
     linked, surface
<1>10. CASE UNCHANGED <<relayStopped, link, ws, watchers, source, subscribed>>
  BY <1>0, <1>10 DEF SurfaceAt, SocketAt, WatchedIsSubscribed
<1> QED
  BY <1>1, <1>2, <1>3, <1>4, <1>5, <1>6, <1>7, <1>8, <1>9, <1>10 DEF RelayNext, LinkSteps,
     Reads, user, linked, surface, Revokes, ChangesThere, FromMachine, Answers, Resynced,
     ResyncFails, AskStatus, StatusAnswered, Forwarded, NotForwarded

\* The resync that counts is of the link.
LEMMA CurrentAtStep ==
    ASSUME RelayInvariant, RelayNext PROVE CurrentAt'
<1>0. CurrentAt /\ LinkTypes /\ resyncs \subseteq ReadRecord
  BY RelayParts DEF RelayInvariant
<1>1. ASSUME NEW r \in BOOLEAN, NEW c \in Peer \cup {NoPeer}, Move(r, c)
      PROVE  CurrentAt'
  <2>1. UNCHANGED relayStopped
    BY <1>1 DEF Move
  <2>2. CASE UNCHANGED <<link, resyncs>>
    BY <1>0, <2>1, <2>2 DEF CurrentAt
  <2>3. CASE resyncs' = {[e EXCEPT !.current = FALSE] : e \in resyncs}
    BY <1>0, <2>3, Superseded DEF CurrentAt
  <2> QED
    BY <1>1, <2>2, <2>3 DEF Move, Apply, UseLink
<1>2. CASE StartRelay
  BY <1>0, <1>2, RelayAssumptions DEF CurrentAt, StartRelay, user, linked, surface
<1>3. CASE StopRelay
  BY <1>0, <1>3, RelayAssumptions DEF CurrentAt, StopRelay, user, linked, surface
<1>4. CASE Hello
  <2>1. /\ UNCHANGED <<relayStopped, link>>
        /\ resyncs' = {[e EXCEPT !.current = FALSE] : e \in resyncs}
                        \cup {[to |-> link, current |-> TRUE, read |-> [t \in Things |-> MaxVersion + 1]]}
    BY <1>4 DEF Hello
  <2>2. \A e \in resyncs' : e.current => e.to = link
    BY <1>0, <2>1, Superseded
  <2> QED
    BY <2>1, <2>2 DEF CurrentAt
<1>5. ASSUME NEW r \in resyncs, NEW t \in Things, Answers(r, t)
      PROVE  CurrentAt'
  <2> DEFINE new == [r EXCEPT !.read[t] = version[r.to][t]]
  <2>1. new.to = r.to /\ new.current = r.current
    BY <1>0, <1>5 DEF ReadRecord
  <2>2. UNCHANGED <<relayStopped, link>> /\ resyncs' = (resyncs \ {r}) \cup {new}
    BY <1>5 DEF Answers, linked
  <2> HIDE DEF new
  <2> QED
    BY <1>0, <1>5, <2>1, <2>2 DEF CurrentAt
<1>6. ASSUME NEW r \in resyncs, Resynced(r)
      PROVE  CurrentAt'
  BY <1>0, <1>6, RelayAssumptions DEF CurrentAt, Resynced, user, linked, surface
<1>7. ASSUME NEW r \in resyncs, ResyncFails(r)
      PROVE  CurrentAt'
  BY <1>0, <1>7, RelayAssumptions DEF CurrentAt, ResyncFails, user, linked, surface
<1>8. CASE UNCHANGED <<relayStopped, link, resyncs>>
  BY <1>0, <1>8 DEF CurrentAt
<1> QED
  BY <1>1, <1>2, <1>3, <1>4, <1>5, <1>6, <1>7, <1>8 DEF RelayNext, LinkSteps, Reads, user,
     linked, surface, Revokes, ChangesThere, Open, Opened, FromMachine, Closes, AskStatus,
     StatusAnswered, Forwarded, NotForwarded, Watch, Unwatch

\* The status is of the link.
LEMMA RemoteAtStep ==
    ASSUME RelayInvariant, RelayNext PROVE RemoteAt'
<1>0. RemoteAt /\ CurrentAt /\ LinkAt /\ SocketAt /\ StateAt /\ LinkTypes
      /\ resyncs \subseteq ReadRecord /\ relayAsked \subseteq AskRecord
  BY RelayParts DEF RelayInvariant
<1>1. ASSUME NEW r \in BOOLEAN, NEW c \in Peer \cup {NoPeer}, Move(r, c)
      PROVE  RemoteAt'
  BY <1>0, <1>1, RelayAssumptions DEF RemoteAt, OnePeer, Move, Moves, Apply, UseLink, user,
     linked, surface
<1>2. CASE StopRelay
  BY <1>0, <1>2, RelayAssumptions DEF RemoteAt, OnePeer, StopRelay, user, linked, surface
<1>3. CASE FromMachine
  BY <1>0, <1>3, RelayAssumptions DEF RemoteAt, OnePeer, FromMachine, user, linked, surface
<1>4. CASE Closes
  BY <1>0, <1>4, RelayAssumptions DEF RemoteAt, OnePeer, Closes, user, linked, surface
<1>5. ASSUME NEW r \in resyncs, Resynced(r)
      PROVE  RemoteAt'
  <2>1. UNCHANGED <<link, relayAsked>>
    BY <1>5 DEF Resynced, linked
  <2>2. CASE UNCHANGED remote
    BY <1>0, <2>1, <2>2 DEF RemoteAt, OnePeer
  <2>3. CASE r.current /\ remote'.of = r.to
    <3>1. link # NoPeer => remote'.of = link
      BY <1>0, <1>5, <2>3 DEF CurrentAt, LinkAt
    <3> QED
      BY <1>0, <2>1, <3>1 DEF RemoteAt, OnePeer
  <2> QED
    BY <1>5, <2>2, <2>3 DEF Resynced
<1>6. CASE AskStatus
  BY <1>0, <1>6, RelayAssumptions DEF RemoteAt, OnePeer, AskStatus, Forwarding, user, linked,
     surface
<1>7. ASSUME NEW q \in relayAsked, StatusAnswered(q)
      PROVE  RemoteAt'
  BY <1>0, <1>7, RelayAssumptions DEF RemoteAt, OnePeer, StatusAnswered, user, linked, surface
<1>8. ASSUME NEW q \in relayAsked, Forwarded(q)
      PROVE  RemoteAt'
  <2>1. link' = link /\ relayAsked' = {} /\ remote'.of = q.to
    BY <1>8 DEF Forwarded, linked
  <2>2. q.to \in Peer /\ Forwards
    BY <1>0, <1>8 DEF AskRecord, RemoteAt
  <2>3. OnePeer /\ link # NoPeer => q.to = link
    BY <1>0, <2>2 DEF OnePeer, LinkTypes
  <2> QED
    BY <2>1, <2>3 DEF RemoteAt, OnePeer
<1>9. ASSUME NEW q \in relayAsked, NotForwarded(q)
      PROVE  RemoteAt'
  BY <1>0, <1>9, RelayAssumptions DEF RemoteAt, OnePeer, NotForwarded, user, linked, surface
<1>10. CASE UNCHANGED <<remote, link, relayAsked>>
  BY <1>0, <1>10 DEF RemoteAt, OnePeer
<1> QED
  BY <1>1, <1>2, <1>3, <1>4, <1>5, <1>6, <1>7, <1>8, <1>9, <1>10 DEF RelayNext, LinkSteps,
     Reads, user, linked, surface, StartRelay, Revokes, ChangesThere, Open, Opened, Hello,
     Answers, ResyncFails, Watch, Unwatch

\* The events left when the first is read.
LEMMA OneRead ==
    ASSUME events \in Seq(Event), events # <<>>, events' = Tail(events)
    PROVE  /\ 1 \in DOMAIN events /\ Head(events) = events[1]
           /\ \A i \in DOMAIN events' : i + 1 \in DOMAIN events /\ events'[i] = events[i + 1]
           /\ \A j \in DOMAIN events : j = 1 \/ (j - 1 \in DOMAIN events' /\ events'[j - 1] = events[j])
<1>1. /\ Len(events) \in Nat /\ Len(events) > 0 /\ DOMAIN events = 1 .. Len(events)
      /\ DOMAIN events' = 1 .. Len(events) - 1
  OBVIOUS
<1>2. \A i \in DOMAIN events' : events'[i] = events[i + 1]
  OBVIOUS
<1>3. \A j \in DOMAIN events : j = 1 \/ (j - 1 \in DOMAIN events' /\ j - 1 + 1 = j)
  BY <1>1
<1>4. Head(events) = events[1]
  OBVIOUS
<1> QED
  BY <1>1, <1>2, <1>3, <1>4

\* The last event of the thread stays the last when the first event is read.
LEMMA LastRead ==
    ASSUME events \in Seq(Event), events # <<>>, events' = Tail(events), EventsAt, UNCHANGED <<version, link>>
    PROVE  EventsAt'
<1> SUFFICES ASSUME NEW i \in DOMAIN events', IsLast(i)'
             PROVE  events'[i].version = version[link]["thread"]
  BY DEF EventsAt
<1>1. i + 1 \in DOMAIN events /\ events'[i] = events[i + 1] /\ i \in Nat
  BY OneRead
<1>2. ASSUME NEW j \in DOMAIN events, events[j].thing = "thread"
      PROVE  j <= i + 1
  <2>1. CASE j = 1
    BY <1>1, <2>1
  <2>2. CASE j - 1 \in DOMAIN events' /\ events'[j - 1] = events[j]
    BY <1>1, <1>2, <2>2 DEF IsLast
  <2> QED
    BY <2>1, <2>2, OneRead
<1> QED
  BY <1>1, <1>2 DEF EventsAt, IsLast

\* What is sent comes last.
LEMMA OneSent ==
    ASSUME events \in Seq(Event), NEW e, events' = Append(events, e)
    PROVE  /\ Len(events) \in Nat /\ DOMAIN events = 1 .. Len(events)
           /\ DOMAIN events' = 1 .. Len(events) + 1
           /\ \A i \in DOMAIN events : events'[i] = events[i]
           /\ events'[Len(events) + 1] = e
  OBVIOUS

\* The last event of the thread on its way tells how it is.
LEMMA EventsAtStep ==
    ASSUME RelayInvariant, RelayNext PROVE EventsAt'
<1>0. EventsAt /\ SocketAt /\ UserTypes /\ LinkTypes /\ events \in Seq(Event)
  BY RelayParts DEF RelayInvariant
<1>1. ASSUME NEW r \in BOOLEAN, NEW c \in Peer \cup {NoPeer}, Move(r, c)
      PROVE  EventsAt'
  <2>1. version' = version /\ (UNCHANGED <<link, events>> \/ events' = <<>>)
    BY <1>1 DEF Move, Apply, UseLink
  <2> QED
    BY <1>0, <2>1 DEF EventsAt, IsLast
<1>2. CASE StopRelay
  BY <1>0, <1>2, RelayAssumptions DEF EventsAt, StopRelay, user, linked, surface
<1>3. ASSUME NEW m \in Peer, NEW t \in Things, ChangesThere(m, t)
      PROVE  EventsAt'
  <2> DEFINE e == [thing |-> t, version |-> version'[m][t]]
  <2>1. link' = link /\ version' = [version EXCEPT ![m][t] = @ + 1]
    BY <1>3 DEF ChangesThere
  <2>2. CASE link = m /\ Sends
    <3>1. events' = Append(events, e) /\ e.thing = t /\ e.version = version'[m][t]
      BY <1>3, <2>2 DEF ChangesThere
    <3> HIDE DEF e
    <3>2. CASE t = "thread"
      <4>1. \A i \in DOMAIN events' : IsLast(i)' => i = Len(events) + 1
        BY <1>0, <3>1, <3>2, OneSent DEF IsLast
      <4> QED
        BY <1>0, <2>1, <2>2, <3>1, <3>2, <4>1, OneSent DEF EventsAt
    <3>3. CASE t = "status"
      <4>1. \A i \in DOMAIN events' : IsLast(i)' => i \in DOMAIN events /\ IsLast(i) /\ events'[i] = events[i]
        BY <1>0, <3>1, <3>3, OneSent DEF IsLast
      <4>2. version'[link]["thread"] = version[link]["thread"]
        BY <1>0, <1>3, <2>1, <2>2, <3>3 DEF UserTypes
      <4> QED
        BY <1>0, <2>1, <4>1, <4>2 DEF EventsAt
    <3> QED
      BY <1>3, <3>2, <3>3 DEF Things
  <2>3. CASE ~ (link = m /\ Sends)
    <3>1. events' = events
      BY <1>3, <2>3 DEF ChangesThere
    <3>2. CASE events = <<>>
      BY <3>1, <3>2 DEF EventsAt
    <3>3. CASE events # <<>>
      <4>1. link # m /\ link \in Peer
        BY <1>0, <2>3, <3>3 DEF SocketAt, Sends, LinkTypes
      <4>2. version'[link]["thread"] = version[link]["thread"]
        BY <1>0, <1>3, <2>1, <4>1 DEF UserTypes
      <4> QED
        BY <1>0, <2>1, <3>1, <4>2 DEF EventsAt, IsLast
    <3> QED
      BY <3>2, <3>3
  <2> QED
    BY <2>2, <2>3
<1>4. CASE Opened
  <2>1. \A i \in DOMAIN events' : events'[i].thing = "hello"
    BY <1>4 DEF Opened
  <2> QED
    BY <2>1 DEF EventsAt, IsLast
<1>5. CASE Hello
  BY <1>0, <1>5, LastRead DEF Hello
<1>6. CASE FromMachine
  BY <1>0, <1>6, LastRead DEF FromMachine, linked
<1>7. CASE Closes
  BY <1>0, <1>7, RelayAssumptions DEF EventsAt, Closes, user, linked, surface
<1>8. CASE UNCHANGED <<link, version, events>>
  BY <1>0, <1>8 DEF EventsAt, IsLast
<1> QED
  BY <1>1, <1>2, <1>3, <1>4, <1>5, <1>6, <1>7, <1>8 DEF RelayNext, LinkSteps, Reads, user,
     linked, surface, StartRelay, Revokes, Open, Answers, Resynced, ResyncFails, AskStatus,
     StatusAnswered, Forwarded, NotForwarded, Watch, Unwatch

\* Clients know the thread, or will: an event or the resync tells them.
LEMMA ThreadAtStep ==
    ASSUME RelayInvariant, RelayNext PROVE ThreadAt'
<1>0. ThreadAt /\ EventsAt /\ SocketAt /\ LinkAt /\ StateAt /\ CurrentAt
      /\ UserTypes /\ LinkTypes /\ events \in Seq(Event) /\ resyncs \subseteq ReadRecord
  BY RelayParts DEF RelayInvariant
<1>1. ASSUME NEW r \in BOOLEAN, NEW c \in Peer \cup {NoPeer}, Move(r, c)
      PROVE  ThreadAt'
  <2>1. \/ ws' = "none"
        \/ UNCHANGED <<link, ws, events, resyncs>>
    BY <1>1 DEF Move, Apply, UseLink
  <2>2. UNCHANGED <<version, thread, pushed>>
    BY <1>1 DEF Move
  <2> QED
    BY <1>0, <2>1, <2>2 DEF ThreadAt, Quiet, Now
<1>2. CASE StopRelay
  BY <1>0, <1>2, RelayAssumptions DEF ThreadAt, StopRelay, user, linked, surface
<1>3. ASSUME NEW m \in Peer, NEW t \in Things, ChangesThere(m, t)
      PROVE  ThreadAt'
  <2> DEFINE e == [thing |-> t, version |-> version'[m][t]]
  <2> SUFFICES ASSUME ws = "connected", Quiet' PROVE Quiet /\ Now' = Now
    BY <1>0, <1>3 DEF ThreadAt, ChangesThere, linked, Now
  <2>1. UNCHANGED <<link, ws, resyncs, thread, pushed>> /\ version' = [version EXCEPT ![m][t] = @ + 1]
    BY <1>3 DEF ChangesThere
  <2>2. CASE link = m
    <3>1. events' = Append(events, e) /\ e.thing = t
      BY <1>3, <2>2 DEF ChangesThere, Sends
    <3> HIDE DEF e
    <3>2. t # "thread"
      BY <1>0, <3>1, OneSent DEF Quiet
    <3>3. Quiet
      BY <1>0, <3>1, OneSent DEF Quiet
    <3> QED
      BY <1>0, <1>3, <2>1, <2>2, <3>2, <3>3 DEF Now, UserTypes
  <2>3. CASE link # m
    <3>1. events' = events /\ link \in Peer
      BY <1>0, <1>3, <2>3 DEF ChangesThere, SocketAt, LinkTypes
    <3> QED
      BY <1>0, <1>3, <2>1, <2>3, <3>1 DEF Now, UserTypes, Quiet
  <2> QED
    BY <2>2, <2>3
<1>4. CASE Open
  BY <1>0, <1>4, RelayAssumptions DEF ThreadAt, Open, user, linked, surface
<1>5. CASE Opened
  BY <1>0, <1>5, RelayAssumptions DEF ThreadAt, Opened, user, linked, surface
<1>6. CASE Hello
  <2> DEFINE new == [to |-> link, current |-> TRUE, read |-> [t \in Things |-> MaxVersion + 1]]
  <2>1. resyncs' = {[e EXCEPT !.current = FALSE] : e \in resyncs} \cup {new} /\ pushed' = FALSE
    BY <1>6 DEF Hello
  <2>2. new.current /\ ~ (new.read["thread"] <= MaxVersion)
    BY RelayAssumptions DEF Things
  <2> HIDE DEF new
  <2>3. \A r \in resyncs' : r.current => r = new
    BY <1>0, <2>1, Superseded
  <2> QED
    BY <2>1, <2>2, <2>3 DEF ThreadAt
<1>7. CASE FromMachine
  <2>1. UNCHANGED <<version, link, ws, resyncs>> /\ events # <<>> /\ events' = Tail(events)
    BY <1>7 DEF FromMachine, linked
  <2>2. CASE Head(events).thing = "status" /\ UNCHANGED <<thread, pushed>>
    <3>1. Quiet' => Quiet
      BY <1>0, <2>1, <2>2, OneRead DEF Quiet
    <3> QED
      BY <1>0, <2>1, <2>2, <3>1 DEF ThreadAt, Now
  <2>3. CASE /\ Head(events).thing = "thread" /\ pushed' = TRUE
             /\ thread' = [of |-> link, version |-> Head(events).version]
    <3>1. ASSUME Quiet' PROVE IsLast(1)
      <4>1. ASSUME NEW j \in DOMAIN events, events[j].thing = "thread" PROVE j = 1
        BY <1>0, <2>1, <3>1, <4>1, OneRead DEF Quiet
      <4>2. events[1].thing = "thread"
        BY <1>0, <2>1, <2>3, OneRead
      <4> QED
        BY <4>1, <4>2 DEF IsLast
    <3>2. Quiet' => thread' = Now
      BY <1>0, <2>1, <2>3, <3>1, OneRead DEF EventsAt, Now
    <3> QED
      BY <2>1, <2>3, <3>2 DEF ThreadAt, Now
  <2> QED
    BY <1>7, <2>2, <2>3 DEF FromMachine
<1>8. CASE Closes
  BY <1>0, <1>8, RelayAssumptions DEF ThreadAt, Closes, user, linked, surface
<1>9. ASSUME NEW r \in resyncs, NEW t \in Things, Answers(r, t)
      PROVE  ThreadAt'
  <2> DEFINE new == [r EXCEPT !.read[t] = version[r.to][t]]
  <2>1. /\ UNCHANGED <<version, link, ws, events, thread, pushed>>
        /\ resyncs' = (resyncs \ {r}) \cup {new}
    BY <1>9 DEF Answers, linked
  <2>2. r \in ReadRecord /\ r.to \in Peer
    BY <1>0, <1>9 DEF ReadRecord
  <2>3. version[r.to][t] \in 0 .. MaxVersion + 1
    <3>1. version[r.to] \in [Things -> 0 .. MaxVersion]
      BY <1>0, <2>2 DEF UserTypes
    <3> QED
      BY <1>9, <3>1, RelayAssumptions
  <2>4. new.current = r.current /\ new.read = [r.read EXCEPT ![t] = version[r.to][t]]
    BY <1>9, <2>2, <2>3, ReadIs
  <2> HIDE DEF new
  <2>5. ws = "connected" /\ r.current => r.to = link
    BY <1>0, <1>9, RelayAssumptions DEF CurrentAt, LinkAt, SocketAt
  <2>6. \/ t = "thread" /\ new.read["thread"] = version[r.to]["thread"]
        \/ new.read["thread"] = r.read["thread"]
    BY <1>9, <2>2, <2>4 DEF Things, ReadRecord
  <2>7. UNCHANGED <<Now, Quiet>>
    BY <2>1 DEF Now, Quiet
  <2> QED
    BY <1>0, <1>9, <2>1, <2>4, <2>5, <2>6, <2>7 DEF ThreadAt
<1>10. ASSUME NEW r \in resyncs, Resynced(r)
      PROVE  ThreadAt'
  <2>1. UNCHANGED <<version, link, ws, events, pushed>> /\ resyncs' = resyncs \ {r}
    BY <1>10 DEF Resynced, linked
  <2>2. UNCHANGED <<Now, Quiet>>
    BY <2>1 DEF Now, Quiet
  <2>3. CASE ~ r.current
    <3>1. UNCHANGED thread
      BY <1>10, <2>3 DEF Resynced
    <3> QED
      BY <1>0, <1>10, <2>1, <2>2, <2>3, <3>1 DEF ThreadAt
  <2>4. CASE r.current /\ ws = "connected"
    <3>1. thread' = IF pushed THEN thread ELSE [of |-> r.to, version |-> r.read["thread"]]
      BY <1>0, <1>10, <2>4, RelayAssumptions DEF Resynced, StateAt, LinkAt, SocketAt
    <3>2. r.to = link /\ r.read["thread"] <= MaxVersion
      BY <1>0, <1>10, <2>4, RelayAssumptions DEF Resynced, CurrentAt, LinkAt, SocketAt, Things
    <3>3. ~ ReadsFail /\ Quiet => thread' = Now
      BY <1>0, <1>10, <2>4, <3>1, <3>2 DEF ThreadAt, Now
    <3> QED
      BY <1>0, <2>1, <2>2, <3>3 DEF ThreadAt
  <2> QED
    BY <2>1, <2>3, <2>4 DEF ThreadAt
<1>11. ASSUME NEW r \in resyncs, ResyncFails(r)
      PROVE  ThreadAt'
  <2>1. UNCHANGED <<version, link, ws, events, pushed, thread>> /\ resyncs' = resyncs \ {r}
    BY <1>11 DEF ResyncFails, linked
  <2>2. UNCHANGED <<Now, Quiet>>
    BY <2>1 DEF Now, Quiet
  <2>3. ReadsFail \/ ~ r.current \/ ws # "connected"
    BY <1>11 DEF ResyncFails
  <2> QED
    BY <1>0, <1>11, <2>1, <2>2, <2>3 DEF ThreadAt
<1>12. CASE UNCHANGED <<version, link, ws, events, resyncs, thread, pushed>>
  BY <1>0, <1>12 DEF ThreadAt, Quiet, Now
<1> QED
  BY <1>1, <1>2, <1>3, <1>4, <1>5, <1>6, <1>7, <1>8, <1>9, <1>10, <1>11, <1>12 DEF RelayNext,
     LinkSteps, Reads, user, linked, surface, StartRelay, Revokes, AskStatus, StatusAnswered,
     Forwarded, NotForwarded, Watch, Unwatch

LEMMA RelayStep == RelayInvariant /\ [RelayNext]_relayVars => RelayInvariant'
<1> SUFFICES ASSUME RelayInvariant, [RelayNext]_relayVars PROVE RelayInvariant'
  OBVIOUS
<1>1. CASE RelayNext
  BY <1>1, RelayTypesStep, LinkAtStep, SocketAtStep, StateAtStep, SurfaceAtStep, RemoteAtStep,
     CurrentAtStep,
     EventsAtStep, ThreadAtStep DEF RelayInvariant
<1>2. CASE UNCHANGED relayVars
  <2>1. RelayTypeOK'
    BY <1>2 DEF relayVars, user, linked, surface, RelayInvariant, RelayTypeOK
  <2>2. LinkAt' /\ SocketAt' /\ StateAt' /\ SurfaceAt'
    BY <1>2 DEF relayVars, user, linked, surface, RelayInvariant, LinkAt, SocketAt, StateAt,
       SurfaceAt,
       WatchedIsSubscribed
  <2>3. RemoteAt' /\ CurrentAt'
    BY <1>2 DEF relayVars, user, linked, surface, RelayInvariant, RemoteAt, CurrentAt, OnePeer
  <2>4. EventsAt' /\ ThreadAt'
    BY <1>2 DEF relayVars, user, linked, surface, RelayInvariant, EventsAt, ThreadAt, IsLast, Quiet,
       Now
  <2> QED
    BY <2>1, <2>2, <2>3, <2>4 DEF RelayInvariant
<1> QED
  BY <1>1, <1>2

\* The invariant is what the clients are shown.
LEMMA RelayShows == RelayInvariant => RelayShowsTheMachine
<1> SUFFICES ASSUME RelayInvariant PROVE RelayShowsTheMachine
  OBVIOUS
<1>1. OnePeer => StatusIsOfTheMachine
  BY DEF RelayInvariant, RemoteAt, StatusIsOfTheMachine, Forwarding
<1>2. StateIsTheLinks
  BY RelayAssumptions DEF RelayInvariant, StateAt, LinkAt, StateIsTheLinks
<1>3. ASSUME ~ ReadsFail PROVE ThreadsCatchUp
  <2> SUFFICES ASSUME state = "connected", ~ relayStopped, ~ \E r \in resyncs : r.current,
                      "thread" \notin {events[i].thing : i \in DOMAIN events}
               PROVE  thread = [of |-> link, version |-> version[link]["thread"]]
    BY DEF ThreadsCatchUp, CaughtUp
  <2>1. ws = "connected" /\ Quiet
    BY DEF RelayInvariant, StateAt, Quiet
  <2> QED
    BY <1>3, <2>1 DEF RelayInvariant, ThreadAt, Now
<1> QED
  BY <1>1, <1>2, <1>3 DEF RelayInvariant, RelayShowsTheMachine, SurfaceAt, OnePeer

\* All promises of the relay together.
THEOREM RelayIsRight == RelaySpec => []RelayShowsTheMachine
  BY RelayStarts, RelayStep, RelayShows, PTL DEF RelaySpec

-----------------------------------------------------------------------------
(* The devices that are paired.                                            *)

IsAt(d) == request[d].at
Through == {"adding", "paired", "refused"}

\* A write under way is the first save's.  The device of an "add" is being added, and
\* there is one for it; the device of a "revoke" is gone.
QueueAt ==
    /\ temp.writing => saves # <<>>
    /\ \A i \in DOMAIN saves :
        /\ saves[i].for = "add" => IsAt(saves[i].of) = "adding"
        /\ saves[i].for = "revoke" => saves[i].of \in asked \ devices
    /\ \A i, j \in DOMAIN saves :
          saves[i].for = "add" /\ saves[j].for = "add" /\ saves[i].of = saves[j].of => i = j

\* Only who used a code is on a list, and no code is tried again by them.
ListedAt == \A d \in devices \cup file \cup temp.devices \cup asked : IsAt(d) \in Through

\* What is written has the device that waits for it, or no longer has it.
WritingAt ==
    temp.writing =>
        /\ Head(saves).for = "add" /\ Head(saves).of \notin asked => Head(saves).of \in temp.devices
        /\ Head(saves).for = "revoke" => Head(saves).of \notin temp.devices

\* Who was told that it is paired is on every list until its revocation is asked for.
PairedAt ==
    \A d \in Client \ asked :
        /\ IsAt(d) = "adding" => d \in devices
        /\ IsAt(d) = "paired" => d \in devices /\ d \in file /\ (temp.writing => d \in temp.devices)

\* Who was revoked is on none.
RevokedAt == revoked \subseteq asked /\ revoked \cap (devices \cup file \cup temp.devices) = {}

SocketsAt == \A d \in sockets : d \in devices /\ IsAt(d) = "paired"

RoomAt ==
    /\ Cardinality(devices) <= MaxDevices /\ Cardinality(file) <= MaxDevices
    /\ Cardinality(temp.devices) <= MaxDevices

\* A code was issued; one that is used up is no longer there, nor is another device's.
CodesAt ==
    /\ \A c \in codes : c.code <= issued
    /\ \A d \in Client : request[d].code <= issued
    /\ \A d \in Client : IsAt(d) \in {"adding", "paired"} =>
          /\ \A c \in codes : c.code # request[d].code
          /\ \A e \in Client : IsAt(e) \in {"adding", "paired"} /\ e # d => request[e].code # request[d].code

\* No code has been missed more often than was counted.
MissedAt ==
    /\ \A c \in codes : missed[c.code] <= failures
    /\ \A c \in 1 .. MaxIssues : c > issued => missed[c] = 0

\* The attempts of the window are remembered.
Recent == {d \in Client : IsAt(d) \notin {"none", "limited"} /\ now - request[d].came < Window}
RecentAt == crashes = 0 => Recent \subseteq attempts /\ Cardinality(Recent) <= Attempts

DevicesInvariant ==
    /\ DevicesTypeOK
    /\ QueueAt /\ ListedAt /\ WritingAt /\ PairedAt /\ RevokedAt /\ SocketsAt /\ RefusedIsNotPaired
    /\ RoomAt /\ CodesAt /\ MissedAt /\ RecentAt

\* Types, in parts.
Codes == [code : 1 .. MaxIssues, expires : 0 .. MaxTime + Ttl]
SaveRecord == [for : {"add", "revoke", "touch"}, of : Client]
RequestRecord == [at : Steps, came : 0 .. MaxTime, code : 0 .. MaxIssues]
NumberTypes ==
    /\ now \in 0 .. MaxTime /\ issued \in 0 .. MaxIssues /\ failures \in 0 .. Failures - 1
    /\ crashes \in 0 .. MaxCrashes
SetTypes ==
    /\ attempts \subseteq Client /\ devices \subseteq Client /\ file \subseteq Client
    /\ seen \subseteq Client /\ sockets \subseteq Client
    /\ asked \subseteq Client /\ revoked \subseteq Client /\ unknown \subseteq Client
TempTypes == temp \in [writing : BOOLEAN, devices : SUBSET Client]

\* The parts are the whole.
LEMMA DevicesParts ==
    DevicesTypeOK <=> /\ NumberTypes /\ SetTypes /\ TempTypes
                      /\ codes \subseteq Codes
                      /\ missed \in [1 .. MaxIssues -> Nat]
                      /\ request \in [Client -> RequestRecord]
                      /\ saves \in Seq(SaveRecord)
  BY DEF DevicesTypeOK, NumberTypes, SetTypes, TempTypes, Codes, SaveRecord, RequestRecord

LEMMA SubsetsOfClient ==
    ASSUME NEW S \in SUBSET Client
    PROVE  /\ IsFiniteSet(S) /\ Cardinality(S) \in Nat
           /\ \A T \in SUBSET S : Cardinality(T) <= Cardinality(S)
           /\ \A d \in Client : Cardinality(S \cup {d}) <= Cardinality(S) + 1
<1>1. IsFiniteSet(S)
  BY DevicesAssumptions, FS_Subset
<1>2. Cardinality(S) \in Nat
  BY <1>1, FS_CardinalityType
<1>3. \A T \in SUBSET S : Cardinality(T) <= Cardinality(S)
  BY <1>1, FS_Subset
<1>4. \A d \in Client : Cardinality(S \cup {d}) \in {Cardinality(S), Cardinality(S) + 1}
  BY <1>1, FS_AddElement
<1> QED
  BY <1>1, <1>2, <1>3, <1>4

\* The first save, and those that are left.
LEMMA FirstSave ==
    ASSUME saves \in Seq(SaveRecord), saves # <<>>
    PROVE  /\ 1 \in DOMAIN saves /\ Head(saves) = saves[1]
           /\ Head(saves).of \in Client /\ Head(saves).for \in {"add", "revoke", "touch"}
           /\ Tail(saves) \in Seq(SaveRecord)
           /\ \A i \in DOMAIN Tail(saves) :
                 i \in Nat /\ i + 1 \in DOMAIN saves /\ i + 1 # 1 /\ Tail(saves)[i] = saves[i + 1]
<1>1. Head(saves) \in SaveRecord
  OBVIOUS
<1>2. Head(saves).of \in Client /\ Head(saves).for \in {"add", "revoke", "touch"}
  BY <1>1 DEF SaveRecord
<1>3. Tail(saves) \in Seq(SaveRecord) /\ 1 \in DOMAIN saves /\ Head(saves) = saves[1]
  OBVIOUS
<1>4. DOMAIN Tail(saves) = 1 .. Len(saves) - 1 /\ DOMAIN saves = 1 .. Len(saves) /\ Len(saves) \in Nat
  OBVIOUS
<1>5. \A i \in DOMAIN Tail(saves) : Tail(saves)[i] = saves[i + 1]
  OBVIOUS
<1> QED
  BY <1>2, <1>3, <1>4, <1>5

\* A save that is added comes last.
LEMMA SaveAdded ==
    ASSUME saves \in Seq(SaveRecord), NEW what \in {"add", "revoke", "touch"}, NEW d \in Client,
           Save(what, d)
    PROVE  /\ saves' \in Seq(SaveRecord) /\ Len(saves) \in Nat /\ DOMAIN saves = 1 .. Len(saves)
           /\ DOMAIN saves' = 1 .. Len(saves) + 1 /\ saves' # <<>>
           /\ \A i \in DOMAIN saves : saves'[i] = saves[i]
           /\ saves'[Len(saves) + 1].for = what /\ saves'[Len(saves) + 1].of = d
           /\ saves # <<>> => Head(saves') = Head(saves)
<1> DEFINE e == [for |-> what, of |-> d]
<1>1. e \in SaveRecord /\ e.for = what /\ e.of = d
  BY DEF SaveRecord
<1>2. saves' = Append(saves, e)
  BY DEF Save
<1> HIDE DEF e
<1>3. /\ saves' \in Seq(SaveRecord) /\ Len(saves) \in Nat /\ DOMAIN saves = 1 .. Len(saves)
      /\ DOMAIN saves' = 1 .. Len(saves) + 1 /\ saves' # <<>>
  BY <1>1, <1>2
<1>4. (\A i \in DOMAIN saves : saves'[i] = saves[i]) /\ saves'[Len(saves) + 1] = e
  BY <1>1, <1>2
<1>5. saves # <<>> => Head(saves') = Head(saves)
  BY <1>1, <1>2
<1> QED
  BY <1>1, <1>3, <1>4, <1>5

LEMMA DevicesStart == DevicesInit => DevicesInvariant
<1> SUFFICES ASSUME DevicesInit PROVE DevicesInvariant
  OBVIOUS
<1>1. NumberTypes /\ SetTypes
  BY DevicesAssumptions DEF DevicesInit, NumberTypes, SetTypes
<1>2. TempTypes /\ codes \subseteq Codes
  BY DEF DevicesInit, TempTypes, NotWriting
<1>3. missed \in [1 .. MaxIssues -> Nat]
  BY DEF DevicesInit
<1>4. request \in [Client -> RequestRecord]
  BY DevicesAssumptions DEF DevicesInit, RequestRecord, Steps, Wrong
<1>5. saves = <<>> /\ saves \in Seq(SaveRecord)
  BY DEF DevicesInit
<1>6. DevicesTypeOK
  BY <1>1, <1>2, <1>3, <1>4, <1>5, DevicesParts
<1>7. QueueAt /\ WritingAt
  BY <1>5 DEF DevicesInit, QueueAt, WritingAt, NotWriting
<1>8. ListedAt /\ PairedAt /\ RevokedAt /\ SocketsAt /\ RefusedIsNotPaired
  BY DEF DevicesInit, ListedAt, PairedAt, RevokedAt, SocketsAt, RefusedIsNotPaired, NotWriting, IsAt
<1>9. RoomAt /\ RecentAt
  <2>1. Recent = {}
    BY DEF DevicesInit, Recent, IsAt
  <2> QED
    BY <2>1, FS_EmptySet, DevicesAssumptions DEF DevicesInit, RoomAt, RecentAt, NotWriting
<1>10. CodesAt /\ MissedAt
  BY DEF DevicesInit, CodesAt, MissedAt, IsAt, Wrong
<1> QED
  BY <1>6, <1>7, <1>8, <1>9, <1>10 DEF DevicesInvariant

\* The counters keep their types,
LEMMA NumberTypesStep ==
    ASSUME DevicesInvariant, DevicesNext PROVE NumberTypes'
<1>0. NumberTypes
  BY DevicesParts DEF DevicesInvariant
<1>1. CASE Issue
  BY <1>0, <1>1, DevicesAssumptions DEF NumberTypes, Issue, Outstanding, IsFull, pairing, store,
     revocation
<1>2. CASE ClockTicks
  BY <1>0, <1>2, DevicesAssumptions DEF NumberTypes, ClockTicks, pairing, store, revocation
<1>3. CASE Crash
  BY <1>0, <1>3, DevicesAssumptions DEF NumberTypes, Crash, NotWriting, pairing, store,
     revocation
<1>4. ASSUME NEW d \in Client, Miss(d)
      PROVE  NumberTypes'
  BY <1>0, <1>4, DevicesAssumptions DEF NumberTypes, Miss, Refused, Outstanding, Numbers,
     pairing, store, revocation
<1>5. CASE UNCHANGED <<now, issued, failures, crashes>>
  BY <1>0, <1>5 DEF NumberTypes
<1> QED
  BY <1>1, <1>2, <1>3, <1>4, <1>5 DEF DevicesNext, pairing, store, revocation, Write, Written,
     Fails, Attempt, Redeem, NoRoom, Connect, Revoke, RevokeUnknown

\* so do the sets of clients,
LEMMA SetTypesStep ==
    ASSUME DevicesInvariant, DevicesNext PROVE SetTypes'
<1>0. SetTypes /\ TempTypes /\ saves \in Seq(SaveRecord) /\ QueueAt
  BY DevicesParts DEF DevicesInvariant
<1>1. CASE Crash
  BY <1>0, <1>1, DevicesAssumptions DEF SetTypes, Crash, NotWriting, pairing, store, revocation
<1>2. CASE Written
  <2>1. Head(saves).of \in Client
    BY <1>0, <1>2, FirstSave DEF QueueAt, Written
  <2>2. temp.devices \subseteq Client
    BY <1>0 DEF TempTypes
  <2> QED
    BY <1>0, <1>2, <2>1, <2>2 DEF SetTypes, Written, pairing
<1>3. CASE Fails
  BY <1>0, <1>3, DevicesAssumptions DEF SetTypes, Fails, NotWriting, pairing, store, revocation
<1>4. ASSUME NEW d \in Client, NEW code \in {Wrong} \cup 1 .. issued, Attempt(d, code)
      PROVE  SetTypes'
  BY <1>0, <1>4, DevicesAssumptions DEF SetTypes, Attempt, pairing, store, revocation
<1>5. ASSUME NEW d \in Client, Redeem(d)
      PROVE  SetTypes'
  BY <1>0, <1>5, DevicesAssumptions DEF SetTypes, Redeem, Save, Outstanding, Numbers, pairing,
     store, revocation
<1>6. ASSUME NEW d \in Client, Connect(d)
      PROVE  SetTypes'
  BY <1>0, <1>6, DevicesAssumptions DEF SetTypes, Connect, HasToken, Touch, Save, pairing,
     store, revocation
<1>7. ASSUME NEW d \in Client, Revoke(d)
      PROVE  SetTypes'
  BY <1>0, <1>7, DevicesAssumptions DEF SetTypes, Revoke, Save, pairing, store, revocation
<1>8. ASSUME NEW d \in Client, RevokeUnknown(d)
      PROVE  SetTypes'
  BY <1>0, <1>8, DevicesAssumptions DEF SetTypes, RevokeUnknown, pairing, store, revocation
<1>9. CASE UNCHANGED <<attempts, devices, file, seen, sockets, asked, revoked, unknown>>
  BY <1>0, <1>9 DEF SetTypes
<1> QED
  BY <1>1, <1>2, <1>3, <1>4, <1>5, <1>6, <1>7, <1>8, <1>9 DEF DevicesNext, pairing, store,
     revocation, Issue, ClockTicks, Write, NoRoom, Miss

\* the write,
LEMMA TempTypesStep ==
    ASSUME DevicesInvariant, DevicesNext PROVE TempTypes'
<1>0. TempTypes /\ SetTypes
  BY DevicesParts DEF DevicesInvariant
<1>1. CASE Crash
  BY <1>0, <1>1, DevicesAssumptions DEF TempTypes, Crash, NotWriting, pairing, store, revocation
<1>2. CASE Write
  BY <1>0, <1>2 DEF TempTypes, SetTypes, Write
<1>3. CASE Written
  BY <1>0, <1>3, DevicesAssumptions DEF TempTypes, Written, NotWriting, pairing, store,
     revocation
<1>4. CASE Fails
  BY <1>0, <1>4, DevicesAssumptions DEF TempTypes, Fails, NotWriting, pairing, store, revocation
<1>5. CASE UNCHANGED temp
  BY <1>0, <1>5 DEF TempTypes
<1> QED
  BY <1>1, <1>2, <1>3, <1>4, <1>5 DEF DevicesNext, pairing, store, revocation, Issue,
     ClockTicks, Attempt, Redeem, NoRoom, Miss, Connect, Revoke, RevokeUnknown

\* the codes,
LEMMA CodeTypesStep ==
    ASSUME DevicesInvariant, DevicesNext PROVE codes' \subseteq Codes
<1>0. codes \subseteq Codes /\ NumberTypes
  BY DevicesParts DEF DevicesInvariant
<1>1. CASE Issue
  BY <1>0, <1>1, DevicesAssumptions DEF Codes, NumberTypes, Issue, Outstanding, IsFull, pairing,
     store, revocation
<1>2. CASE Crash
  BY <1>0, <1>2, DevicesAssumptions DEF Codes, NumberTypes, Crash, NotWriting, pairing, store,
     revocation
<1>3. ASSUME NEW d \in Client, Redeem(d)
      PROVE  codes' \subseteq Codes
  BY <1>0, <1>3, DevicesAssumptions DEF Codes, NumberTypes, Redeem, Save, Outstanding, Numbers,
     pairing, store, revocation
<1>4. ASSUME NEW d \in Client, Miss(d)
      PROVE  codes' \subseteq Codes
  BY <1>0, <1>4, DevicesAssumptions DEF Codes, NumberTypes, Miss, Refused, Outstanding, Numbers,
     pairing, store, revocation
<1>5. CASE UNCHANGED codes
  BY <1>0, <1>5 DEF Codes, NumberTypes
<1> QED
  BY <1>1, <1>2, <1>3, <1>4, <1>5 DEF DevicesNext, pairing, store, revocation, ClockTicks,
     Write, Written, Fails, Attempt, NoRoom, Connect, Revoke, RevokeUnknown

\* the misses,
LEMMA MissedTypesStep ==
    ASSUME DevicesInvariant, DevicesNext PROVE missed' \in [1 .. MaxIssues -> Nat]
<1>0. missed \in [1 .. MaxIssues -> Nat]
  BY DevicesParts DEF DevicesInvariant
<1>1. ASSUME NEW d \in Client, Miss(d)
      PROVE  missed' \in [1 .. MaxIssues -> Nat]
  BY <1>0, <1>1, DevicesAssumptions DEF Miss, Refused, Outstanding, Numbers, pairing, store,
     revocation
<1>2. CASE UNCHANGED missed
  BY <1>0, <1>2
<1> QED
  BY <1>1, <1>2 DEF DevicesNext, pairing, store, revocation, Issue, ClockTicks, Crash, Write,
     Written, Fails, Attempt, Redeem, NoRoom, Connect, Revoke, RevokeUnknown

\* the requests,
LEMMA RequestTypesStep ==
    ASSUME DevicesInvariant, DevicesNext PROVE request' \in [Client -> RequestRecord]
<1>0. request \in [Client -> RequestRecord] /\ saves \in Seq(SaveRecord) /\ QueueAt /\ NumberTypes
  BY DevicesParts DEF DevicesInvariant
<1>1. CASE Crash
  BY <1>0, <1>1, DevicesAssumptions DEF RequestRecord, Steps, Crash, NotWriting, pairing, store,
     revocation
<1>2. CASE Written
  <2>1. Head(saves).of \in Client
    BY <1>0, <1>2, FirstSave DEF QueueAt, Written
  <2>2. CASE request' = request
    BY <1>0, <2>2
  <2>3. CASE request' = [request EXCEPT ![Head(saves).of].at = "paired"]
    <3> DEFINE h == Head(saves).of
               new == [request[h] EXCEPT !.at = "paired"]
    <3>1. h \in Client /\ request' = [request EXCEPT ![h] = new]
      BY <2>1, <2>3
    <3>2. new \in RequestRecord
      BY <1>0, <3>1 DEF RequestRecord, Steps
    <3> HIDE DEF h, new
    <3> QED
      BY <1>0, <3>1, <3>2
  <2> QED
    BY <1>2, <2>2, <2>3 DEF Written
<1>3. CASE Fails
  <2>1. Head(saves).of \in Client
    BY <1>0, <1>3, FirstSave DEF QueueAt, Fails
  <2>2. CASE request' = request
    BY <1>0, <2>2
  <2>3. CASE request' = [request EXCEPT ![Head(saves).of].at = "refused"]
    <3> DEFINE h == Head(saves).of
               new == [request[h] EXCEPT !.at = "refused"]
    <3>1. h \in Client /\ request' = [request EXCEPT ![h] = new]
      BY <2>1, <2>3
    <3>2. new \in RequestRecord
      BY <1>0, <3>1 DEF RequestRecord, Steps
    <3> HIDE DEF h, new
    <3> QED
      BY <1>0, <3>1, <3>2
  <2> QED
    BY <1>3, <2>2, <2>3 DEF Fails
<1>4. ASSUME NEW d \in Client, NEW code \in {Wrong} \cup 1 .. issued, Attempt(d, code)
      PROVE  request' \in [Client -> RequestRecord]
  <2> DEFINE new == [at |-> "reading", came |-> now, code |-> code]
             limited == [request[d] EXCEPT !.at = "limited"]
  <2>1. new \in RequestRecord
    BY <1>0, <1>4, DevicesAssumptions DEF NumberTypes, RequestRecord, Steps, Wrong
  <2>2. limited \in RequestRecord
    BY <1>0, <1>4 DEF RequestRecord, Steps
  <2>3. request' = [request EXCEPT ![d] = new] \/ request' = [request EXCEPT ![d] = limited]
    BY <1>0, <1>4 DEF Attempt
  <2> HIDE DEF new, limited
  <2> QED
    BY <1>0, <2>1, <2>2, <2>3
<1>5. ASSUME NEW d \in Client, Redeem(d)
      PROVE  request' \in [Client -> RequestRecord]
  BY <1>0, <1>5, DevicesAssumptions DEF RequestRecord, Steps, Redeem, Save, Outstanding,
     Numbers, pairing, store, revocation
<1>6. ASSUME NEW d \in Client, NoRoom(d)
      PROVE  request' \in [Client -> RequestRecord]
  BY <1>0, <1>6, DevicesAssumptions DEF RequestRecord, Steps, NoRoom, Refused, pairing, store,
     revocation
<1>7. ASSUME NEW d \in Client, Miss(d)
      PROVE  request' \in [Client -> RequestRecord]
  BY <1>0, <1>7, DevicesAssumptions DEF RequestRecord, Steps, Miss, Refused, Outstanding,
     Numbers, pairing, store, revocation
<1>8. CASE UNCHANGED request
  BY <1>0, <1>8 DEF RequestRecord, Steps
<1> QED
  BY <1>1, <1>2, <1>3, <1>4, <1>5, <1>6, <1>7, <1>8 DEF DevicesNext, pairing, store, revocation,
     Issue, ClockTicks, Write, Connect, Revoke, RevokeUnknown

\* and the saves.
LEMMA SaveTypesStep ==
    ASSUME DevicesInvariant, DevicesNext PROVE saves' \in Seq(SaveRecord)
<1>0. saves \in Seq(SaveRecord) /\ QueueAt
  BY DevicesParts DEF DevicesInvariant
<1>1. CASE Crash
  BY <1>1 DEF Crash
<1>2. CASE Written
  BY <1>0, <1>2, FirstSave DEF Written, QueueAt
<1>3. CASE Fails
  BY <1>0, <1>3, FirstSave DEF Fails, QueueAt
<1>4. ASSUME NEW d \in Client, Redeem(d)
      PROVE  saves' \in Seq(SaveRecord)
  BY <1>0, <1>4, SaveAdded DEF Redeem
<1>5. ASSUME NEW d \in Client, Connect(d)
      PROVE  saves' \in Seq(SaveRecord)
  BY <1>0, <1>5, SaveAdded DEF Connect, Touch
<1>6. ASSUME NEW d \in Client, Revoke(d)
      PROVE  saves' \in Seq(SaveRecord)
  BY <1>0, <1>6, SaveAdded DEF Revoke
<1>7. CASE UNCHANGED saves
  BY <1>0, <1>7 DEF SaveRecord
<1> QED
  BY <1>1, <1>2, <1>3, <1>4, <1>5, <1>6, <1>7 DEF DevicesNext, pairing, store, revocation,
     Issue, ClockTicks, Write, Attempt, NoRoom, Miss, RevokeUnknown

LEMMA DevicesTypesStep == ASSUME DevicesInvariant, DevicesNext PROVE DevicesTypeOK'
  BY NumberTypesStep, SetTypesStep, TempTypesStep, CodeTypesStep, MissedTypesStep, RequestTypesStep,
     SaveTypesStep
     DEF DevicesTypeOK, NumberTypes, SetTypes, TempTypes, Codes, SaveRecord, RequestRecord

\* A request goes on: it keeps its code and when it came, and the others stay.
LEMMA GoesOn ==
    ASSUME request \in [Client -> RequestRecord], NEW d \in Client, NEW what,
           request' = [request EXCEPT ![d].at = what]
    PROVE  /\ IsAt(d)' = what /\ request'[d].code = request[d].code /\ request'[d].came = request[d].came
           /\ \A e \in Client : e # d => request'[e] = request[e]
  BY DEF IsAt

\* An attempt is the first of its client; the other requests stay as they were.
LEMMA AttemptIs ==
    ASSUME request \in [Client -> RequestRecord], NEW d \in Client, NEW code, Attempt(d, code)
    PROVE  /\ IsAt(d) = "none" /\ IsAt(d)' \in {"limited", "reading"}
           /\ \A e \in Client : e # d => request'[e] = request[e]
           /\ request'[d].code \in {code, request[d].code}
           /\ IsAt(d)' = "reading" =>
                 /\ IsFiniteSet(attempts) =>
                       Cardinality({e \in attempts : now - request[e].came < Window}) < Attempts
                 /\ attempts' = {e \in attempts : now - request[e].came < Window} \cup {d}
           /\ IsAt(d)' = "limited" => attempts' = {e \in attempts : now - request[e].came < Window}
<1> DEFINE recent == {e \in attempts : now - request[e].came < Window}
           new == [at |-> "reading", came |-> now, code |-> code]
<1>1. IsAt(d) = "none"
  BY DEF Attempt, IsAt
<1>2. CASE Cardinality(recent) >= Attempts
  <2>1. attempts' = recent /\ request' = [request EXCEPT ![d].at = "limited"]
    BY <1>2 DEF Attempt
  <2>2. IsAt(d)' = "limited"
    BY <2>1, GoesOn
  <2> QED
    BY <1>1, <2>1, <2>2, GoesOn
<1>3. CASE ~ (Cardinality(recent) >= Attempts)
  <2>1. attempts' = recent \cup {d} /\ request' = [request EXCEPT ![d] = new]
    BY <1>3 DEF Attempt
  <2>2. request'[d] = new
    BY <2>1
  <2>3. IsAt(d)' = "reading" /\ request'[d].code = code
    BY <2>2 DEF IsAt
  <2>4. IsFiniteSet(attempts) => Cardinality(recent) < Attempts
    <3>1. recent \subseteq attempts
      OBVIOUS
    <3> HIDE DEF recent
    <3>2. IsFiniteSet(attempts) => Cardinality(recent) \in Nat
      BY <3>1, FS_Subset, FS_CardinalityType
    <3> QED
      BY <1>3, <3>2, DevicesAssumptions
  <2> HIDE DEF recent, new
  <2>5. \A e \in Client : e # d => request'[e] = request[e]
    BY <2>1
  <2> USE DEF recent
  <2> QED
    BY <1>1, <2>1, <2>3, <2>4, <2>5
<1> QED
  BY <1>2, <1>3

\* A write is done.
LEMMA WrittenIs ==
    ASSUME DevicesInvariant, Written
    PROVE  /\ saves # <<>> /\ Head(saves).of \in Client /\ saves' = Tail(saves)
           /\ temp.writing /\ ~ temp'.writing /\ temp'.devices = {} /\ file' = temp.devices
           /\ UNCHANGED <<devices, asked, sockets, codes, issued, crashes>>
           /\ Head(saves).for = "add" => IsAt(Head(saves).of) = "adding"
           /\ \A e \in Client :
                 /\ IsAt(e)' = IF Head(saves).for = "add" /\ Head(saves).of = e THEN "paired" ELSE IsAt(e)
                 /\ request'[e].code = request[e].code /\ request'[e].came = request[e].came
           /\ \/ revoked' = revoked
              \/ /\ Head(saves).for = "revoke" /\ Head(saves).of \in asked \ devices
                 /\ revoked' = revoked \cup {Head(saves).of}
<1>1. /\ saves \in Seq(SaveRecord) /\ saves # <<>> /\ QueueAt
  BY DevicesParts DEF DevicesInvariant, QueueAt, Written
<1>2. Head(saves).of \in Client /\ Head(saves).for \in {"add", "revoke", "touch"} /\ 1 \in DOMAIN saves
      /\ Head(saves) = saves[1]
  BY <1>1, FirstSave
<1>3. /\ Head(saves).for = "add" => IsAt(Head(saves).of) = "adding"
      /\ Head(saves).for = "revoke" => Head(saves).of \in asked \ devices
  BY <1>1, <1>2 DEF QueueAt
<1>4. temp' = NotWriting
  BY DEF Written
<1>5. ~ temp'.writing /\ temp'.devices = {}
  BY <1>4 DEF NotWriting
<1>6. request \in [Client -> RequestRecord]
  BY DevicesParts DEF DevicesInvariant
<1>7. ASSUME NEW e \in Client
      PROVE  /\ IsAt(e)' = IF Head(saves).for = "add" /\ Head(saves).of = e THEN "paired" ELSE IsAt(e)
             /\ request'[e].code = request[e].code /\ request'[e].came = request[e].came
  <2>1. CASE Head(saves).for # "add"
    BY <2>1 DEF Written, IsAt
  <2>2. CASE Head(saves).for = "add"
    <3>1. request' = [request EXCEPT ![Head(saves).of].at = "paired"]
      BY <2>2 DEF Written
    <3> QED
      BY <1>2, <1>6, <2>2, <3>1, GoesOn DEF IsAt
  <2> QED
    BY <2>1, <2>2
<1> QED
  BY <1>1, <1>2, <1>3, <1>5, <1>7 DEF Written, pairing

\* A write failed.
LEMMA FailsIs ==
    ASSUME DevicesInvariant, Fails
    PROVE  /\ saves # <<>> /\ Head(saves).of \in Client /\ saves' = Tail(saves)
           /\ temp.writing /\ ~ temp'.writing /\ temp'.devices = {}
           /\ UNCHANGED <<file, asked, revoked, sockets, codes, issued, crashes>>
           /\ Head(saves).for = "add" => IsAt(Head(saves).of) = "adding"
           /\ devices' = IF Head(saves).for = "add" THEN devices \ {Head(saves).of} ELSE devices
           /\ \A e \in Client :
                 /\ IsAt(e)' = IF Head(saves).for = "add" /\ Head(saves).of = e THEN "refused" ELSE IsAt(e)
                 /\ request'[e].code = request[e].code /\ request'[e].came = request[e].came
<1>1. /\ saves \in Seq(SaveRecord) /\ saves # <<>> /\ QueueAt
  BY DevicesParts DEF DevicesInvariant, QueueAt, Fails
<1>2. Head(saves).of \in Client /\ 1 \in DOMAIN saves /\ Head(saves) = saves[1]
  BY <1>1, FirstSave
<1>3. Head(saves).for = "add" => IsAt(Head(saves).of) = "adding"
  BY <1>1, <1>2 DEF QueueAt
<1>4. temp' = NotWriting
  BY DEF Fails
<1>5. ~ temp'.writing /\ temp'.devices = {}
  BY <1>4 DEF NotWriting
<1>6. request \in [Client -> RequestRecord]
  BY DevicesParts DEF DevicesInvariant
<1>7. ASSUME NEW e \in Client
      PROVE  /\ IsAt(e)' = IF Head(saves).for = "add" /\ Head(saves).of = e THEN "refused" ELSE IsAt(e)
             /\ request'[e].code = request[e].code /\ request'[e].came = request[e].came
  <2>1. CASE Head(saves).for # "add"
    BY <2>1 DEF Fails, IsAt
  <2>2. CASE Head(saves).for = "add"
    <3>1. request' = [request EXCEPT ![Head(saves).of].at = "refused"]
      BY <2>2 DEF Fails
    <3> QED
      BY <1>2, <1>6, <2>2, <3>1, GoesOn DEF IsAt
  <2> QED
    BY <2>1, <2>2
<1> QED
  BY <1>1, <1>2, <1>3, <1>5, <1>7 DEF Fails, pairing, revocation

\* A restart refuses who was not done.
LEMMA CrashIs ==
    ASSUME request \in [Client -> RequestRecord], Crash
    PROVE  /\ \A d \in Client :
                 /\ IsAt(d)' = IF IsAt(d) \in {"reading", "adding"} THEN "refused" ELSE IsAt(d)
                 /\ request'[d].code = request[d].code
           /\ ~ temp'.writing /\ temp'.devices = {}
<1>1. \A d \in Client : request'[d] = IF request[d].at \in {"reading", "adding"}
                                     THEN [request[d] EXCEPT !.at = "refused"] ELSE request[d]
  BY DEF Crash
<1>2. temp' = NotWriting
  BY DEF Crash
<1> QED
  BY <1>1, <1>2 DEF IsAt, NotWriting, RequestRecord

LEMMA SavesAre == saves \in Seq(SaveRecord) => \A i \in DOMAIN saves : saves[i].of \in Client
<1> SUFFICES ASSUME saves \in Seq(SaveRecord), NEW i \in DOMAIN saves PROVE saves[i].of \in Client
  OBVIOUS
<1>1. saves[i] \in SaveRecord
  OBVIOUS
<1> QED
  BY <1>1 DEF SaveRecord

\* The first save is done with.
LEMMA QueueMovesOn ==
    ASSUME QueueAt, saves \in Seq(SaveRecord), saves # <<>>, saves' = Tail(saves), ~ temp'.writing,
           asked \ devices \subseteq asked' \ devices',
           \A e \in Client : IsAt(e) = "adding" /\ ~ (Head(saves).for = "add" /\ Head(saves).of = e) =>
                                IsAt(e)' = "adding"
    PROVE  QueueAt'
<1>1. ASSUME NEW i \in DOMAIN saves'
      PROVE  /\ saves'[i].for = "add" => request'[saves'[i].of].at = "adding"
             /\ saves'[i].for = "revoke" => saves'[i].of \in asked' \ devices'
  <2>1. i + 1 \in DOMAIN saves /\ saves'[i] = saves[i + 1] /\ i + 1 # 1 /\ 1 \in DOMAIN saves
        /\ Head(saves) = saves[1]
    BY <1>1, FirstSave
  <2>2. saves[i + 1].of \in Client
    BY <2>1, SavesAre
  <2>3. saves[i + 1].for = "add" =>
            IsAt(saves[i + 1].of) = "adding" /\ ~ (saves[1].for = "add" /\ saves[1].of = saves[i + 1].of)
    BY <2>1 DEF QueueAt
  <2>4. saves[i + 1].for = "revoke" => saves[i + 1].of \in asked \ devices
    BY <2>1 DEF QueueAt
  <2>5. saves[i + 1].for = "add" => request'[saves[i + 1].of].at = "adding"
    BY <2>1, <2>2, <2>3 DEF IsAt
  <2> QED
    BY <2>1, <2>4, <2>5
<1>2. ASSUME NEW i \in DOMAIN saves', NEW j \in DOMAIN saves', saves'[i].for = "add",
             saves'[j].for = "add", saves'[i].of = saves'[j].of
      PROVE  i = j
  <2>1. /\ i \in Nat /\ j \in Nat /\ i + 1 \in DOMAIN saves /\ j + 1 \in DOMAIN saves
        /\ saves'[i] = saves[i + 1] /\ saves'[j] = saves[j + 1]
    BY <1>2, FirstSave
  <2>2. i + 1 = j + 1
    BY <1>2, <2>1 DEF QueueAt
  <2> QED
    BY <2>1, <2>2
<1> QED
  BY <1>1, <1>2 DEF QueueAt, IsAt

\* Requests and devices that do not wait for a save move.
LEMMA QueueWaits ==
    ASSUME QueueAt, saves \in Seq(SaveRecord), UNCHANGED <<saves, temp>>,
           asked \ devices \subseteq asked' \ devices',
           \A e \in Client : IsAt(e) = "adding" => IsAt(e)' = "adding"
    PROVE  QueueAt'
<1>1. \A i \in DOMAIN saves : saves[i].of \in Client
  BY SavesAre
<1>2. \A i \in DOMAIN saves :
        /\ saves[i].for = "add" => IsAt(saves[i].of)' = "adding"
        /\ saves[i].for = "revoke" => saves[i].of \in asked' \ devices'
  BY <1>1 DEF QueueAt
<1> QED
  BY <1>2 DEF QueueAt, IsAt

\* A save is added.
LEMMA QueueGrows ==
    ASSUME QueueAt, saves \in Seq(SaveRecord), NEW what \in {"add", "revoke", "touch"}, NEW d \in Client,
           Save(what, d), temp' = temp,
           \A e \in (asked \ devices) : e \in asked' \ devices',
           \A e \in Client : IsAt(e) = "adding" => IsAt(e)' = "adding",
           what = "add" => IsAt(d) # "adding" /\ IsAt(d)' = "adding",
           what = "revoke" => d \in asked' \ devices'
    PROVE  QueueAt'
<1>1. /\ DOMAIN saves' = DOMAIN saves \cup {Len(saves) + 1} /\ Len(saves) + 1 \notin DOMAIN saves
      /\ saves' # <<>>
      /\ \A i \in DOMAIN saves : saves'[i] = saves[i] /\ saves[i].of \in Client
      /\ saves'[Len(saves) + 1].for = what /\ saves'[Len(saves) + 1].of = d
  <2>1. \A i \in DOMAIN saves : saves[i].of \in Client
    BY SavesAre
  <2>2. /\ Len(saves) \in Nat /\ DOMAIN saves = 1 .. Len(saves)
        /\ DOMAIN saves' = 1 .. Len(saves) + 1
    BY SaveAdded
  <2>3. DOMAIN saves' = DOMAIN saves \cup {Len(saves) + 1} /\ Len(saves) + 1 \notin DOMAIN saves
    BY <2>2
  <2> QED
    BY <2>1, <2>3, SaveAdded
<1>2. ASSUME NEW i \in DOMAIN saves'
      PROVE  /\ saves'[i].for = "add" => request'[saves'[i].of].at = "adding"
             /\ saves'[i].for = "revoke" => saves'[i].of \in asked' \ devices'
  <2>1. CASE i \in DOMAIN saves
    <3>1. /\ saves[i].for = "add" => IsAt(saves[i].of) = "adding"
          /\ saves[i].for = "revoke" => saves[i].of \in asked \ devices
      BY <2>1 DEF QueueAt
    <3> QED
      BY <1>1, <2>1, <3>1 DEF IsAt
  <2>2. CASE i = Len(saves) + 1
    BY <1>1, <2>2 DEF IsAt
  <2> QED
    BY <1>1, <1>2, <2>1, <2>2
<1>3. ASSUME NEW i \in DOMAIN saves', NEW j \in DOMAIN saves', saves'[i].for = "add",
             saves'[j].for = "add", saves'[i].of = saves'[j].of
      PROVE  i = j
  <2>1. CASE i \in DOMAIN saves /\ j \in DOMAIN saves
    BY <1>1, <1>3, <2>1 DEF QueueAt
  <2>2. \A k \in DOMAIN saves : saves[k].for = "add" /\ what = "add" => saves[k].of # d
    BY <1>1 DEF QueueAt
  <2> QED
    BY <1>1, <1>3, <2>1, <2>2
<1> QED
  BY <1>1, <1>2, <1>3 DEF QueueAt, IsAt

\* The saves that wait are of devices that do.
LEMMA QueueAtStep ==
    ASSUME DevicesInvariant, DevicesNext PROVE QueueAt'
<1>0. QueueAt /\ ListedAt /\ request \in [Client -> RequestRecord] /\ SetTypes /\ TempTypes
      /\ saves \in Seq(SaveRecord)
  BY DevicesParts DEF DevicesInvariant
<1>1. CASE Crash
  BY <1>0, <1>1, DevicesAssumptions DEF QueueAt, IsAt, Crash, NotWriting, pairing, store,
     revocation
<1>2. CASE Write
  BY <1>0, <1>2, DevicesAssumptions DEF QueueAt, IsAt, Write, pairing, store, revocation
<1>3. CASE Written
  <2>1. saves # <<>> /\ saves' = Tail(saves) /\ ~ temp'.writing /\ UNCHANGED <<devices, asked>>
    BY <1>3, WrittenIs
  <2>2. \A e \in Client : IsAt(e) = "adding" /\ ~ (Head(saves).for = "add" /\ Head(saves).of = e) =>
                               IsAt(e)' = "adding"
    BY <1>3, WrittenIs
  <2> QED
    BY <1>0, <2>1, <2>2, QueueMovesOn
<1>4. CASE Fails
  <2>1. saves # <<>> /\ saves' = Tail(saves) /\ ~ temp'.writing
        /\ asked \ devices \subseteq asked' \ devices'
    BY <1>4, FailsIs
  <2>2. \A e \in Client : IsAt(e) = "adding" /\ ~ (Head(saves).for = "add" /\ Head(saves).of = e) =>
                               IsAt(e)' = "adding"
    BY <1>4, FailsIs
  <2> QED
    BY <1>0, <2>1, <2>2, QueueMovesOn
<1>5. ASSUME NEW d \in Client, NEW code \in {Wrong} \cup 1 .. issued, Attempt(d, code)
      PROVE  QueueAt'
  <2>1. \A e \in Client : IsAt(e) = "adding" => IsAt(e)' = "adding"
    BY <1>0, <1>5, AttemptIs DEF IsAt
  <2> QED
    BY <1>0, <1>5, <2>1, QueueWaits DEF Attempt, store, revocation
<1>6. ASSUME NEW d \in Client, Redeem(d)
      PROVE  QueueAt'
  <2>1. IsAt(d) = "reading" /\ IsAt(d)' = "adding" /\ \A e \in Client : e # d => IsAt(e)' = IsAt(e)
    BY <1>0, <1>6, GoesOn DEF Redeem, IsAt
  <2>2. d \notin asked
    BY <1>0, <2>1 DEF ListedAt, Through
  <2> QED
    BY <1>0, <1>6, <2>1, <2>2, QueueGrows DEF Redeem, revocation
<1>7. ASSUME NEW d \in Client, NoRoom(d)
      PROVE  QueueAt'
  BY <1>0, <1>7, DevicesAssumptions DEF QueueAt, IsAt, NoRoom, Refused, pairing, store, revocation
<1>8. ASSUME NEW d \in Client, Miss(d)
      PROVE  QueueAt'
  BY <1>0, <1>8, DevicesAssumptions DEF QueueAt, IsAt, Miss, Refused, Outstanding, Numbers,
     pairing, store, revocation
<1>9. ASSUME NEW d \in Client, Connect(d)
      PROVE  QueueAt'
  <2>1. UNCHANGED <<request, devices, temp, asked>>
    BY <1>9 DEF Connect, revocation
  <2>2. saves' = saves \/ Save("touch", d)
    BY <1>9 DEF Connect, Touch
  <2>3. CASE saves' = saves
    BY <1>0, <2>1, <2>3 DEF QueueAt, IsAt
  <2>4. CASE Save("touch", d)
    BY <1>0, <1>9, <2>1, <2>4, QueueGrows DEF IsAt
  <2> QED
    BY <2>2, <2>3, <2>4
<1>10. ASSUME NEW d \in Client, Revoke(d)
      PROVE  QueueAt'
  <2>1. UNCHANGED <<request, temp>> /\ d \in asked' \ devices' /\ Save("revoke", d)
        /\ asked \subseteq asked' /\ devices' \subseteq devices
    BY <1>0, <1>10 DEF Revoke, SetTypes
  <2> QED
    BY <1>0, <1>10, <2>1, QueueGrows DEF IsAt
<1>11. ASSUME NEW d \in Client, RevokeUnknown(d)
      PROVE  QueueAt'
  BY <1>0, <1>11, DevicesAssumptions DEF QueueAt, IsAt, RevokeUnknown, pairing, store, revocation
<1>12. CASE UNCHANGED <<request, devices, saves, temp, asked>>
  BY <1>0, <1>12 DEF QueueAt, IsAt
<1> QED
  BY <1>1, <1>2, <1>3, <1>4, <1>5, <1>6, <1>7, <1>8, <1>9, <1>10, <1>11, <1>12 DEF DevicesNext,
     pairing, store, revocation, Issue, ClockTicks

\* Only who used a code is on a list.
LEMMA ListedAtStep ==
    ASSUME DevicesInvariant, DevicesNext PROVE ListedAt'
<1>0. ListedAt /\ QueueAt /\ request \in [Client -> RequestRecord] /\ SetTypes /\ TempTypes
      /\ saves \in Seq(SaveRecord)
  BY DevicesParts DEF DevicesInvariant
<1>1. CASE Crash
  <2>1. \A d \in Client : IsAt(d)' = IF IsAt(d) \in {"reading", "adding"} THEN "refused" ELSE IsAt(d)
    BY <1>0, <1>1, CrashIs
  <2>2. devices' = file /\ file' = file /\ asked' = asked /\ temp'.devices = {}
    BY <1>0, <1>1, CrashIs DEF Crash, revocation
  <2> QED
    BY <1>0, <2>1, <2>2 DEF ListedAt, Through, SetTypes
<1>2. CASE Write
  BY <1>0, <1>2, DevicesAssumptions DEF ListedAt, IsAt, Through, Write, pairing, store, revocation
<1>3. CASE Written
  <2>1. devices' = devices /\ asked' = asked /\ file' = temp.devices /\ temp'.devices = {}
    BY <1>3, WrittenIs
  <2>2. \A d \in Client : IsAt(d) \in Through => IsAt(d)' \in Through
    BY <1>3, WrittenIs DEF Through
  <2> QED
    BY <1>0, <2>1, <2>2 DEF ListedAt, SetTypes, TempTypes
<1>4. CASE Fails
  <2>1. devices' \subseteq devices /\ asked' = asked /\ file' = file /\ temp'.devices = {}
    BY <1>4, FailsIs
  <2>2. \A d \in Client : IsAt(d) \in Through => IsAt(d)' \in Through
    BY <1>4, FailsIs DEF Through
  <2> QED
    BY <1>0, <2>1, <2>2 DEF ListedAt, SetTypes
<1>5. ASSUME NEW d \in Client, NEW code \in {Wrong} \cup 1 .. issued, Attempt(d, code)
      PROVE  ListedAt'
  <2>1. \A e \in Client : IsAt(e) \in Through => IsAt(e)' \in Through
    BY <1>0, <1>5, AttemptIs DEF IsAt, Through
  <2> QED
    BY <1>0, <1>5, <2>1 DEF Attempt, store, revocation, ListedAt, SetTypes, TempTypes
<1>6. ASSUME NEW d \in Client, Redeem(d)
      PROVE  ListedAt'
  BY <1>0, <1>6, DevicesAssumptions DEF ListedAt, IsAt, Through, Redeem, Save, Outstanding,
     Numbers, pairing, store, revocation
<1>7. ASSUME NEW d \in Client, NoRoom(d)
      PROVE  ListedAt'
  BY <1>0, <1>7, DevicesAssumptions DEF ListedAt, IsAt, Through, NoRoom, Refused, pairing, store,
     revocation
<1>8. ASSUME NEW d \in Client, Miss(d)
      PROVE  ListedAt'
  BY <1>0, <1>8, DevicesAssumptions DEF ListedAt, IsAt, Through, Miss, Refused, Outstanding,
     Numbers, pairing, store, revocation
<1>9. ASSUME NEW d \in Client, Revoke(d)
      PROVE  ListedAt'
  BY <1>0, <1>9, DevicesAssumptions DEF ListedAt, IsAt, Through, Revoke, Save, pairing, store,
     revocation
<1>10. CASE UNCHANGED <<request, devices, file, temp, asked>>
  BY <1>0, <1>10 DEF ListedAt, IsAt, Through
<1> QED
  BY <1>1, <1>2, <1>3, <1>4, <1>5, <1>6, <1>7, <1>8, <1>9, <1>10 DEF DevicesNext, pairing,
     store, revocation, Issue, ClockTicks, Connect, RevokeUnknown

\* What is written has the device that waits for it.
LEMMA WritingAtStep ==
    ASSUME DevicesInvariant, DevicesNext PROVE WritingAt'
<1>0. WritingAt /\ QueueAt /\ PairedAt /\ request \in [Client -> RequestRecord] /\ SetTypes
      /\ TempTypes /\ saves \in Seq(SaveRecord)
  BY DevicesParts DEF DevicesInvariant
<1>1. CASE Crash
  BY <1>0, <1>1, CrashIs DEF WritingAt
<1>2. CASE Write
  <2>1. temp'.devices = devices /\ UNCHANGED <<saves, asked>> /\ saves # <<>>
    BY <1>2 DEF Write, revocation
  <2>2. 1 \in DOMAIN saves /\ Head(saves) = saves[1] /\ Head(saves).of \in Client
    BY <1>0, <2>1, FirstSave
  <2>3. /\ Head(saves).for = "add" => IsAt(Head(saves).of) = "adding"
        /\ Head(saves).for = "revoke" => Head(saves).of \in asked \ devices
    BY <1>0, <2>2 DEF QueueAt
  <2> QED
    BY <1>0, <2>1, <2>2, <2>3 DEF WritingAt, PairedAt
<1>3. CASE Written
  BY <1>3, WrittenIs DEF WritingAt
<1>4. CASE Fails
  BY <1>4, FailsIs DEF WritingAt
<1>5. ASSUME NEW d \in Client, Redeem(d)
      PROVE  WritingAt'
  <2>1. UNCHANGED <<temp, asked>> /\ (saves # <<>> => Head(saves') = Head(saves))
    BY <1>0, <1>5, SaveAdded DEF Redeem, revocation
  <2> QED
    BY <1>0, <2>1 DEF WritingAt, QueueAt
<1>6. ASSUME NEW d \in Client, Connect(d)
      PROVE  WritingAt'
  <2>1. UNCHANGED <<temp, asked>> /\ (saves # <<>> => Head(saves') = Head(saves))
    BY <1>0, <1>6, SaveAdded DEF Connect, Touch, revocation
  <2> QED
    BY <1>0, <2>1 DEF WritingAt, QueueAt
<1>7. ASSUME NEW d \in Client, Revoke(d)
      PROVE  WritingAt'
  <2>1. temp' = temp /\ asked \subseteq asked' /\ (saves # <<>> => Head(saves') = Head(saves))
    BY <1>0, <1>7, SaveAdded DEF Revoke
  <2> QED
    BY <1>0, <2>1 DEF WritingAt, QueueAt
<1>8. CASE UNCHANGED <<saves, temp, asked>>
  BY <1>0, <1>8 DEF WritingAt
<1> QED
  BY <1>1, <1>2, <1>3, <1>4, <1>5, <1>6, <1>7, <1>8 DEF DevicesNext, pairing, store, revocation,
     Issue, ClockTicks, Attempt, NoRoom, Miss, RevokeUnknown

\* Who is paired stays on every list.
LEMMA PairedAtStep ==
    ASSUME DevicesInvariant, DevicesNext PROVE PairedAt'
<1>0. PairedAt /\ WritingAt /\ QueueAt /\ ListedAt /\ request \in [Client -> RequestRecord]
      /\ SetTypes /\ TempTypes /\ saves \in Seq(SaveRecord)
  BY DevicesParts DEF DevicesInvariant
<1>1. CASE Crash
  <2>1. \A d \in Client : IsAt(d)' = IF IsAt(d) \in {"reading", "adding"} THEN "refused" ELSE IsAt(d)
    BY <1>0, <1>1, CrashIs
  <2>2. devices' = file /\ file' = file /\ asked' = asked /\ ~ temp'.writing
    BY <1>0, <1>1, CrashIs DEF Crash, revocation
  <2> QED
    BY <1>0, <2>1, <2>2 DEF PairedAt
<1>2. CASE Write
  BY <1>0, <1>2, DevicesAssumptions DEF PairedAt, IsAt, Write, pairing, store, revocation
<1>3. CASE Written
  <2>1. /\ UNCHANGED <<devices, asked>> /\ file' = temp.devices /\ temp.writing /\ ~ temp'.writing
        /\ Head(saves).of \in Client
    BY <1>3, WrittenIs
  <2>2. \A d \in Client :
            \/ IsAt(d)' = IsAt(d)
            \/ d = Head(saves).of /\ Head(saves).for = "add" /\ IsAt(d) = "adding" /\ IsAt(d)' = "paired"
    BY <1>3, WrittenIs
  <2> QED
    BY <1>0, <2>1, <2>2 DEF PairedAt, WritingAt
<1>4. CASE Fails
  <2>1. UNCHANGED <<file, asked>> /\ ~ temp'.writing
    BY <1>4, FailsIs
  <2>2. \A d \in Client : IsAt(d)' # "refused" => IsAt(d)' = IsAt(d) /\ (d \in devices => d \in devices')
    BY <1>4, FailsIs
  <2> QED
    BY <1>0, <2>1, <2>2 DEF PairedAt
<1>5. ASSUME NEW d \in Client, NEW code \in {Wrong} \cup 1 .. issued, Attempt(d, code)
      PROVE  PairedAt'
  <2>1. \A e \in Client : IsAt(e)' \in {"adding", "paired"} => IsAt(e)' = IsAt(e)
    BY <1>0, <1>5, AttemptIs DEF IsAt
  <2>2. UNCHANGED <<devices, file, temp, asked>>
    BY <1>5 DEF Attempt, store, revocation
  <2> QED
    BY <1>0, <2>1, <2>2 DEF PairedAt
<1>6. ASSUME NEW d \in Client, Redeem(d)
      PROVE  PairedAt'
  BY <1>0, <1>6, DevicesAssumptions DEF PairedAt, IsAt, Redeem, Save, Outstanding, Numbers,
     pairing, store, revocation
<1>7. ASSUME NEW d \in Client, NoRoom(d)
      PROVE  PairedAt'
  BY <1>0, <1>7, DevicesAssumptions DEF PairedAt, IsAt, NoRoom, Refused, pairing, store,
     revocation
<1>8. ASSUME NEW d \in Client, Miss(d)
      PROVE  PairedAt'
  BY <1>0, <1>8, DevicesAssumptions DEF PairedAt, IsAt, Miss, Refused, Outstanding, Numbers,
     pairing, store, revocation
<1>9. ASSUME NEW d \in Client, Revoke(d)
      PROVE  PairedAt'
  BY <1>0, <1>9, DevicesAssumptions DEF PairedAt, IsAt, Revoke, Save, pairing, store, revocation
<1>10. CASE UNCHANGED <<request, devices, file, temp, asked>>
  BY <1>0, <1>10 DEF PairedAt, IsAt
<1> QED
  BY <1>1, <1>2, <1>3, <1>4, <1>5, <1>6, <1>7, <1>8, <1>9, <1>10 DEF DevicesNext, pairing,
     store, revocation, Issue, ClockTicks, Connect, RevokeUnknown

\* Who was revoked stays off every list.
LEMMA RevokedAtStep ==
    ASSUME DevicesInvariant, DevicesNext PROVE RevokedAt'
<1>0. RevokedAt /\ WritingAt /\ QueueAt /\ ListedAt /\ request \in [Client -> RequestRecord]
      /\ SetTypes /\ TempTypes /\ saves \in Seq(SaveRecord)
  BY DevicesParts DEF DevicesInvariant
<1>1. CASE Crash
  BY <1>0, <1>1, DevicesAssumptions DEF RevokedAt, Crash, NotWriting, pairing, store, revocation
<1>2. CASE Write
  BY <1>0, <1>2, DevicesAssumptions DEF RevokedAt, Write, pairing, store, revocation
<1>3. CASE Written
  <2>1. /\ UNCHANGED <<devices, asked>> /\ file' = temp.devices /\ temp.writing /\ temp'.devices = {}
    BY <1>3, WrittenIs
  <2>2. \/ revoked' = revoked
        \/ /\ revoked' = revoked \cup {Head(saves).of} /\ Head(saves).for = "revoke"
           /\ Head(saves).of \in asked \ devices
    BY <1>3, WrittenIs
  <2>3. CASE revoked' = revoked
    BY <1>0, <2>1, <2>3 DEF RevokedAt
  <2>4. CASE /\ revoked' = revoked \cup {Head(saves).of} /\ Head(saves).for = "revoke"
             /\ Head(saves).of \in asked \ devices
    BY <1>0, <2>1, <2>4 DEF RevokedAt, WritingAt
  <2> QED
    BY <2>2, <2>3, <2>4
<1>4. CASE Fails
  BY <1>0, <1>4, DevicesAssumptions DEF RevokedAt, Fails, NotWriting, pairing, store, revocation
<1>5. ASSUME NEW d \in Client, Redeem(d)
      PROVE  RevokedAt'
  <2>1. IsAt(d) = "reading" /\ devices' = devices \cup {d} /\ UNCHANGED <<revoked, asked, file, temp>>
    BY <1>5 DEF Redeem, IsAt, revocation
  <2>2. d \notin asked
    BY <1>0, <2>1 DEF ListedAt, Through
  <2> QED
    BY <1>0, <2>1, <2>2 DEF RevokedAt
<1>6. ASSUME NEW d \in Client, Revoke(d)
      PROVE  RevokedAt'
  BY <1>0, <1>6, DevicesAssumptions DEF RevokedAt, Revoke, Save, pairing, store, revocation
<1>7. CASE UNCHANGED <<revoked, devices, file, temp, asked>>
  BY <1>0, <1>7 DEF RevokedAt
<1> QED
  BY <1>1, <1>2, <1>3, <1>4, <1>5, <1>6, <1>7 DEF DevicesNext, pairing, store, revocation,
     Issue, ClockTicks, Attempt, NoRoom, Miss, Connect, RevokeUnknown

\* Sockets are those of paired devices.
LEMMA SocketsAtStep ==
    ASSUME DevicesInvariant, DevicesNext PROVE SocketsAt'
<1>0. SocketsAt /\ QueueAt /\ request \in [Client -> RequestRecord] /\ SetTypes /\ TempTypes
      /\ saves \in Seq(SaveRecord)
  BY DevicesParts DEF DevicesInvariant
<1>1. CASE Crash
  BY <1>0, <1>1, DevicesAssumptions DEF SocketsAt, IsAt, Crash, NotWriting, pairing, store,
     revocation
<1>2. CASE Written
  <2>1. UNCHANGED <<sockets, devices>> /\ \A e \in Client : IsAt(e) = "paired" => IsAt(e)' = "paired"
    BY <1>2, WrittenIs
  <2> QED
    BY <1>0, <2>1 DEF SocketsAt, SetTypes
<1>3. CASE Fails
  <2>1. /\ sockets' = sockets
        /\ \A d \in Client : IsAt(d) = "paired" => IsAt(d)' = "paired" /\ (d \in devices => d \in devices')
    BY <1>3, FailsIs
  <2> QED
    BY <1>0, <2>1 DEF SocketsAt, SetTypes, IsAt
<1>4. ASSUME NEW d \in Client, NEW code \in {Wrong} \cup 1 .. issued, Attempt(d, code)
      PROVE  SocketsAt'
  <2>1. UNCHANGED <<sockets, devices>> /\ \A e \in Client : IsAt(e) = "paired" => IsAt(e)' = "paired"
    BY <1>0, <1>4, AttemptIs DEF IsAt, Attempt, store
  <2> QED
    BY <1>0, <2>1 DEF SocketsAt, SetTypes
<1>5. ASSUME NEW d \in Client, Redeem(d)
      PROVE  SocketsAt'
  BY <1>0, <1>5, DevicesAssumptions DEF SocketsAt, IsAt, Redeem, Save, Outstanding, Numbers,
     pairing, store, revocation
<1>6. ASSUME NEW d \in Client, NoRoom(d)
      PROVE  SocketsAt'
  BY <1>0, <1>6, DevicesAssumptions DEF SocketsAt, IsAt, NoRoom, Refused, pairing, store,
     revocation
<1>7. ASSUME NEW d \in Client, Miss(d)
      PROVE  SocketsAt'
  BY <1>0, <1>7, DevicesAssumptions DEF SocketsAt, IsAt, Miss, Refused, Outstanding, Numbers,
     pairing, store, revocation
<1>8. ASSUME NEW d \in Client, Connect(d)
      PROVE  SocketsAt'
  BY <1>0, <1>8, DevicesAssumptions DEF SocketsAt, IsAt, Connect, HasToken, Touch, Save, pairing,
     store, revocation
<1>9. ASSUME NEW d \in Client, Revoke(d)
      PROVE  SocketsAt'
  BY <1>0, <1>9, DevicesAssumptions DEF SocketsAt, IsAt, Revoke, Save, pairing, store, revocation
<1>10. CASE UNCHANGED <<request, devices, sockets>>
  BY <1>0, <1>10 DEF SocketsAt, IsAt
<1> QED
  BY <1>1, <1>2, <1>3, <1>4, <1>5, <1>6, <1>7, <1>8, <1>9, <1>10 DEF DevicesNext, pairing,
     store, revocation, Issue, ClockTicks, Write, RevokeUnknown

\* Who was refused is not there, until a restart.
LEMMA RefusedStep ==
    ASSUME DevicesInvariant, DevicesNext PROVE RefusedIsNotPaired'
<1>0. RefusedIsNotPaired /\ QueueAt /\ ListedAt /\ NumberTypes
      /\ request \in [Client -> RequestRecord] /\ SetTypes /\ TempTypes /\ saves \in Seq(SaveRecord)
  BY DevicesParts DEF DevicesInvariant
<1>1. CASE Crash
  BY <1>0, <1>1 DEF Crash, RefusedIsNotPaired, NumberTypes
<1>2. CASE Written
  <2>1. /\ UNCHANGED <<crashes, devices>>
        /\ \A e \in Client : IsAt(e) \in {"adding", "paired"} => IsAt(e)' \in {"adding", "paired"}
    BY <1>2, WrittenIs
  <2> QED
    BY <1>0, <2>1 DEF RefusedIsNotPaired, SetTypes, IsAt
<1>3. CASE Fails
  <2>1. /\ crashes' = crashes
        /\ \A d \in Client : d \in devices' => d \in devices /\ IsAt(d)' = IsAt(d)
    BY <1>3, FailsIs
  <2> QED
    BY <1>0, <2>1, SetTypesStep DEF RefusedIsNotPaired, SetTypes, IsAt
<1>4. ASSUME NEW d \in Client, NEW code \in {Wrong} \cup 1 .. issued, Attempt(d, code)
      PROVE  RefusedIsNotPaired'
  <2>1. /\ UNCHANGED <<crashes, devices>>
        /\ \A e \in Client : IsAt(e) \in {"adding", "paired"} => IsAt(e)' \in {"adding", "paired"}
    BY <1>0, <1>4, AttemptIs DEF IsAt, Attempt, store
  <2> QED
    BY <1>0, <2>1 DEF RefusedIsNotPaired, SetTypes, IsAt
<1>5. ASSUME NEW d \in Client, Redeem(d)
      PROVE  RefusedIsNotPaired'
  BY <1>0, <1>5, DevicesAssumptions DEF RefusedIsNotPaired, IsAt, Redeem, Save, Outstanding,
     Numbers, pairing, store, revocation
<1>6. ASSUME NEW d \in Client, NoRoom(d)
      PROVE  RefusedIsNotPaired'
  BY <1>0, <1>6, DevicesAssumptions DEF RefusedIsNotPaired, IsAt, NoRoom, Refused, pairing, store,
     revocation
<1>7. ASSUME NEW d \in Client, Miss(d)
      PROVE  RefusedIsNotPaired'
  BY <1>0, <1>7, DevicesAssumptions DEF RefusedIsNotPaired, IsAt, Miss, Refused, Outstanding,
     Numbers, pairing, store, revocation
<1>8. ASSUME NEW d \in Client, Revoke(d)
      PROVE  RefusedIsNotPaired'
  BY <1>0, <1>8, DevicesAssumptions DEF RefusedIsNotPaired, IsAt, Revoke, Save, pairing, store,
     revocation
<1>9. CASE UNCHANGED <<request, devices, crashes>>
  BY <1>0, <1>9 DEF RefusedIsNotPaired, IsAt
<1> QED
  BY <1>1, <1>2, <1>3, <1>4, <1>5, <1>6, <1>7, <1>8, <1>9 DEF DevicesNext, pairing, store,
     revocation, Issue, ClockTicks, Write, Connect, RevokeUnknown

\* The lists stay as long as they may be.
LEMMA RoomAtStep ==
    ASSUME DevicesInvariant, DevicesNext PROVE RoomAt'
<1>0. RoomAt /\ TempTypes /\ SetTypes
  BY DevicesParts DEF DevicesInvariant
<1>1. CASE Crash
  <2>1. devices' = file /\ file' = file /\ temp'.devices = {}
    BY <1>1 DEF Crash, NotWriting
  <2> QED
    BY <1>0, <2>1, FS_EmptySet, DevicesAssumptions DEF RoomAt
<1>2. CASE Write
  <2>1. temp'.devices = devices /\ UNCHANGED <<devices, file>>
    BY <1>2 DEF Write
  <2> QED
    BY <1>0, <2>1 DEF RoomAt
<1>3. CASE Written
  <2>1. file' = temp.devices /\ temp'.devices = {} /\ devices' = devices
    BY <1>3, WrittenIs
  <2> QED
    BY <1>0, <2>1, FS_EmptySet, DevicesAssumptions DEF RoomAt
<1>4. CASE Fails
  <2>1. file' = file /\ temp'.devices = {} /\ devices' \subseteq devices
    BY <1>4, FailsIs
  <2>2. Cardinality(devices') <= Cardinality(devices) /\ Cardinality(devices) \in Nat
    BY <1>0, <2>1, SubsetsOfClient DEF SetTypes
  <2>3. Cardinality(devices') \in Nat
    BY SetTypesStep, SubsetsOfClient DEF SetTypes
  <2> QED
    BY <1>0, <2>1, <2>2, <2>3, FS_EmptySet, DevicesAssumptions DEF RoomAt
<1>5. ASSUME NEW d \in Client, Redeem(d)
      PROVE  RoomAt'
  <2>1. UNCHANGED <<file, temp>> /\ devices' = devices \cup {d}
    BY <1>5 DEF Redeem
  <2>2. Cardinality(devices) < MaxDevices
    BY <1>0, <1>5, SubsetsOfClient, DevicesAssumptions DEF Redeem, IsFull, SetTypes
  <2>3. /\ Cardinality(devices') <= Cardinality(devices) + 1 /\ Cardinality(devices) \in Nat
        /\ Cardinality(devices') \in Nat
    BY <1>0, <1>5, <2>1, SetTypesStep, SubsetsOfClient DEF SetTypes
  <2>4. Cardinality(devices') <= MaxDevices
    BY <2>2, <2>3, DevicesAssumptions
  <2> QED
    BY <1>0, <2>1, <2>4 DEF RoomAt
<1>6. ASSUME NEW d \in Client, Revoke(d)
      PROVE  RoomAt'
  <2>1. UNCHANGED <<file, temp>> /\ devices' \subseteq devices
    BY <1>6 DEF Revoke
  <2>2. Cardinality(devices') <= Cardinality(devices) /\ Cardinality(devices) \in Nat
    BY <1>0, <2>1, SubsetsOfClient DEF SetTypes
  <2>3. Cardinality(devices') \in Nat
    BY SetTypesStep, SubsetsOfClient DEF SetTypes
  <2>4. Cardinality(devices') <= MaxDevices
    BY <1>0, <2>2, <2>3, DevicesAssumptions DEF RoomAt
  <2> QED
    BY <1>0, <2>1, <2>4 DEF RoomAt
<1>7. CASE UNCHANGED <<devices, file, temp>>
  BY <1>0, <1>7 DEF RoomAt
<1> QED
  BY <1>1, <1>2, <1>3, <1>4, <1>5, <1>6, <1>7 DEF DevicesNext, pairing, store, revocation,
     Issue, ClockTicks, Attempt, NoRoom, Miss, Connect, RevokeUnknown

\* Codes are used up, and none is taken anew.
LEMMA CodesStay ==
    ASSUME CodesAt, NumberTypes, issued' = issued, codes' \subseteq codes,
           \A e \in Client : IsAt(e)' \in {"adding", "paired"} => IsAt(e) \in {"adding", "paired"},
           \A e \in Client :
               \/ request'[e].code = request[e].code
               \/ IsAt(e)' \notin {"adding", "paired"} /\ request'[e].code <= issued
    PROVE  CodesAt'
<1>1. \A c \in codes' : c.code <= issued'
  BY DEF CodesAt
<1>2. \A e \in Client : request'[e].code <= issued'
  BY DEF CodesAt
<1>3. ASSUME NEW d \in Client, IsAt(d)' \in {"adding", "paired"}
      PROVE  /\ IsAt(d) \in {"adding", "paired"} /\ request'[d].code = request[d].code
             /\ \A c \in codes' : c.code # request'[d].code
             /\ \A e \in Client : IsAt(e)' \in {"adding", "paired"} /\ e # d => request'[e].code # request'[d].code
  BY <1>3 DEF CodesAt
<1> QED
  BY <1>1, <1>2, <1>3 DEF CodesAt, IsAt

\* A code is of one device.
LEMMA CodesAtStep ==
    ASSUME DevicesInvariant, DevicesNext PROVE CodesAt'
<1>0. CodesAt /\ QueueAt /\ NumberTypes /\ codes \subseteq Codes
      /\ request \in [Client -> RequestRecord] /\ SetTypes /\ TempTypes /\ saves \in Seq(SaveRecord)
  BY DevicesParts DEF DevicesInvariant
<1>1. CASE Issue
  <2> DEFINE new == [code |-> issued + 1, expires |-> now + Ttl]
  <2>1. issued' = issued + 1 /\ request' = request /\ codes' \subseteq codes \cup {new} /\ new.code = issued + 1
    BY <1>1 DEF Issue, Outstanding
  <2> HIDE DEF new
  <2>2. issued \in Nat /\ (\A e \in Client : request[e].code \in Nat) /\ \A c \in codes : c.code \in Nat
    BY <1>0, DevicesAssumptions DEF NumberTypes, RequestRecord, Codes
  <2>3. \A c \in codes' : c.code <= issued' /\ (c \in codes \/ c.code = issued + 1)
    BY <1>0, <2>1, <2>2 DEF CodesAt
  <2>4. \A e \in Client : request'[e].code <= issued' /\ request'[e].code # issued + 1
    BY <1>0, <2>1, <2>2 DEF CodesAt
  <2> QED
    BY <1>0, <2>1, <2>3, <2>4 DEF CodesAt, IsAt
<1>2. CASE Crash
  <2>1. codes' = {} /\ issued' = issued
    BY <1>2 DEF Crash
  <2>2. \A e \in Client : /\ IsAt(e)' \in {"adding", "paired"} => IsAt(e) \in {"adding", "paired"}
                         /\ request'[e].code = request[e].code
    <3>1. \A e \in Client : request'[e] = IF request[e].at \in {"reading", "adding"}
                                         THEN [request[e] EXCEPT !.at = "refused"] ELSE request[e]
      BY <1>2 DEF Crash
    <3> QED
      BY <1>0, <3>1 DEF IsAt, RequestRecord
  <2> QED
    BY <1>0, <2>1, <2>2, CodesStay
<1>3. CASE Written
  <2>1. /\ UNCHANGED <<codes, issued>>
        /\ \A e \in Client : IsAt(e)' \in {"adding", "paired"} => IsAt(e) \in {"adding", "paired"}
        /\ \A e \in Client : request'[e].code = request[e].code
    BY <1>3, WrittenIs
  <2> QED
    BY <1>0, <2>1, CodesStay
<1>4. CASE Fails
  <2>1. /\ UNCHANGED <<codes, issued>>
        /\ \A e \in Client : IsAt(e)' \in {"adding", "paired"} => IsAt(e) \in {"adding", "paired"}
        /\ \A e \in Client : request'[e].code = request[e].code
    BY <1>4, FailsIs
  <2> QED
    BY <1>0, <2>1, CodesStay
<1>5. ASSUME NEW d \in Client, NEW code \in {Wrong} \cup 1 .. issued, Attempt(d, code)
      PROVE  CodesAt'
  <2>1. UNCHANGED <<codes, issued>> /\ code <= issued /\ IsFiniteSet(attempts)
    BY <1>0, <1>5, SubsetsOfClient DEF Attempt, Wrong, NumberTypes, SetTypes
  <2>2. /\ IsAt(d)' \notin {"adding", "paired"} /\ request'[d].code <= issued
        /\ \A e \in Client : e # d => request'[e] = request[e]
    BY <1>0, <1>5, <2>1, AttemptIs DEF CodesAt
  <2>3. \A e \in Client : e # d => IsAt(e)' = IsAt(e) /\ request'[e].code = request[e].code
    BY <2>2 DEF IsAt
  <2> QED
    BY <1>0, <2>1, <2>2, <2>3, CodesStay
<1>6. ASSUME NEW d \in Client, Redeem(d)
      PROVE  CodesAt'
  BY <1>0, <1>6, DevicesAssumptions DEF CodesAt, IsAt, Redeem, Save, Outstanding, Numbers,
     pairing, store, revocation
<1>7. ASSUME NEW d \in Client, NoRoom(d)
      PROVE  CodesAt'
  BY <1>0, <1>7, DevicesAssumptions DEF CodesAt, IsAt, NoRoom, Refused, pairing, store, revocation
<1>8. ASSUME NEW d \in Client, Miss(d)
      PROVE  CodesAt'
  BY <1>0, <1>8, DevicesAssumptions DEF CodesAt, IsAt, Miss, Refused, Outstanding, Numbers,
     pairing, store, revocation
<1>9. CASE UNCHANGED <<codes, issued, request>>
  BY <1>0, <1>9 DEF CodesAt, IsAt
<1> QED
  BY <1>1, <1>2, <1>3, <1>4, <1>5, <1>6, <1>7, <1>8, <1>9 DEF DevicesNext, pairing, store,
     revocation, ClockTicks, Write, Connect, Revoke, RevokeUnknown, Refused

\* The misses of a code are counted.
LEMMA MissedAtStep ==
    ASSUME DevicesInvariant, DevicesNext PROVE MissedAt'
<1>0. MissedAt /\ CodesAt /\ NumberTypes /\ codes \subseteq Codes
      /\ missed \in [1 .. MaxIssues -> Nat]
  BY DevicesParts DEF DevicesInvariant
<1>1. CASE Issue
  BY <1>0, <1>1, DevicesAssumptions DEF MissedAt, NumberTypes, Issue, Outstanding, IsFull,
     pairing, store, revocation
<1>2. CASE Crash
  BY <1>0, <1>2, DevicesAssumptions DEF MissedAt, NumberTypes, Crash, NotWriting, pairing,
     store, revocation
<1>3. ASSUME NEW d \in Client, Redeem(d)
      PROVE  MissedAt'
  BY <1>0, <1>3, DevicesAssumptions DEF MissedAt, NumberTypes, Redeem, Save, Outstanding,
     Numbers, pairing, store, revocation
<1>4. ASSUME NEW d \in Client, Miss(d)
      PROVE  MissedAt'
  <2>1. /\ \A c \in 1 .. MaxIssues : missed'[c] = IF c \in Numbers THEN missed[c] + 1 ELSE missed[c]
        /\ issued' = issued
        /\ (codes' = {} \/ (codes' = Outstanding /\ failures' = failures + 1))
    BY <1>4 DEF Miss
  <2>2. \A c \in Numbers : c \in 1 .. MaxIssues /\ c <= issued
    BY <1>0 DEF Numbers, Outstanding, CodesAt, Codes
  <2>3. issued \in Nat /\ failures \in Nat
    BY <1>0, DevicesAssumptions DEF NumberTypes
  <2>4. \A c \in 1 .. MaxIssues : c > issued' => missed'[c] = 0
    BY <1>0, <2>1, <2>2, <2>3 DEF MissedAt
  <2>5. ASSUME NEW c \in codes' PROVE missed'[c.code] <= failures'
    <3>1. codes' = Outstanding /\ failures' = failures + 1 /\ c \in Outstanding
      BY <2>1, <2>5
    <3>2. c \in codes /\ c.code \in Numbers
      BY <3>1 DEF Outstanding, Numbers
    <3>3. missed[c.code] <= failures /\ missed[c.code] \in Nat /\ missed'[c.code] = missed[c.code] + 1
      BY <1>0, <2>1, <2>2, <3>2 DEF MissedAt
    <3> QED
      BY <2>3, <3>1, <3>3
  <2> QED
    BY <2>4, <2>5 DEF MissedAt
<1>5. CASE UNCHANGED <<codes, issued, missed, failures>>
  BY <1>0, <1>5 DEF MissedAt, NumberTypes
<1> QED
  BY <1>1, <1>2, <1>3, <1>4, <1>5 DEF DevicesNext, pairing, store, revocation, ClockTicks,
     Write, Written, Fails, Attempt, NoRoom, Connect, Revoke, RevokeUnknown

\* Time goes by, and requests go on: no attempt is more recent than before.
LEMMA RecentShrinks ==
    ASSUME RecentAt, SetTypes, crashes' = crashes, attempts' = attempts, Recent' \subseteq Recent
    PROVE  RecentAt'
<1>1. Recent \in SUBSET Client /\ Recent' \in SUBSET Recent /\ Recent' \in SUBSET Client
  BY DEF Recent
<1>2. Cardinality(Recent') <= Cardinality(Recent)
  BY <1>1, SubsetsOfClient
<1>3. Cardinality(Recent) \in Nat /\ Cardinality(Recent') \in Nat
  BY <1>1, SubsetsOfClient
<1> QED
  BY <1>1, <1>2, <1>3, DevicesAssumptions DEF RecentAt

\* A request that goes on is as recent as it was.
LEMMA RecentGoesOn ==
    ASSUME now' = now,
           \A e \in Client : /\ IsAt(e) \in {"none", "limited"} => IsAt(e)' \in {"none", "limited"}
                             /\ request'[e].came = request[e].came
    PROVE  Recent' \subseteq Recent
  BY DEF Recent, IsAt

\* The attempts of the window are counted.
LEMMA RecentAtStep ==
    ASSUME DevicesInvariant, DevicesNext PROVE RecentAt'
<1>0. RecentAt /\ NumberTypes /\ request \in [Client -> RequestRecord] /\ SetTypes
      /\ TempTypes /\ saves \in Seq(SaveRecord)
  BY DevicesParts DEF DevicesInvariant
<1>1. CASE ClockTicks
  <2>1. now' = now + 1 /\ UNCHANGED <<request, attempts, crashes>>
    BY <1>1 DEF ClockTicks, pairing
  <2>2. now \in Int /\ \A e \in Client : request[e].came \in Int
    BY <1>0, DevicesAssumptions DEF NumberTypes, RequestRecord
  <2>3. Recent' \subseteq Recent
    BY <2>1, <2>2, DevicesAssumptions DEF Recent, IsAt
  <2> QED
    BY <1>0, <2>1, <2>3, RecentShrinks
<1>2. CASE Crash
  <2>1. crashes' # 0
    BY <1>0, <1>2 DEF Crash, NumberTypes
  <2> QED
    BY <2>1 DEF RecentAt
<1>3. CASE Written
  <2>1. UNCHANGED <<now, crashes, attempts>>
    BY <1>3 DEF Written, pairing
  <2>2. \A e \in Client : /\ IsAt(e) \in {"none", "limited"} => IsAt(e)' \in {"none", "limited"}
                         /\ request'[e].came = request[e].came
    BY <1>0, <1>3, WrittenIs
  <2> QED
    BY <1>0, <2>1, <2>2, RecentGoesOn, RecentShrinks
<1>4. CASE Fails
  <2>1. UNCHANGED <<now, crashes, attempts>>
    BY <1>4 DEF Fails, pairing
  <2>2. \A e \in Client : /\ IsAt(e) \in {"none", "limited"} => IsAt(e)' \in {"none", "limited"}
                         /\ request'[e].came = request[e].came
    BY <1>0, <1>4, FailsIs
  <2> QED
    BY <1>0, <2>1, <2>2, RecentGoesOn, RecentShrinks
<1>5. ASSUME NEW d \in Client, NEW code \in {Wrong} \cup 1 .. issued, Attempt(d, code)
      PROVE  RecentAt'
  <2> DEFINE recent == {e \in attempts : now - request[e].came < Window}
  <2>1. UNCHANGED <<now, crashes>> /\ IsFiniteSet(attempts)
    BY <1>0, <1>5, SubsetsOfClient DEF Attempt, SetTypes
  <2>2. /\ IsAt(d) = "none" /\ IsAt(d)' \in {"limited", "reading"}
        /\ \A e \in Client : e # d => request'[e] = request[e]
        /\ IsAt(d)' = "reading" => Cardinality(recent) < Attempts /\ attempts' = recent \cup {d}
        /\ IsAt(d)' = "limited" => attempts' = recent
    BY <1>0, <1>5, <2>1, AttemptIs
  <2>3. CASE crashes # 0
    BY <2>1, <2>3 DEF RecentAt
  <2>4. CASE crashes = 0
    <3>1. Recent \subseteq attempts /\ Cardinality(Recent) <= Attempts /\ Recent \subseteq recent
      BY <1>0, <2>4 DEF RecentAt, Recent
    <3>2. recent \in SUBSET Client /\ Recent \in SUBSET Client /\ Recent' \in SUBSET Client
      BY <1>0 DEF SetTypes, Recent
    <3>3. Recent' \subseteq Recent \cup {d}
      BY <2>1, <2>2 DEF Recent, IsAt
    <3>4. Cardinality(Recent) \in Nat /\ Cardinality(Recent') \in Nat /\ Cardinality(recent) \in Nat
      BY <3>2, SubsetsOfClient
    <3>5. CASE IsAt(d)' = "limited"
      <4>1. Recent' \in SUBSET Recent
        BY <2>2, <3>3, <3>5 DEF Recent, IsAt
      <4>2. Cardinality(Recent') <= Cardinality(Recent)
        BY <3>2, <4>1, SubsetsOfClient
      <4>3. Cardinality(Recent') <= Attempts
        BY <3>1, <3>4, <4>2, DevicesAssumptions
      <4>4. Recent' \subseteq attempts'
        BY <2>2, <3>1, <3>5, <4>1
      <4> QED
        BY <4>3, <4>4 DEF RecentAt
    <3>6. CASE IsAt(d)' = "reading"
      <4>1. Recent' \subseteq recent \cup {d} /\ recent \cup {d} \in SUBSET Client
        BY <3>1, <3>2, <3>3, <1>5
      <4>2. Cardinality(recent \cup {d}) <= Cardinality(recent) + 1 /\ Cardinality(recent \cup {d}) \in Nat
        BY <3>2, <4>1, <1>5, SubsetsOfClient
      <4>3. Cardinality(Recent') <= Cardinality(recent \cup {d})
        BY <4>1, SubsetsOfClient
      <4>4. Cardinality(Recent') <= Attempts
        BY <2>2, <3>4, <3>6, <4>2, <4>3, DevicesAssumptions
      <4>5. Recent' \subseteq attempts'
        BY <2>2, <3>6, <4>1
      <4> QED
        BY <4>4, <4>5 DEF RecentAt
    <3> QED
      BY <2>2, <3>5, <3>6
  <2> QED
    BY <2>3, <2>4
<1>6. ASSUME NEW d \in Client, Redeem(d)
      PROVE  RecentAt'
  <2>1. UNCHANGED <<now, crashes, attempts>>
    BY <1>6 DEF Redeem, pairing
  <2>2. \A e \in Client : /\ IsAt(e) \in {"none", "limited"} => IsAt(e)' \in {"none", "limited"}
                         /\ request'[e].came = request[e].came
    BY <1>0, <1>6, GoesOn DEF Redeem, IsAt
  <2> QED
    BY <1>0, <2>1, <2>2, RecentGoesOn, RecentShrinks
<1>7. ASSUME NEW d \in Client, NoRoom(d)
      PROVE  RecentAt'
  <2>1. UNCHANGED <<now, crashes, attempts>>
    BY <1>7 DEF NoRoom, pairing
  <2>2. \A e \in Client : /\ IsAt(e) \in {"none", "limited"} => IsAt(e)' \in {"none", "limited"}
                         /\ request'[e].came = request[e].came
    BY <1>0, <1>7, GoesOn DEF NoRoom, Refused, IsAt
  <2> QED
    BY <1>0, <2>1, <2>2, RecentGoesOn, RecentShrinks
<1>8. ASSUME NEW d \in Client, Miss(d)
      PROVE  RecentAt'
  <2>1. UNCHANGED <<now, crashes, attempts>>
    BY <1>8 DEF Miss, pairing
  <2>2. \A e \in Client : /\ IsAt(e) \in {"none", "limited"} => IsAt(e)' \in {"none", "limited"}
                         /\ request'[e].came = request[e].came
    BY <1>0, <1>8, GoesOn DEF Miss, Refused, IsAt
  <2> QED
    BY <1>0, <2>1, <2>2, RecentGoesOn, RecentShrinks
<1>9. CASE UNCHANGED <<now, request, attempts, crashes>>
  BY <1>0, <1>9 DEF RecentAt, Recent, IsAt
<1> QED
  BY <1>1, <1>2, <1>3, <1>4, <1>5, <1>6, <1>7, <1>8, <1>9 DEF DevicesNext, pairing, store,
     revocation, Issue, Write, Connect, Revoke, RevokeUnknown, Refused

\* Together: every step keeps the invariant.
LEMMA DevicesStep == ASSUME DevicesInvariant, [DevicesNext]_devicesVars PROVE DevicesInvariant'
<1>1. CASE DevicesNext
  <2>1. DevicesTypeOK'
    BY <1>1, DevicesTypesStep
  <2>2. QueueAt' /\ ListedAt' /\ WritingAt'
    BY <1>1, QueueAtStep, ListedAtStep, WritingAtStep
  <2>3. PairedAt' /\ RevokedAt' /\ SocketsAt'
    BY <1>1, PairedAtStep, RevokedAtStep, SocketsAtStep
  <2>4. RefusedIsNotPaired' /\ RoomAt'
    BY <1>1, RefusedStep, RoomAtStep
  <2>5. CodesAt' /\ MissedAt' /\ RecentAt'
    BY <1>1, CodesAtStep, MissedAtStep, RecentAtStep
  <2> QED
    BY <2>1, <2>2, <2>3, <2>4, <2>5 DEF DevicesInvariant
<1>2. CASE UNCHANGED devicesVars
  <2>1. /\ UNCHANGED <<now, codes, issued, attempts, failures, missed, request, crashes>>
        /\ UNCHANGED <<devices, file, saves, temp, seen, sockets, asked, revoked, unknown>>
    BY <1>2 DEF devicesVars, pairing, store, revocation
  <2>2. DevicesTypeOK'
    BY <2>1 DEF DevicesInvariant, DevicesTypeOK
  <2>3. QueueAt' /\ ListedAt' /\ WritingAt'
    BY <2>1 DEF DevicesInvariant, QueueAt, ListedAt, WritingAt, IsAt
  <2>4. PairedAt' /\ RevokedAt' /\ SocketsAt'
    BY <2>1 DEF DevicesInvariant, PairedAt, RevokedAt, SocketsAt, IsAt
  <2>5. RefusedIsNotPaired' /\ RoomAt'
    BY <2>1 DEF DevicesInvariant, RefusedIsNotPaired, RoomAt
  <2>6. CodesAt' /\ MissedAt' /\ RecentAt'
    BY <2>1 DEF DevicesInvariant, CodesAt, MissedAt, RecentAt, Recent, IsAt
  <2> QED
    BY <2>2, <2>3, <2>4, <2>5, <2>6 DEF DevicesInvariant
<1> QED
  BY <1>1, <1>2

\* The invariant says what is promised.
LEMMA DevicesShow == DevicesInvariant => OnlyPairedDevices
<1> SUFFICES ASSUME DevicesInvariant PROVE OnlyPairedDevices
  OBVIOUS
<1>1. NumberTypes /\ SetTypes /\ codes \subseteq Codes /\ missed \in [1 .. MaxIssues -> Nat]
  BY DevicesParts DEF DevicesInvariant
<1>2. PairedStaysPaired /\ RevokedStaysOut
  BY DEF DevicesInvariant, PairedAt, RevokedAt, PairedStaysPaired, RevokedStaysOut, HasToken, IsAt
<1>3. CutOff /\ ListIsLoadable
  BY DEF DevicesInvariant, SocketsAt, RoomAt, CutOff, ListIsLoadable
<1>4. OneDevicePerCode
  BY DEF DevicesInvariant, CodesAt, OneDevicePerCode, IsAt
<1>5. AttemptsAreLimited
  BY DEF DevicesInvariant, RecentAt, Recent, AttemptsAreLimited, IsAt
<1>6. GuessesAreBounded
  <2> SUFFICES ASSUME NEW c \in Outstanding PROVE missed[c.code] < Failures
    BY DEF GuessesAreBounded
  <2>1. c \in codes /\ c.code \in 1 .. MaxIssues
    BY <1>1 DEF Outstanding, Codes
  <2>2. missed[c.code] <= failures /\ missed[c.code] \in Nat /\ failures \in 0 .. Failures - 1
    BY <1>1, <2>1 DEF DevicesInvariant, MissedAt, NumberTypes
  <2> QED
    BY <2>2, DevicesAssumptions
<1> QED
  BY <1>2, <1>3, <1>4, <1>5, <1>6 DEF OnlyPairedDevices, DevicesInvariant

\* OnlyPairedDevices, for all clients and limits: a code pairs one device, a device whose client
\* has its token works until it is revoked, whatever fails and whenever the daemon restarts, and
\* then never again; codes are not guessed, and the list stays one that can be loaded.
THEOREM DevicesAreRight == DevicesSpec => []OnlyPairedDevices
<1>1. DevicesInit => DevicesInvariant
  BY DevicesStart
<1>2. DevicesInvariant /\ [DevicesNext]_devicesVars => DevicesInvariant'
  BY DevicesStep
<1>3. DevicesInvariant => OnlyPairedDevices
  BY DevicesShow
<1> QED
  BY <1>1, <1>2, <1>3, PTL DEF DevicesSpec
=============================================================================
