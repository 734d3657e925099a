------------------------------ MODULE LeaseTable ------------------------------
(***************************************************************************)
(* The row of the `leases` table that says which device runs a vault's     *)
(* agent (apps/sync/src/store.ts), as operators on a record.  Every        *)
(* operator is one synchronous SQLite transaction of SyncStore, or one of  *)
(* the pure helpers below it.                                              *)
(*                                                                         *)
(* Time is kept as countdowns, so the state is finite without a clock:     *)
(*   left         expiresAt - now; 0 or less is expired.  It saturates at  *)
(*                -Grace: nothing looks further back than the grace period *)
(*   pending.age  now - pending.askedAt; it saturates at Lapse, from where *)
(*                the takeover no longer counts.                           *)
(* A NULL pending takeover is one that lapsed from the start.              *)
(***************************************************************************)
EXTENDS Integers

CONSTANTS
    Device,     \* device ids
    NoDevice,   \* the device column of a row that was never written
    MaxTTL,     \* the longest grant a request may ask for
    Grace,      \* SYNC_LEASE_TAKEOVER.graceMs
    Lapse       \* SYNC_LEASE_TAKEOVER.expiresAfterMs

ASSUME LeaseTableAssumption ==
    /\ NoDevice \notin Device
    /\ MaxTTL \in Nat \ {0}
    /\ Grace \in Nat \ {0}
    /\ Lapse \in Nat \ {0}

Priority == {"interactive", "host"}

Pending == [device : Device \cup {NoDevice}, priority : Priority, age : 0 .. Lapse]

NoPending == [device |-> NoDevice, priority |-> "host", age |-> Lapse]

LeaseRow == [device   : Device \cup {NoDevice},
             session  : Nat,
             left     : (-Grace) .. MaxTTL,
             priority : Priority,
             epoch    : Nat,
             pending  : Pending]

\* No row yet: an expired one of epoch 0 answers every request the same way.
NoRow == [device |-> NoDevice, session |-> 0, left |-> -Grace,
          priority |-> "host", epoch |-> 0, pending |-> NoPending]

\* What a device asks for: the body of POST /leases/agent.
LeaseRequest == [device : Device, session : Nat, priority : Priority, ttl : 1 .. MaxTTL]

-----------------------------------------------------------------------------
Outranks(a, b) == a = "interactive" /\ b = "host"

Live(row) == row.left > 0

LivePending(row) == row.pending.age < Lapse /\ row.left > -Grace

\* Slip: the two priorities are compared the wrong way round.
YieldRequestedOfHigher(row) == LivePending(row) /\ Outranks(row.priority, row.pending.priority)

\* holderOf: the holder a refused or watching device is shown is asked to yield.
YieldRequested(row) == LivePending(row) /\ Outranks(row.pending.priority, row.priority)

HeldBy(row, device, session) == row.device = device /\ row.session = session

\* Slip: a copied or restarted device renews the grant of another session.
RenewsAnySession(row, q) == Live(row) /\ row.device = q.device

Renews(row, q) == Live(row) /\ HeldBy(row, q.device, q.session)

\* A live holder is only asked to yield, by a request that outranks it and
\* does not push an equal or higher request out of the pending slot.
TakesOver(row, q) ==
    /\ Live(row) /\ ~ Renews(row, q)
    /\ Outranks(q.priority, row.priority)
    /\ \/ ~ LivePending(row)
       \/ row.pending.device = q.device
       \/ Outranks(q.priority, row.pending.priority)

\* Slip: the two priorities are compared the wrong way round.
ReservedForLower(row, q) ==
    /\ ~ Live(row) /\ LivePending(row)
    /\ row.pending.device # q.device
    /\ Outranks(q.priority, row.pending.priority)

\* The lease was let go, and is kept for a waiting device that outranks this one.
Reserved(row, q) ==
    /\ ~ Live(row) /\ LivePending(row)
    /\ row.pending.device # q.device
    /\ Outranks(row.pending.priority, q.priority)

Granted(row, q) == Renews(row, q) \/ (~ Live(row) /\ ~ Reserved(row, q))

\* Slip: a renewal is numbered like a new grant.
GrantNewEpoch(row, q) ==
    [device |-> q.device, session |-> q.session, left |-> q.ttl, priority |-> q.priority,
     epoch |-> row.epoch + 1, pending |-> NoPending]

\* A renewal keeps the epoch and the pending takeover; any other grant takes
\* the next epoch and ends the takeover.
Grant(row, q) ==
    [device   |-> q.device,
     session  |-> q.session,
     left     |-> q.ttl,
     priority |-> q.priority,
     epoch    |-> IF Renews(row, q) THEN row.epoch ELSE row.epoch + 1,
     pending  |-> IF Renews(row, q) /\ LivePending(row) THEN row.pending ELSE NoPending]

AskToYield(row, q) ==
    [row EXCEPT !.pending = [device |-> q.device, priority |-> q.priority, age |-> 0]]

AfterAcquire(row, q) ==
    IF Granted(row, q) THEN Grant(row, q)
    ELSE IF TakesOver(row, q) THEN AskToYield(row, q)
    ELSE row

\* A withdrawal by the device whose takeover is pending.
Withdrawn(row, device) ==
    IF LivePending(row) /\ row.pending.device = device
    THEN [row EXCEPT !.pending = NoPending] ELSE row

\* Slip: the row is deleted, and its epoch forgotten.
AfterReleaseForgotten(row, device, session) ==
    IF Renews(row, [device |-> device, session |-> session]) THEN NoRow ELSE Withdrawn(row, device)

\* The row stays, expired, so that the next grant continues its epoch.
AfterRelease(row, device, session) ==
    IF Renews(row, [device |-> device, session |-> session])
    THEN [Withdrawn(row, device) EXCEPT !.left = 0]
    ELSE Withdrawn(row, device)

\* requireLeaseEpoch: whether a change to the agent's files is let through.
FenceAdmits(row, device, epoch) == Live(row) /\ row.device = device /\ row.epoch = epoch

\* One tick of the server's clock.
Aged(row) ==
    [row EXCEPT !.left = IF @ > -Grace THEN @ - 1 ELSE @,
                !.pending.age = IF @ < Lapse THEN @ + 1 ELSE @]
=============================================================================
