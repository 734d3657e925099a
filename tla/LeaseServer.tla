------------------------------ MODULE LeaseServer ------------------------------
(***************************************************************************)
(* The lease endpoints of the sync service, against any clients at all:    *)
(* whatever devices ask for, release and wait, in any order and with any   *)
(* session.  It is the abstract specification that AgentLease, where the   *)
(* requests are the ones daemons really send, is shown to implement.       *)
(***************************************************************************)
EXTENDS LeaseTable

CONSTANTS
    Session,    \* session ids a client may send
    MaxEpoch    \* bound: the number of grants a behaviour may see

ASSUME LeaseServerAssumption == Session \subseteq Nat /\ MaxEpoch \in Nat

VARIABLES
    row         \* the vault's row of the table

Init == row = NoRow

\* POST /v1/vaults/:vault/leases/agent
Acquire(q) ==
    /\ AfterAcquire(row, q).epoch =< MaxEpoch
    /\ row' = AfterAcquire(row, q)

\* DELETE /v1/vaults/:vault/leases/agent
Release(device, session) == row' = AfterRelease(row, device, session)

Tick == row' = Aged(row)

Next ==
    \/ \E d \in Device, s \in Session, p \in Priority, t \in 1 .. MaxTTL :
            Acquire([device |-> d, session |-> s, priority |-> p, ttl |-> t])
    \/ \E d \in Device, s \in Session : Release(d, s)
    \/ Tick

Spec == Init /\ [][Next]_row

-----------------------------------------------------------------------------
TypeOK == row \in LeaseRow

\* A grant changes hands only when the previous one ran out or was released,
\* and every change of hands takes the very next epoch: an epoch names one
\* (device, session), forever, which is what lets the fence compare numbers.
EpochNamesOneGrant ==
    [][ LET moved == ~ HeldBy(row', row.device, row.session)
        IN  /\ moved => ~ Live(row)
            /\ (row'.epoch # row.epoch) <=> (~ Live(row) /\ Live(row'))
            /\ row'.epoch \in {row.epoch, row.epoch + 1} ]_row

\* While an interactive device waits for a host's lease, no step, neither the
\* host's release, another host's request nor the clock, ends the wait by
\* putting the lease in another host's hands.  (The waiting device itself may
\* have become a host meanwhile.)
WaitersTurn ==
    [][ (YieldRequested(row) /\ ~ YieldRequested(row') /\ row'.priority = "host")
          => \/ row'.epoch = row.epoch
             \/ row'.device = row.pending.device ]_row
=============================================================================
