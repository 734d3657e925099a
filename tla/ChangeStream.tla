---------------------------- MODULE ChangeStream ----------------------------
(***************************************************************************)
(* The change stream of the sync service and what a device makes of it.    *)
(* The service logs every change under the next number and pushes it to the*)
(* streams of the vault. The device's provider follows with a cursor: what *)
(* a lost connection or a listing made too early leaves out, it replays    *)
(* from the log. Every change of another device makes its sync engine run a*)
(* pass, which lists the vault again.                                      *)
(*                                                                         *)
(* One device; "own" changes are the ones its passes push. Heartbeats are  *)
(* left out: they tell what was pushed before them on the same connection. *)
(***************************************************************************)
EXTENDS Naturals, Sequences, FiniteSets, FiniteSetsExt

CONSTANTS
    Paths,
    Page,         \* changes a page of the log has at most
    MaxBuffered,  \* frames a stream may be behind
    MaxChanges,   \* bound on the changes of other devices
    MaxOwn,       \* and on this device's
    MaxFaults,    \* bound on lost connections and failing requests
    LocalPasses,  \* passes run for local changes, and on the interval
    SlowListing,  \* a connection may be lost while the first listing is awaited
    RequestsFail, \* listings and pages of the log may fail
    None

VARIABLES
    log,       \* the changes, in the order of their numbers
    conn,      \* the device's connection: "closed", "opening", "open"
    served,    \* the service still has a stream for it
    wire,      \* frames on their way: [type, seq]
    cursor,    \* changes up to it were delivered or are being replayed
    observed,  \* the number the latest listing had
    floor,     \* where the stream got ready before any listing
    catchups,  \* replays under way: [from, to]
    due,       \* a change was reported: a pass is due after a quiet period
    pass,      \* the pass under way: [stage, seq]
    queued,    \* a follow-up pass is wanted
    base,      \* per path: the latest change the engine's snapshot has
    faults

stream == <<conn, served, wire>>
marks == <<cursor, observed, floor>>
engine == <<due, pass, queued, base>>
vars == <<log, stream, marks, catchups, engine, faults>>

Latest(p, n) == Max({0} \cup {i \in 1..n : log[i].path = p})
Gone(i) == IF i = 0 THEN TRUE ELSE log[i].deleted
Others == Cardinality({i \in DOMAIN log : ~log[i].own})

(* What is pushed: not to a stream that is behind, which ends there.       *)
Publish(changes) ==
    LET frames == [k \in DOMAIN changes |-> [type |-> "change", seq |-> Len(log) + k]] IN
    /\ log' = log \o changes
    /\ IF ~served THEN UNCHANGED <<served, wire>>
       ELSE IF Len(wire) <= MaxBuffered THEN wire' = wire \o frames /\ UNCHANGED served
       ELSE served' = FALSE /\ \E k \in 0..Len(wire) : wire' = SubSeq(wire, 1, k)

Change(p, deleted, own) ==
    [path |-> p, deleted |-> deleted, created |-> ~deleted /\ Gone(Latest(p, Len(log))), own |-> own]

(* The stream the service has with the device is gone, with what it had not*)
(* yet read.                                                               *)
Lost == \E k \in 0..Len(wire) : wire' = SubSeq(wire, 1, k)

Fault == faults < MaxFaults /\ faults' = faults + 1

-----------------------------------------------------------------------------

Init ==
    /\ log = <<>>
    /\ conn = "opening" /\ served = FALSE /\ wire = <<>>
    /\ cursor = None /\ observed = None /\ floor = None /\ catchups = {}
    /\ due = FALSE /\ pass = [stage |-> "asked", seq |-> None] /\ queued = FALSE
    /\ base = [p \in Paths |-> 0]
    /\ faults = 0

(* Another device writes or deletes a file, or renames one.                *)
OthersChange(p) ==
    /\ Others < MaxChanges
    /\ \E deleted \in BOOLEAN :
         /\ deleted => ~Gone(Latest(p, Len(log)))
         /\ Publish(<<Change(p, deleted, FALSE)>>)
    /\ UNCHANGED <<conn, marks, catchups, engine, faults>>

OthersRename(p, q) ==
    /\ Others + 1 < MaxChanges
    /\ p # q /\ ~Gone(Latest(p, Len(log))) /\ Gone(Latest(q, Len(log)))
    /\ Publish(<<Change(p, TRUE, FALSE), Change(q, FALSE, FALSE)>>)
    /\ UNCHANGED <<conn, marks, catchups, engine, faults>>

-----------------------------------------------------------------------------

(* The service accepts the stream and says where its log is.               *)
Accept ==
    /\ conn = "opening" /\ ~served
    /\ served' = TRUE
    /\ conn' = "open"
    /\ wire' = <<[type |-> "ready", seq |-> Len(log)]>>
    /\ UNCHANGED <<log, marks, catchups, engine, faults>>

(* The service drops it: a restart, a network failure.                     *)
ServiceDrops ==
    /\ Fault /\ served
    /\ served' = FALSE /\ Lost
    /\ UNCHANGED <<log, conn, marks, catchups, engine>>

(* The device notices, or its connection went silent.                      *)
DropConnection ==
    /\ floor # None => SlowListing
    /\ \/ conn = "open" /\ ~served /\ wire = <<>> /\ UNCHANGED faults
       \/ conn # "closed" /\ Fault
    /\ conn' = "closed" /\ served' = FALSE /\ wire' = <<>>
    /\ UNCHANGED <<log, marks, catchups, engine>>

Reconnect ==
    /\ conn = "closed"
    /\ conn' = "opening"
    /\ UNCHANGED <<log, served, wire, marks, catchups, engine, faults>>

(* Replays what the log has after "from", up to "to".                      *)
CatchUp(from, to) == catchups' = catchups \cup {[from |-> from, to |-> to]}

StartAt == IF cursor = None THEN observed ELSE cursor

OnReady(seq) ==
    LET from == StartAt IN
    /\ cursor' = seq
    /\ floor' = IF from = None THEN seq ELSE None
    /\ IF from # None /\ from # seq THEN CatchUp(IF from > seq THEN 0 ELSE from, seq)
       ELSE UNCHANGED catchups
    /\ UNCHANGED <<observed, due>>

OnChange(seq) ==
    /\ IF cursor # None /\ seq <= cursor THEN UNCHANGED <<cursor, due>>
       ELSE cursor' = seq /\ due' = (due \/ ~log[seq].own)
    /\ UNCHANGED <<observed, floor, catchups>>

OnFrame ==
    /\ conn = "open" /\ wire # <<>>
    /\ LET frame == Head(wire) IN
       IF frame.type = "ready" THEN OnReady(frame.seq) ELSE OnChange(frame.seq)
    /\ wire' = Tail(wire)
    /\ UNCHANGED <<log, conn, served, pass, queued, base, faults>>

(* The net effect of others' changes on each path: none when a file came   *)
(* and went again.                                                         *)
Replayed(c) ==
    LET page == {i \in (c.from + 1)..(c.from + Page) : i <= c.to /\ i <= Len(log) /\ ~log[i].own}
        paths == {log[i].path : i \in page}
        of(p) == {i \in page : log[i].path = p}
    IN {p \in paths : ~(log[Max(of(p))].deleted /\ log[Min(of(p))].created)}

CaughtUp(c) ==
    /\ c \in catchups
    /\ catchups' = catchups \ {c}
    /\ due' = (due \/ Replayed(c) # {})
    /\ UNCHANGED <<log, stream, marks, pass, queued, base, faults>>

CatchUpFails(c) ==
    /\ RequestsFail /\ Fault /\ c \in catchups
    /\ catchups' = catchups \ {c}
    /\ UNCHANGED <<log, stream, marks, engine>>

-----------------------------------------------------------------------------

Asked == [stage |-> "asked", seq |-> None]

(* Slip: a pass asked for during one is taken to be that one.              *)
SyncOnceShared ==
    pass' = (IF pass = None THEN Asked ELSE pass) /\ UNCHANGED queued

(* A pass now, or once the one under way has ended.                        *)
SyncOnce ==
    IF pass = None THEN pass' = Asked /\ UNCHANGED queued
    ELSE queued' = TRUE /\ UNCHANGED pass

(* The quiet period after the last change of another device is over.       *)
TargetTrigger ==
    /\ due /\ due' = FALSE
    /\ SyncOnce
    /\ UNCHANGED <<log, stream, marks, catchups, base, faults>>

LocalTrigger ==
    /\ LocalPasses /\ SyncOnce
    /\ UNCHANGED <<log, stream, marks, catchups, due, base, faults>>

(* The service answers a listing.                                          *)
AnswerList ==
    /\ pass # None /\ pass.stage = "asked"
    /\ pass' = [stage |-> "answered", seq |-> Len(log)]
    /\ UNCHANGED <<log, stream, marks, catchups, due, queued, base, faults>>

Observed(seq) ==
    /\ observed' = seq
    /\ floor' = None
    /\ IF floor # None /\ seq < floor THEN CatchUp(seq, floor) ELSE UNCHANGED catchups

(* It arrives, and the pass brings every file in step with it.             *)
Listed ==
    /\ pass # None /\ pass.stage = "answered"
    /\ Observed(pass.seq)
    /\ base' = [p \in Paths |-> IF base[p] > pass.seq THEN base[p] ELSE Latest(p, pass.seq)]
    /\ pass' = [pass EXCEPT !.stage = "working"]
    /\ UNCHANGED <<log, stream, cursor, due, queued, faults>>

(* It pushes a change, unless the file changed since.                      *)
Push(p) ==
    /\ pass # None /\ pass.stage = "working"
    /\ Len(log) - Others < MaxOwn
    /\ base[p] = Latest(p, Len(log))
    /\ \E deleted \in BOOLEAN :
         /\ deleted => ~Gone(base[p])
         /\ Publish(<<Change(p, deleted, TRUE)>>)
    /\ base' = [base EXCEPT ![p] = Len(log) + 1]
    /\ UNCHANGED <<conn, marks, catchups, due, pass, queued, faults>>

Ended ==
    /\ pass' = IF queued THEN Asked ELSE None
    /\ queued' = FALSE

PassEnds ==
    /\ pass # None /\ pass.stage = "working"
    /\ Ended
    /\ UNCHANGED <<log, stream, marks, catchups, due, base, faults>>

PassFails ==
    /\ RequestsFail /\ Fault /\ pass # None /\ pass.stage # "working"
    /\ Ended
    /\ UNCHANGED <<log, stream, marks, catchups, due, base>>

Delivering == Accept \/ OnFrame \/ Reconnect \/ DropConnection
Replaying == \E c \in catchups : CaughtUp(c)
Passing == TargetTrigger \/ AnswerList \/ Listed \/ PassEnds

Next ==
    \/ \E p \in Paths : OthersChange(p) \/ Push(p)
    \/ \E p, q \in Paths : OthersRename(p, q)
    \/ ServiceDrops
    \/ Delivering \/ Replaying \/ Passing
    \/ \E c \in catchups : CatchUpFails(c)
    \/ LocalTrigger \/ PassFails

Spec == Init /\ [][Next]_vars

(* Sockets deliver or close, requests are answered, timers fire.           *)
LiveSpec == Spec /\ WF_vars(Delivering) /\ WF_vars(Replaying) /\ WF_vars(Passing)
                 /\ WF_vars(LocalTrigger)

-----------------------------------------------------------------------------

Marks == Nat \cup {None}

TypeOK ==
    /\ conn \in {"closed", "opening", "open"} /\ (served => conn = "open")
    /\ wire # <<>> => conn = "open"
    /\ cursor \in Marks /\ observed \in Marks /\ floor \in Marks
    /\ floor # None => observed = None
    /\ \A c \in catchups : c.from <= c.to /\ c.to <= Len(log)
    /\ \A p \in Paths : base[p] <= Len(log)

Quiet ==
    /\ conn = "open" /\ served /\ wire = <<>> /\ catchups = {}
    /\ ~due /\ pass = None /\ ~queued

Has(p) == LET n == Latest(p, Len(log)) IN base[p] = n \/ (Gone(base[p]) /\ Gone(n))
HasFile(p) == ~Gone(Latest(p, Len(log))) => Has(p)

(* When nothing is on its way, the engine's snapshot has every file as the *)
(* service has it: every change of another device has led to a pass that   *)
(* saw it, through lost connections, replays and passes under way.         *)
FilesInStep == Quiet => \A p \in Paths : HasFile(p)

(* A connected stream has every change exactly once: what is on the wire   *)
(* follows the cursor without a gap, so a heartbeat would find nothing.    *)
FramesFollowCursor ==
    conn = "open" /\ served =>
        IF \E k \in DOMAIN wire : wire[k].type = "ready"
        THEN \A k \in DOMAIN wire : wire[k].seq = wire[1].seq + k - 1
        ELSE cursor + Len(wire) = Len(log) /\ \A k \in DOMAIN wire : wire[k].seq = cursor + k

(* The stream alone brings the engine in step with the files there are;    *)
(* passes on the interval make up for whatever fails.                      *)
EndsWithFiles == <>[](\A p \in Paths : HasFile(p))
EndsInStep == <>[](\A p \in Paths : Has(p))
=============================================================================
