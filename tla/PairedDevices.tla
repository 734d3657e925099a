---------------------------- MODULE PairedDevices ----------------------------
(***************************************************************************)
(* Pairing other devices with this daemon: the codes                       *)
(* (apps/daemon/src/pairing.ts), the devices and their file                *)
(* (paired-devices.ts), the routes over both (routes/pairing.ts), and the  *)
(* sockets of a device (ws.ts), which a revocation closes.                 *)
(*                                                                         *)
(* The store changes its devices at once and then waits for a write; the   *)
(* writes run one after another, each of what the devices are by then.  A  *)
(* write may fail, and the daemon may die between any two steps.  One      *)
(* pairing request stands for one client, and for the device it becomes.   *)
(***************************************************************************)
EXTENDS Naturals, Sequences, FiniteSets

CONSTANTS
    Client,       \* the clients that ask to be paired, and the devices they become
    MaxDevices,   \* MAX_PAIRED_DEVICES
    MaxCodes,     \* maxOutstanding
    Attempts,     \* attemptsPerWindow
    Window,       \* attemptWindowMs
    Ttl,          \* codeTtlMs
    Failures,     \* failuresBeforeInvalidation
    SavesFail,    \* whether writing the file may fail
    MaxTime,      \* bound on the clock
    MaxIssues,    \* bound on the codes issued
    MaxCrashes    \* bound on the restarts

ASSUME DevicesAssumptions ==
    /\ IsFiniteSet(Client)
    /\ MaxDevices \in Nat /\ MaxCodes \in Nat /\ Attempts \in Nat /\ Window \in Nat /\ Ttl \in Nat
    /\ Failures \in Nat \ {0}
    /\ SavesFail \in BOOLEAN
    /\ MaxTime \in Nat /\ MaxIssues \in Nat /\ MaxCrashes \in Nat

VARIABLES
    now,
    codes,       \* #codes: the outstanding ones, with the time they expire
    issued,      \* codes issued so far
    attempts,    \* #attempts: the clients whose attempt is remembered, each with its one
    failures,    \* #failures
    missed,      \* wrong codes tried since a code was issued
    request,     \* where each client's POST /api/pair is, when it came, its code
    devices,     \* #devices
    file,        \* devices.json
    saves,       \* #writes: what each write not yet done is for
    temp,        \* what the write under way wrote to its temporary file
    seen,        \* devices whose use was recorded within the minute
    sockets,     \* devices with a WebSocket
    asked,       \* devices whose revocation was asked for
    revoked,     \* devices whose revocation was answered with 204
    unknown,     \* devices whose revocation was answered with 404
    crashes

pairing == <<codes, issued, attempts, failures, missed>>
store == <<devices, file, saves, temp, seen>>
revocation == <<asked, revoked, unknown>>
devicesVars == <<now, pairing, request, store, sockets, revocation, crashes>>

NotWriting == [writing |-> FALSE, devices |-> {}]
Wrong == 0
Steps == {"none", "limited", "reading", "adding", "paired", "refused"}

DevicesTypeOK ==
    /\ now \in 0 .. MaxTime
    /\ codes \subseteq [code : 1 .. MaxIssues, expires : 0 .. MaxTime + Ttl]
    /\ issued \in 0 .. MaxIssues
    /\ attempts \subseteq Client
    /\ failures \in 0 .. Failures - 1
    /\ missed \in [1 .. MaxIssues -> Nat]
    /\ request \in [Client -> [at : Steps, came : 0 .. MaxTime, code : 0 .. MaxIssues]]
    /\ devices \subseteq Client /\ file \subseteq Client
    /\ saves \in Seq([for : {"add", "revoke", "touch"}, of : Client])
    /\ temp \in [writing : BOOLEAN, devices : SUBSET Client]
    /\ seen \subseteq Client /\ sockets \subseteq Client
    /\ asked \subseteq Client /\ revoked \subseteq Client /\ unknown \subseteq Client
    /\ crashes \in 0 .. MaxCrashes

DevicesInit ==
    /\ now = 0
    /\ codes = {} /\ issued = 0
    /\ attempts = {} /\ failures = 0
    /\ missed = [c \in 1 .. MaxIssues |-> 0]
    /\ request = [d \in Client |-> [at |-> "none", came |-> 0, code |-> Wrong]]
    /\ devices = {} /\ file = {}
    /\ saves = <<>> /\ temp = NotWriting
    /\ seen = {} /\ sockets = {}
    /\ asked = {} /\ revoked = {} /\ unknown = {}
    /\ crashes = 0

\* #prune.
Outstanding == {c \in codes : c.expires > now}
IsFull == Cardinality(devices) >= MaxDevices
Numbers == {c.code : c \in Outstanding}

-----------------------------------------------------------------------------
(* Codes.                                                                  *)

\* POST /api/pairing/codes.
Issue ==
    /\ issued < MaxIssues
    /\ ~ IsFull /\ Cardinality(Outstanding) < MaxCodes
    /\ issued' = issued + 1
    /\ codes' = Outstanding \cup {[code |-> issued', expires |-> now + Ttl]}
    /\ UNCHANGED <<now, attempts, failures, missed, request, store, sockets, revocation, crashes>>

\* POST /api/pair arrives: the attempt counts before the body is read.
Attempt(d, code) ==
    /\ request[d].at = "none"
    /\ LET recent == {e \in attempts : now - request[e].came < Window} IN
       IF Cardinality(recent) >= Attempts
       THEN /\ attempts' = recent
            /\ request' = [request EXCEPT ![d].at = "limited"]
       ELSE /\ attempts' = recent \cup {d}
            /\ request' = [request EXCEPT ![d] = [at |-> "reading", came |-> now, code |-> code]]
    /\ UNCHANGED <<now, codes, issued, failures, missed, store, sockets, revocation, crashes>>

Save(what, d) == saves' = Append(saves, [for |-> what, of |-> d])

Refused(d) == request' = [request EXCEPT ![d].at = "refused"]

\* Slip: the token is given out before the device is saved.
RedeemAnswered(d) ==
    /\ request[d].at = "reading" /\ ~ IsFull /\ request[d].code \in Numbers
    /\ codes' = {c \in Outstanding : c.code # request[d].code}
    /\ request' = [request EXCEPT ![d].at = "paired"]
    /\ devices' = devices \cup {d}
    /\ Save("touch", d)
    /\ UNCHANGED <<now, issued, attempts, failures, missed, file, temp, seen, sockets, revocation,
                   crashes>>

\* redeem and add: the code is used up, and the device is there before it is saved.
Redeem(d) ==
    /\ request[d].at = "reading" /\ ~ IsFull /\ request[d].code \in Numbers
    /\ codes' = {c \in Outstanding : c.code # request[d].code}
    /\ request' = [request EXCEPT ![d].at = "adding"]
    /\ devices' = devices \cup {d}
    /\ Save("add", d)
    /\ UNCHANGED <<now, issued, attempts, failures, missed, file, temp, seen, sockets, revocation,
                   crashes>>

\* A full list keeps the code.
NoRoom(d) ==
    /\ request[d].at = "reading" /\ IsFull
    /\ Refused(d)
    /\ UNCHANGED <<now, pairing, store, sockets, revocation, crashes>>

\* A wrong, expired or used code: after too many, every code goes.
Miss(d) ==
    /\ request[d].at = "reading" /\ ~ IsFull /\ request[d].code \notin Numbers
    /\ Refused(d)
    /\ missed' = [c \in 1 .. MaxIssues |-> IF c \in Numbers THEN missed[c] + 1 ELSE missed[c]]
    /\ IF failures + 1 >= Failures THEN codes' = {} /\ failures' = 0
       ELSE codes' = Outstanding /\ failures' = failures + 1
    /\ UNCHANGED <<now, issued, attempts, store, sockets, revocation, crashes>>

-----------------------------------------------------------------------------
(* The file.                                                               *)

\* The next write begins, with the devices there are now.
Write ==
    /\ saves # <<>> /\ ~ temp.writing
    /\ temp' = [writing |-> TRUE, devices |-> devices]
    /\ UNCHANGED <<now, pairing, request, devices, file, saves, seen, sockets, revocation, crashes>>

\* It is renamed over the file: who waited for it is answered.
Written ==
    /\ temp.writing
    /\ file' = temp.devices
    /\ temp' = NotWriting
    /\ saves' = Tail(saves)
    /\ LET d == Head(saves).of
           for == Head(saves).for
       IN /\ request' = IF for = "add" THEN [request EXCEPT ![d].at = "paired"] ELSE request
          /\ revoked' = IF for = "revoke" THEN revoked \cup {d} ELSE revoked
    /\ UNCHANGED <<now, pairing, devices, seen, sockets, asked, unknown, crashes>>

\* It fails: a device that was being added is forgotten.
Fails ==
    /\ SavesFail /\ temp.writing
    /\ temp' = NotWriting
    /\ saves' = Tail(saves)
    /\ LET d == Head(saves).of IN
       IF Head(saves).for = "add"
       THEN /\ devices' = devices \ {d}
            /\ request' = [request EXCEPT ![d].at = "refused"]
       ELSE UNCHANGED <<devices, request>>
    /\ UNCHANGED <<now, pairing, file, seen, sockets, revocation, crashes>>

-----------------------------------------------------------------------------
(* Devices.                                                                *)

HasToken(d) == request[d].at = "paired"

\* authenticate: a use is recorded at most once a minute.
Touch(d) ==
    IF d \in seen THEN UNCHANGED <<seen, saves>>
    ELSE seen' = seen \cup {d} /\ Save("touch", d)

\* The device opens its WebSocket.
Connect(d) ==
    /\ HasToken(d) /\ d \in devices /\ d \notin sockets
    /\ sockets' = sockets \cup {d}
    /\ Touch(d)
    /\ UNCHANGED <<now, pairing, request, devices, file, temp, revocation, crashes>>

\* DELETE /api/devices/:id.
Revoke(d) ==
    /\ d \in devices
    /\ asked' = asked \cup {d}
    /\ devices' = devices \ {d}
    /\ sockets' = sockets \ {d}
    /\ Save("revoke", d)
    /\ UNCHANGED <<now, pairing, request, file, temp, seen, revoked, unknown, crashes>>

\* It is not there: 404.
RevokeUnknown(d) ==
    /\ d \in asked \ devices /\ d \notin unknown
    /\ unknown' = unknown \cup {d}
    /\ UNCHANGED <<now, pairing, request, store, sockets, asked, revoked, crashes>>

-----------------------------------------------------------------------------
Crash ==
    /\ crashes < MaxCrashes
    /\ crashes' = crashes + 1
    /\ codes' = {} /\ attempts' = {} /\ failures' = 0
    /\ request' = [d \in Client |-> IF request[d].at \in {"reading", "adding"}
                                    THEN [request[d] EXCEPT !.at = "refused"] ELSE request[d]]
    /\ devices' = file
    /\ saves' = <<>> /\ temp' = NotWriting
    /\ sockets' = {} /\ seen' = {}
    /\ UNCHANGED <<now, issued, missed, file, revocation>>

ClockTicks ==
    /\ now < MaxTime
    /\ now' = now + 1
    /\ UNCHANGED <<pairing, request, store, sockets, revocation, crashes>>

DevicesNext ==
    \/ Issue \/ ClockTicks \/ Crash
    \/ Write \/ Written \/ Fails
    \/ \E d \in Client :
        \/ \E code \in {Wrong} \cup 1 .. issued : Attempt(d, code)
        \/ Redeem(d) \/ NoRoom(d) \/ Miss(d)
        \/ Connect(d) \/ Revoke(d) \/ RevokeUnknown(d)

DevicesSpec == DevicesInit /\ [][DevicesNext]_devicesVars

\* Writes run one after another, and end.
DevicesLiveSpec == DevicesSpec /\ WF_devicesVars(Write) /\ WF_devicesVars(Written \/ Fails)

-----------------------------------------------------------------------------
(* Properties.                                                             *)

\* A code pairs one device, however many clients try it at once.
OneDevicePerCode ==
    \A d, e \in Client :
        /\ d # e
        /\ {request[d].at, request[e].at} \subseteq {"adding", "paired"}
        => request[d].code # request[e].code

\* In any minute, no more than `attemptsPerWindow` attempts get as far as a code.
AttemptsAreLimited ==
    crashes = 0 =>
        Cardinality({d \in Client : /\ request[d].at \notin {"none", "limited"}
                                    /\ now - request[d].came < Window}) <= Attempts

\* No code is there to be found after `failuresBeforeInvalidation` wrong ones.
GuessesAreBounded == \A c \in Outstanding : missed[c.code] < Failures

\* The list never outgrows what the file's schema accepts back.
ListIsLoadable == Cardinality(devices) <= MaxDevices /\ Cardinality(file) <= MaxDevices

\* A device whose client has its token works until its revocation is asked for,
\* whatever fails and whenever the daemon restarts.
PairedStaysPaired == \A d \in Client \ asked : HasToken(d) => d \in devices /\ d \in file

\* A device whose revocation was answered never works again.
RevokedStaysOut == revoked \cap (devices \cup file) = {}

\* "Revoked device is cut off immediately": it has no socket.
CutOff == sockets \subseteq devices

\* Who is told that its device could not be paired has none (a restart may find
\* one whose pairing it cut off).
RefusedIsNotPaired == crashes = 0 => \A d \in devices : request[d].at \in {"adding", "paired"}

\* Together, what is promised of the devices that are paired.
OnlyPairedDevices ==
    /\ DevicesTypeOK
    /\ PairedStaysPaired
    /\ RevokedStaysOut
    /\ CutOff
    /\ RefusedIsNotPaired
    /\ ListIsLoadable
    /\ OneDevicePerCode
    /\ AttemptsAreLimited
    /\ GuessesAreBounded

\* Every pairing and every revocation that began is answered.
RequestsEnd == \A d \in Client : request[d].at = "adding" ~> request[d].at # "adding"
=============================================================================
