------------------------------- MODULE MCVault ------------------------------
(***************************************************************************)
(* The vault and what carries its changes, for TLC: the sync engine, the    *)
(* stream of changes, the watched files, the hub of the clients and the     *)
(* limiter. Each behaviour moves the variables of one part, in one of its   *)
(* instances, and leaves the others as they start. The devices' instances   *)
(* are within the notes and bounds that the configuration gives.            *)
(***************************************************************************)
EXTENDS Limiter, SyncEngine, WsHub, TLC

CONSTANTS
    Parts,   \* the parts whose behaviours the run explores
    laptop, phone, note, task, copy1, copyOfCopy1, p1, p2, c1, c2, c3, c4, c5, d1, t1, t2

VARIABLES
    part,    \* the part that moves in this behaviour
    log, conn, served, streamWire, cursor, observed, floor, catchups, due, streamPass, queued,
    streamBase, streamFaults,
    disk, versions, outside, ops, lock, probe, stage, scan, touched, known, watching, heard,
    timers, wanted, graces, confirms, asked, rescan, cache, changes, failures, lists, event

limiterVars ==
    <<active, waiting, resumed, running, ended>>
streamVars ==
    <<log, conn, served, streamWire, cursor, observed, floor, catchups, due, streamPass, queued,
      streamBase, streamFaults>>
fsVars ==
    <<disk, versions, outside, ops, lock, probe, stage, scan, touched, known, watching, heard,
      timers, wanted, graces, confirms, asked, rescan, cache, changes, failures, lists, event>>

\* A name for a copy of a note, and one for a copy of that.
NamesOfOne == [p \in {note, task, copy1, copyOfCopy1} |->
                  CASE p = note -> {copy1}
                    [] p = copy1 -> {copyOfCopy1}
                    [] OTHER -> {}]
\* No name is free for a copy of a copy.
NamesForNote == [p \in {note, task, copy1, copyOfCopy1} |-> IF p = note THEN {copy1} ELSE {}]

\* The first connection is the daemon's own page, the other a paired device's.
TwoOwners == (c1 :> None) @@ (c2 :> d1)

-----------------------------------------------------------------------------
(* The calls of a limiter.                                                 *)

LimiterInit == Init
LimiterStep ==
    /\ part = "limiter" /\ Next
    /\ UNCHANGED <<part, syncVars, streamVars, fsVars, hubVars>>

-----------------------------------------------------------------------------
(* Two devices that sync a note, or two.                                   *)

\* Copies have longer names.
Length == [p \in Path |-> IF p \in Note THEN 0 ELSE IF p = copy1 THEN 1 ELSE 2]
ASSUME CopiesAreLonger == \A p \in Path : \A c \in CopyNames[p] : Length[p] < Length[c]

Edits == INSTANCE SyncEngine WITH
    Note <- {note}, Copy <- {task, copy1, copyOfCopy1}, MaxDelete <- 0, MaxCrash <- 0
Faults == INSTANCE SyncEngine WITH
    Note <- {note}, Copy <- {task, copy1, copyOfCopy1}, MaxEdit <- 2, MaxDelete <- 0
Deletes == INSTANCE SyncEngine WITH
    CopyNames <- NamesForNote, Mergeable <- FALSE, MaxEdit <- 2, MaxCrash <- 0

DevicesInit ==
    CASE part = "faults" -> Faults!SyncInit
      [] part = "deletes" -> Deletes!SyncInit
      [] OTHER -> Edits!SyncInit
DevicesStep ==
    /\ \/ part = "edits" /\ Edits!SyncNext
       \/ part = "faults" /\ Faults!SyncNext
       \/ part = "deletes" /\ Deletes!SyncNext
    /\ UNCHANGED <<part, limiterVars, streamVars, fsVars, hubVars>>

-----------------------------------------------------------------------------
(* The changes of the service, and those this device pushes.               *)

Passes == INSTANCE ChangeStream WITH
    wire <- streamWire, pass <- streamPass, base <- streamBase, faults <- streamFaults,
    Paths <- {p1}, Page <- 9, MaxBuffered <- 1, MaxChanges <- 2, MaxOwn <- 1, MaxFaults <- 2,
    LocalPasses <- TRUE, SlowListing <- FALSE, RequestsFail <- FALSE
Pushes == INSTANCE ChangeStream WITH
    wire <- streamWire, pass <- streamPass, base <- streamBase, faults <- streamFaults,
    Paths <- {p1, p2}, Page <- 9, MaxBuffered <- 1, MaxChanges <- 2, MaxOwn <- 1,
    MaxFaults <- 1, LocalPasses <- FALSE, SlowListing <- FALSE, RequestsFail <- FALSE

StreamInit ==
    CASE part = "push" -> Pushes!Init
      [] OTHER -> Passes!Init
StreamStep ==
    /\ \/ part = "passes" /\ Passes!Next
       \/ part = "push" /\ Pushes!Next
    /\ UNCHANGED <<part, limiterVars, syncVars, fsVars, hubVars>>

-----------------------------------------------------------------------------
(* The files of a vault, changed by clients and behind their backs.        *)

Lost == INSTANCE LocalFs WITH
    Paths <- {p1}, Clients <- {c1, c2}, MaxOutside <- 1, MaxFailures <- 1, MaxLists <- 0,
    LateStart <- FALSE, Reverts <- TRUE, OutsidersRace <- FALSE
Races == INSTANCE LocalFs WITH
    Paths <- {p1}, Clients <- {c1, c2}, MaxOutside <- 1, MaxFailures <- 0, MaxLists <- 0,
    LateStart <- FALSE, Reverts <- TRUE, OutsidersRace <- TRUE
Renames == INSTANCE LocalFs WITH
    Paths <- {p1, p2}, Clients <- {c1}, MaxOutside <- 1, MaxFailures <- 0, MaxLists <- 1,
    LateStart <- FALSE, Reverts <- FALSE, OutsidersRace <- FALSE

FsInit ==
    CASE part = "lost" -> Lost!Init
      [] part = "races" -> Races!Init
      [] part = "renames" -> Renames!Init
      [] OTHER -> Lost!Init /\ disk = [p \in {p1} |-> 0]
FsStep ==
    /\ \/ part = "lost" /\ Lost!Next
       \/ part = "races" /\ Races!Next
       \/ part = "renames" /\ Renames!Next
    /\ UNCHANGED <<part, limiterVars, syncVars, streamVars, hubVars>>

-----------------------------------------------------------------------------
(* The clients of the hub and the surfaces they watch.                     *)

ClientsStep ==
    /\ part = "events" /\ HubNext
    /\ UNCHANGED <<part, limiterVars, syncVars, streamVars, fsVars>>

-----------------------------------------------------------------------------
MCInit ==
    /\ part \in Parts
    /\ LimiterInit
    /\ DevicesInit
    /\ StreamInit
    /\ FsInit
    /\ HubInit
MCNext ==
    \/ LimiterStep
    \/ DevicesStep
    \/ StreamStep
    \/ FsStep
    \/ ClientsStep
MCVars == <<part, limiterVars, syncVars, streamVars, fsVars, hubVars>>
MCSpec == MCInit /\ [][MCNext]_MCVars

-----------------------------------------------------------------------------
(* Properties, each of the parts it is about.                               *)

(* The stream of changes: frames follow the cursor without a gap, and once *)
(* nothing is under way the files are in step with the service.            *)
ChangesArrive ==
    /\ part = "push" =>
        /\ Pushes!TypeOK
        /\ Pushes!FramesFollowCursor
        /\ Pushes!FilesInStep
    /\ part = "passes" => Passes!FilesInStep

(* The files of a vault: at rest what is known of each is what is on disk, *)
(* a listing taken then says so, an echo of one's own write is no event,   *)
(* and a conditional write changes only what its caller had seen.          *)
FilesAreTracked ==
    /\ [](part = "lost" => Lost!RestKnowsTheDisk)
    /\ [](part = "races" => Races!RestKnowsTheDisk)
    /\ [](part = "renames" =>
           /\ Renames!TypeOK
           /\ Renames!RestKnowsTheDisk
           /\ Renames!ListingIsCurrent)
    /\ [][(part \in {"lost", "races", "renames"}) => Lost!EventIsNews]_fsVars
    /\ [][part = "lost" => Lost!ConditionsMet]_fsVars
    /\ [][part = "renames" => Renames!ConditionsMet]_fsVars
=============================================================================
