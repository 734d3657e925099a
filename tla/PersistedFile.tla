---------------------------- MODULE PersistedFile ---------------------------
(***************************************************************************)
(* One file of the agent's state and its owner: loaded, saved with a write *)
(* that names the version it replaces, moved aside when it is unreadable.  *)
(* Sync, another device and hand edits change it between any two steps.    *)
(*                                                                         *)
(* A content is its version; what it decodes to is its kind. The owner's   *)
(* own contents are valid.                                                 *)
(***************************************************************************)
EXTENDS Naturals, FiniteSets

CONSTANTS
    MaxAttempts,     \* MAX_SAVE_ATTEMPTS
    MaxVersions,     \* bound on the contents others write
    MaxOps,          \* bound on the owner's loads and saves
    MaxFaults,       \* bound on failing storage calls and crashes
    MovedUnderway,   \* the file may change while it is being moved aside
    None, Unknown

ASSUME AttemptsAssumption == MaxAttempts \in Nat \ {0}
(* A load or a save under way.                                             *)
Operations ==
    [name : {"load", "save"}, stage : {"read", "aside", "copy", "write"}, attempt : 0..MaxAttempts]

ASSUME MarksAssumption ==
    /\ None # Unknown /\ None \notin Nat /\ Unknown \notin Nat
    /\ None \notin Operations

Kinds == {"valid", "partly", "corrupt", "newer"}

VARIABLES
    versions, \* contents written so far
    kind,     \* what each decodes to
    disk,     \* the file's version, None when it is absent
    aside,    \* contents moved or copied aside
    known,    \* the version last seen, None for an absent file, or Unknown
    evidence, \* a partly invalid content to be copied before it is replaced
    blocked,
    op,       \* the load or save under way: [name, stage, attempt]
    taken,    \* contents the owner was given, or wrote
    ops, faults

file == <<versions, kind, disk>>
memory == <<known, evidence, blocked>>
vars == <<file, aside, memory, op, taken, ops, faults>>

Init ==
    /\ versions = 0 /\ kind = [v \in {} |-> "valid"]
    /\ disk = None /\ aside = {}
    /\ known = Unknown /\ evidence = None /\ blocked = FALSE
    /\ op = None /\ taken = {} /\ ops = 0 /\ faults = 0

Written(k) ==
    /\ versions' = versions + 1
    /\ kind' = [v \in DOMAIN kind \cup {versions + 1} |-> IF v = versions + 1 THEN k ELSE kind[v]]
    /\ disk' = versions + 1

(* Someone else writes or removes the file.                                *)
External ==
    /\ IF op = None THEN TRUE ELSE op.stage = "aside" => MovedUnderway
    /\ \/ versions < MaxVersions /\ \E k \in Kinds : Written(k)
       \/ disk # None /\ disk' = None /\ UNCHANGED <<versions, kind>>
    /\ UNCHANGED <<aside, memory, op, taken, ops, faults>>

Fault == faults < MaxFaults /\ faults' = faults + 1

-----------------------------------------------------------------------------

(* Where a save goes on, after a turn of its loop.                         *)
Loop(o, isBlocked, version, kept) ==
    IF o.attempt >= MaxAttempts THEN None
    ELSE IF isBlocked THEN None
    ELSE [o EXCEPT !.attempt = @ + 1,
                   !.stage = IF version = Unknown THEN "read" ELSE IF kept # None THEN "copy" ELSE "write"]

(* A save loops; a load is done.                                           *)
Goes(isBlocked, version, kept) ==
    op' = IF op.name = "save" THEN Loop(op, isBlocked, version, kept) ELSE None

Begin(name) ==
    /\ op = None /\ ops < MaxOps /\ ops' = ops + 1
    /\ UNCHANGED <<file, aside, memory, taken, faults>>

Load ==
    /\ Begin("load")
    /\ op' = [name |-> "load", stage |-> "read", attempt |-> 0]

Save ==
    /\ Begin("save")
    /\ op' = Loop([name |-> "save", stage |-> "read", attempt |-> 0], blocked, known, evidence)

At(stage) == op # None /\ op.stage = stage

ReadAbsent ==
    /\ At("read") /\ disk = None
    /\ known' = None
    /\ Goes(blocked, None, evidence)
    /\ UNCHANGED <<file, aside, evidence, blocked, taken, ops, faults>>

(* Slip: what was not read in full is not remembered.                      *)
AcceptReadableOnly ==
    /\ At("read") /\ disk # None /\ kind[disk] \in {"valid", "partly"}
    /\ known' = disk
    /\ evidence' = None
    /\ taken' = taken \cup {disk}
    /\ Goes(blocked, disk, None)
    /\ UNCHANGED <<file, aside, blocked, ops, faults>>

AcceptReadable ==
    /\ At("read") /\ disk # None /\ kind[disk] \in {"valid", "partly"}
    /\ known' = disk
    /\ evidence' = IF kind[disk] = "partly" THEN disk ELSE None
    /\ taken' = taken \cup {disk}
    /\ Goes(blocked, disk, evidence')
    /\ UNCHANGED <<file, aside, blocked, ops, faults>>

AcceptNewer ==
    /\ At("read") /\ disk # None /\ kind[disk] = "newer"
    /\ blocked' = TRUE /\ evidence' = None
    /\ Goes(TRUE, known, None)
    /\ UNCHANGED <<file, aside, known, taken, ops, faults>>

AcceptCorrupt ==
    /\ At("read") /\ disk # None /\ kind[disk] = "corrupt"
    /\ evidence' = None
    /\ op' = [op EXCEPT !.stage = "aside"]
    /\ UNCHANGED <<file, aside, known, blocked, taken, ops, faults>>

(* The file is renamed, whatever it is by now.                             *)
MoveAside ==
    /\ At("aside")
    /\ aside' = IF disk = None THEN aside ELSE aside \cup {disk}
    /\ disk' = None /\ known' = None
    /\ Goes(blocked, None, evidence)
    /\ UNCHANGED <<versions, kind, evidence, blocked, taken, ops, faults>>

MoveAsideFails ==
    /\ At("aside") /\ Fault
    /\ blocked' = TRUE
    /\ Goes(TRUE, known, evidence)
    /\ UNCHANGED <<file, aside, known, evidence, taken, ops>>

(* The copy is of what was read, wherever the file is by now.              *)
Preserve ==
    /\ At("copy")
    /\ aside' = aside \cup {evidence}
    /\ evidence' = None
    /\ op' = [op EXCEPT !.stage = "write"]
    /\ UNCHANGED <<file, known, blocked, taken, ops, faults>>

PreserveFails ==
    /\ At("copy") /\ Fault
    /\ blocked' = TRUE /\ op' = None
    /\ UNCHANGED <<file, aside, known, evidence, taken, ops>>

Write ==
    /\ At("write") /\ disk = known
    /\ Written("valid")
    /\ known' = versions' /\ taken' = taken \cup {versions'}
    /\ op' = None
    /\ UNCHANGED <<aside, evidence, blocked, ops, faults>>

(* Slip: a save goes on with the evidence of what is no longer there.      *)
WriteConflictsKnowing ==
    /\ At("write") /\ disk # known
    /\ known' = disk
    /\ Goes(blocked, disk, evidence)
    /\ UNCHANGED <<file, aside, evidence, blocked, taken, ops, faults>>

WriteConflicts ==
    /\ At("write") /\ disk # known
    /\ known' = Unknown
    /\ Goes(blocked, Unknown, evidence)
    /\ UNCHANGED <<file, aside, evidence, blocked, taken, ops, faults>>

(* An error ends the operation: of a write, before or after it was done.   *)
Fails ==
    /\ op # None /\ op.stage \in {"read", "write"} /\ Fault
    /\ \/ UNCHANGED <<file, taken>>
       \/ op.stage = "write" /\ disk = known /\ Written("valid") /\ taken' = taken \cup {versions'}
    /\ op' = None
    /\ UNCHANGED <<aside, memory, ops>>

(* The process ends; the next one knows nothing.                           *)
Crash ==
    /\ Fault
    /\ op' = None /\ known' = Unknown /\ evidence' = None /\ blocked' = FALSE
    /\ taken' = {}
    /\ UNCHANGED <<file, aside, ops>>

Runs ==
    \/ ReadAbsent \/ AcceptReadable \/ AcceptNewer \/ AcceptCorrupt
    \/ MoveAside \/ Preserve \/ Write \/ WriteConflicts

Next ==
    \/ External \/ Load \/ Save
    \/ Runs
    \/ MoveAsideFails \/ PreserveFails \/ Fails \/ Crash

Spec == Init /\ [][Next]_vars

(* Storage answers.                                                        *)
LiveSpec == Spec /\ WF_vars(Runs)

-----------------------------------------------------------------------------

Versions == 1..versions

TypeOK ==
    /\ versions \in Nat /\ kind \in [Versions -> Kinds]
    /\ disk \in Versions \cup {None} /\ aside \subseteq Versions /\ taken \subseteq Versions
    /\ known \in Versions \cup {None, Unknown} /\ evidence \in Versions \cup {None}
    /\ blocked \in BOOLEAN
    /\ op \in Operations \cup {None}

(* The owner's write, as the step that puts a content of its own on disk.  *)
Replaces == Write /\ disk # None

(* A save never replaces what the owner was not given.                     *)
ReplacesWhatItTook == [][Replaces => disk \in taken]_vars

(* A partly invalid file is copied aside before it is replaced: repairing  *)
(* it destroys no evidence.                                                *)
EvidenceSurvives == [][Replaces /\ kind[disk] = "partly" => disk \in aside]_vars

(* An unreadable file leaves the disk by someone else's hand, or goes aside*)
UnreadableSurvives ==
    [][disk # None /\ kind[disk] = "corrupt" /\ disk' # disk => External \/ disk \in aside']_vars

(* A newer app's file is "left untouched and never written".               *)
NewerIsUntouched ==
    [][disk # None /\ kind[disk] = "newer" /\ disk' # disk => External]_vars

(* Nor is one the owner could read put away unread.                        *)
ReadableIsTaken ==
    [][disk # None /\ kind[disk] \in {"valid", "partly"} /\ disk' # disk
        => External \/ disk \in taken]_vars

(* Every load and save ends.                                               *)
OpsEnd == op # None ~> op = None
=============================================================================
