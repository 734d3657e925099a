------------------------------ MODULE SyncEngine ------------------------------
(***************************************************************************)
(* The user's notes on several devices and on the sync service: each       *)
(* device's SyncEngine (packages/storage/src/sync/engine.ts, decide.ts,    *)
(* snapshot.ts, conflict-path.ts) against the service's files              *)
(* (apps/sync/src/store.ts), while users edit and delete, requests and     *)
(* answers get lost, daemons die, and a side lists as empty because its    *)
(* drive isn't mounted.                                                    *)
(*                                                                         *)
(* A note's content is the set of edits in it; {} is no file.  An edit     *)
(* adds something nobody else could have written.  A vault's version of a  *)
(* file is its content (a hash); the service's is a revision that every    *)
(* change of the file takes anew, deletions and new files included.        *)
(*                                                                         *)
(* What a run does to a path reads one side and then writes the other      *)
(* under a precondition.  A step in between by someone else either makes   *)
(* the precondition fail or might as well have come before the read or     *)
(* after the write, so one action does both.  Where a path takes two       *)
(* writes they are two actions.                                            *)
(***************************************************************************)
EXTENDS Naturals, FiniteSets

CONSTANTS
    Device,
    Note,         \* paths the users write to
    Copy,         \* names conflict copies can get
    CopyNames,    \* the names conflictCopyPath can give to a copy of each path
    Mergeable,    \* TRUE: text, merged line by line; FALSE: other formats
    MaxEdit,      \* bound: edits
    MaxDelete,    \* bound: files that users delete
    MaxFault,     \* bound: lost requests and answers, failed writes, unmounted drives
    MaxCrash      \* bound: daemons that die

Path == Note \cup Copy

ASSUME SyncAssumption ==
    /\ MaxEdit \in Nat /\ MaxDelete \in Nat /\ MaxFault \in Nat /\ MaxCrash \in Nat
    /\ Note # {} /\ CopyNames \in [Path -> SUBSET Copy] /\ Mergeable \in BOOLEAN

VARIABLES
    vault,      \* each device's files
    server,     \* the service's files and their revisions
    base,       \* snapshot.entries: the versions on both sides when last in sync
    conflicts,  \* snapshot.conflicts: the conflict copies the status lists
    saved,      \* the snapshot on the device's disk
    run,        \* the run under way on each device
    edits,      \* edits so far
    dropped,    \* edits in files that a user deleted
    removed,    \* the paths users deleted
    deletes, faults, crashes

snapshot == <<base, conflicts, saved>>
users == <<edits, dropped, removed, deletes>>
syncVars == <<vault, server, snapshot, run, users, faults, crashes>>

Content == SUBSET (1 .. MaxEdit)
Absent == {}

\* Versions: of the vault's copy its content, of the service's its revision.
File == [content : Content, rev : Nat]
Rev(file) == IF file.content = Absent THEN 0 ELSE file.rev

Entry == [p : Content, t : Nat]
NoEntry == [p |-> Absent, t |-> 0]

Listing == [ours : [Path -> Content], theirs : [Path -> Nat]]
NoFiles == [ours |-> [p \in Path |-> Absent], theirs |-> [p \in Path |-> 0]]

\* A run: where it is, the paths still to do, what it listed, the names it gave
\* to copies, the copies it reports; and for a path that takes several writes
\* what was read of both sides, which side keeps the name, and the copy's name.
Run == [step     : {"idle", "paths", "merged", "copied", "resolving"},
        todo     : SUBSET Path,
        listed   : Listing,
        taken    : SUBSET Copy,
        reported : SUBSET Copy,
        path     : Path,
        ours     : Content,
        theirs   : File,
        keep     : {"ours", "theirs"},
        copy     : Path]

NoRun == [step |-> "idle", todo |-> {}, listed |-> NoFiles, taken |-> {}, reported |-> {},
          path |-> CHOOSE p \in Note : TRUE, ours |-> Absent,
          theirs |-> [content |-> Absent, rev |-> 0],
          keep |-> "ours", copy |-> CHOOSE p \in Note : TRUE]

SyncTypeOK ==
    /\ vault \in [Device -> [Path -> Content]]
    /\ server \in [Path -> File]
    /\ base \in [Device -> [Path -> Entry]]
    /\ conflicts \in [Device -> SUBSET Copy]
    /\ saved \in [Device -> [base : [Path -> Entry], conflicts : SUBSET Copy]]
    /\ run \in [Device -> Run]
    /\ edits \in 0 .. MaxEdit /\ dropped \in Content /\ removed \in SUBSET Path
    /\ deletes \in 0 .. MaxDelete /\ faults \in 0 .. MaxFault /\ crashes \in 0 .. MaxCrash
    /\ \A d \in Device, p \in Path : base[d][p].p = Absent <=> base[d][p].t = 0

SyncInit ==
    /\ vault = [d \in Device |-> [p \in Path |-> Absent]]
    /\ server = [p \in Path |-> [content |-> Absent, rev |-> 0]]
    /\ base = [d \in Device |-> [p \in Path |-> NoEntry]]
    /\ conflicts = [d \in Device |-> {}]
    /\ saved = [d \in Device |-> [base |-> [p \in Path |-> NoEntry], conflicts |-> {}]]
    /\ run = [d \in Device |-> NoRun]
    /\ edits = 0 /\ dropped = {} /\ removed = {}
    /\ deletes = 0 /\ faults = 0 /\ crashes = 0

-----------------------------------------------------------------------------
(* What the users do, and what may go wrong.                               *)

Edit(d, p) ==
    /\ p \in Note /\ edits < MaxEdit
    /\ edits' = edits + 1
    /\ vault' = [vault EXCEPT ![d][p] = @ \cup {edits + 1}]
    /\ UNCHANGED <<server, snapshot, run, dropped, removed, deletes, faults, crashes>>

Delete(d, p) ==
    /\ vault[d][p] # Absent /\ deletes < MaxDelete
    /\ deletes' = deletes + 1
    /\ dropped' = dropped \cup vault[d][p]
    /\ removed' = removed \cup {p}
    /\ vault' = [vault EXCEPT ![d][p] = Absent]
    /\ UNCHANGED <<server, snapshot, run, edits, faults, crashes>>

Fault == faults < MaxFault /\ faults' = faults + 1

Crash(d) ==
    /\ crashes < MaxCrash /\ crashes' = crashes + 1
    /\ run[d].step # "idle" \/ saved[d] # [base |-> base[d], conflicts |-> conflicts[d]]
    /\ base' = [base EXCEPT ![d] = saved[d].base]
    /\ conflicts' = [conflicts EXCEPT ![d] = saved[d].conflicts]
    /\ run' = [run EXCEPT ![d] = NoRun]
    /\ UNCHANGED <<vault, server, saved, users, faults>>

-----------------------------------------------------------------------------
(* A run: reconcileAll.                                                    *)

\* Slip: deletes what a device has no record of having seen.
DecisionWithoutBase(entry, ours, theirs) ==
    IF ours = Absent /\ theirs # 0 /\ entry = NoEntry THEN "delete-target"
    ELSE IF ours = entry.p /\ theirs = entry.t THEN "skip"
    ELSE IF ours # Absent /\ theirs # 0 THEN "reconcile"
    ELSE IF ours # Absent THEN "push"
    ELSE IF theirs # 0 THEN "pull" ELSE "forget"

\* decideSync.  No entry is the version both sides have of a missing file.
Decision(entry, ours, theirs) ==
    CASE ours = entry.p /\ theirs = entry.t -> "skip"
      [] ours # entry.p /\ theirs = entry.t -> IF ours # Absent THEN "push" ELSE "delete-target"
      [] ours = entry.p /\ theirs # entry.t -> IF theirs # 0 THEN "pull" ELSE "delete-primary"
      [] OTHER -> IF ours # Absent /\ theirs # 0 THEN "reconcile"
                  ELSE IF ours # Absent THEN "push"
                  ELSE IF theirs # 0 THEN "pull" ELSE "forget"

\* Slip: a device that has nothing yet is refused too.
RefusesEmptySide(entries, listed) ==
    \/ \A p \in Path : listed.theirs[p] = 0
    \/ \A p \in Path : listed.ours[p] = Absent

\* refuseMassDeletion: an empty side may not delete what the other has unchanged.
RefusesMassDeletion(entries, listed) ==
    LET Known(p) == entries[p] # NoEntry
    IN  \/ /\ \A p \in Path : listed.theirs[p] = 0
           /\ \E p \in Path : Known(p) /\ listed.ours[p] = entries[p].p
        \/ /\ \A p \in Path : listed.ours[p] = Absent
           /\ \E p \in Path : Known(p) /\ listed.theirs[p] = entries[p].t

Start(d, listed) ==
    IF RefusesMassDeletion(base[d], listed) THEN UNCHANGED run
    ELSE run' = [run EXCEPT ![d] = [NoRun EXCEPT
             !.step = "paths", !.listed = listed,
             !.todo = {p \in Path : Decision(base[d][p], listed.ours[p], listed.theirs[p]) # "skip"}]]

BeginRun(d) ==
    /\ run[d].step = "idle"
    /\ Start(d, [ours |-> vault[d], theirs |-> [p \in Path |-> Rev(server[p])]])
    /\ UNCHANGED <<vault, server, snapshot, users, faults, crashes>>

\* A side whose drive isn't mounted, or whose folder was wiped, lists as empty.
BeginUnmounted(d) ==
    /\ run[d].step = "idle"
    /\ Fault
    /\ \/ Start(d, [ours |-> vault[d], theirs |-> NoFiles.theirs])
       \/ Start(d, [ours |-> NoFiles.ours, theirs |-> [p \in Path |-> Rev(server[p])]])
    /\ UNCHANGED <<vault, server, snapshot, users, crashes>>

\* The conflict copies that are gone from the vault leave the list; then the
\* snapshot is saved, or can't be (and stays in memory for the next run).
Finish(d) ==
    LET there == {c \in Copy : run[d].listed.ours[c] # Absent}
    IN  /\ run[d].step = "paths" /\ run[d].todo = {}
        /\ conflicts' = [conflicts EXCEPT ![d] = @ \cap (there \cup run[d].reported)]
        /\ \/ /\ saved' = [saved EXCEPT ![d] = [base |-> base[d], conflicts |-> conflicts'[d]]]
              /\ UNCHANGED faults
           \/ Fault /\ UNCHANGED saved
        /\ run' = [run EXCEPT ![d] = NoRun]
        /\ UNCHANGED <<vault, server, base, users, crashes>>

-----------------------------------------------------------------------------
(* One path: syncPath.                                                     *)

\* The path is done, or put off to the next run: what the listing said of it
\* counts no more.
Done(d, p, reported) ==
    run' = [run EXCEPT ![d] = [NoRun EXCEPT
        !.step = "paths", !.todo = run[d].todo \ {p}, !.listed = run[d].listed,
        !.taken = run[d].taken, !.reported = run[d].reported \cup reported]]

Decides(d, p, action) ==
    /\ run[d].step = "paths" /\ p \in run[d].todo
    /\ Decision(base[d][p], run[d].listed.ours[p], run[d].listed.theirs[p]) = action

Record(d, p, ours, theirs) == base' = [base EXCEPT ![d][p] = [p |-> ours, t |-> theirs]]

Forget(d, p) == base' = [base EXCEPT ![d][p] = NoEntry]

WriteVault(d, p, content) == vault' = [vault EXCEPT ![d][p] = content]

\* The service: identical content keeps its revision.
Written(file, content) ==
    IF file.content = content THEN file ELSE [content |-> content, rev |-> file.rev + 1]
WriteServer(p, content) == server' = [server EXCEPT ![p] = Written(@, content)]

\* Whatever the path waits for fails, its request included.
PathFails(d, p) ==
    /\ run[d].step = "paths" /\ p \in run[d].todo
    /\ Fault
    /\ Done(d, p, {})
    /\ UNCHANGED <<vault, server, snapshot, users, crashes>>

ForgetPath(d, p) ==
    /\ Decides(d, p, "forget")
    /\ Forget(d, p)
    /\ Done(d, p, {})
    /\ UNCHANGED <<vault, server, conflicts, saved, users, faults, crashes>>

\* A copy that another device made is this user's to review too.
Pull(d, p) ==
    LET listed == run[d].listed.ours[p]
        adopted == IF listed = Absent THEN {p} \cap Copy ELSE {}
    IN  /\ Decides(d, p, "pull")
        /\ IF server[p].content # Absent /\ vault[d][p] = listed
           THEN /\ WriteVault(d, p, server[p].content)
                /\ Record(d, p, server[p].content, server[p].rev)
                /\ conflicts' = [conflicts EXCEPT ![d] = @ \cup adopted]
                /\ Done(d, p, {p} \cap Copy)
           ELSE /\ Done(d, p, {})
                /\ UNCHANGED <<vault, base, conflicts>>
        /\ UNCHANGED <<server, saved, users, faults, crashes>>

DeletePrimary(d, p) ==
    /\ Decides(d, p, "delete-primary")
    /\ IF vault[d][p] = run[d].listed.ours[p]
       THEN WriteVault(d, p, Absent) /\ Forget(d, p)
       ELSE UNCHANGED <<vault, base>>
    /\ Done(d, p, {})
    /\ UNCHANGED <<server, conflicts, saved, users, faults, crashes>>

\* A write the service accepts, whose answer comes back, or is lost with what
\* the device would have recorded.
Heard(record) ==
    \/ record /\ UNCHANGED faults
    \/ Fault /\ UNCHANGED base

DeleteTarget(d, p) ==
    /\ Decides(d, p, "delete-target")
    /\ IF Rev(server[p]) = run[d].listed.theirs[p]
       THEN /\ server' = [server EXCEPT ![p] = [content |-> Absent, rev |-> @.rev + 1]]
            /\ Heard(Forget(d, p))
       ELSE UNCHANGED <<server, base, faults>>
    /\ Done(d, p, {})
    /\ UNCHANGED <<vault, conflicts, saved, users, crashes>>

\* If-Match, or that the file doesn't exist.
Precondition(p, rev) == Rev(server[p]) = rev

Push(d, p) ==
    /\ Decides(d, p, "push")
    /\ IF vault[d][p] # Absent /\ Precondition(p, run[d].listed.theirs[p])
       THEN /\ WriteServer(p, vault[d][p])
            /\ Heard(Record(d, p, vault[d][p], server'[p].rev))
       ELSE UNCHANGED <<server, base, faults>>
    /\ Done(d, p, {})
    /\ UNCHANGED <<vault, conflicts, saved, users, crashes>>

-----------------------------------------------------------------------------
(* A path that changed on both sides: reconcile, resolveConflict.          *)

\* Both are read; if either is gone the path waits for the next run.
ReconcileNothing(d, p) ==
    /\ Decides(d, p, "reconcile")
    /\ vault[d][p] = Absent \/ server[p].content = Absent \/ vault[d][p] = server[p].content
    /\ IF vault[d][p] = server[p].content /\ vault[d][p] # Absent
       THEN Record(d, p, vault[d][p], server[p].rev)
       ELSE UNCHANGED base
    /\ Done(d, p, {})
    /\ UNCHANGED <<vault, server, conflicts, saved, users, faults, crashes>>

BothChanged(d, p) ==
    /\ Decides(d, p, "reconcile")
    /\ vault[d][p] # Absent /\ server[p].content # Absent /\ vault[d][p] # server[p].content

\* What is read of both sides is kept for the writes to come.
Hold(d, p, step) == [run[d] EXCEPT !.step = step, !.path = p,
                                   !.ours = vault[d][p], !.theirs = server[p]]

\* mergeText3 found no overlap: the vault gets both sides' edits first ...
Merge(d, p) ==
    /\ BothChanged(d, p)
    /\ Mergeable /\ base[d][p] # NoEntry
    /\ WriteVault(d, p, vault[d][p] \cup server[p].content)
    /\ run' = [run EXCEPT ![d] = [Hold(d, p, "merged") EXCEPT !.ours = vault'[d][p]]]
    /\ UNCHANGED <<server, snapshot, users, faults, crashes>>

\* ... then the service, unless it has them all.
PushMerged(d) ==
    LET p == run[d].path
        merged == run[d].ours
        theirs == run[d].theirs
    IN  /\ run[d].step = "merged"
        /\ \/ /\ merged = theirs.content
              /\ Record(d, p, merged, theirs.rev)
              /\ UNCHANGED <<server, faults>>
           \/ /\ merged # theirs.content /\ Precondition(p, theirs.rev)
              /\ WriteServer(p, merged)
              /\ Heard(Record(d, p, merged, server'[p].rev))
           \/ /\ merged # theirs.content /\ ~ Precondition(p, theirs.rev)
              /\ UNCHANGED <<server, base, faults>>
        /\ Done(d, p, {})
        /\ UNCHANGED <<vault, conflicts, saved, users, crashes>>

\* Which side keeps the name: the vault's text, the newer one of other formats.
Keeps == IF Mergeable THEN {"ours"} ELSE {"ours", "theirs"}

CopyOf(keep, ours, theirs) == IF keep = "ours" THEN theirs ELSE ours

\* A name the listings or this run know of is taken; so is one that turned up
\* in the vault since.
Free(d, c) ==
    /\ run[d].listed.ours[c] = Absent /\ run[d].listed.theirs[c] = 0
    /\ c \notin run[d].taken
    /\ vault[d][c] = Absent

\* Lines overlap, or there is no base to merge from: the side that loses the
\* name is copied, in the vault ...
CopyInVault(d, p) ==
    /\ BothChanged(d, p)
    /\ \E c \in CopyNames[p], keep \in Keeps :
          /\ Free(d, c)
          /\ WriteVault(d, c, CopyOf(keep, vault[d][p], server[p].content))
          /\ conflicts' = [conflicts EXCEPT ![d] = @ \cup {c}]
          /\ run' = [run EXCEPT ![d] = [Hold(d, p, "copied") EXCEPT
                         !.taken = @ \cup {c}, !.keep = keep, !.copy = c]]
    /\ UNCHANGED <<server, base, saved, users, faults, crashes>>

NoFreeName(d, p) ==
    /\ BothChanged(d, p)
    /\ \A c \in CopyNames[p] : ~ Free(d, c)
    /\ Done(d, p, {})
    /\ UNCHANGED <<vault, server, snapshot, users, faults, crashes>>

\* ... and on the service, if nobody has that name there; if that fails, the
\* next run sees to it.
CopyOnServer(d) ==
    LET c == run[d].copy
        content == CopyOf(run[d].keep, run[d].ours, run[d].theirs.content)
    IN  /\ run[d].step = "copied"
        /\ IF Precondition(c, 0)
           THEN WriteServer(c, content) /\ Heard(Record(d, c, content, server'[c].rev))
           ELSE UNCHANGED <<server, base, faults>>
        /\ run' = [run EXCEPT ![d].step = "resolving"]
        /\ UNCHANGED <<vault, conflicts, saved, users, crashes>>

CopyOnServerFails(d) ==
    /\ run[d].step = "copied"
    /\ Fault
    /\ run' = [run EXCEPT ![d].step = "resolving"]
    /\ UNCHANGED <<vault, server, snapshot, users, crashes>>

\* The side that keeps the name replaces the other.
ResolveOurs(d) ==
    LET p == run[d].path
    IN  /\ run[d].step = "resolving" /\ run[d].keep = "ours"
        /\ \/ /\ Precondition(p, run[d].theirs.rev)
              /\ WriteServer(p, run[d].ours)
              /\ \/ /\ Record(d, p, run[d].ours, server'[p].rev)
                    /\ Done(d, p, {run[d].copy})
                    /\ UNCHANGED faults
                 \/ Fault /\ Done(d, p, {}) /\ UNCHANGED base
           \/ /\ ~ Precondition(p, run[d].theirs.rev)
              /\ Done(d, p, {})
              /\ UNCHANGED <<server, base, faults>>
        /\ UNCHANGED <<vault, conflicts, saved, users, crashes>>

ResolveTheirs(d) ==
    LET p == run[d].path
        theirs == run[d].theirs
    IN  /\ run[d].step = "resolving" /\ run[d].keep = "theirs"
        /\ IF vault[d][p] = run[d].ours
           THEN /\ WriteVault(d, p, theirs.content)
                /\ Record(d, p, theirs.content, theirs.rev)
                /\ Done(d, p, {run[d].copy})
           ELSE UNCHANGED <<vault, base>> /\ Done(d, p, {})
        /\ UNCHANGED <<server, conflicts, saved, users, faults, crashes>>

\* The last write of a merge or a resolution fails.
LastWriteFails(d) ==
    /\ run[d].step \in {"merged", "resolving"}
    /\ Fault
    /\ Done(d, run[d].path, {})
    /\ UNCHANGED <<vault, server, snapshot, users, crashes>>

-----------------------------------------------------------------------------
SyncPath(d, p) ==
    \/ ForgetPath(d, p) \/ Pull(d, p) \/ Push(d, p)
    \/ DeletePrimary(d, p) \/ DeleteTarget(d, p)
    \/ ReconcileNothing(d, p) \/ Merge(d, p) \/ CopyInVault(d, p) \/ NoFreeName(d, p)

Engine(d) ==
    \/ BeginRun(d) \/ Finish(d) \/ PushMerged(d) \/ CopyOnServer(d) \/ ResolveOurs(d)
    \/ ResolveTheirs(d)
    \/ \E p \in Path : SyncPath(d, p)

SyncNext ==
    \E d \in Device :
        \/ Engine(d)
        \/ BeginUnmounted(d) \/ CopyOnServerFails(d) \/ LastWriteFails(d) \/ Crash(d)
        \/ \E p \in Path : Edit(d, p) \/ Delete(d, p) \/ PathFails(d, p)

SyncSpec == SyncInit /\ [][SyncNext]_syncVars

\* Every run goes on, and another follows: the interval timer.
FairSyncSpec == SyncSpec /\ \A d \in Device : WF_syncVars(Engine(d))

-----------------------------------------------------------------------------
(* Properties.                                                             *)

OnServer == UNION {server[p].content : p \in Path}
InVault(d) == UNION {vault[d][p] : p \in Path}

\* No edit is lost, whatever races, fails or crashes: it is in the service's
\* files or in some vault's, unless a user deleted a file that had it.
NoLostEdit ==
    \A e \in 1 .. edits :
        e \in dropped \/ e \in OnServer \/ \E d \in Device : e \in InVault(d)

\* Nothing is deleted that wasn't deleted: a file leaves a vault or the service
\* only if a user deleted it somewhere, and the service's only if all that is in
\* it was deleted, or is elsewhere on the service (an edit outlives a deletion
\* by someone who hadn't seen it).
DeletedByUsers ==
    \A p \in Path :
        /\ server[p].content # Absent /\ server'[p].content = Absent
              => p \in removed' /\ server[p].content \subseteq dropped' \cup OnServer'
        /\ \A d \in Device : vault[d][p] # Absent /\ vault'[d][p] = Absent
              => p \in removed'
OnlyUsersDelete == [][DeletedByUsers]_syncVars

\* All promises of the engine together.
NothingIsLostInSync ==
    /\ []SyncTypeOK
    /\ []NoLostEdit
    /\ OnlyUsersDelete

\* When users leave their notes alone, all vaults come to hold the service's
\* files, and stay that way: conflict copies end.
Converges ==
    <>[](\A d \in Device, p \in Path : vault[d][p] = server[p].content)
=============================================================================
