------------------------------ MODULE LocalFs ------------------------------
(***************************************************************************)
(* The vault on disk as the program sees it: its own conditional writes,   *)
(* deletions and renames under a lock per path, the file watcher that      *)
(* learns of everyone else's changes, and the listing kept between them.   *)
(*                                                                         *)
(* A content is a number; 0 is an absent file (for known, a path never     *)
(* reported, or reported deleted). An outsider may put an earlier content  *)
(* back. The lock is KeyedMutex's; who gets it next is left open.          *)
(***************************************************************************)
EXTENDS Naturals, FiniteSets, TLC

CONSTANTS
    Paths,
    Clients,        \* callers of the provider, one operation each
    MaxOutside,     \* bound on outsiders' changes
    MaxFailures,    \* bound on the watch failing or missing a name
    MaxLists,       \* bound on the vault being listed
    LateStart,      \* outsiders may write between a subscription and the watch
    Reverts,        \* outsiders may restore what was last reported
    OutsidersRace,  \* and change a file while someone works on it with its lock
    None

VARIABLES
    disk,      \* [Paths -> content]
    versions,  \* contents written so far
    outside,   \* outside[p]: what outsiders made of p since the program last changed it
    ops,       \* [Clients -> operation]
    lock,      \* [Paths -> holder]: a client, "settle", "confirm" or None
    probe,     \* [Paths -> what the settle or confirmation under way saw]
    stage,     \* tracking: "off", "starting", "priming", "primed"
    scan,      \* the baseline scan: what it has read so far
    touched,   \* touchedWhilePriming
    known,     \* [Paths -> content]: what was last reported
    watching,  \* the watch is open
    heard,     \* paths the operating system has an event for
    timers,    \* paths whose debounce runs
    wanted,    \* paths with a settle waiting for the lock
    graces,    \* paths whose delete timer runs
    confirms,  \* paths with a confirmation waiting for the lock
    asked,     \* a rescan is due
    rescan,    \* None, or what the rescan under way has read
    cache,     \* visibleFiles: None, or what its listing has read so far
    changes, failures, lists, \* counts towards the bounds
    event      \* what the last step reported: None or [path, content, self]

files == <<disk, versions, outside>>
baseline == <<stage, scan, touched>>
tasks == <<timers, wanted, graces, confirms, asked, rescan>>
counts == <<changes, failures, lists>>
vars == <<files, ops, lock, probe, baseline, known, watching, heard, tasks, cache, counts, event>>

Idle == [kind |-> "none", stage |-> "idle"]

Init ==
    /\ disk \in [Paths -> {0, 1}] /\ versions = 1
    /\ outside = [p \in Paths |-> {}]
    /\ ops = [c \in Clients |-> Idle]
    /\ lock = [p \in Paths |-> None] /\ probe = [p \in Paths |-> 0]
    /\ stage = "off" /\ scan = <<>> /\ touched = {}
    /\ known = [p \in Paths |-> 0]
    /\ watching = FALSE /\ heard = {}
    /\ timers = {} /\ wanted = {} /\ graces = {} /\ confirms = {} /\ asked = FALSE /\ rescan = None
    /\ cache = None
    /\ changes = 0 /\ failures = 0 /\ lists = 0
    /\ event = None

Emit(p, content, self) ==
    /\ event' = [path |-> p, content |-> content, self |-> self]
    /\ cache' = None

Silent == event' = None /\ UNCHANGED cache

(* The operating system tells an open watch of a change.                   *)
Hear(ps) == heard' = IF watching THEN heard \cup ps ELSE heard

-----------------------------------------------------------------------------
(* Everyone else.                                                          *)

Outside(p) ==
    /\ changes < MaxOutside /\ changes' = changes + 1
    /\ (stage = "starting" \/ (stage = "off" /\ lock[p] \in Clients)) => LateStart
    /\ lock[p] # None => OutsidersRace
    /\ \E new \in 0..(versions + 1) :
        /\ new # disk[p]
        /\ Reverts \/ new # known[p]
        /\ disk' = [disk EXCEPT ![p] = new]
        /\ versions' = IF new > versions THEN new ELSE versions
        /\ outside' = [outside EXCEPT ![p] = @ \cup {new}]
    /\ Hear({p})
    /\ Silent
    /\ UNCHANGED <<ops, lock, probe, baseline, known, watching, tasks, failures, lists>>

-----------------------------------------------------------------------------
(* The program's own operations.                                           *)

(* ifMatch of any content, of an absent file (0), or none at all.          *)
Ask(c) ==
    /\ ops[c].stage = "idle"
    /\ \E kind \in {"write", "delete", "rename"}, p, to \in Paths, match \in 0..versions \cup {None} :
        /\ kind = "rename" <=> p # to
        /\ kind = "rename" => match = None
        /\ ops' = [ops EXCEPT ![c] = [kind |-> kind, stage |-> "waiting", path |-> p, to |-> to,
                                      match |-> match, wrote |-> 0]]
    /\ Silent
    /\ UNCHANGED <<files, lock, probe, baseline, known, watching, heard, tasks, counts>>

PathsOf(op) == {op.path, op.to}

Matches(op) == op.match = None \/ disk[op.path] = op.match

Allowed(op) ==
    CASE op.kind = "write"  -> Matches(op)
      [] op.kind = "delete" -> disk[op.path] # 0 /\ Matches(op)
      [] op.kind = "rename" -> disk[op.path] # 0 /\ disk[op.to] = 0

(* With the lock: the preconditions, on a fresh read of the file.          *)
Check(c) ==
    /\ ops[c].stage = "waiting"
    /\ \A p \in PathsOf(ops[c]) : lock[p] = None
    /\ IF Allowed(ops[c])
       THEN /\ lock' = [p \in Paths |-> IF p \in PathsOf(ops[c]) THEN c ELSE lock[p]]
            /\ ops' = [ops EXCEPT ![c].stage = "checked"]
       ELSE /\ ops' = [ops EXCEPT ![c] = [Idle EXCEPT !.stage = "done"]]
            /\ UNCHANGED lock
    /\ Silent
    /\ UNCHANGED <<files, probe, baseline, known, watching, heard, tasks, counts>>

(* The file is replaced, removed or moved; unlink and rename may find it   *)
(* gone, and a rename replaces what outsiders put in its way.              *)
Change(c) ==
    LET op == ops[c] IN
    /\ op.stage = "checked"
    /\ IF op.kind # "write" /\ disk[op.path] = 0
       THEN /\ ops' = [ops EXCEPT ![c] = [Idle EXCEPT !.stage = "done"]]
            /\ lock' = [p \in Paths |-> IF lock[p] = c THEN None ELSE lock[p]]
            /\ UNCHANGED <<files, heard>>
       ELSE /\ \/ /\ op.kind = "write"
                  /\ versions' = versions + 1
                  /\ disk' = [disk EXCEPT ![op.path] = versions + 1]
               \/ /\ op.kind = "delete"
                  /\ disk' = [disk EXCEPT ![op.path] = 0] /\ UNCHANGED versions
               \/ /\ op.kind = "rename"
                  /\ disk' = [disk EXCEPT ![op.path] = 0, ![op.to] = disk[op.path]]
                  /\ UNCHANGED versions
            /\ outside' = [p \in Paths |-> IF p \in PathsOf(op) THEN {} ELSE outside[p]]
            /\ ops' = [ops EXCEPT ![c].stage = IF op.kind = "rename" THEN "moved" ELSE "changed",
                                  ![c].wrote = IF op.kind = "write" THEN versions + 1 ELSE 0]
            /\ Hear(PathsOf(op))
            /\ UNCHANGED lock
    /\ Silent
    /\ UNCHANGED <<probe, baseline, known, watching, tasks, counts>>

Tracked == stage # "off"

RecordSelf(p, content) ==
    IF Tracked
    THEN /\ known' = [known EXCEPT ![p] = content]
         /\ graces' = graces \ {p}
         /\ touched' = IF stage = "priming" THEN touched \cup {p} ELSE touched
    ELSE UNCHANGED <<known, graces, touched>>

Frees(c, ps) == lock' = [p \in Paths |-> IF lock[p] = c /\ p \in ps THEN None ELSE lock[p]]

(* A write or deletion is recorded and reported, and the lock given back.  *)
Record(c) ==
    /\ ops[c].stage = "changed"
    /\ RecordSelf(ops[c].path, ops[c].wrote)
    /\ Emit(ops[c].path, ops[c].wrote, TRUE)
    /\ ops' = [ops EXCEPT ![c] = [Idle EXCEPT !.stage = "done"]]
    /\ Frees(c, Paths)
    /\ UNCHANGED <<files, probe, stage, scan, watching, heard, timers, wanted, confirms, asked, rescan, counts>>

(* A rename reports what left, then looks at what arrived.                 *)
RecordSource(c) ==
    /\ ops[c].stage = "moved"
    /\ RecordSelf(ops[c].path, 0)
    /\ Emit(ops[c].path, 0, TRUE)
    /\ ops' = [ops EXCEPT ![c].stage = "arriving"]
    /\ UNCHANGED <<files, lock, probe, stage, scan, watching, heard, timers, wanted, confirms, asked, rescan, counts>>

RecordTarget(c) ==
    /\ ops[c].stage = "arriving"
    /\ IF disk[ops[c].to] = 0
       THEN Silent /\ UNCHANGED <<known, graces, touched>>
       ELSE /\ RecordSelf(ops[c].to, disk[ops[c].to])
            /\ Emit(ops[c].to, disk[ops[c].to], TRUE)
    /\ ops' = [ops EXCEPT ![c] = [Idle EXCEPT !.stage = "done"]]
    /\ Frees(c, Paths)
    /\ UNCHANGED <<files, probe, stage, scan, watching, heard, timers, wanted, confirms, asked, rescan, counts>>

-----------------------------------------------------------------------------
(* Watching.                                                               *)

Watch ==
    /\ stage = "off" /\ stage' = "starting"
    /\ Silent
    /\ UNCHANGED <<files, ops, lock, probe, scan, touched, known, watching, heard, tasks, counts>>

(* The watch is opened, then the baseline scan begins.                     *)
Open ==
    /\ stage = "starting" /\ stage' = "priming"
    /\ watching' = TRUE
    /\ Silent
    /\ UNCHANGED <<files, ops, lock, probe, scan, touched, known, heard, tasks, counts>>

Visit(p) ==
    /\ stage = "priming" /\ p \notin DOMAIN scan
    /\ scan' = scan @@ (p :> disk[p])
    /\ Silent
    /\ UNCHANGED <<files, ops, lock, probe, stage, touched, known, watching, heard, tasks, counts>>

(* What the program changed meanwhile, or recorded before, it knows better.*)
Primed ==
    /\ stage = "priming" /\ DOMAIN scan = Paths
    /\ known' = [p \in Paths |-> IF p \notin touched /\ known[p] = 0 THEN scan[p] ELSE known[p]]
    /\ stage' = "primed" /\ touched' = {} /\ scan' = <<>>
    /\ Silent
    /\ UNCHANGED <<files, ops, lock, probe, watching, heard, tasks, counts>>

(* An event of the watch starts a path's quiet period again.               *)
Notify(p) ==
    /\ p \in heard /\ heard' = heard \ {p}
    /\ timers' = timers \cup {p}
    /\ Silent
    /\ UNCHANGED <<files, ops, lock, probe, baseline, known, watching, wanted, graces, confirms, asked, rescan, counts>>

(* An event without a name: everything is to be compared, cache included.  *)
Nameless(p) ==
    /\ failures < MaxFailures /\ failures' = failures + 1
    /\ p \in heard /\ heard' = heard \ {p}
    /\ asked' = TRUE
    /\ cache' = None /\ event' = None
    /\ UNCHANGED <<files, ops, lock, probe, baseline, known, watching, timers, wanted, graces, confirms,
                   rescan, changes, lists>>

WatchFails ==
    /\ watching /\ failures < MaxFailures /\ failures' = failures + 1
    /\ watching' = FALSE /\ heard' = {}
    /\ Silent
    /\ UNCHANGED <<files, ops, lock, probe, baseline, known, tasks, changes, lists>>

(* Slip: a watch that is open again trusts what it knew.                   *)
ReopenTrusting ==
    /\ ~watching /\ stage \in {"priming", "primed"}
    /\ watching' = TRUE
    /\ Silent
    /\ UNCHANGED <<files, ops, lock, probe, baseline, known, heard, tasks, counts>>

Reopen ==
    /\ ~watching /\ stage \in {"priming", "primed"}
    /\ watching' = TRUE
    /\ asked' = TRUE
    /\ cache' = None /\ event' = None
    /\ UNCHANGED <<files, ops, lock, probe, baseline, known, heard, timers, wanted, graces, confirms,
                   rescan, counts>>

(* The quiet period is over: the path waits for the baseline and the lock. *)
Process(p) ==
    /\ p \in timers /\ timers' = timers \ {p}
    /\ wanted' = wanted \cup {p}
    /\ Silent
    /\ UNCHANGED <<files, ops, lock, probe, baseline, known, watching, heard, graces, confirms, asked, rescan, counts>>

Take(p, who) ==
    /\ stage = "primed" /\ lock[p] = None
    /\ lock' = [lock EXCEPT ![p] = who]
    /\ probe' = [probe EXCEPT ![p] = disk[p]]

SettleBegins(p) ==
    /\ p \in wanted /\ wanted' = wanted \ {p}
    /\ Take(p, "settle")
    /\ Silent
    /\ UNCHANGED <<files, ops, baseline, known, watching, heard, timers, graces, confirms, asked, rescan, counts>>

(* What is on disk is reported when it is not what was; a known file that  *)
(* is missing has a while to come back.                                    *)
Settle(p) ==
    /\ lock[p] = "settle"
    /\ \/ /\ probe[p] # 0
          /\ graces' = graces \ {p}
          /\ IF probe[p] # known[p]
             THEN known' = [known EXCEPT ![p] = probe[p]] /\ Emit(p, probe[p], FALSE)
             ELSE UNCHANGED known /\ Silent
       \/ /\ probe[p] = 0
          /\ graces' = IF known[p] # 0 THEN graces \cup {p} ELSE graces
          /\ Silent /\ UNCHANGED known
    /\ lock' = [lock EXCEPT ![p] = None]
    /\ UNCHANGED <<files, ops, probe, baseline, watching, heard, timers, wanted, confirms, asked, rescan, counts>>

GraceEnds(p) ==
    /\ p \in graces /\ graces' = graces \ {p}
    /\ confirms' = confirms \cup {p}
    /\ Silent
    /\ UNCHANGED <<files, ops, lock, probe, baseline, known, watching, heard, timers, wanted, asked, rescan, counts>>

ConfirmBegins(p) ==
    /\ p \in confirms /\ confirms' = confirms \ {p}
    /\ Take(p, "confirm")
    /\ Silent
    /\ UNCHANGED <<files, ops, baseline, known, watching, heard, timers, wanted, graces, asked, rescan, counts>>

Confirm(p) ==
    /\ lock[p] = "confirm"
    /\ IF known[p] # 0 /\ probe[p] # known[p]
       THEN known' = [known EXCEPT ![p] = probe[p]] /\ Emit(p, probe[p], FALSE)
       ELSE UNCHANGED known /\ Silent
    /\ lock' = [lock EXCEPT ![p] = None]
    /\ UNCHANGED <<files, ops, probe, baseline, watching, heard, tasks, counts>>

(* A rescan lists the vault, then settles what differs, path after path.   *)
RescanBegins ==
    /\ asked /\ asked' = FALSE
    /\ stage = "primed" /\ rescan = None
    /\ rescan' = <<>>
    /\ Silent
    /\ UNCHANGED <<files, ops, lock, probe, baseline, known, watching, heard, timers, wanted, graces,
                   confirms, counts>>

RescanVisits(p) ==
    /\ rescan # None /\ p \notin DOMAIN rescan
    /\ rescan' = rescan @@ (p :> disk[p])
    /\ Silent
    /\ UNCHANGED <<files, ops, lock, probe, baseline, known, watching, heard, timers, wanted, graces,
                   confirms, asked, counts>>

RescanSettles ==
    /\ rescan # None /\ DOMAIN rescan = Paths
    /\ wanted' = wanted \cup {p \in Paths : rescan[p] # known[p]}
    /\ rescan' = None
    /\ Silent
    /\ UNCHANGED <<files, ops, lock, probe, baseline, known, watching, heard, timers, graces, confirms,
                   asked, counts>>

-----------------------------------------------------------------------------
(* The listing kept while the watch is open.                               *)

List ==
    /\ lists < MaxLists /\ lists' = lists + 1
    /\ stage = "primed" /\ watching /\ cache = None
    /\ cache' = <<>> /\ event' = None
    /\ UNCHANGED <<files, ops, lock, probe, baseline, known, watching, heard, tasks, changes, failures>>

ListVisits(p) ==
    /\ cache # None /\ p \notin DOMAIN cache
    /\ cache' = cache @@ (p :> disk[p]) /\ event' = None
    /\ UNCHANGED <<files, ops, lock, probe, baseline, known, watching, heard, tasks, counts>>

-----------------------------------------------------------------------------

Own(c) == Ask(c) \/ Check(c) \/ Change(c) \/ Record(c) \/ RecordSource(c) \/ RecordTarget(c)

Finishing(c) == Check(c) \/ Change(c) \/ Record(c) \/ RecordSource(c) \/ RecordTarget(c)

Tracking(p) ==
    \/ Visit(p) \/ Notify(p) \/ Process(p) \/ SettleBegins(p) \/ Settle(p) \/ GraceEnds(p)
    \/ ConfirmBegins(p) \/ Confirm(p) \/ RescanVisits(p)

TrackingAll == Open \/ Primed \/ Reopen \/ RescanBegins \/ RescanSettles

Next ==
    \/ \E p \in Paths : Outside(p) \/ Nameless(p) \/ ListVisits(p)
    \/ \E c \in Clients : Own(c)
    \/ \E p \in Paths : Tracking(p)
    \/ Watch \/ WatchFails \/ List
    \/ TrackingAll

Spec == Init /\ [][Next]_vars

PathSteps(p) ==
    \/ Visit(p) \/ Notify(p) \/ Process(p) \/ Settle(p) \/ GraceEnds(p) \/ Confirm(p)
    \/ RescanVisits(p)

(* Timers fire, the operating system and the disk answer, a failed watch   *)
(* is opened again, whoever waits for a lock that is free again gets it.   *)
LiveSpec ==
    /\ Spec
    /\ \A c \in Clients : SF_vars(Finishing(c))
    /\ \A p \in Paths : /\ WF_vars(PathSteps(p))
                        /\ SF_vars(SettleBegins(p)) /\ SF_vars(ConfirmBegins(p))
    /\ WF_vars(TrackingAll)

-----------------------------------------------------------------------------

Contents == 0..(1 + MaxOutside + Cardinality(Clients))

TypeOK ==
    /\ disk \in [Paths -> Contents] /\ known \in [Paths -> Contents] /\ probe \in [Paths -> Contents]
    /\ versions \in Contents /\ outside \in [Paths -> SUBSET Contents]
    /\ lock \in [Paths -> Clients \cup {"settle", "confirm", None}]
    /\ stage \in {"off", "starting", "priming", "primed"} /\ watching \in BOOLEAN
    /\ DOMAIN scan \subseteq Paths /\ touched \subseteq Paths
    /\ heard \cup timers \cup wanted \cup graces \cup confirms \subseteq Paths
    /\ \A p \in Paths, c \in Clients :
        lock[p] = c => ops[c].stage \in {"checked", "changed", "moved", "arriving"} /\ p \in PathsOf(ops[c])

(* Nothing is under way that could still report a change.                  *)
Quiet ==
    /\ stage = "primed" /\ watching
    /\ heard = {} /\ timers = {} /\ wanted = {} /\ graces = {} /\ confirms = {} /\ ~asked /\ rescan = None
    /\ \A p \in Paths : lock[p] = None

(* No change is missed: when the watcher rests, what was reported last of  *)
(* every path is what is on disk.                                          *)
RestKnowsTheDisk == Quiet => known = disk

(* The echo of the program's own writes is dropped: only what an outsider  *)
(* did since is reported as an outsider's.                                 *)
EventIsNews == event' # None /\ ~event'.self => event'.content \in outside[event'.path]
EchoIsSilent == [][EventIsNews]_vars

(* A conditional write replaces, and a conditional deletion removes, the   *)
(* content it names; a rename replaces nothing.                            *)
ConditionsMet ==
    \A c \in Clients : ops[c].stage = "checked" /\ ops'[c].stage \in {"changed", "moved"} =>
        /\ ops[c].match # None => disk[ops[c].path] = ops[c].match
        /\ ops[c].kind = "rename" => disk[ops[c].to] = 0
ConditionHolds == [][ConditionsMet]_vars

(* "The watcher reports every change (each one drops this)": when it rests *)
(* the listing kept is the vault's.                                        *)
ListingIsCurrent == Quiet /\ cache # None /\ DOMAIN cache = Paths => cache = disk

(* And it comes to rest: every change is reported in the end.              *)
EveryChangeIsReported == stage = "starting" ~> Quiet /\ known = disk
=============================================================================
