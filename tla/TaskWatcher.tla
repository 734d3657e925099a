---------------------------- MODULE TaskWatcher ----------------------------
(***************************************************************************)
(* The task watcher's work on one daily note: reading it when storage or a *)
(* scan says so, keeping each task's identity, and telling the orchestrator*)
(* what changed once it has settled; the same for lines of prose that may  *)
(* be requests. A restart loads the tracked tasks and what was settled from*)
(* a file saved some time after each change.                               *)
(*                                                                         *)
(* A line of the model is a task as the user thinks of it: the tracker     *)
(* continues a task whose line it recognizes. Versions are contents.       *)
(***************************************************************************)
EXTENDS Naturals, FiniteSets

CONSTANTS
    Lines,       \* tasks, as the user sees them
    Values,      \* what a task's line may say: [text, closed, agent] records
    Blank,       \* the text of an empty task
    Requests,    \* lines of prose that may be requests
    ActOnExisting, \* settings.agent.actOnExistingTasks
    MaxIds,      \* bound on the ids the tracker gives out
    ScanRaces,   \* changes may be told, and the note deleted, before a scan that is due lists it
    MaxDeletes, MaxEdits, MaxStops, MaxCrashes, MaxMoves, MaxTyping, \* bounds on the environment
    None

VARIABLES
    note,     \* the file: None, or its tasks and its prose
    inWindow, \* the note's day is in the watch window
    typing,   \* the line the editor reports typing on, None if none lately
    notified, \* an event of storage: None, "changed", or "deleted" (and maybe changed since)
    mem,      \* the watcher's state of the note
    disk,     \* the saved state: None, or what loadState gets
    running, watched, scanDue,
    proc,     \* "idle", "load", "read", "ended" (the loop has, its callback has not)
    cause, rerun, \* why it is processed, and why again
    known,    \* what the orchestrator was told of each id (or told of as existing)
    asked,    \* how often each line of prose was handed to the orchestrator
    written,  \* how often each line of prose was written anew
    old,      \* tasks that were there before the note was first watched, untouched since
    deletes, edits, stops, crashes, moves, typed

counts == <<deletes, edits, stops, crashes, moves, typed>>
user == <<note, inWindow, typing>>
work == <<proc, cause, rerun>>
vars == <<user, notified, mem, disk, running, watched, scanDue, work, known, asked, written, old, counts>>

Ids == 1 .. MaxIds
NoTasks == [l \in Lines |-> None]
Empty == [tasks |-> NoTasks, prose |-> {}]

(* Of a note not seen yet.                                                 *)
StateFor ==
    [tasks |-> NoTasks, ghosts |-> {}, settled |-> [i \in Ids |-> None],
     pending |-> [i \in Ids |-> None], content |-> None, version |-> None,
     tracked |-> FALSE, loaded |-> FALSE, save |-> FALSE,
     asked |-> None, noticed |-> {}, timer |-> FALSE]

Tracks(m, i) == \E l \in Lines : m.tasks[l] # None /\ m.tasks[l].id = i
FindTask(m, i) == m.tasks[CHOOSE l \in Lines : m.tasks[l] # None /\ m.tasks[l].id = i]
LineOf(m, i) == CHOOSE l \in Lines : m.tasks[l] # None /\ m.tasks[l].id = i

UsedIds == {i \in Ids : Tracks(mem, i) \/ mem.settled[i] # None \/ known[i] # None
                        \/ \E g \in mem.ghosts : g.id = i
                        \/ (disk # None /\ (Tracks(disk, i) \/ disk.settled[i] # None))}
FreeIds == Ids \ UsedIds

Actionable(v) == v.text # Blank /\ ~v.closed /\ ~v.agent
Announced(v) == v.text # Blank /\ ~v.agent

-----------------------------------------------------------------------------

MarkPending(m, i, immediate) ==
    [m EXCEPT !.pending[i] = [immediate |-> IF @ = None THEN immediate ELSE @.immediate /\ immediate]]

MarkAll(m, touched, immediate) ==
    [m EXCEPT !.pending = [i \in Ids |-> IF i \in touched THEN MarkPending(m, i, immediate).pending[i]
                                         ELSE m.pending[i]]]

(* The tracker: a line continues the task it was, one removed but not      *)
(* settled included; a new one gets a fresh id.                            *)
Tracked(m, parsed, fresh) ==
    [l \in Lines |->
        IF parsed[l] = None THEN None
        ELSE [id |-> IF m.tasks[l] # None THEN m.tasks[l].id
                     ELSE IF \E g \in m.ghosts : g.line = l
                     THEN (CHOOSE g \in m.ghosts : g.line = l).id
                     ELSE fresh[l],
              val |-> parsed[l]]]

(* Ids for the lines the tracker does not recognize.                       *)
FreshIds(m, parsed) ==
    LET new == {l \in Lines : parsed[l] # None /\ m.tasks[l] = None
                              /\ ~\E g \in m.ghosts : g.line = l}
        order == CHOOSE f \in [Lines -> 1 .. Cardinality(Lines)] : \A a, b \in Lines : f[a] = f[b] => a = b
        rank(l) == Cardinality({k \in new : order[k] < order[l]})
        nth(n) == CHOOSE i \in FreeIds : Cardinality({j \in FreeIds : j < i}) = n
    IN [l \in Lines |-> IF l \in new THEN nth(rank(l)) ELSE None]

HasIds(m, parsed) ==
    Cardinality({l \in Lines : parsed[l] # None /\ m.tasks[l] = None
                               /\ ~\E g \in m.ghosts : g.line = l}) <= Cardinality(FreeIds)

(* The differences a parse counts: not the agent's marker on a task of the *)
(* user's, but the user's removing it.                                     *)
Touches(before, after) ==
    \/ before = None
    \/ before.val.text # after.val.text \/ before.val.closed # after.val.closed
    \/ before.val.agent /\ ~after.val.agent

(* What was added, changed, removed or came back waits to settle.          *)
ApplyParse(m, parsed, version, immediate) ==
    LET tasks == Tracked(m, parsed, FreshIds(m, parsed))
        touched == {l \in Lines : tasks[l] # None /\ Touches(m.tasks[l], tasks[l])}
        gone == {l \in Lines : tasks[l] = None /\ m.tasks[l] # None}
    IN [MarkAll([m EXCEPT !.tasks = tasks,
                          !.ghosts = {g \in @ : tasks[g.line] = None}
                             \cup {[id |-> m.tasks[l].id, val |-> m.tasks[l].val, line |-> l] : l \in gone},
                          !.version = version, !.tracked = TRUE],
                {tasks[l].id : l \in touched} \cup {m.tasks[l].id : l \in gone}, immediate)
        EXCEPT !.save = TRUE]

(* A note without state: what a scan finds was there already, unless the   *)
(* settings say to act on it; what a change brings is new.                 *)
FirstSight(m, file, c) ==
    LET tasks == Tracked(m, file.tasks, FreshIds(m, file.tasks))
        acts == {l \in Lines : tasks[l] # None /\ (c = "event" \/ ActOnExisting) /\ Actionable(tasks[l].val)}
        rest == {l \in Lines : tasks[l] # None} \ acts
        baseline == [i \in Ids |-> IF \E l \in rest : tasks[l].id = i
                                   THEN LET l == CHOOSE l \in rest : tasks[l].id = i
                                        IN [line |-> l, val |-> tasks[l].val, announced |-> Announced(tasks[l].val)]
                                   ELSE m.settled[i]]
    IN MarkAll([m EXCEPT !.tasks = tasks, !.version = file, !.tracked = TRUE, !.save = TRUE,
                         !.settled = baseline],
               {tasks[l].id : l \in acts}, c = "scan")

Differs(snapshot, v) ==
    IF ~snapshot.announced THEN Announced(v)
    ELSE snapshot.val.text # v.text \/ snapshot.val.closed # v.closed

(* Whatever differs from what was settled settles at once.                 *)
ReconcileUnsettled(m) ==
    LET changed == {i \in Ids : Tracks(m, i) /\ m.pending[i] = None
                                /\ (m.settled[i] = None \/ Differs(m.settled[i], FindTask(m, i).val))}
        gone == {i \in Ids : ~Tracks(m, i) /\ m.settled[i] # None /\ m.pending[i] = None}
        ghosts == {[id |-> i, val |-> m.settled[i].val, line |-> m.settled[i].line] :
                     i \in {j \in gone : \A g \in m.ghosts : g.id # j}}
    IN MarkAll([m EXCEPT !.ghosts = @ \cup ghosts], changed \cup gone, TRUE)

Notice(m, requests) == [m EXCEPT !.noticed = requests]

CancelProse(m) == Notice([m EXCEPT !.timer = FALSE], {})

(* The first read takes the prose as it is, unless the note was created    *)
(* while we watch; new lines are noticed and wait to settle.               *)
TrackProse(m, prose, created) ==
    IF m.asked = None /\ ~created THEN [m EXCEPT !.asked = prose]
    ELSE LET asked0 == IF m.asked = None THEN {} ELSE m.asked
             requests == prose \ asked0
         IN [Notice([m EXCEPT !.asked = asked0], requests)
               EXCEPT !.timer = IF requests = {} THEN @ ELSE TRUE]

-----------------------------------------------------------------------------

Init ==
    /\ note \in {None, Empty}
    /\ inWindow = TRUE /\ typing = None /\ notified = None
    /\ mem = StateFor /\ disk = None
    /\ running = FALSE /\ watched = FALSE /\ scanDue = FALSE
    /\ proc = "idle" /\ cause = None /\ rerun = None
    /\ known = [i \in Ids |-> None]
    /\ asked = [r \in Requests |-> 0] /\ written = [r \in Requests |-> 0]
    /\ old = {}
    /\ deletes = 0 /\ edits = 0 /\ stops = 0 /\ crashes = 0 /\ moves = 0 /\ typed = 0

Outside == UNCHANGED <<mem, disk, running, watched, scanDue, work, known, asked>>

(* Anyone writes the note: the user, Obsidian, a sync, the agent.          *)
Edited(next) ==
    /\ edits < MaxEdits /\ edits' = edits + 1
    /\ note' = next /\ note' # note
    /\ notified' = IF ~running THEN None ELSE IF next = None THEN "deleted"
                   ELSE IF notified = None THEN "changed" ELSE notified
    /\ UNCHANGED <<inWindow, typing, stops, crashes, moves, typed>> /\ Outside

Here == IF note = None THEN Empty ELSE note

EditTask(l) ==
    /\ \E v \in Values \cup {None} : Edited([Here EXCEPT !.tasks[l] = v])
    /\ old' = old \ {l}
    /\ UNCHANGED <<written, deletes>>

EditProse(r) ==
    /\ Edited([Here EXCEPT !.prose = IF r \in @ THEN @ \ {r} ELSE @ \cup {r}])
    /\ written' = IF r \in Here.prose THEN written ELSE [written EXCEPT ![r] = @ + 1]
    /\ UNCHANGED <<old, deletes>>

DeleteNote ==
    /\ note # None /\ deletes < MaxDeletes /\ deletes' = deletes + 1
    /\ scanDue => ScanRaces
    /\ Edited(None) /\ old' = {} /\ UNCHANGED written

(* The editor reports the cursor on a line; then nothing for a while.      *)
NoteEditorActivity(l) ==
    /\ typed < MaxTyping /\ typed' = typed + 1
    /\ typing # l /\ typing' = l
    /\ UNCHANGED <<note, inWindow, notified, written, old, deletes, edits, stops, crashes, moves>> /\ Outside

Pauses ==
    /\ typing # None /\ typing' = None
    /\ UNCHANGED <<note, inWindow, notified, written, old, counts>> /\ Outside

FirstSeen == IF mem.tracked \/ disk # None \/ note = None THEN old
             ELSE {l \in Lines : note.tasks[l] # None}

(* The day rolls over or the settings change, and the notes are scanned.   *)
WindowMoves ==
    /\ moves < MaxMoves /\ moves' = moves + 1
    /\ inWindow' = ~inWindow
    /\ scanDue' = running
    /\ old' = IF ~inWindow /\ running THEN FirstSeen ELSE old
    /\ UNCHANGED <<note, typing, notified, mem, disk, running, watched, work, known, asked,
                   written, deletes, edits, stops, crashes, typed>>

-----------------------------------------------------------------------------

(* Processing is asked for: now, or again once the one under way is done.  *)
Enqueue(c) ==
    IF proc = "idle"
    THEN /\ proc' = IF mem.loaded THEN "read" ELSE "load"
         /\ cause' = c /\ UNCHANGED rerun
    ELSE /\ rerun' = IF rerun = "scan" \/ c = "scan" THEN "scan" ELSE "event"
         /\ UNCHANGED <<proc, cause>>

Quietly == UNCHANGED <<user, written, old, counts>>

(* A version it has processed is skipped.                                  *)
OnStorageEvent ==
    /\ notified # None /\ notified' = None
    /\ running /\ (scanDue => ScanRaces)
    /\ IF ~inWindow THEN UNCHANGED <<watched, work>>
       ELSE /\ watched' = TRUE
            /\ IF proc = "idle" /\ notified # "deleted" /\ note = mem.version
               THEN UNCHANGED work ELSE Enqueue("event")
    /\ UNCHANGED <<mem, disk, running, scanDue, known, asked>> /\ Quietly

Unwatched(m) == CancelProse([m EXCEPT !.pending = [i \in Ids |-> None]])

(* A note the scan does not find is no longer watched.                     *)
Scan ==
    /\ scanDue /\ scanDue' = FALSE
    /\ running
    /\ IF inWindow /\ note # None
       THEN /\ watched' = TRUE /\ Enqueue("scan")
            /\ UNCHANGED mem
       ELSE /\ watched' = FALSE
            /\ mem' = IF watched THEN Unwatched(mem) ELSE mem
            /\ UNCHANGED work
    /\ UNCHANGED <<notified, disk, running, known, asked>> /\ Quietly

(* The saved state, if there is one.                                       *)
LoadState ==
    /\ proc = "load" /\ proc' = "read"
    /\ mem' = IF disk = None \/ mem.tracked THEN [mem EXCEPT !.loaded = TRUE]
              ELSE [mem EXCEPT !.loaded = TRUE, !.tracked = TRUE, !.tasks = disk.tasks,
                               !.version = disk.version, !.settled = disk.settled]
    /\ UNCHANGED <<notified, disk, running, watched, scanDue, cause, rerun, known, asked>> /\ Quietly

(* The orchestrator needn't hear of what was settled without an event.     *)
Baselined(m) ==
    [i \in Ids |-> IF mem.settled[i] = None /\ m.settled[i] # None /\ m.settled[i].announced
                   THEN [line |-> LineOf(m, i), val |-> m.settled[i].val] ELSE known[i]]

Looked(next) ==
    IF next # None /\ running
    THEN proc' = "read" /\ cause' = next /\ rerun' = None
    ELSE proc' = "ended" /\ UNCHANGED <<cause, rerun>>

ProcessFile(m) ==
    LET created == m.content = None /\ cause = "event"
        read == [m EXCEPT !.content = note]
        first == note # m.version /\ ~m.tracked
        parsed == IF note = m.version THEN read
                  ELSE IF first THEN FirstSight(read, note, cause)
                  ELSE ApplyParse(read, note.tasks, note, cause = "scan")
        prosed == TrackProse(parsed, note.prose, created)
    IN IF cause = "scan" /\ ~first THEN ReconcileUnsettled(prosed) ELSE prosed

ProcessGone(m) ==
    LET gone == [CancelProse([m EXCEPT !.content = None]) EXCEPT !.asked = None]
    IN IF \E l \in Lines : m.tasks[l] # None
       THEN ApplyParse(gone, NoTasks, None, cause = "scan") ELSE gone

(* The note is read and compared with what was tracked; then the loop looks*)
(* whether to go on.                                                       *)
Process ==
    /\ proc = "read"
    /\ IF running /\ note # None THEN HasIds(mem, note.tasks) ELSE TRUE
    /\ mem' = IF ~running THEN mem ELSE IF note = None THEN ProcessGone(mem) ELSE ProcessFile(mem)
    /\ known' = Baselined(mem')
    /\ asked' = IF mem.asked = None /\ mem'.asked # None /\ ~(mem.content = None /\ cause = "event")
                THEN [r \in Requests |-> IF r \in mem'.asked THEN written[r] ELSE asked[r]] ELSE asked
    /\ Looked(rerun)
    /\ UNCHANGED <<notified, disk, running, watched, scanDue>> /\ Quietly

(* Slip: an event that came after the last look is lost.                   *)
ProcessedDeaf ==
    /\ proc = "ended" /\ proc' = "idle"
    /\ rerun' = None /\ cause' = None
    /\ UNCHANGED <<notified, mem, disk, running, watched, scanDue, known, asked>> /\ Quietly

(* The loop's callback: an event that came after its last look starts it   *)
(* again.                                                                  *)
Processed ==
    /\ proc = "ended"
    /\ rerun' = None
    /\ IF rerun # None /\ running
       THEN proc' = (IF mem.loaded THEN "read" ELSE "load") /\ cause' = rerun
       ELSE proc' = "idle" /\ cause' = None
    /\ UNCHANGED <<notified, mem, disk, running, watched, scanDue, known, asked>> /\ Quietly

-----------------------------------------------------------------------------

TypedOn(i) == typing # None /\ mem.tasks[typing] # None /\ mem.tasks[typing].id = i

(* Not while the editor reports typing on the task's line, unless nobody   *)
(* was there when it changed.                                              *)
DueNow(i) == mem.pending[i] # None /\ (mem.pending[i].immediate \/ ~TypedOn(i))

Settled(m, i) ==
    [m EXCEPT !.pending[i] = None, !.save = TRUE,
              !.settled[i] = IF ~Tracks(m, i) THEN None
                             ELSE [line |-> LineOf(m, i), val |-> FindTask(m, i).val,
                                   announced |-> (@ # None /\ @.announced) \/ Announced(FindTask(m, i).val)],
              !.ghosts = {g \in @ : g.id # i}]

(* What the orchestrator knows of a task after its event, if there is one. *)
EventFor(m, i) ==
    LET told == m.settled[i] # None /\ m.settled[i].announced IN
    IF ~Tracks(m, i) THEN IF told THEN None ELSE known[i]
    ELSE LET v == FindTask(m, i).val IN
         IF v.text = Blank \/ (~told /\ (v.agent \/ v.closed)) THEN known[i]
         ELSE IF told /\ m.settled[i].val.text = v.text /\ m.settled[i].val.closed = v.closed THEN known[i]
         ELSE [line |-> LineOf(m, i), val |-> v]

(* A task that is due settles, with the others of the note that are.       *)
Settle(i) ==
    /\ running /\ DueNow(i)
    /\ \E due \in SUBSET {j \in Ids : DueNow(j)} :
         /\ i \in due
         /\ mem' = [mem EXCEPT
                !.settled = [j \in Ids |-> IF j \in due THEN Settled(mem, j).settled[j] ELSE @[j]],
                !.pending = [j \in Ids |-> IF j \in due THEN None ELSE @[j]],
                !.ghosts = {g \in @ : g.id \notin due \/ Tracks(mem, g.id)}, !.save = TRUE]
         /\ known' = [j \in Ids |-> IF j \in due THEN EventFor(mem, j) ELSE known[j]]
    /\ UNCHANGED <<notified, disk, running, watched, scanDue, work, asked>> /\ Quietly

(* The lines still there are handed over together.                         *)
SettleProse ==
    /\ running /\ mem.timer
    /\ LET prose == IF mem.content = None THEN {} ELSE mem.content.prose
           lines == prose \ (IF mem.asked = None THEN {} ELSE mem.asked)
       IN /\ mem' = [mem EXCEPT !.timer = FALSE, !.asked = prose, !.noticed = {}]
          /\ asked' = [r \in Requests |-> IF r \in lines THEN asked[r] + 1 ELSE asked[r]]
    /\ UNCHANGED <<notified, disk, running, watched, scanDue, work, known>> /\ Quietly

SaveState ==
    /\ mem.save
    /\ disk' = [tasks |-> mem.tasks, version |-> mem.version, settled |-> mem.settled]
    /\ mem' = [mem EXCEPT !.save = FALSE]
    /\ UNCHANGED <<notified, running, watched, scanDue, work, known, asked>> /\ Quietly

Start ==
    /\ ~running /\ proc = "idle" /\ ~mem.save
    /\ running' = TRUE /\ scanDue' = TRUE
    /\ old' = IF inWindow THEN FirstSeen ELSE old
    /\ UNCHANGED <<user, notified, mem, disk, watched, work, known, asked, written, counts>>

(* What has not settled stays a difference from what has.                  *)
Stop ==
    /\ running /\ stops < MaxStops /\ stops' = stops + 1
    /\ running' = FALSE /\ notified' = None /\ scanDue' = FALSE
    /\ mem' = Unwatched(mem)
    /\ UNCHANGED <<user, disk, watched, work, known, asked, written, old, deletes, edits, crashes, moves, typed>>

Gone ==
    /\ mem' = StateFor
    /\ running' = FALSE /\ notified' = None /\ scanDue' = FALSE /\ watched' = FALSE
    /\ proc' = "idle" /\ cause' = None /\ rerun' = None
    /\ UNCHANGED <<user, disk, known, asked, written, old, deletes, edits, stops, moves, typed>>

(* The process ends after a stop, or does without one.                     *)
Exit == ~running /\ proc = "idle" /\ ~mem.save /\ mem # StateFor /\ Gone /\ UNCHANGED crashes
Crash == crashes < MaxCrashes /\ crashes' = crashes + 1 /\ mem # StateFor /\ Gone

Watching ==
    \/ OnStorageEvent \/ Scan \/ LoadState \/ Process \/ Processed
    \/ SettleProse \/ SaveState \/ Start
    \/ \E i \in Ids : Settle(i)

Next ==
    \/ \E l \in Lines : EditTask(l) \/ NoteEditorActivity(l)
    \/ \E r \in Requests : EditProse(r)
    \/ DeleteNote \/ Pauses \/ WindowMoves
    \/ Watching \/ Stop \/ Exit \/ Crash

Spec == Init /\ [][Next]_vars

(* Timers go off, storage tells of changes, and typing pauses.             *)
LiveSpec == Spec /\ WF_vars(Watching) /\ WF_vars(Pauses)
                 /\ \A i \in Ids : WF_vars(Settle(i))

-----------------------------------------------------------------------------

TypeOK ==
    /\ \A i \in Ids : Tracks(mem, i) => \A l, k \in Lines :
         mem.tasks[l] # None /\ mem.tasks[k] # None /\ mem.tasks[l].id = mem.tasks[k].id => l = k
    /\ mem.noticed \subseteq Requests /\ mem.timer \in BOOLEAN
    /\ proc \in {"idle", "load", "read", "ended"}
    /\ rerun \in {None, "event", "scan"}
    /\ \A i \in Ids : mem.pending[i] # None => running

(* Nothing is under way or waiting.                                        *)
AtRest ==
    /\ running /\ inWindow /\ notified = None /\ ~scanDue /\ proc = "idle"
    /\ \A i \in Ids : mem.pending[i] = None
    /\ ~mem.timer

Theirs(v) == v # None /\ v.text # Blank /\ ~v.agent

InStep ==
    \A l \in Lines : Theirs(note.tasks[l]) /\ ~note.tasks[l].closed =>
         /\ mem.tasks[l] # None
         /\ LET told == known[mem.tasks[l].id] IN
            told # None /\ told.val.text = note.tasks[l].text /\ ~told.val.closed

(* "Reacts to every change of a daily note inside the watch window": once  *)
(* everything settled, the orchestrator knows every open task of the user's*)
(* as the note has it.                                                     *)
NothingIsMissed == AtRest /\ note # None => InStep

(* And of a task it knows that was checked off it knows that.              *)
ClosingIsTold ==
    AtRest /\ note # None =>
      \A l \in Lines : Theirs(note.tasks[l]) /\ note.tasks[l].closed /\ mem.tasks[l] # None
                       /\ known[mem.tasks[l].id] # None => known[mem.tasks[l].id].val.closed

(* Nor does it hold on to a task that is gone, its note included.          *)
DeletionIsTold ==
    AtRest => \A i \in Ids : known[i] # None => note # None /\ Tracks(mem, i)

(* "a cut/paste revives them with their id": what is told removed is not in*)
(* the note as it was last read.                                           *)
RemovedIsRemoved ==
    \A i \in Ids : known[i] # None /\ known'[i] = None => mem.tasks[known[i].line] = None
MovedIsNotRemoved == [][RemovedIsRemoved]_vars

(* The agent's own tasks are not announced before the marker is gone, and  *)
(* blank ones not before they have text.                                   *)
ToldIsTheirs ==
    \A i \in Ids : known[i] = None /\ known'[i] # None /\ ~(mem.settled[i] # None /\ mem.settled[i].announced)
         => Theirs(known'[i].val)
OnlyRequestsAreTold == [][ToldIsTheirs]_vars

(* A change is not told while its line is typed on, unless nobody was there*)
(* when it was made.                                                       *)
ToldWhenPaused ==
    \A i \in Ids : known[i] # known'[i] /\ proc = proc' /\ TypedOn(i) => mem.pending[i].immediate
NotMidTyping == [][ToldWhenPaused]_vars

(* Lines shown as noticed settle or are withdrawn.                         *)
NoticedIsWaiting == mem.noticed # {} => mem.timer /\ running

(* A request is handed over at most once each time it is written ("as one  *)
(* note event per pause").                                                 *)
RequestToldOnce == \A r \in Requests : asked[r] <= written[r]

(* And none is missed; what the first read of a note takes as existing     *)
(* counts as handed over.                                                  *)
RequestIsTold ==
    AtRest /\ note # None => \A r \in note.prose : asked[r] > 0

(* Whatever is written is settled in the end: the orchestrator is in step  *)
(* once the note is left alone.                                            *)
EndsInStep == <>[](running /\ inWindow /\ note # None => InStep)
=============================================================================
