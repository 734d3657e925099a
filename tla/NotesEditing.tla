---------------------------- MODULE NotesEditing ----------------------------
(***************************************************************************)
(* A note open in the app's editor, saved by the notes controller through  *)
(* the daemon's HTTP routes while the agent, the sync engine and other     *)
(* apps change the same file, and told of their changes over the           *)
(* WebSocket.                                                              *)
(*                                                                         *)
(* A text gives each line a value: 0 is what the note started with, a      *)
(* positive number the user's edit of that number, a negative one what     *)
(* somebody else put there (or that they removed it).  A version is the    *)
(* hash of a text, so the text stands for it.                              *)
(***************************************************************************)
EXTENDS Integers, Sequences, FiniteSets

CONSTANTS
    Lines,        \* the lines of the note
    Paths,        \* the paths it may have
    First,        \* the one it starts at
    Gone,         \* there is no file at the path
    None,
    Ok, Lost,     \* answers that are not a note: it was done; the request failed
    MaxEdits,     \* bound: edits by the user
    MaxOthers,    \* bound: changes by anybody else
    MaxFails,     \* bound: requests that fail
    MaxReads,     \* bound: reads under way at once
    MaxDrops,     \* bound: times the WebSocket drops
    MaxSaves,     \* writeNote attempts of one save (`depth >= 3` gives up)
    Slow,         \* an answer may come after a later one, and after a later event
    ReadsFail,    \* a read may be among the requests that fail
    PutsBack,     \* another app may put back a text the client wrote before
    Deletes,      \* others may delete the note and create it again
    Removes,      \* the user may delete the note
    Renames       \* the user may rename the note

VARIABLES
    vault,      \* the daemon's files
    copies,     \* the conflict copies it was given
    mine,       \* WriteTracker.entries: what this client wrote there
    pending,    \* VaultChangeBatcher.pending: the paths changed in this window
    wire,       \* events on the way to the client that it does not ignore
    online,     \* the WebSocket is open
    doc,        \* the note in NotesController.docs, or None
    screen,     \* the text of its editor state
    active,     \* it is the note shown in the editor
    reads,      \* handleRemoteChange: reads under way
    page,       \* the user's own request under way: load, remove or rename
    orphans,    \* writes still on their way of a note that was forgotten
    answers,    \* the answers on their way, in order
    edits, others, fails, drops,                      \* how much happened
    typed,      \* ghost: the user's last edit of each line
    stored,     \* ghost: what the daemon ever held, per line
    seen,       \* ghost: what the user was ever shown, per line
    discarded   \* ghost: paths the user deleted or moved away

net  == <<reads, page, orphans, answers>>
daemon == <<vault, copies, mine, pending>>
ghosts == <<typed, stored, seen, discarded>>
counts == <<edits, others, fails, drops>>
vars == <<daemon, wire, online, doc, screen, active, net, counts, ghosts>>

Text == [Lines -> -MaxOthers .. MaxEdits]
Versions == Text \cup {Gone}
Values(text) == {<<l, text[l]>> : l \in Lines}

Flights ==
    [stage : {"save", "restore", "copy"}, path : Paths, content : Text,
     base : Versions, edited : BOOLEAN, depth : 0 .. MaxSaves,
     answer : {None, "ok", "fail", "taken"}, current : Versions]
Docs ==
    [path : Paths, server : Text, dirty : BOOLEAN, pending : Text \cup {None},
     timer : BOOLEAN, flight : Flights \cup {None}, resave : BOOLEAN,
     recheck : BOOLEAN, conflict : BOOLEAN, failed : BOOLEAN, retry : BOOLEAN]

TypeOK ==
    /\ vault \in [Paths -> Versions] /\ copies \subseteq Text
    /\ mine \subseteq (Paths \X Versions)
    /\ pending \in [Paths -> Versions \cup {None}]
    /\ online \in BOOLEAN /\ active \in BOOLEAN
    /\ doc = None \/ doc \in Docs
    /\ screen \in Text
    /\ doc = None => ~active

----------------------------------------------------------------------------
(* The merge, and the text the user has.                                   *)

\* The line-by-line effect of mergeText: where both changed a line the local one stays.
Merge(base, local, remote) ==
    [l \in Lines |-> IF local[l] = base[l] THEN remote[l] ELSE local[l]]

Conflicts(base, local, remote) ==
    \E l \in Lines :
        /\ local[l] # base[l] /\ remote[l] # base[l] /\ local[l] # remote[l]

LocalText ==
    IF active THEN screen ELSE IF doc.pending # None THEN doc.pending ELSE doc.server

Busy(d) == d.dirty \/ d.flight # None

Fresh(p, text) ==
    [path |-> p, server |-> text, dirty |-> FALSE, pending |-> None, timer |-> FALSE,
     flight |-> None, resave |-> FALSE, recheck |-> FALSE, conflict |-> FALSE,
     failed |-> FALSE, retry |-> FALSE]

Init ==
    LET blank == [l \in Lines |-> 0] IN
    /\ vault = [p \in Paths |-> IF p = First THEN blank ELSE Gone]
    /\ copies = {} /\ mine = {} /\ pending = [p \in Paths |-> None]
    /\ wire = <<>> /\ online = TRUE
    /\ doc = Fresh(First, blank) /\ screen = blank /\ active = TRUE
    /\ reads = [r \in 1 .. MaxReads |-> None]
    /\ page = None /\ orphans = {} /\ answers = <<>>
    /\ edits = 0 /\ others = 0 /\ fails = 0 /\ drops = 0
    /\ typed = blank /\ stored = Values(blank) /\ seen = Values(blank)
    /\ discarded = {}

----------------------------------------------------------------------------
(* Requests and their answers.                                             *)

\* A read's answer is known by its number.
SaveId == 0
PageId == MaxReads + 1

\* Without Slow, answers are received in the order the daemon gave them.
Answered(id) == answers' = IF Slow THEN answers ELSE Append(answers, id)
Next1(id)    == Slow \/ (answers # <<>> /\ Head(answers) = id)
Received     == answers' = IF Slow THEN answers ELSE Tail(answers)

FreeRead == \E r \in 1 .. MaxReads : reads[r] = None
Asking(p) ==
    LET r == CHOOSE r \in 1 .. MaxReads : reads[r] = None
    IN  [reads EXCEPT ![r] = [path |-> p, own |-> TRUE, answer |-> None]]

\* The note is forgotten: reads begun for it are no longer its own.
Disowned(rs) ==
    [r \in DOMAIN rs |-> IF rs[r] = None THEN None ELSE [rs[r] EXCEPT !.own = FALSE]]

Request(stage, p, base, content, depth) ==
    [stage |-> stage, path |-> p, content |-> content, base |-> base,
     edited |-> FALSE, depth |-> depth, answer |-> None, current |-> Gone]

\* Slip: what the editor shows is not captured.
SavingUncaptured(d, live) ==
    LET c == [d EXCEPT !.timer = FALSE]
    IN  IF ~c.dirty THEN c
        ELSE IF c.flight # None THEN [c EXCEPT !.resave = TRUE]
        ELSE [c EXCEPT !.flight = Request("save", c.path, c.server, c.server, 0)]
\* save(): captures what the editor shows, then starts a write or lets the one under way be
\* followed by another.
Saving(d, live) ==
    LET c == [d EXCEPT !.timer = FALSE,
                       !.pending = IF live # None /\ d.dirty THEN live ELSE @]
    IN  IF ~c.dirty THEN c
        ELSE IF c.flight # None THEN [c EXCEPT !.resave = TRUE]
        ELSE [c EXCEPT !.flight =
                Request("save", c.path, c.server,
                        IF c.pending # None THEN c.pending ELSE c.server, 0)]

Live == IF active THEN screen ELSE None

\* acknowledge(): what was written is the server's text; edits made meanwhile stay unsaved.
Acknowledged(d) ==
    LET still == d.dirty /\ d.flight.edited
    IN  [d EXCEPT !.server = d.flight.content, !.dirty = still, !.conflict = FALSE,
                  !.failed = FALSE, !.pending = IF still THEN @ ELSE None]

\* fail(): another try is armed, though this one is over.
Failing(d) == [d EXCEPT !.failed = TRUE, !.retry = TRUE]

\* merge(): rebases the unsaved edits on `remote`.
Merged(d, remote) ==
    LET text == Merge(d.server, LocalText, remote)
        same == text = remote
    IN  [d EXCEPT !.server = remote, !.conflict = FALSE,
                  !.dirty = IF same THEN FALSE ELSE @,
                  !.pending = IF same THEN None ELSE text]
MergedText(d, remote) == Merge(d.server, LocalText, remote)

\* The `finally` of a save: a change seen meanwhile is read, edits made meanwhile are saved.
Settled(d, live) ==
    LET c == [d EXCEPT !.flight = None, !.recheck = FALSE]
    IN  IF ~c.dirty \/ c.failed THEN c
        ELSE IF c.resave THEN Saving([c EXCEPT !.resave = FALSE], live)
        ELSE [c EXCEPT !.timer = TRUE]

Rechecks(d) == /\ d.recheck => FreeRead
               /\ reads' = IF d.recheck THEN Asking(d.path) ELSE reads

\* renamePath awaits the save under way and the one that follows it.
PageSettles(d) ==
    page' = IF page # None /\ page.kind = "rename" /\ page.waits > 0
            THEN [page EXCEPT !.waits = IF @ = 2 /\ d.flight # None THEN 1 ELSE 0]
            ELSE page

Forgets == doc' = None /\ active' = FALSE
Kept(rs) == IF doc' = None THEN Disowned(rs) ELSE rs

----------------------------------------------------------------------------
(* The user.                                                               *)

\* A keystroke: markDirty counts it and arms the one timer.
Edit(l) ==
    /\ active /\ edits < MaxEdits
    /\ edits' = edits + 1
    /\ screen' = [screen EXCEPT ![l] = edits + 1]
    /\ typed' = [typed EXCEPT ![l] = edits + 1]
    /\ seen' = seen \cup {<<l, edits + 1>>}
    /\ doc' = [doc EXCEPT !.dirty = TRUE, !.timer = TRUE,
                          !.flight = IF @ = None THEN None ELSE [@ EXCEPT !.edited = TRUE]]
    /\ UNCHANGED <<daemon, wire, online, active, net, others, fails, drops, stored, discarded>>

TimerFires ==
    /\ doc # None /\ doc.timer
    /\ doc' = Saving(doc, Live)
    /\ UNCHANGED <<daemon, wire, online, screen, active, net, counts, ghosts>>

\* The window loses focus, or :w.
Flush ==
    /\ doc # None /\ doc.dirty
    /\ doc' = Saving(doc, Live)
    /\ UNCHANGED <<daemon, wire, online, screen, active, net, counts, ghosts>>

RetryFires ==
    /\ doc # None /\ doc.retry
    /\ doc' = IF doc.dirty THEN Saving([doc EXCEPT !.retry = FALSE, !.failed = FALSE], Live)
              ELSE [doc EXCEPT !.retry = FALSE]
    /\ UNCHANGED <<daemon, wire, online, screen, active, net, counts, ghosts>>

\* Another note is shown: beforeDeactivate saves this one, whose editor state is kept.
Leave ==
    /\ active
    /\ doc' = Saving(doc, Live)
    /\ active' = FALSE
    /\ UNCHANGED <<daemon, wire, online, screen, net, counts, ghosts>>

Return ==
    /\ doc # None /\ ~active
    /\ active' = TRUE
    /\ UNCHANGED <<daemon, wire, online, doc, screen, net, counts, ghosts>>

\* A note nobody looked at for a while leaves the caches, unless it is busy.
Evict ==
    /\ doc # None /\ ~active /\ ~Busy(doc)
    /\ Forgets /\ reads' = Kept(reads)
    /\ UNCHANGED <<daemon, wire, online, screen, page, orphans, answers, counts, ghosts>>

Open(p) ==
    /\ doc = None /\ page = None
    /\ page' = [kind |-> "load", path |-> p, to |-> p, waits |-> 0, answer |-> None]
    /\ UNCHANGED <<daemon, wire, online, doc, screen, active, reads, orphans, answers, counts, ghosts>>

Remove ==
    /\ Removes /\ active /\ page = None
    /\ page' = [kind |-> "remove", path |-> doc.path, to |-> doc.path, waits |-> 0, answer |-> None]
    /\ UNCHANGED <<daemon, wire, online, doc, screen, active, reads, orphans, answers, counts, ghosts>>

\* renamePath saves the note first, and waits for it.
Rename(to) ==
    /\ Renames /\ active /\ page = None /\ to # doc.path
    /\ doc' = Saving(doc, Live)
    /\ page' = [kind |-> "rename", path |-> doc.path, to |-> to, answer |-> None,
                waits |-> IF doc'.flight = None THEN 0
                          ELSE IF doc.flight # None /\ doc.dirty THEN 2 ELSE 1]
    /\ UNCHANGED <<daemon, wire, online, screen, active, reads, orphans, answers, counts, ghosts>>

----------------------------------------------------------------------------
(* The daemon.                                                             *)

\* A storage event; the window's last one of a path is kept.
Changed(p, v) ==
    /\ vault' = [vault EXCEPT ![p] = v]
    /\ pending' = [pending EXCEPT ![p] = v]
    /\ stored' = IF v = Gone THEN stored ELSE stored \cup Values(v)

Reads(r) ==
    /\ reads[r] # None /\ reads[r].answer = None
    /\ reads' = [reads EXCEPT ![r].answer = vault[reads[r].path]]
    /\ Answered(r)
    /\ UNCHANGED <<daemon, wire, online, doc, screen, active, page, orphans, counts, ghosts>>

\* A request fails; a write may have been done all the same.
ReadFails(r) ==
    /\ ReadsFail /\ reads[r] # None /\ reads[r].answer = None
    /\ fails < MaxFails /\ fails' = fails + 1
    /\ reads' = [reads EXCEPT ![r].answer = Lost]
    /\ Answered(r)
    /\ UNCHANGED <<daemon, wire, online, doc, screen, active, page, orphans,
                   edits, others, drops, ghosts>>

\* storage.write with `ifMatch`, recorded as this client's.
Accepts(f) == f.stage = "copy" \/ vault[f.path] = f.base

Written(f) ==
    IF f.stage = "copy"
    THEN /\ copies' = copies \cup {f.content}
         /\ stored' = stored \cup Values(f.content)
         /\ UNCHANGED <<vault, mine, pending>>
    ELSE /\ Changed(f.path, f.content)
         /\ mine' = mine \cup {<<f.path, f.content>>}
         /\ UNCHANGED copies

Asked == doc # None /\ doc.flight # None /\ doc.flight.answer = None
Answering(a, c) ==
    /\ doc' = [doc EXCEPT !.flight.answer = a, !.flight.current = c]
    /\ Answered(SaveId)
    /\ UNCHANGED <<wire, online, screen, active, reads, page, orphans,
                   edits, others, drops, typed, seen, discarded>>

Writes ==
    /\ Asked /\ Accepts(doc.flight)
    /\ Written(doc.flight)
    /\ Answering("ok", Gone)
    /\ UNCHANGED fails

\* 409, with the note as it is.
WriteRefused ==
    /\ Asked /\ ~Accepts(doc.flight)
    /\ Answering("taken", vault[doc.flight.path])
    /\ UNCHANGED <<daemon, stored, fails>>

WriteFails ==
    /\ Asked /\ fails < MaxFails /\ fails' = fails + 1
    /\ Answering("fail", Gone)
    /\ \/ UNCHANGED <<daemon, stored>>
       \/ Accepts(doc.flight) /\ Written(doc.flight)

\* The late write of a note that was forgotten: nobody takes its answer.
OrphanWrites(f) ==
    /\ f \in orphans /\ orphans' = orphans \ {f}
    /\ IF Accepts(f) THEN Written(f) ELSE UNCHANGED <<daemon, stored>>
    /\ UNCHANGED <<wire, online, doc, screen, active, reads, page, answers, counts,
                   typed, seen, discarded>>

PageAnswers(a) ==
    /\ page' = [page EXCEPT !.answer = a]
    /\ Answered(PageId)
    /\ UNCHANGED <<wire, online, doc, screen, active, reads, orphans, edits, others, drops,
                   typed, seen>>

PageReady == page # None /\ page.waits = 0 /\ page.answer = None

Loads ==
    /\ PageReady /\ page.kind = "load"
    /\ PageAnswers(vault[page.path])
    /\ UNCHANGED <<daemon, stored, discarded, fails>>

\* DELETE: the note is moved to the trash.
Deletes1 ==
    /\ vault[page.path] # Gone
    /\ Changed(page.path, Gone)
    /\ mine' = mine \cup {<<page.path, Gone>>}
    /\ discarded' = discarded \cup {page.path}
    /\ UNCHANGED copies
Deletion ==
    /\ PageReady /\ page.kind = "remove"
    /\ \/ Deletes1 /\ PageAnswers(Ok)
       \/ vault[page.path] = Gone /\ PageAnswers(Lost) /\ UNCHANGED <<daemon, stored, discarded>>
    /\ UNCHANGED fails

Moves ==
    /\ vault[page.path] # Gone /\ vault[page.to] = Gone
    /\ vault' = [vault EXCEPT ![page.path] = Gone, ![page.to] = vault[page.path]]
    /\ pending' = [pending EXCEPT ![page.path] = Gone, ![page.to] = vault[page.path]]
    /\ mine' = mine \cup {<<page.path, Gone>>, <<page.to, vault[page.path]>>}
    /\ discarded' = (discarded \cup {page.path}) \ {page.to}
    /\ UNCHANGED <<copies, stored>>
Moving ==
    /\ PageReady /\ page.kind = "rename"
    /\ \/ Moves /\ PageAnswers(Ok)
       \/ /\ vault[page.path] = Gone \/ vault[page.to] # Gone
          /\ PageAnswers(Lost) /\ UNCHANGED <<daemon, stored, discarded>>
    /\ UNCHANGED fails

PageFails ==
    /\ PageReady /\ fails < MaxFails /\ fails' = fails + 1
    /\ PageAnswers(Lost)
    /\ \/ UNCHANGED <<daemon, stored, discarded>>
       \/ page.kind = "remove" /\ Deletes1
       \/ page.kind = "rename" /\ Moves

\* The window closes: a change is this client's if the tracker has it, and the client then
\* ignores it; a client that is not connected is told nothing.
Heard(p) == pending[p] # None /\ <<p, pending[p]>> \notin mine
FlushEvents ==
    /\ \E p \in Paths : pending[p] # None
    /\ Slow \/ answers = <<>>
    /\ \E q \in [1 .. Cardinality({p \in Paths : Heard(p)}) -> {p \in Paths : Heard(p)}] :
        /\ \A i, j \in DOMAIN q : i # j => q[i] # q[j]
        /\ wire' = IF online
                   THEN wire \o [i \in DOMAIN q |-> [path |-> q[i], version |-> pending[q[i]]]]
                   ELSE wire
    /\ pending' = [p \in Paths |-> None]
    /\ UNCHANGED <<vault, copies, mine, online, doc, screen, active, net, counts, ghosts>>

\* An entry of the tracker expires.
TrackerExpires ==
    /\ PutsBack
    /\ \E e \in mine : mine' = mine \ {e}
    /\ UNCHANGED <<vault, copies, pending, wire, online, doc, screen, active, net, counts, ghosts>>

----------------------------------------------------------------------------
(* The client receives.                                                    *)

Shows(text) == screen' = text /\ seen' = seen \cup Values(text)
ShowsNothing == UNCHANGED <<screen, seen>>

\* handleRemoteDelete: unsaved edits, or a save under way, keep the note.
GoneFrom(p) ==
    IF doc # None /\ doc.path = p /\ ~Busy(doc)
    THEN Forgets
    ELSE /\ doc' = IF doc # None /\ doc.path = p
                   THEN [doc EXCEPT !.conflict = TRUE, !.timer = TRUE] ELSE doc
         /\ UNCHANGED <<active>>

\* A vault.changed of somebody else.
Event ==
    /\ wire # <<>>
    /\ LET e == Head(wire)
           atHand == doc # None /\ doc.path = e.path
       IN  \/ /\ e.version = Gone
              /\ GoneFrom(e.path)
              /\ reads' = Kept(reads)
           \/ /\ e.version # Gone
              /\ atHand => e.version = doc.server
              /\ UNCHANGED <<doc, active, reads>>
           \/ /\ e.version # Gone /\ atHand /\ e.version # doc.server
              /\ IF doc.flight # None
                 THEN doc' = [doc EXCEPT !.recheck = TRUE] /\ UNCHANGED reads
                 ELSE FreeRead /\ reads' = Asking(doc.path) /\ UNCHANGED doc
              /\ UNCHANGED active
    /\ wire' = Tail(wire)
    /\ UNCHANGED <<daemon, online, screen, page, orphans, answers, counts, ghosts>>

\* The read of a remote change comes back.
\* A clean note takes what it is given, whenever that was read.
Applies(d, text) == [d EXCEPT !.server = text]

TakesRemote(text) ==
    IF ~doc.dirty
    THEN doc' = Applies(doc, text) /\ Shows(text)
    ELSE IF Conflicts(doc.server, LocalText, text)
    THEN doc' = [doc EXCEPT !.conflict = TRUE, !.timer = TRUE] /\ ShowsNothing
    ELSE /\ doc' = [Merged(doc, text) EXCEPT !.timer = @ \/ Merged(doc, text).dirty]
         /\ Shows(MergedText(doc, text))

ReadBack(r) ==
    /\ reads[r] # None /\ reads[r].answer # None /\ Next1(r)
    /\ LET a == reads[r].answer
           freed == [reads EXCEPT ![r] = None]
           applies == reads[r].own /\ doc # None /\ doc.path = reads[r].path
       IN  \/ /\ a = Gone
              /\ GoneFrom(reads[r].path)
              /\ reads' = Kept(freed)
              /\ ShowsNothing
           \/ /\ a \notin {Gone, Lost} /\ applies /\ a # doc.server
              /\ IF doc.flight # None
                 THEN doc' = [doc EXCEPT !.recheck = TRUE] /\ ShowsNothing
                 ELSE TakesRemote(a)
              /\ reads' = freed /\ UNCHANGED active
           \/ /\ a = Lost \/ (a # Gone /\ (applies => a = doc.server))
              /\ reads' = freed /\ ShowsNothing /\ UNCHANGED <<doc, active>>
    /\ Received
    /\ UNCHANGED <<daemon, wire, online, page, orphans, counts, typed, stored, discarded>>

SaveBack(d, shown) ==
    LET live == IF active THEN shown ELSE None IN
    /\ Rechecks(d)
    /\ doc' = Settled(d, live)
    /\ PageSettles(doc')

Received2 ==
    /\ Received
    /\ UNCHANGED <<daemon, wire, online, active, orphans, counts, typed, stored, discarded>>

IsBack(answer) ==
    doc # None /\ doc.flight # None /\ doc.flight.answer = answer /\ Next1(SaveId)

\* The write, or the write of a note deleted elsewhere, was done.
SaveDone ==
    /\ IsBack("ok") /\ doc.flight.stage # "copy"
    /\ SaveBack(Acknowledged(doc), screen)
    /\ ShowsNothing /\ Received2

SaveFailed ==
    /\ \/ IsBack("fail")
       \/ IsBack("taken") /\ (doc.flight.stage # "save" \/ doc.flight.depth >= MaxSaves)
    /\ SaveBack(Failing(doc), screen)
    /\ ShowsNothing /\ Received2

\* merge, then what is left unsaved is written at once.
MergesAndWrites(current, depth) ==
    LET d == Merged(doc, current) IN
    /\ Shows(MergedText(doc, current))
    /\ IF d.dirty
       THEN /\ doc' = [d EXCEPT !.flight = Request("save", d.path, current, d.pending, depth + 1)]
            /\ UNCHANGED <<reads, page>>
       ELSE SaveBack(d, MergedText(doc, current))

Conflict == IsBack("taken") /\ doc.flight.stage = "save" /\ doc.flight.depth < MaxSaves

\* 409: resolveConflict.
ResolveGone ==
    /\ Conflict /\ doc.flight.current = Gone
    /\ doc' = [doc EXCEPT !.flight =
                [Request("restore", doc.path, Gone, doc.flight.content, doc.flight.depth)
                 EXCEPT !.edited = doc.flight.edited]]
    /\ UNCHANGED <<reads, page>> /\ ShowsNothing /\ Received2

ResolveSame ==
    /\ Conflict /\ doc.flight.current = doc.flight.content
    /\ SaveBack(Acknowledged(doc), screen)
    /\ ShowsNothing /\ Received2

\* The two texts differ: theirs is kept as a copy when both changed a line.
Differ == Conflict /\ doc.flight.current \notin {Gone, doc.flight.content}

ResolveByCopy ==
    /\ Differ /\ Conflicts(doc.server, LocalText, doc.flight.current)
    /\ doc' = [doc EXCEPT !.flight =
                Request("copy", doc.path, Gone, doc.flight.current, doc.flight.depth)]
    /\ UNCHANGED <<reads, page>> /\ ShowsNothing /\ Received2

ResolveByMerge ==
    /\ Differ /\ ~Conflicts(doc.server, LocalText, doc.flight.current)
    /\ MergesAndWrites(doc.flight.current, doc.flight.depth)
    /\ Received2

CopyDone ==
    /\ IsBack("ok") /\ doc.flight.stage = "copy"
    /\ MergesAndWrites(doc.flight.content, doc.flight.depth)
    /\ Received2

\* The answer to the user's own request.
PageBack(kind, answers2) ==
    /\ page # None /\ page.kind = kind /\ page.answer # None /\ page.answer \in answers2
    /\ Next1(PageId) /\ Received
    /\ page' = None
    /\ UNCHANGED <<daemon, wire, online, counts, stored, discarded>>

\* adopt(): the note is shown, unless the user went elsewhere.
Loaded ==
    /\ PageBack("load", Text)
    /\ doc' = Fresh(page.path, page.answer)
    /\ active' \in BOOLEAN
    /\ screen' = page.answer /\ seen' = seen \cup Values(page.answer)
    /\ UNCHANGED <<reads, orphans, typed>>

\* dropNote(): forgotten without being saved; its write may still be on its way.
Dropped ==
    /\ PageBack("remove", {Ok})
    /\ IF doc # None /\ doc.path = page.path
       THEN /\ Forgets /\ reads' = Kept(reads)
            /\ orphans' = IF doc.flight # None /\ doc.flight.answer = None
                          THEN orphans \cup {doc.flight} ELSE orphans
            /\ typed' = [l \in Lines |-> 0]
       ELSE UNCHANGED <<doc, active, reads, orphans, typed>>
    /\ ShowsNothing

Renamed ==
    /\ PageBack("rename", {Ok})
    /\ doc' = IF doc # None /\ doc.path = page.path THEN [doc EXCEPT !.path = page.to] ELSE doc
    /\ UNCHANGED <<active, reads, orphans, typed>> /\ ShowsNothing

PageFailed ==
    /\ PageBack(page.kind, {Lost, Gone})
    /\ UNCHANGED <<doc, active, reads, orphans, typed>> /\ ShowsNothing

----------------------------------------------------------------------------
(* The rest of the world.                                                  *)

Others(p, v) ==
    /\ others < MaxOthers /\ others' = others + 1
    /\ Changed(p, v)
    /\ discarded' = IF v = Gone THEN discarded ELSE discarded \ {p}
    /\ UNCHANGED <<copies, mine, wire, online, doc, screen, active, net,
                   edits, fails, drops, typed, seen>>

OtherEdits(p, l) ==
    vault[p] # Gone /\ Others(p, [vault[p] EXCEPT ![l] = -(others + 1)])
OtherDeletes(p) == Deletes /\ vault[p] # Gone /\ Others(p, Gone)
OtherCreates(p) ==
    /\ Deletes /\ vault[p] = Gone
    /\ Others(p, [l \in Lines |-> -(others + 1)])
OtherPutsBack(p) ==
    /\ PutsBack /\ vault[p] # Gone
    /\ \E e \in mine : e[1] = p /\ e[2] \notin {Gone, vault[p]} /\ Others(p, e[2])

Drop ==
    /\ online /\ drops < MaxDrops /\ drops' = drops + 1
    /\ online' = FALSE /\ wire' = <<>>
    /\ UNCHANGED <<daemon, doc, screen, active, net, edits, others, fails, ghosts>>

\* resync(): what is open is looked at again.
Reconnect ==
    /\ ~online /\ online' = TRUE
    /\ IF doc = None THEN UNCHANGED <<doc, reads>>
       ELSE IF doc.flight # None
       THEN doc' = [doc EXCEPT !.recheck = TRUE] /\ UNCHANGED reads
       ELSE FreeRead /\ reads' = Asking(doc.path) /\ UNCHANGED doc
    /\ UNCHANGED <<daemon, wire, screen, active, page, orphans, answers, counts, ghosts>>

User ==
    \/ \E l \in Lines : Edit(l)
    \/ Flush \/ Leave \/ Return \/ Evict \/ Remove
    \/ \E p \in Paths : Open(p) \/ (doc # None /\ Rename(p))
Serving ==
    \/ \E r \in 1 .. MaxReads : Reads(r)
    \/ Writes \/ WriteRefused
    \/ \E f \in orphans : OrphanWrites(f)
    \/ Loads \/ Deletion \/ Moving
Faults ==
    \/ \E r \in 1 .. MaxReads : ReadFails(r)
    \/ WriteFails \/ PageFails \/ Drop \/ TrackerExpires
Receiving ==
    \/ \E r \in 1 .. MaxReads : ReadBack(r)
    \/ SaveDone \/ SaveFailed \/ ResolveGone \/ ResolveSame \/ ResolveByCopy
    \/ ResolveByMerge \/ CopyDone
    \/ Loaded \/ Dropped \/ Renamed \/ (page # None /\ PageFailed)
Elsewhere ==
    \E p \in Paths :
        \/ \E l \in Lines : OtherEdits(p, l)
        \/ OtherDeletes(p) \/ OtherCreates(p) \/ OtherPutsBack(p)

Next ==
    \/ User \/ Serving \/ Faults \/ Receiving \/ Elsewhere
    \/ TimerFires \/ RetryFires \/ FlushEvents \/ Event \/ Reconnect

Spec == Init /\ [][Next]_vars
LiveSpec ==
    /\ Spec
    /\ WF_vars(Serving) /\ WF_vars(Receiving)
    /\ WF_vars(TimerFires) /\ WF_vars(RetryFires)
    /\ WF_vars(FlushEvents) /\ WF_vars(Event) /\ WF_vars(Reconnect)

----------------------------------------------------------------------------
(* Properties.                                                             *)

\* What the user typed last on a line is still in the note they have open, or it reached the
\* daemon: no merge, retry, eviction, rename or late answer drops an edit nobody stored.
NoEditIsLost ==
    \A l \in Lines :
        \/ typed[l] = 0
        \/ <<l, typed[l]>> \in stored
        \/ doc # None /\ LocalText[l] = typed[l]

\* A save only puts in the note what the user typed: a line changed elsewhere is replaced only by
\* an edit of the user, who saw it or for whom it was kept in a conflict copy, and an older edit
\* never comes back over a newer one.
OthersKept ==
    \A p \in Paths :
        (/\ others' = others /\ vault[p] # Gone /\ vault'[p] \notin {Gone, vault[p]}) =>
        \A l \in Lines :
            LET new == vault'[p][l]
                old == vault[p][l]
            IN  \/ new = old
                \/ /\ new > 0 /\ (old > 0 => new > old)
                   /\ old < 0 => (<<l, old>> \in seen \/ \E c \in copies : c[l] = old)
OthersAreKept == [][OthersKept]_vars

\* What is shown, or kept for a note in the background, is the text the next save starts from.
ShownIsHeld ==
    doc # None =>
        /\ ~active => screen = (IF doc.pending # None THEN doc.pending ELSE doc.server)
        /\ ~doc.dirty => screen = doc.server /\ doc.pending = None

\* Unsaved edits always have something that will save them: a timer, a retry or a write.
UnsavedIsArmed == doc # None /\ doc.dirty => doc.timer \/ doc.retry \/ doc.flight # None

Quiet ==
    /\ doc # None /\ online /\ wire = <<>> /\ page = None /\ orphans = {}
    /\ \A p \in Paths : pending[p] = None
    /\ \A r \in 1 .. MaxReads : reads[r] = None
    /\ doc.flight = None /\ ~doc.timer /\ ~doc.retry

\* When nothing is under way any more, the note is saved and shown as it is in the vault.
QuietMeansSaved ==
    Quiet => ~doc.dirty /\ ~doc.conflict /\ vault[doc.path] = doc.server /\ screen = doc.server

\* A note the user deleted, or moved away, is not brought back by the app's own saves.
RemovedStaysRemoved == \A p \in discarded : vault[p] = Gone

\* Once nobody changes anything any more, the note is saved.
EditsAreSaved == doc # None /\ doc.dirty ~> doc = None \/ ~doc.dirty

=============================================================================
