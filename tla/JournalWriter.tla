---------------------------- MODULE JournalWriter ---------------------------
(***************************************************************************)
(* One thread's journal file and the writer that appends to it. Events are *)
(* recorded in memory, where they are folded into the thread at once, and  *)
(* appended in batches, conditionally on the version the writer knows;     *)
(* when the file changed underneath (a sync merged another device's        *)
(* events, somebody deleted it) the writer reads it again, renumbers what  *)
(* it hasn't written, and appends after what is there.                     *)
(*                                                                         *)
(* An append may fail, be cut short, or succeed with its answer lost.      *)
(***************************************************************************)
EXTENDS Naturals, Sequences, FiniteSets, SequencesExt

CONSTANTS
    MaxOurs,      \* bound on the events this writer records
    MaxOthers,    \* bound on the events other writers add
    MaxFaults,    \* bound on failed, torn and unanswered appends
    MaxRemovals,  \* bound on removals of the file
    OtherEpochs,  \* the epochs of the other writers' events
    OtherVersions,\* "ours" and "newer": the versions of the app they run
    Missing, Unknown, None

MAX_APPEND_ATTEMPTS == 4
OurEpoch == 1

VARIABLES
    file,      \* the journal on disk: events, and whether its last line is cut
    thread,    \* the thread in memory: the events folded, in order
    pending,   \* recorded events not written yet
    known,     \* the version the writer last read or wrote
    ids,       \* ids of the events it knows to be on disk
    maxSeq,    \* the highest sequence number it knows
    disabled,  \* the writer leaves the journal alone
    asked,     \* events whose record somebody waits for, in order
    flush,     \* the append under way
    acked,     \* events somebody was told are on disk
    everOnDisk,\* every event the file held at some time
    recorded,  \* how many events this writer recorded
    others, faults, removals

disk == <<file, everOnDisk, others>>
writer == <<thread, pending, known, ids, maxSeq, disabled>>
vars == <<disk, writer, recorded, asked, flush, acked, faults, removals>>

OurIds == 1 .. MaxOurs
OtherIds == (MaxOurs + 1) .. (MaxOurs + MaxOthers)
ImportId(n) == MaxOurs + MaxOthers + n

(* `holds` is the thread a thread.imported event carries.                  *)
Event(id, epoch, seq, holds) == [id |-> id, epoch |-> epoch, seq |-> seq, holds |-> holds]

IdsOf(events) == {events[i].id : i \in 1 .. Len(events)}
Empty == [events |-> <<>>, torn |-> FALSE, newer |-> FALSE]

-----------------------------------------------------------------------------

(* Canonical order, and the thread it folds to: an import brings what it   *)
(* holds, and what is there already isn't repeated.                        *)
Before(a, b) ==
    \/ a.epoch < b.epoch
    \/ a.epoch = b.epoch /\ a.seq < b.seq
    \/ a.epoch = b.epoch /\ a.seq = b.seq /\ a.id < b.id

Canonical(events) == SortSeq(events, Before)

Applied(seq, id) == IF id \in Range(seq) THEN seq ELSE Append(seq, id)

Fold(events) ==
    LET step(e, seq) == IF e.holds = <<>> THEN Applied(seq, e.id)
                        ELSE FoldLeft(Applied, seq, e.holds)
    IN FoldLeft(LAMBDA seq, e : step(e, seq), <<>>, events)

(* Sequence numbers for events that go after everything up to `seq`.       *)
Renumbered(events, seq) == [i \in 1 .. Len(events) |-> [events[i] EXCEPT !.seq = seq + i]]

Idle == [at |-> "idle", attempt |-> 0, for |-> None, batch |-> 0]

Init ==
    /\ file = Missing
    /\ thread = <<>> /\ pending = <<>>
    /\ known = Missing
    /\ ids = {} /\ maxSeq = 0 /\ disabled = FALSE
    /\ asked = <<>> /\ flush = Idle /\ acked = {}
    /\ everOnDisk = {}
    /\ recorded = 0 /\ others = 0 /\ faults = 0 /\ removals = 0

-----------------------------------------------------------------------------

(* An event is recorded and applied; a tool call's record is waited for.   *)
Record(wait) ==
    LET id == recorded + 1 IN
    /\ id \in OurIds
    /\ recorded' = id
    /\ maxSeq' = maxSeq + 1
    /\ pending' = IF disabled THEN pending
                  ELSE Append(pending, Event(id, OurEpoch, maxSeq + 1, <<>>))
    /\ thread' = Append(thread, id)
    /\ asked' = IF wait /\ ~disabled THEN Append(asked, id) ELSE asked
    /\ UNCHANGED <<disk, known, ids, disabled, flush, acked, faults, removals>>

(* Flushes run one after the other: somebody's, or the debounced one.      *)
Begin ==
    /\ flush = Idle
    /\ IF asked = <<>> THEN pending # <<>> /\ flush' = [Idle EXCEPT !.at = "append"]
       ELSE flush' = [Idle EXCEPT !.at = "append", !.for = Head(asked)]
    /\ asked' = IF asked = <<>> THEN asked ELSE Tail(asked)
    /\ UNCHANGED <<disk, writer, recorded, acked, faults, removals>>

Resolves ==
    /\ flush' = Idle
    /\ acked' = IF flush.for = None THEN acked ELSE acked \cup {flush.for}

Rejects == flush' = Idle /\ UNCHANGED acked

NothingToDo ==
    /\ flush.at = "append" /\ flush.attempt < MAX_APPEND_ATTEMPTS
    /\ disabled \/ pending = <<>>
    /\ Resolves
    /\ UNCHANGED <<disk, writer, recorded, asked, faults, removals>>

GivesUp ==
    /\ flush.at = "append" /\ flush.attempt = MAX_APPEND_ATTEMPTS
    /\ Rejects
    /\ UNCHANGED <<disk, writer, recorded, asked, faults, removals>>

(* Reads when it doesn't know the file, else sends what is recorded so far.*)
Attempt ==
    /\ flush.at = "append" /\ flush.attempt < MAX_APPEND_ATTEMPTS
    /\ ~disabled /\ pending # <<>>
    /\ flush' = [flush EXCEPT !.at = IF known = Unknown THEN "reading" ELSE "sent",
                              !.batch = Len(pending)]
    /\ UNCHANGED <<disk, writer, recorded, asked, acked, faults, removals>>

Batch == SubSeq(pending, 1, flush.batch)
Matches == flush.at = "sent" /\ file = known

(* A batch that starts on a cut line begins with a line break.             *)
AppendedTo(f, events) ==
    IF f = Missing THEN [Empty EXCEPT !.events = events]
    ELSE [f EXCEPT !.events = @ \o events, !.torn = FALSE]

Written(events) ==
    /\ file' = AppendedTo(file, events)
    /\ everOnDisk' = everOnDisk \cup IdsOf(events)

Appended ==
    /\ Matches
    /\ Written(Batch)
    /\ known' = file'
    /\ ids' = ids \cup IdsOf(Batch)
    /\ pending' = SubSeq(pending, flush.batch + 1, Len(pending))
    /\ Resolves
    /\ UNCHANGED <<thread, recorded, maxSeq, disabled, others, asked, faults, removals>>

Conflict ==
    /\ flush.at = "sent" /\ file # known
    /\ known' = Unknown
    /\ flush' = [flush EXCEPT !.at = "append", !.attempt = @ + 1, !.batch = 0]
    /\ UNCHANGED <<disk, thread, recorded, pending, ids, maxSeq, disabled, asked, acked, faults, removals>>

(* An append that errors wrote nothing, some of its lines (the last one    *)
(* cut), or everything: its events stay queued either way.                 *)
AppendFails ==
    /\ Matches /\ faults < MaxFaults
    /\ faults' = faults + 1
    /\ \E n \in 0 .. flush.batch, cut \in BOOLEAN :
         IF n = 0 /\ ~cut THEN UNCHANGED <<file, everOnDisk>>
         ELSE LET kept == SubSeq(Batch, 1, n) IN
              /\ file' = [AppendedTo(file, kept) EXCEPT !.torn = cut /\ n < flush.batch]
              /\ everOnDisk' = everOnDisk \cup IdsOf(kept)
    /\ Rejects
    /\ UNCHANGED <<writer, recorded, others, asked, removals>>

-----------------------------------------------------------------------------

Reread == flush.at = "reading"
Again == flush' = [flush EXCEPT !.at = "append", !.attempt = @ + 1, !.batch = 0] /\ UNCHANGED acked

ReadFails ==
    /\ Reread /\ faults < MaxFaults
    /\ faults' = faults + 1
    /\ Rejects
    /\ UNCHANGED <<disk, writer, recorded, asked, removals>>

(* The file is gone: one this writer had written to starts again with the  *)
(* whole thread.                                                           *)
ReadMissing ==
    /\ Reread /\ file = Missing
    /\ known' = Missing
    /\ IF ids = {} THEN UNCHANGED <<ids, maxSeq, pending>>
       ELSE /\ ids' = {}
            /\ maxSeq' = Len(pending) + 1
            /\ pending' = <<Event(ImportId(removals), OurEpoch, 1, thread)>>
                          \o Renumbered(pending, 1)
    /\ Again
    /\ UNCHANGED <<disk, thread, recorded, disabled, asked, faults, removals>>

(* A newer app wrote to it: leave it alone for the rest of the run.        *)
ReadNewer ==
    /\ Reread /\ file # Missing /\ file.newer
    /\ disabled' = TRUE
    /\ pending' = <<>>
    /\ Again
    /\ UNCHANGED <<disk, thread, recorded, known, ids, maxSeq, asked, faults, removals>>

MaxSeqOf(events) == FoldLeft(LAMBDA m, e : IF e.seq > m THEN e.seq ELSE m, maxSeq, events)

(* Slip: what an unanswered append wrote is appended again.                *)
StillPendingAll(events) == Renumbered(pending, MaxSeqOf(events))

(* What isn't on disk yet goes after everything that is.                   *)
StillPending(events) ==
    Renumbered(SelectSeq(pending, LAMBDA e : e.id \notin ids \cup IdsOf(events)),
               MaxSeqOf(events))

SeqAfter(events) == MaxSeqOf(events) + Len(StillPending(events))

Refold(events) == Fold(Canonical(events) \o StillPending(events))

(* Somebody else's events are folded in with everything, in order.         *)
ReadAgain ==
    /\ Reread /\ file # Missing /\ ~file.newer
    /\ known' = file
    /\ ids' = ids \cup IdsOf(file.events)
    /\ pending' = StillPending(file.events)
    /\ maxSeq' = SeqAfter(file.events)
    /\ thread' = IF IdsOf(file.events) \subseteq ids \cup IdsOf(pending) THEN thread
                 ELSE Refold(file.events)
    /\ Again
    /\ UNCHANGED <<disk, recorded, disabled, asked, faults, removals>>

-----------------------------------------------------------------------------

(* A sync merges an event of another device's, numbered by what that       *)
(* device knew: at most one more than is here.                             *)
OtherWrites(epoch, seq, version) ==
    LET id == MaxOurs + others + 1
        f == IF file = Missing THEN Empty ELSE file
    IN
    /\ others < MaxOthers
    /\ others' = others + 1
    /\ seq <= 1 + FoldLeft(LAMBDA m, e : IF e.seq > m THEN e.seq ELSE m, 0, f.events)
    /\ file' = [f EXCEPT !.events = IF version = "newer" THEN @
                                    ELSE Append(@, Event(id, epoch, seq, <<>>)),
                         !.newer = @ \/ version = "newer", !.torn = FALSE]
    /\ everOnDisk' = IF version = "newer" THEN everOnDisk ELSE everOnDisk \cup {id}
    /\ UNCHANGED <<writer, recorded, asked, flush, acked, faults, removals>>

Removed ==
    /\ file # Missing /\ removals < MaxRemovals
    /\ removals' = removals + 1
    /\ file' = Missing
    /\ UNCHANGED <<everOnDisk, others, writer, recorded, asked, flush, acked, faults>>

Next ==
    \/ \E wait \in BOOLEAN : Record(wait)
    \/ Begin \/ NothingToDo \/ GivesUp \/ Attempt
    \/ Appended \/ Conflict \/ AppendFails
    \/ ReadFails \/ ReadMissing \/ ReadNewer \/ ReadAgain
    \/ \E epoch \in OtherEpochs, seq \in 1 .. MaxOurs + MaxOthers + 1, v \in OtherVersions :
         OtherWrites(epoch, seq, v)
    \/ Removed

Spec == Init /\ [][Next]_vars

(* The debounced flush is tried again after a failure, and the disk        *)
(* answers.                                                                *)
Flushing == Begin \/ NothingToDo \/ GivesUp \/ Attempt \/ Appended \/ Conflict
            \/ ReadMissing \/ ReadNewer \/ ReadAgain
FairSpec == Spec /\ WF_vars(Flushing)

-----------------------------------------------------------------------------

TypeOK ==
    /\ Range(thread) \subseteq OurIds \cup OtherIds /\ ids \subseteq 1 .. ImportId(MaxRemovals)
    /\ maxSeq \in Nat /\ disabled \in BOOLEAN
    /\ flush.at \in {"idle", "append", "sent", "reading"}
    /\ flush.batch <= Len(pending) \/ flush.at # "sent"
    /\ acked \subseteq OurIds

(* Whoever was told that a record is on disk finds it there: a tool may    *)
(* run only after that.                                                    *)
AckedIsOnDisk == acked \subseteq everOnDisk

(* No event is written twice, whatever answers were lost.                  *)
NothingTwice == file # Missing => IsInjective([i \in 1 .. Len(file.events) |-> file.events[i].id])

(* Events keep the order they were recorded in, in the order every device  *)
(* folds them.                                                             *)
OrderKept ==
    file # Missing =>
      \A a, b \in Range(file.events) :
        a.id \in OurIds /\ b.id \in OurIds /\ a.id < b.id => a.seq < b.seq

(* "The thread in memory is the thread a restart reads back": once what is *)
(* recorded is written and the file is the one the writer knows.           *)
RestartReadsBack ==
    flush = Idle /\ pending = <<>> /\ known = file /\ file # Missing =>
      Fold(Canonical(file.events)) = thread

(* Whatever is recorded reaches the disk.                                  *)
EverythingIsWritten ==
    \A id \in OurIds : recorded >= id ~> id \in everOnDisk
=============================================================================
