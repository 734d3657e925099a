------------------------- MODULE ToolLedger_proofs --------------------------
(***************************************************************************)
(* What the write-ahead records of tool calls are worth, for any calls,    *)
(* sessions and processes: no crash leaves an effect the journal denies,   *)
(* no restart picks work up over a call it does not know the end of, and   *)
(* whoever works on was told of it, in every thread whose journal no newer *)
(* app wrote to.                                                           *)
(***************************************************************************)
EXTENDS ToolLedger, TLAPS

(* What the journal says of a call that never had the go-ahead.            *)
Denied == {"none", "requested", "blocked"}

(* The journals run ahead of one another in one order only: what is on     *)
(* disk is in the append under way, and that in memory.                    *)
InOrder(c) ==
    /\ disk[c] \notin Denied => log[c] \notin Denied
    /\ writing # None /\ disk[c] \notin Denied => writing[c] \notin Denied
    /\ writing # None /\ writing[c] \notin Denied => log[c] \notin Denied

(* Where a call is bounds what the three journals say of it.               *)
Before(c, stages) == disk[c] \in stages /\ (writing # None => writing[c] \in stages)
RecordedAsFarAs(c) ==
    /\ call[c] = "idle" => log[c] = "none" /\ Before(c, {"none"})
    /\ call[c] \in {"gate", "given up"} =>
         log[c] = "requested" /\ Before(c, {"none", "requested"})
    /\ call[c] \in {"recording", "void"} =>
         c \in Effectful /\ log[c] = "started" /\ Before(c, {"none", "requested", "started"})
    /\ call[c] \in {"running", "cut off"} /\ c \notin foreign =>
         log[c] = "started" /\ (c \in Effectful => Before(c, {"started"}))

(* A call in a thread whose journal a newer app wrote to is known as such. *)
ForeignIsKnown(c) == newer # "no" /\ call[c] # "idle" => c \in foreign

(* A call that did its work had its go-ahead, is on disk, and once it is   *)
(* over is told of as finished or as interrupted.                          *)
DoneIsKnown(c) ==
    c \in Accountable =>
      /\ call[c] \in {"running", "cut off", "over"}
      /\ disk[c] \notin Denied
      /\ call[c] = "over" => log[c] \in {"finished", "interrupted", "told"}

(* A session that was prompted was told of everything interrupted.         *)
PromptTold == run = "running" => \A c \in Calls : log[c] # "interrupted"

LedgerInvariant ==
    /\ TypeOK /\ PromptTold
    /\ \A c \in Calls : InOrder(c) /\ RecordedAsFarAs(c) /\ ForeignIsKnown(c) /\ DoneIsKnown(c)

-----------------------------------------------------------------------------

LEMMA InitLedger == Init => LedgerInvariant
  BY CallsAssumption, BoundsAssumption
  DEF Init, LedgerInvariant, TypeOK, PromptTold, InOrder, RecordedAsFarAs, Before, DoneIsKnown,
      ForeignIsKnown, Accountable, NewThread, Denied, Journal, Stages

LEMMA StepLedger == LedgerInvariant /\ [Next]_vars => LedgerInvariant'
  <1>a. SUFFICES ASSUME LedgerInvariant, [Next]_vars PROVE LedgerInvariant'
    OBVIOUS
  <1> USE DEF LedgerInvariant, TypeOK, PromptTold, InOrder, RecordedAsFarAs, Before, DoneIsKnown,
              ForeignIsKnown, Accountable, NewThread, Denied, Journal, Stages
  <1>1. CASE Kickoff
    <2>1. session \in 0 .. MaxSessions /\ session < MaxSessions /\ session' = session + 1
      BY <1>a, <1>1 DEF Kickoff, others
    <2>2. session' \in 0 .. MaxSessions
      BY <2>1, BoundsAssumption
    <2> QED
      BY <1>a, <1>1, <2>2 DEF Kickoff, others
  <1>2. CASE Prompt
    BY <1>a, <1>2 DEF Prompt, others
  <1>3. CASE TurnEnds
    BY <1>a, <1>3 DEF TurnEnds, others
  <1>4. ASSUME NEW c \in Calls, Request(c) PROVE LedgerInvariant'
    <2>1. TypeOK' /\ PromptTold'
      BY <1>a, <1>4 DEF Request, Journaled
    <2>2. ASSUME NEW d \in Calls
          PROVE  (InOrder(d) /\ RecordedAsFarAs(d) /\ ForeignIsKnown(d) /\ DoneIsKnown(d))'
      <3>1. InOrder(d)'
        BY <1>a, <1>4 DEF Request, Journaled
      <3>2. RecordedAsFarAs(d)'
        BY <1>a, <1>4 DEF Request, Journaled
      <3>3. DoneIsKnown(d)'
        BY <1>a, <1>4 DEF Request, Journaled
      <3>4. ForeignIsKnown(d)'
        BY <1>a, <1>4 DEF Request, Journaled
      <3> QED
        BY <3>1, <3>2, <3>3, <3>4
    <2> QED
      BY <2>1, <2>2
  <1>5. ASSUME NEW c \in Calls, Blocked(c) PROVE LedgerInvariant'
    <2>1. TypeOK' /\ PromptTold'
      BY <1>a, <1>5 DEF Blocked, others, Journaled
    <2>2. ASSUME NEW d \in Calls
          PROVE  (InOrder(d) /\ RecordedAsFarAs(d) /\ ForeignIsKnown(d) /\ DoneIsKnown(d))'
      <3>1. InOrder(d)'
        BY <1>a, <1>5 DEF Blocked, others, Journaled
      <3>2. RecordedAsFarAs(d)'
        BY <1>a, <1>5 DEF Blocked, others, Journaled
      <3>3. DoneIsKnown(d)'
        BY <1>a, <1>5 DEF Blocked, others, Journaled
      <3>4. ForeignIsKnown(d)'
        BY <1>a, <1>5 DEF Blocked, others, Journaled
      <3> QED
        BY <3>1, <3>2, <3>3, <3>4
    <2> QED
      BY <2>1, <2>2
  <1>6. ASSUME NEW c \in Calls, Allowed(c) PROVE LedgerInvariant'
    <2>1. TypeOK' /\ PromptTold'
      BY <1>a, <1>6 DEF Allowed, others, Journaled
    <2>2. ASSUME NEW d \in Calls
          PROVE  (InOrder(d) /\ RecordedAsFarAs(d) /\ ForeignIsKnown(d) /\ DoneIsKnown(d))'
      <3>1. InOrder(d)'
        BY <1>a, <1>6 DEF Allowed, others, Journaled
      <3>2. RecordedAsFarAs(d)'
        BY <1>a, <1>6 DEF Allowed, others, Journaled
      <3>3. DoneIsKnown(d)'
        BY <1>a, <1>6 DEF Allowed, others, Journaled
      <3>4. ForeignIsKnown(d)'
        BY <1>a, <1>6 DEF Allowed, others, Journaled
      <3> QED
        BY <3>1, <3>2, <3>3, <3>4
    <2> QED
      BY <2>1, <2>2
  <1>7. ASSUME NEW c \in Calls, AllowedUnrecorded(c) PROVE LedgerInvariant'
    BY <1>a, <1>7 DEF AllowedUnrecorded, others
  <1>8. ASSUME NEW c \in Calls, Recorded(c) PROVE LedgerInvariant'
    BY <1>a, <1>8 DEF Recorded, OnDisk, others
  <1>9. ASSUME NEW c \in Calls, Effect(c) PROVE LedgerInvariant'
    BY <1>a, <1>9 DEF Effect, others
  <1>10. ASSUME NEW c \in Calls, Finished(c) PROVE LedgerInvariant'
    <2>1. TypeOK' /\ PromptTold'
      BY <1>a, <1>10 DEF Finished, others, Journaled
    <2>2. ASSUME NEW d \in Calls
          PROVE  (InOrder(d) /\ RecordedAsFarAs(d) /\ ForeignIsKnown(d) /\ DoneIsKnown(d))'
      <3>1. InOrder(d)'
        BY <1>a, <1>10 DEF Finished, others, Journaled
      <3>2. RecordedAsFarAs(d)'
        BY <1>a, <1>10 DEF Finished, others, Journaled
      <3>3. DoneIsKnown(d)'
        BY <1>a, <1>10 DEF Finished, others, Journaled
      <3>4. ForeignIsKnown(d)'
        BY <1>a, <1>10 DEF Finished, others, Journaled
      <3> QED
        BY <3>1, <3>2, <3>3, <3>4
    <2> QED
      BY <2>1, <2>2
  <1>11. CASE AppendStarts
    BY <1>a, <1>11 DEF AppendStarts, others
  <1>12. CASE AppendDone
    BY <1>a, <1>12 DEF AppendDone, others
  <1>13. CASE AppendLeft
    BY <1>a, <1>13 DEF AppendLeft
  <1>14. CASE NewerWrites
    BY <1>a, <1>14 DEF NewerWrites
  <1>15. CASE AppendFails
    BY <1>a, <1>15 DEF AppendFails, others
  <1>16. ASSUME NEW w \in {"idle", "working"}, Close(w) PROVE LedgerInvariant'
    BY <1>a, <1>16 DEF Close, others
  <1>17. CASE Restart
    <2>1. TypeOK'
      <3>1. process \in 1 .. MaxProcesses /\ process < MaxProcesses /\ process' = process + 1
        BY <1>a, <1>17 DEF Restart
      <3>2. process' \in 1 .. MaxProcesses
        BY <3>1, BoundsAssumption
      <3>3. log' \in Journal
        BY <1>a, <1>17 DEF Restart, Adopted, Marked
      <3> QED
        BY <1>a, <1>17, <3>2, <3>3 DEF Restart, Adopted
    <2>2. PromptTold'
      BY <1>a, <1>17 DEF Restart
    <2>3. ASSUME NEW d \in Calls
          PROVE  (InOrder(d) /\ RecordedAsFarAs(d) /\ ForeignIsKnown(d) /\ DoneIsKnown(d))'
      BY <1>a, <1>17 DEF Restart, Adopted, Marked
    <2> QED
      BY <2>1, <2>2, <2>3
  <1>18. CASE UNCHANGED vars
    BY <1>a, <1>18 DEF vars, others
  <1> QED
    BY <1>a, <1>1, <1>2, <1>3, <1>4, <1>5, <1>6, <1>7, <1>8, <1>9, <1>10, <1>11, <1>12,
       <1>13, <1>14, <1>15, <1>16, <1>17, <1>18 DEF Next

LEMMA LedgerHolds == Spec => []LedgerInvariant
  BY InitLedger, StepLedger, PTL DEF Spec

-----------------------------------------------------------------------------

(* Every variable keeps its type.                                          *)
THEOREM TypeCorrect == Spec => []TypeOK
  BY LedgerHolds, PTL DEF LedgerInvariant

(* No crash, at any moment, leaves an effect that the journal on disk      *)
(* denies: "started" is there before the harness gets the go-ahead, and no *)
(* later append takes it back, unless a newer app wrote to the journal.    *)
THEOREM EffectsAreOnDisk == Spec => []WriteAhead
  <1>1. LedgerInvariant => WriteAhead
    BY CallsAssumption DEF LedgerInvariant, TypeOK, DoneIsKnown, WriteAhead, Accountable, Denied
  <1> QED
    BY <1>1, LedgerHolds, PTL

(* A session at work was told of every call of the processes before that   *)
(* may have happened in a thread no newer app wrote to.                    *)
THEOREM SessionsAreTold == Spec => []NothingStaysUntold
  <1>1. LedgerInvariant => NothingStaysUntold
    BY CallsAssumption
    DEF LedgerInvariant, TypeOK, PromptTold, DoneIsKnown, NothingStaysUntold, Accountable
  <1> QED
    BY <1>1, LedgerHolds, PTL

(* Work that a restart picks up on its own knows the end of every effect   *)
(* before it, or was told of it, in the threads no newer app wrote to.     *)
THEOREM NeverRerun == Spec => NeverRerunOnItsOwn
  <1>1. LedgerInvariant /\ [Next]_vars =>
          [process' # process /\ run' = "starting" =>
             \A c \in Accountable : log'[c] \in {"finished", "told"}]_vars
    <2> SUFFICES ASSUME LedgerInvariant, Next, process' # process, run' = "starting"
                 PROVE  \A c \in Accountable : log'[c] \in {"finished", "told"}
      OBVIOUS
    <2>1. Restart
      BY DEF Next, Kickoff, Prompt, TurnEnds, Request, Blocked, Allowed, AllowedUnrecorded,
             Recorded, Effect, Finished, AppendStarts, AppendDone, AppendLeft, AppendFails,
             NewerWrites, Close, others
    <2>2. ~\E c \in Effectful : log'[c] = "interrupted"
      BY <2>1 DEF Restart, Resumes
    <2>3. newer # "no" => Accountable = {}
      BY CallsAssumption DEF LedgerInvariant, TypeOK, ForeignIsKnown, DoneIsKnown, Accountable
    <2>4. \A c \in Accountable : disk[c] \in Stages \ Denied
      BY CallsAssumption DEF LedgerInvariant, TypeOK, DoneIsKnown, Accountable, Journal
    <2> QED
      BY <2>1, <2>2, <2>3, <2>4, CallsAssumption
      DEF Restart, Adopted, Marked, LedgerInvariant, TypeOK, Accountable, Stages, Denied
  <1> QED
    BY <1>1, LedgerHolds, PTL DEF Spec, NeverRerunOnItsOwn
=============================================================================
