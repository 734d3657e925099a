----------------------------- MODULE App_proofs -----------------------------
(***************************************************************************)
(* What a save can't do to a file, however many others write it, for any   *)
(* number of attempts: replace what its owner was not given, replace a     *)
(* partly invalid content nobody kept, or take a file out of the way that  *)
(* could be read or that a newer app wrote.  And that tools, status and    *)
(* approvals follow the connectors, for any number of connections, reloads *)
(* and callers.  And that a routine has one run at a time whose end is     *)
(* recorded and told once, within its time, for any schedules and number   *)
(* of runs, restarts and switches.  And that a connection runs its server  *)
(* once, whatever uses, losses and a close overlap.                        *)
(***************************************************************************)
EXTENDS PersistedFile, Connectors, RoutineScheduler, McpConnection, Integers, FiniteSetTheorems,
        SequenceTheorems, TLAPS

-----------------------------------------------------------------------------
(* A persisted file.                                                       *)


(* The version last seen was given to the owner, or written by it.         *)
KnownIsTaken ==
    /\ known \in Versions => known \in taken
    /\ \A v \in taken : kind[v] \in {"valid", "partly"}

(* Of a partly invalid content the owner has seen there is a copy, or one  *)
(* is to be made, unless saving is blocked or the file is put aside.       *)
EvidenceIsKept ==
    ~blocked /\ ~At("aside") /\ known \in Versions /\ kind[known] = "partly"
        => evidence = known \/ known \in aside

(* A save writes only what it may: it knows a version, and has copied what *)
(* it will replace.                                                        *)
ReadyToWrite ==
    /\ At("write") \/ At("copy") => ~blocked /\ known # Unknown
    /\ At("write") => evidence = None
    /\ At("copy") => evidence # None

(* Where nobody writes while a file is put aside, what is put aside is     *)
(* what was found unreadable.                                              *)
AsideIsCorrupt ==
    ~MovedUnderway /\ At("aside") => disk # None /\ kind[disk] = "corrupt"

FileInvariant ==
    /\ TypeOK /\ KnownIsTaken /\ EvidenceIsKept /\ ReadyToWrite /\ AsideIsCorrupt

-----------------------------------------------------------------------------

(* A content that is written is the newest version; the others stay as     *)
(* they were.                                                              *)
LEMMA WrittenIsNew ==
    ASSUME TypeOK, NEW k \in Kinds, Written(k)
    PROVE  /\ versions' \in Nat /\ Versions' = Versions \cup {versions'}
           /\ versions' \notin Versions \cup {None, Unknown} /\ disk' = versions'
           /\ kind' \in [Versions' -> Kinds] /\ kind'[versions'] = k
           /\ \A v \in Versions : kind'[v] = kind[v]
  <1>1. versions \in Nat /\ versions' = versions + 1 /\ kind \in [1 .. versions -> Kinds]
    BY DEF TypeOK, Written, Versions
  <1>2. 1 .. versions + 1 = 1 .. versions \cup {versions + 1} /\ versions + 1 \notin 1 .. versions
    BY <1>1
  <1>3. Versions' = Versions \cup {versions'} /\ versions' \notin Versions
    BY <1>1, <1>2 DEF Versions
  <1>4. kind' = [v \in Versions' |-> IF v = versions' THEN k ELSE kind[v]]
    BY <1>1, <1>3 DEF Written, Versions
  <1>5. kind' \in [Versions' -> Kinds] /\ kind'[versions'] = k /\ \A v \in Versions : kind'[v] = kind[v]
    BY <1>1, <1>3, <1>4 DEF Versions
  <1> QED
    BY <1>1, <1>3, <1>5, MarksAssumption DEF Written

(* What a turn of the loop leaves under way, by what it knows then.        *)
LoopFrom(b, v, e) ==
    \/ op' = None
    \/ /\ op' \in [name : {"load", "save"}, stage : {"read", "copy", "write"}, attempt : 0 .. MaxAttempts]
       /\ op'.stage # "read" => ~b /\ v # Unknown
       /\ op'.stage = "copy" => e # None
       /\ op'.stage = "write" => e = None

(* Where a save's loop goes on.                                            *)
LEMMA LoopStages ==
    ASSUME NEW o \in Operations,
           NEW b \in BOOLEAN, NEW v, NEW e
    PROVE  LET l == Loop(o, b, v, e) IN
           \/ l = None
           \/ /\ l \in [name : {"load", "save"}, stage : {"read", "copy", "write"},
                        attempt : 0 .. MaxAttempts]
              /\ l.stage # "read" => ~b /\ v # Unknown
              /\ l.stage = "copy" => e # None
              /\ l.stage = "write" => e = None
  <1>1. CASE o.attempt >= MaxAttempts \/ b
    BY <1>1 DEF Loop
  <1>2. CASE ~(o.attempt >= MaxAttempts \/ b)
    <2>1. o.attempt + 1 \in 0 .. MaxAttempts
      BY <1>2, AttemptsAssumption DEF Operations
    <2> DEFINE s == IF v = Unknown THEN "read" ELSE IF e # None THEN "copy" ELSE "write"
               l == [o EXCEPT !.attempt = @ + 1, !.stage = s]
    <2>2. s \in {"read", "copy", "write"}
      OBVIOUS
    <2>3. /\ l \in [name : {"load", "save"}, stage : {"read", "copy", "write"}, attempt : 0 .. MaxAttempts]
          /\ l.stage = s
      BY <2>1, <2>2 DEF Operations
    <2>4. Loop(o, b, v, e) = l
      BY <1>2 DEF Loop
    <2> QED
      BY <1>2, <2>3, <2>4
  <1> QED
    BY <1>1, <1>2, Zenon

-----------------------------------------------------------------------------

LEMMA InitFile == Init => FileInvariant
  <1> SUFFICES ASSUME Init PROVE FileInvariant
    OBVIOUS
  <1>1. versions = 0 /\ Versions = {} /\ kind = [v \in {} |-> "valid"]
    BY DEF Init, Versions
  <1>2. kind \in [Versions -> Kinds]
    BY <1>1
  <1>3. TypeOK
    <2>1. blocked \in BOOLEAN /\ versions \in Nat
      BY DEF Init
    <2> QED
      BY <1>1, <1>2, <2>1 DEF Init, TypeOK, Operations
  <1>4. KnownIsTaken
    BY <1>1 DEF Init, KnownIsTaken
  <1>5. EvidenceIsKept /\ ReadyToWrite /\ AsideIsCorrupt
    BY <1>1 DEF Init, EvidenceIsKept, ReadyToWrite, AsideIsCorrupt, At
  <1> QED
    BY <1>3, <1>4, <1>5 DEF FileInvariant

LEMMA StepFile == FileInvariant /\ [Next]_vars => FileInvariant'
  <1>a. SUFFICES ASSUME FileInvariant, [Next]_vars PROVE FileInvariant'
    OBVIOUS
  <1>t. /\ TypeOK /\ KnownIsTaken /\ EvidenceIsKept /\ ReadyToWrite /\ AsideIsCorrupt
        /\ op # None => op \in Operations
        /\ None \notin Versions /\ Unknown \notin Versions /\ None # Unknown
    BY <1>a, MarksAssumption DEF FileInvariant, TypeOK, Operations, Versions
  <1>0. CASE UNCHANGED vars
    BY <1>0, <1>t
    DEF vars, file, memory, FileInvariant, TypeOK, Operations, Versions, KnownIsTaken,
        EvidenceIsKept, ReadyToWrite, AsideIsCorrupt, At
  <1>1. CASE External
    <2>1. UNCHANGED <<aside, memory, op, taken>> /\ (At("aside") => MovedUnderway)
      BY <1>1 DEF External, At
    <2>2. CASE \E k \in Kinds : Written(k)
      <3>1. PICK k \in Kinds : Written(k)
        BY <2>2
      <3>2. /\ versions' \in Nat /\ Versions' = Versions \cup {versions'}
            /\ versions' \notin Versions \cup {None, Unknown} /\ disk' = versions'
            /\ kind' \in [Versions' -> Kinds]
            /\ \A v \in Versions : kind'[v] = kind[v]
        BY <3>1, <1>t, WrittenIsNew
      <3>3. TypeOK'
        BY <2>1, <3>2, <1>t DEF TypeOK, Operations, memory
      <3>4. KnownIsTaken'
        BY <2>1, <3>2, <1>t DEF TypeOK, Operations, KnownIsTaken, memory
      <3>5. (EvidenceIsKept /\ ReadyToWrite /\ AsideIsCorrupt)'
        BY <2>1, <3>2, <1>t
        DEF TypeOK, Operations, EvidenceIsKept, ReadyToWrite, AsideIsCorrupt, At, memory
      <3> QED
        BY <3>3, <3>4, <3>5 DEF FileInvariant
    <2>3. CASE disk' = None /\ UNCHANGED <<versions, kind>>
      BY <2>1, <2>3, <1>t
      DEF memory, FileInvariant, TypeOK, Operations, Versions, KnownIsTaken, EvidenceIsKept,
          ReadyToWrite, AsideIsCorrupt, At
    <2> QED
      BY <1>1, <2>2, <2>3 DEF External
  <1>2. CASE Load
    BY <1>2, <1>t, AttemptsAssumption
    DEF Load, Begin, file, memory, FileInvariant, TypeOK, Operations, Versions, KnownIsTaken,
        EvidenceIsKept, ReadyToWrite, AsideIsCorrupt, At
  <1>3. CASE Save
    <2>1. op' = Loop([name |-> "save", stage |-> "read", attempt |-> 0], blocked, known, evidence)
      BY <1>3 DEF Save
    <2>2. LoopFrom(blocked, known, evidence)
      BY <2>1, <1>t, LoopStages, AttemptsAssumption DEF LoopFrom, TypeOK, Operations
    <2> QED
      BY <1>3, <2>2, <1>t
      DEF Save, Begin, LoopFrom, At, file, memory, FileInvariant, TypeOK, Operations, Versions,
          KnownIsTaken, EvidenceIsKept, ReadyToWrite, AsideIsCorrupt
  <1>4. CASE ReadAbsent
    <2>1. op # None /\ (op' = None \/ op' = Loop(op, blocked, None, evidence))
      BY <1>4 DEF ReadAbsent, At, Goes
    <2>2. LoopFrom(blocked, None, evidence)
      BY <2>1, <1>t, LoopStages DEF LoopFrom, TypeOK, Operations
    <2> QED
      BY <1>4, <2>2, <1>t
      DEF ReadAbsent, LoopFrom, At, Fault, file, memory, FileInvariant, TypeOK, Operations,
          Versions, KnownIsTaken, EvidenceIsKept, ReadyToWrite, AsideIsCorrupt
  <1>5. CASE AcceptReadable
    <2>1. op # None /\ (op' = None \/ op' = Loop(op, blocked, disk, evidence'))
      BY <1>5 DEF AcceptReadable, At, Goes
    <2>2. LoopFrom(blocked, disk, evidence')
      BY <2>1, <1>t, LoopStages DEF LoopFrom, TypeOK, Operations
    <2> QED
      BY <1>5, <2>2, <1>t
      DEF AcceptReadable, LoopFrom, At, Fault, file, memory, FileInvariant, TypeOK, Operations,
          Versions, KnownIsTaken, EvidenceIsKept, ReadyToWrite, AsideIsCorrupt
  <1>6. CASE AcceptNewer
    <2>1. op # None /\ (op' = None \/ op' = Loop(op, TRUE, known, None))
      BY <1>6 DEF AcceptNewer, At, Goes
    <2>2. LoopFrom(TRUE, known, None)
      BY <2>1 DEF Loop, LoopFrom
    <2> QED
      BY <1>6, <2>2, <1>t
      DEF AcceptNewer, LoopFrom, At, Fault, file, memory, FileInvariant, TypeOK, Operations,
          Versions, KnownIsTaken, EvidenceIsKept, ReadyToWrite, AsideIsCorrupt
  <1>7. CASE AcceptCorrupt
    <2>1. /\ op' \in [name : {"load", "save"}, stage : {"aside"}, attempt : 0 .. MaxAttempts]
          /\ op'.stage = "aside"
      BY <1>7, <1>t DEF AcceptCorrupt, At, Operations
    <2>2. /\ disk # None /\ kind[disk] = "corrupt" /\ evidence' = None
          /\ versions' = versions /\ kind' = kind /\ disk' = disk /\ aside' = aside
          /\ known' = known /\ blocked' = blocked /\ taken' = taken
      BY <1>7 DEF AcceptCorrupt, file
    <2>3. Versions' = Versions /\ At("aside")' /\ ~At("write")' /\ ~At("copy")'
      BY <2>1, <2>2, MarksAssumption DEF Versions, At, Operations
    <2>4. TypeOK'
      BY <2>1, <2>2, <2>3, <1>t DEF TypeOK, Operations
    <2>5. KnownIsTaken'
      BY <2>2, <2>3, <1>t DEF KnownIsTaken
    <2>6. (EvidenceIsKept /\ ReadyToWrite /\ AsideIsCorrupt)'
      BY <2>2, <2>3 DEF EvidenceIsKept, ReadyToWrite, AsideIsCorrupt
    <2> QED
      BY <2>4, <2>5, <2>6 DEF FileInvariant
  <1>8. CASE MoveAside
    <2>1. op # None /\ (op' = None \/ op' = Loop(op, blocked, None, evidence))
      BY <1>8 DEF MoveAside, At, Goes
    <2>2. LoopFrom(blocked, None, evidence)
      BY <2>1, <1>t, LoopStages DEF LoopFrom, TypeOK, Operations
    <2> QED
      BY <1>8, <2>2, <1>t
      DEF MoveAside, LoopFrom, At, Fault, file, memory, FileInvariant, TypeOK, Operations,
          Versions, KnownIsTaken, EvidenceIsKept, ReadyToWrite, AsideIsCorrupt
  <1>9. CASE MoveAsideFails
    <2>1. op # None /\ (op' = None \/ op' = Loop(op, TRUE, known, evidence))
      BY <1>9 DEF MoveAsideFails, At, Goes
    <2>2. LoopFrom(TRUE, known, evidence)
      BY <2>1 DEF Loop, LoopFrom
    <2> QED
      BY <1>9, <2>2, <1>t
      DEF MoveAsideFails, LoopFrom, At, Fault, file, memory, FileInvariant, TypeOK, Operations,
          Versions, KnownIsTaken, EvidenceIsKept, ReadyToWrite, AsideIsCorrupt
  <1>10. CASE Preserve
    BY <1>10, <1>t
    DEF Preserve, file, memory, FileInvariant, TypeOK, Operations, Versions, KnownIsTaken,
        EvidenceIsKept, ReadyToWrite, AsideIsCorrupt, At
  <1>11. CASE PreserveFails
    BY <1>11, <1>t
    DEF PreserveFails, Fault, file, memory, FileInvariant, TypeOK, Operations, Versions,
        KnownIsTaken, EvidenceIsKept, ReadyToWrite, AsideIsCorrupt, At
  <1>12. CASE Write
    BY <1>12, <1>t, WrittenIsNew
    DEF Write, Kinds, FileInvariant, TypeOK, Operations, KnownIsTaken, EvidenceIsKept,
        ReadyToWrite, AsideIsCorrupt, At
  <1>13. CASE WriteConflicts
    <2>1. op # None /\ (op' = None \/ op' = Loop(op, blocked, Unknown, evidence))
      BY <1>13 DEF WriteConflicts, At, Goes
    <2>2. LoopFrom(blocked, Unknown, evidence)
      BY <2>1, <1>t, LoopStages DEF LoopFrom, TypeOK, Operations
    <2> QED
      BY <1>13, <2>2, <1>t
      DEF WriteConflicts, LoopFrom, At, Fault, file, memory, FileInvariant, TypeOK, Operations,
          Versions, KnownIsTaken, EvidenceIsKept, ReadyToWrite, AsideIsCorrupt
  <1>14. CASE Fails
    <2>1. op' = None /\ UNCHANGED <<aside, memory>>
      BY <1>14 DEF Fails
    <2>2. CASE UNCHANGED <<file, taken>>
      <3>1. /\ versions' = versions /\ kind' = kind /\ disk' = disk /\ aside' = aside
            /\ known' = known /\ blocked' = blocked /\ evidence' = evidence /\ taken' = taken
        BY <2>1, <2>2 DEF file, memory
      <3>2. Versions' = Versions /\ ~At("aside")' /\ ~At("write")' /\ ~At("copy")' /\ ~At("aside")
        BY <2>1, <3>1, <1>14, <1>t DEF Versions, At, Fails
      <3>3. TypeOK'
        BY <2>1, <3>1, <3>2, <1>t DEF TypeOK, Operations
      <3>4. KnownIsTaken'
        BY <3>1, <3>2, <1>t DEF KnownIsTaken
      <3>5. (EvidenceIsKept /\ ReadyToWrite /\ AsideIsCorrupt)'
        BY <3>1, <3>2, <1>t DEF EvidenceIsKept, ReadyToWrite, AsideIsCorrupt
      <3> QED
        BY <3>3, <3>4, <3>5 DEF FileInvariant
    <2>3. CASE /\ op.stage = "write" /\ disk = known /\ Written("valid")
               /\ taken' = taken \cup {versions'}
      <3>1. /\ versions' \in Nat /\ Versions' = Versions \cup {versions'}
            /\ versions' \notin Versions \cup {None, Unknown} /\ disk' = versions'
            /\ kind' \in [Versions' -> Kinds] /\ kind'[versions'] = "valid"
            /\ \A v \in Versions : kind'[v] = kind[v]
        BY <2>3, <1>t, WrittenIsNew DEF Kinds
      <3>2. TypeOK'
        BY <2>1, <2>3, <3>1, <1>t DEF TypeOK, Operations, memory
      <3>3. KnownIsTaken'
        BY <2>1, <2>3, <3>1, <1>t DEF TypeOK, Operations, KnownIsTaken, memory
      <3>4. (EvidenceIsKept /\ ReadyToWrite /\ AsideIsCorrupt)'
        <4>1. known' = known /\ blocked' = blocked /\ evidence' = evidence /\ aside' = aside /\ op' = None
          BY <2>1 DEF memory
        <4>2. ~At("aside")
          BY <2>3, <1>t DEF At
        <4> QED
          BY <4>1, <4>2, <3>1, <1>t
          DEF TypeOK, Operations, EvidenceIsKept, ReadyToWrite, AsideIsCorrupt, At
      <3> QED
        BY <3>2, <3>3, <3>4 DEF FileInvariant
    <2> QED
      BY <1>14, <2>2, <2>3 DEF Fails
  <1>15. CASE Crash
    BY <1>15, <1>t
    DEF Crash, Fault, file, FileInvariant, TypeOK, Operations, Versions, KnownIsTaken,
        EvidenceIsKept, ReadyToWrite, AsideIsCorrupt, At
  <1> QED
    BY <1>a, <1>0, <1>1, <1>2, <1>3, <1>4, <1>5, <1>6, <1>7, <1>8, <1>9, <1>10, <1>11, <1>12, <1>13,
       <1>14, <1>15 DEF Next, Runs

LEMMA FileHolds == Spec => []FileInvariant
  BY InitFile, StepFile, PTL DEF Spec

-----------------------------------------------------------------------------

(* Every variable keeps its type.                                          *)
THEOREM TypeCorrect == Spec => []TypeOK
  BY FileHolds, PTL DEF FileInvariant

(* A write that finds the version it names.                                *)
LEMMA WritesWhatItKnows ==
    ASSUME FileInvariant, At("write"), disk = known, disk # None
    PROVE  /\ disk \in taken /\ kind[disk] \in {"valid", "partly"}
           /\ kind[disk] = "partly" => disk \in aside
  <1>1. /\ ~blocked /\ known \in Versions /\ known \in taken /\ evidence = None /\ ~At("aside")
    BY DEF FileInvariant, TypeOK, KnownIsTaken, ReadyToWrite, At
  <1> QED
    BY <1>1 DEF FileInvariant, KnownIsTaken, EvidenceIsKept

(* A save never replaces a content its owner was not given.                *)
THEOREM SavesReplaceWhatTheyTook == Spec => ReplacesWhatItTook
  <1>1. FileInvariant /\ [Next]_vars => [Replaces => disk \in taken]_vars
    BY WritesWhatItKnows DEF Replaces, Write
  <1> QED
    BY <1>1, FileHolds, PTL DEF Spec, ReplacesWhatItTook

(* A partly invalid file is replaced only once it has been copied aside.   *)
THEOREM RepairsKeepEvidence == Spec => EvidenceSurvives
  <1>1. FileInvariant /\ [Next]_vars =>
          [Replaces /\ kind[disk] = "partly" => disk \in aside]_vars
    BY WritesWhatItKnows DEF Replaces, Write
  <1> QED
    BY <1>1, FileHolds, PTL DEF Spec, EvidenceSurvives

-----------------------------------------------------------------------------

(* The file on disk changes by someone else's hand, by a write that finds  *)
(* the version it names, or by being put aside.                            *)
LEMMA WhatChangesTheFile ==
    ASSUME FileInvariant, [Next]_vars, disk' # disk, disk # None, ~External
    PROVE  \/ disk \in taken /\ kind[disk] \in {"valid", "partly"}
           \/ At("aside") /\ disk \in aside'
  <1>1. CASE (Write \/ Fails)
    <2>1. disk = known /\ At("write")
      BY <1>1 DEF Write, Fails, At, file
    <2> QED
      BY <2>1, WritesWhatItKnows
  <1>2. CASE MoveAside
    BY <1>2 DEF MoveAside
  <1>3. Write \/ Fails \/ MoveAside
    BY
    DEF Next, Runs, vars, file, Load, Save, Begin, ReadAbsent, AcceptReadable, AcceptNewer,
        AcceptCorrupt, Preserve, WriteConflicts, MoveAsideFails, PreserveFails, Crash
  <1> QED
    BY <1>1, <1>2, <1>3

(* An unreadable content leaves the disk by someone else's hand or is kept *)
(* aside, even when the file changes while it is being put aside.          *)
THEOREM UnreadableIsKept == Spec => UnreadableSurvives
  <1>1. ASSUME FileInvariant, [Next]_vars, disk # None, kind[disk] = "corrupt", disk' # disk
        PROVE  External \/ disk \in aside'
    BY <1>1, WhatChangesTheFile
  <1>2. FileInvariant /\ [Next]_vars =>
          [disk # None /\ kind[disk] = "corrupt" /\ disk' # disk => External \/ disk \in aside']_vars
    BY <1>1
  <1> QED
    BY <1>2, FileHolds, PTL DEF Spec, UnreadableSurvives

(* As long as nobody writes the file while it is being put aside, what a   *)
(* newer app wrote is neither replaced nor put away by the owner. (The     *)
(* code moves the file by its name: a file that arrives between the read   *)
(* and the move is moved too.)                                             *)
THEOREM NewerIsLeftAlone == ~MovedUnderway => (Spec => NewerIsUntouched)
  <1>a. SUFFICES ASSUME ~MovedUnderway PROVE Spec => NewerIsUntouched
    OBVIOUS
  <1>1. ASSUME FileInvariant, [Next]_vars, disk # None, kind[disk] = "newer", disk' # disk
        PROVE  External
    <2>1. At("aside") => kind[disk] = "corrupt"
      BY <1>a, <1>1 DEF FileInvariant, AsideIsCorrupt
    <2> QED
      BY <1>1, <2>1, WhatChangesTheFile
  <1>2. FileInvariant /\ [Next]_vars =>
          [disk # None /\ kind[disk] = "newer" /\ disk' # disk => External]_vars
    BY <1>1
  <1> QED
    BY <1>2, FileHolds, PTL DEF Spec, NewerIsUntouched

(* Under the same condition a content the owner could read goes only once  *)
(* the owner has it.                                                       *)
THEOREM ReadableIsGiven == ~MovedUnderway => (Spec => ReadableIsTaken)
  <1>a. SUFFICES ASSUME ~MovedUnderway PROVE Spec => ReadableIsTaken
    OBVIOUS
  <1>1. ASSUME FileInvariant, [Next]_vars, disk # None,
               kind[disk] \in {"valid", "partly"}, disk' # disk
        PROVE  External \/ disk \in taken
    <2>1. At("aside") => kind[disk] = "corrupt"
      BY <1>a, <1>1 DEF FileInvariant, AsideIsCorrupt
    <2> QED
      BY <1>1, <2>1, WhatChangesTheFile
  <1>2. FileInvariant /\ [Next]_vars =>
          [disk # None /\ kind[disk] \in {"valid", "partly"} /\ disk' # disk
             => External \/ disk \in taken]_vars
    BY <1>1
  <1> QED
    BY <1>2, FileHolds, PTL DEF Spec, ReadableIsTaken

-----------------------------------------------------------------------------
(* The connectors.                                                         *)

(* Whatever has the tool of a server that keeps to its annotation has it    *)
(* with that one.                                                          *)
KeptTo ==
    annotates # Nothing =>
        /\ \A k \in Conns : conns[k].tool \in {annotates, Nothing}
        /\ cache # Nothing => cache.tool \in {annotates, Nothing}
        /\ held \in {annotates, Nothing}

\* What a call under way was found to need, by the posture of its evaluation.
Found(decision) ==
    decision # Nothing =>
        /\ decision.posture \in {Nothing, "always"} => decision.needed
        /\ annotates = "writes" /\ decision.posture = "writes" => decision.needed

DecidedRight == \A a \in Callers : Found(decided[a])

ConnectorsInvariant ==
    /\ ConnectorsTypeOK
    /\ CacheIsCurrent
    /\ StatusIsTold
    /\ NothingIsLeftOpen
    /\ KeptTo
    /\ DecidedRight

States ==
    {"none", "idle", "connecting", "connected", "reconnecting", "error", "closing", "closed"}
Connection == [state : States, tool : Annotations \cup {Nothing}]

-----------------------------------------------------------------------------

LEMMA ConnectorsStart == ConnectorsInit => ConnectorsInvariant
<1> SUFFICES ASSUME ConnectorsInit PROVE ConnectorsInvariant
  OBVIOUS
<1>1. PICK k \in Conns :
          /\ connection = IF config = Nothing THEN Nothing ELSE k
          /\ conns = [j \in Conns |->
                [state |-> IF j = connection THEN "idle" ELSE "none", tool |-> Nothing]]
  BY DEF ConnectorsInit
<1>2. conns \in [Conns -> Connection] /\ \A j \in Conns : conns[j].tool = Nothing
  BY <1>1 DEF Connection, States
<1>3. ConnectorsTypeOK
  BY <1>1, <1>2 DEF ConnectorsInit, ConnectorsTypeOK, Connection, States
<1>4. NothingIsLeftOpen
  <2>1. \A j \in Conns : conns[j].state = IF j = connection THEN "idle" ELSE "none"
    BY <1>1
  <2> QED
    BY <2>1 DEF NothingIsLeftOpen, Made
<1>5. CacheIsCurrent /\ StatusIsTold
  BY DEF ConnectorsInit, CacheIsCurrent, StatusIsTold
<1>6. KeptTo /\ DecidedRight
  BY <1>2 DEF ConnectorsInit, KeptTo, DecidedRight, Found
<1> QED
  BY <1>3, <1>4, <1>5, <1>6 DEF ConnectorsInvariant

\* What a connection may become, the entry staying as it is: no other opens,
\* and its tool is the server's.
Moves(cs) ==
    /\ cs \in [Conns -> Connection]
    /\ \A k \in Conns :
          /\ cs[k].state \notin {"none", "closing", "closed"} => Made(k)
          /\ annotates # Nothing => cs[k].tool \in {annotates, Nothing}

LEMMA ReadiedMoves ==
    ASSUME ConnectorsInvariant, NEW k \in Conns
    PROVE  Moves(Readied(conns, k))
<1>1. conns \in [Conns -> Connection]
  BY DEF ConnectorsInvariant, ConnectorsTypeOK, Connection, States
<1>2. \A j \in Conns : annotates # Nothing => conns[j].tool \in {annotates, Nothing}
  BY DEF ConnectorsInvariant, KeptTo
<1>3. CASE Readied(conns, k) = conns
  BY <1>1, <1>2, <1>3 DEF Moves, Made
<1>4. CASE /\ conns[k].state \in {"idle", "error"}
           /\ Readied(conns, k) = [conns EXCEPT ![k].state = "connecting"]
  <2> DEFINE cs == [conns EXCEPT ![k].state = "connecting"]
  <2>1. /\ cs \in [Conns -> Connection]
        /\ cs[k].tool = conns[k].tool /\ \A j \in Conns \ {k} : cs[j] = conns[j]
    BY <1>1 DEF Connection, States
  <2> HIDE DEF cs
  <2>2. Made(k)
    BY <1>4 DEF Made
  <2> QED
    BY <1>2, <1>4, <2>1, <2>2 DEF Moves, Made, cs
<1> QED
  BY <1>3, <1>4 DEF Readied

LEMMA SameDecided ==
    ASSUME ConnectorsInvariant, UNCHANGED <<annotates, decided>>
    PROVE  decided' \in [Callers -> {Nothing} \cup Decisions] /\ DecidedRight'
BY DEF ConnectorsInvariant, ConnectorsTypeOK, DecidedRight, Found

\* A change of the connections is noticed: it drops the cached tools and has
\* the status told.
LEMMA NoticedChange ==
    ASSUME ConnectorsInvariant, Moves(conns'), Changed,
           getters' \in [Getters -> Conns \cup {Nothing}],
           reloads' \in [Reloads -> {Nothing} \cup
               [retired : Conns \cup {Nothing}, created : Conns \cup {Nothing}]],
           connectorsStarted' \in BOOLEAN,
           decided' \in [Callers -> {Nothing} \cup Decisions], DecidedRight',
           UNCHANGED <<config, connection, disposed, told, annotates, held>>
    PROVE  ConnectorsInvariant'
<1>1. ConnectorsTypeOK'
  BY DEF ConnectorsInvariant, ConnectorsTypeOK, Moves, Connection, States,
         Changed
<1>2. NothingIsLeftOpen'
  BY DEF ConnectorsInvariant, NothingIsLeftOpen, Moves, Made
<1>3. CacheIsCurrent' /\ StatusIsTold'
  BY DEF Changed, CacheIsCurrent, StatusIsTold
<1>4. DecidedRight'
  OBVIOUS
<1>5. KeptTo'
  BY DEF ConnectorsInvariant, KeptTo, Moves, Changed
<1> QED
  BY <1>1, <1>2, <1>3, <1>4, <1>5 DEF ConnectorsInvariant

\* Tools are built of what there is, or are what was built of it before.
LEMMA BuildStep ==
    ASSUME ConnectorsInvariant, Build \/ UNCHANGED <<cache, held>>,
           getters' \in [Getters -> Conns \cup {Nothing}],
           reloads' \in [Reloads -> {Nothing} \cup
               [retired : Conns \cup {Nothing}, created : Conns \cup {Nothing}]],
           connectorsStarted' \in BOOLEAN,
           UNCHANGED <<config, connection, conns, disposed, queued, told, annotates, decided>>
    PROVE  ConnectorsInvariant'
<1>1. conns \in [Conns -> Connection] /\ connection \in Conns \cup {Nothing}
  BY DEF ConnectorsInvariant, ConnectorsTypeOK, Connection, States
<1>2. /\ Built \in [tool : Annotations \cup {Nothing}]
      /\ annotates # Nothing => Built.tool \in {annotates, Nothing}
  BY <1>1 DEF Built, Connection, ConnectorsInvariant, KeptTo
<1>3. Built' = Built
  BY DEF Built
<1>4. /\ cache' \in {Nothing} \cup [tool : Annotations \cup {Nothing}]
      /\ \/ held' \in {held, Built.tool}
         \/ cache # Nothing /\ held' = cache.tool
      /\ cache' # Nothing => cache' = Built
  BY <1>2 DEF Build, ConnectorsInvariant, CacheIsCurrent, ConnectorsTypeOK
<1>5. ConnectorsTypeOK'
  BY <1>4, <1>2 DEF ConnectorsInvariant, ConnectorsTypeOK
<1>6. NothingIsLeftOpen' /\ DecidedRight' /\ CacheIsCurrent'
  BY <1>3, <1>4 DEF ConnectorsInvariant, NothingIsLeftOpen, Made,
                    DecidedRight, Found, CacheIsCurrent
<1>7. StatusIsTold'
  BY DEF ConnectorsInvariant, StatusIsTold
<1>8. KeptTo'
  BY <1>2, <1>4 DEF ConnectorsInvariant, KeptTo
<1> QED
  BY <1>5, <1>6, <1>7, <1>8 DEF ConnectorsInvariant

LEMMA GetToolsStep ==
    ASSUME ConnectorsInvariant, NEW g \in Getters, GetTools(g)
    PROVE  ConnectorsInvariant'
<1>1. /\ getters \in [Getters -> Conns \cup {Nothing}] /\ connection \in Conns \cup {Nothing}
      /\ reloads' = reloads
      /\ reloads \in [Reloads -> {Nothing} \cup
             [retired : Conns \cup {Nothing}, created : Conns \cup {Nothing}]]
      /\ connectorsStarted' \in BOOLEAN
      /\ UNCHANGED <<config, connection, disposed, told, annotates, decided>>
  BY DEF GetTools, ConnectorsInvariant, ConnectorsTypeOK
<1>2. CASE /\ connection \in Conns /\ held' = held
           /\ getters' = [getters EXCEPT ![g] = connection]
           /\ conns' = Readied(conns, connection)
           /\ IF conns' # conns THEN Changed ELSE UNCHANGED <<cache, queued>>
  <2>1. Moves(conns') /\ getters' \in [Getters -> Conns \cup {Nothing}]
    BY <1>1, <1>2, ReadiedMoves
  <2>2. CASE conns' # conns
    BY <1>1, <1>2, <2>1, <2>2, NoticedChange, SameDecided
  <2>3. CASE conns' = conns
    BY <1>1, <1>2, <2>1, <2>3, BuildStep
  <2> QED
    BY <2>2, <2>3
<1>3. CASE Build /\ UNCHANGED <<conns, queued, getters>>
  BY <1>1, <1>3, BuildStep
<1> QED
  BY <1>1, <1>2, <1>3 DEF GetTools

LEMMA GetsToolsStep ==
    ASSUME ConnectorsInvariant, NEW g \in Getters, GetsTools(g)
    PROVE  ConnectorsInvariant'
<1>1. /\ getters' \in [Getters -> Conns \cup {Nothing}]
      /\ reloads' = reloads /\ connectorsStarted' = connectorsStarted
      /\ reloads \in [Reloads -> {Nothing} \cup
             [retired : Conns \cup {Nothing}, created : Conns \cup {Nothing}]]
      /\ connectorsStarted \in BOOLEAN
      /\ UNCHANGED <<config, connection, conns, disposed, queued, told, annotates, decided>>
  BY DEF GetsTools, ConnectorsInvariant, ConnectorsTypeOK
<1>2. Build \/ UNCHANGED <<cache, held>>
  BY DEF GetsTools
<1> QED
  BY <1>1, <1>2, BuildStep

LEMMA BecomesStep ==
    ASSUME ConnectorsInvariant, NEW k \in Conns, Made(k),
           NEW s \in States, NEW t \in Annotations \cup {Nothing}, Becomes(k, s, t),
           annotates # Nothing => t \in {annotates, Nothing}
    PROVE  ConnectorsInvariant'
<1>1. conns \in [Conns -> Connection]
  BY DEF ConnectorsInvariant, ConnectorsTypeOK, Connection, States
<1>2. /\ conns' \in [Conns -> Connection] /\ conns'[k].tool = t
      /\ \A j \in Conns \ {k} : conns'[j] = conns[j]
  BY <1>1 DEF Becomes, Connection
<1>3. Moves(conns')
  BY <1>2 DEF Moves, Made, ConnectorsInvariant, KeptTo
<1> QED
  BY <1>3, NoticedChange, SameDecided DEF Becomes, ConnectorsInvariant, ConnectorsTypeOK

LEMMA ConnectionStep ==
    ASSUME ConnectorsInvariant, NEW k \in Conns,
           ConnUp(k) \/ ConnFails(k) \/ ConnLost(k) \/ ToolListChanged(k)
    PROVE  ConnectorsInvariant'
<1>1. conns[k].tool \in Annotations \cup {Nothing}
  BY DEF ConnectorsInvariant, ConnectorsTypeOK
<1>2. PICK s \in States, t \in Annotations \cup {Nothing} :
          /\ Becomes(k, s, t)
          /\ t = Nothing \/ t = conns[k].tool \/ MayAnnotate(t)
  BY <1>1 DEF ConnUp, ConnFails, ConnLost, ToolListChanged, States
<1>3. Made(k)
  BY DEF ConnUp, ConnFails, ConnLost, ToolListChanged, Made
<1>4. annotates # Nothing => t \in {annotates, Nothing}
  BY <1>2 DEF MayAnnotate, ConnectorsInvariant, KeptTo
<1> QED
  BY <1>2, <1>3, <1>4, BecomesStep

LEMMA ConnClosedStep ==
    ASSUME ConnectorsInvariant, NEW k \in Conns, ConnClosed(k)
    PROVE  ConnectorsInvariant'
<1>1. conns \in [Conns -> Connection] /\ connection \in Conns \cup {Nothing}
  BY DEF ConnectorsInvariant, ConnectorsTypeOK, Connection, States
<1>2. /\ conns' \in [Conns -> Connection]
      /\ \A j \in Conns : conns'[j].tool = conns[j].tool
      /\ \A j \in Conns \ {k} : conns'[j].state = conns[j].state
      /\ conns[k].state = "closing" /\ conns'[k].state = "closed"
  BY <1>1 DEF ConnClosed, Connection, States
<1>3. /\ UNCHANGED <<config, connection, connectorsStarted, disposed, cache, queued, told,
                     annotates, getters, reloads, held, decided>>
  BY DEF ConnClosed
<1>4. ConnectorsTypeOK'
  BY <1>2, <1>3 DEF ConnectorsInvariant, ConnectorsTypeOK, Connection, States
<1>5. NothingIsLeftOpen' /\ DecidedRight'
  BY <1>2, <1>3 DEF ConnectorsInvariant, NothingIsLeftOpen, Made, DecidedRight, Found
<1>6. Built' = Built /\ StatusOf(config, connection, conns)' = StatusOf(config, connection, conns)
  <2>1. Built' = Built
    BY <1>1, <1>2, <1>3 DEF Built
  <2>2. StatusOf(config, connection, conns') = StatusOf(config, connection, conns)
    BY <1>1, <1>2 DEF StatusOf
  <2> QED
    BY <1>3, <2>1, <2>2
<1>7. CacheIsCurrent' /\ StatusIsTold'
  BY <1>3, <1>6 DEF ConnectorsInvariant, CacheIsCurrent, StatusIsTold
<1>8. KeptTo'
  BY <1>2, <1>3 DEF ConnectorsInvariant, KeptTo
<1> QED
  BY <1>4, <1>5, <1>7, <1>8 DEF ConnectorsInvariant

LEMMA EmitStep ==
    ASSUME ConnectorsInvariant, Emit
    PROVE  ConnectorsInvariant'
<1>1. /\ UNCHANGED <<config, connection, conns, connectorsStarted, disposed, cache, annotates,
                     getters, reloads, held, decided>>
      /\ queued' = FALSE
      /\ told' = IF disposed THEN told ELSE StatusOf(config, connection, conns)
  BY DEF Emit
<1>2. ConnectorsTypeOK'
  BY <1>1 DEF ConnectorsInvariant, ConnectorsTypeOK
<1>3. NothingIsLeftOpen' /\ DecidedRight' /\ CacheIsCurrent'
  BY <1>1 DEF ConnectorsInvariant, NothingIsLeftOpen, Made, DecidedRight, Found,
              CacheIsCurrent, Built
<1>4. StatusIsTold'
  BY <1>1 DEF StatusIsTold
<1>5. KeptTo'
  BY <1>1 DEF ConnectorsInvariant, KeptTo
<1> QED
  BY <1>2, <1>3, <1>4, <1>5 DEF ConnectorsInvariant

\* Without the entry's connection, none is open.
LEMMA ClosedAre ==
    ASSUME ConnectorsInvariant, NEW cs, cs = ClosedIn(conns, connection)
    PROVE  /\ cs \in [Conns -> Connection]
           /\ \A j \in Conns : cs[j].state \in {"none", "closing", "closed"}
           /\ \A j \in Conns : annotates # Nothing => cs[j].tool \in {annotates, Nothing}
<1>1. conns \in [Conns -> Connection] /\ connection \in Conns \cup {Nothing}
  BY DEF ConnectorsInvariant, ConnectorsTypeOK, Connection, States
<1>2. \A j \in Conns : j # connection => conns[j].state \in {"none", "closing", "closed"}
  BY DEF ConnectorsInvariant, NothingIsLeftOpen, Made
<1>3. \A j \in Conns : annotates # Nothing => conns[j].tool \in {annotates, Nothing}
  BY DEF ConnectorsInvariant, KeptTo
<1>4. CASE connection # Nothing /\ conns[connection].state \notin {"closing", "closed"}
  <2>1. cs = [conns EXCEPT ![connection] = [state |-> "closing", tool |-> Nothing]]
    BY <1>4 DEF ClosedIn
  <2>2. connection \in Conns
    BY <1>1, <1>4
  <2> QED
    BY <1>1, <1>2, <1>3, <2>1, <2>2 DEF Connection, States
<1>5. CASE connection # Nothing /\ conns[connection].state \in {"closing", "closed"}
  <2>1. cs = conns
    BY <1>5 DEF ClosedIn
  <2> QED
    BY <1>1, <1>2, <1>3, <1>5, <2>1
<1>6. CASE connection = Nothing
  <2>1. cs = conns
    BY <1>6 DEF ClosedIn
  <2> QED
    BY <1>1, <1>2, <1>3, <1>6, <2>1, NothingAssumption
<1> QED
  BY <1>4, <1>5, <1>6

\* What is left of the connections when the entry has another one, or none.
Replaced ==
    /\ conns' \in [Conns -> Connection]
    /\ NothingIsLeftOpen'
    /\ \A j \in Conns : annotates # Nothing => conns'[j].tool \in {annotates, Nothing}

LEMMA ReplaceStep ==
    ASSUME ConnectorsInvariant, NEW k \in Conns, connection' = k,
           conns' = [ClosedIn(conns, connection) EXCEPT
                        ![k] = [state |-> "idle", tool |-> Nothing]]
    PROVE  Replaced
<1> DEFINE new == [state |-> "idle", tool |-> Nothing]
<1>1. new \in Connection /\ new.tool = Nothing
  BY DEF Connection, States
<1> HIDE DEF new
<1>2. PICK cs : cs = ClosedIn(conns, connection)
  OBVIOUS
<1>3. /\ cs \in [Conns -> Connection]
      /\ \A j \in Conns : cs[j].state \in {"none", "closing", "closed"}
      /\ \A j \in Conns : annotates # Nothing => cs[j].tool \in {annotates, Nothing}
  BY <1>2, ClosedAre
<1>4. conns' = [cs EXCEPT ![k] = new]
  BY <1>2 DEF new
<1>5. /\ conns' \in [Conns -> Connection] /\ conns'[k].tool = Nothing
      /\ \A j \in Conns \ {k} : conns'[j] = cs[j]
  BY <1>1, <1>3, <1>4
<1> QED
  BY <1>3, <1>5 DEF Replaced, NothingIsLeftOpen, Made

LEMMA RemoveStep ==
    ASSUME ConnectorsInvariant, connection' = Nothing,
           conns' = ClosedIn(conns, connection)
    PROVE  Replaced
<1>1. /\ conns' \in [Conns -> Connection]
      /\ \A j \in Conns : conns'[j].state \in {"none", "closing", "closed"}
      /\ \A j \in Conns : annotates # Nothing => conns'[j].tool \in {annotates, Nothing}
  BY ClosedAre
<1> QED
  BY <1>1 DEF Replaced, NothingIsLeftOpen, Made

\* What is left to show of a step whose change is noticed.
LEMMA ReplacedIs ==
    ASSUME ConnectorsInvariant, Changed, Replaced,
           connection' \in Conns \cup {Nothing}, config' \in Configs,
           reloads' \in [Reloads -> {Nothing} \cup
               [retired : Conns \cup {Nothing}, created : Conns \cup {Nothing}]],
           UNCHANGED <<connectorsStarted, disposed, told, annotates, getters, held, decided>>
    PROVE  ConnectorsInvariant'
<1>1. ConnectorsTypeOK'
  BY DEF Replaced, ConnectorsInvariant, ConnectorsTypeOK, Connection, States,
         Changed
<1>2. CacheIsCurrent' /\ StatusIsTold' /\ DecidedRight'
  BY DEF Changed, CacheIsCurrent, StatusIsTold, DecidedRight, Found, ConnectorsInvariant
<1>3. KeptTo'
  BY DEF Replaced, ConnectorsInvariant, KeptTo, Changed
<1> QED
  BY <1>1, <1>2, <1>3 DEF Replaced, ConnectorsInvariant

LEMMA ReloadStep ==
    ASSUME ConnectorsInvariant, NEW r \in Reloads, NEW c \in Configs, Reload(r, c)
    PROVE  ConnectorsInvariant'
<1>1. /\ UNCHANGED <<connectorsStarted, disposed, told, annotates, getters, held, decided>>
      /\ config' = c /\ Changed
  BY DEF Reload
<1>2. /\ conns \in [Conns -> Connection] /\ connection \in Conns \cup {Nothing}
      /\ reloads \in [Reloads -> {Nothing} \cup
             [retired : Conns \cup {Nothing}, created : Conns \cup {Nothing}]]
  BY DEF ConnectorsInvariant, ConnectorsTypeOK, Connection, States
<1>3. CASE UNCHANGED <<connection, conns, reloads>>
  <2>1. Replaced
    BY <1>2, <1>3 DEF Replaced, ConnectorsInvariant, NothingIsLeftOpen, Made, KeptTo
  <2> QED
    BY <1>1, <1>2, <1>3, <2>1, ReplacedIs
<1>4. ASSUME NEW k \in Conns, Unseen(k),
             connection' = IF c = Nothing THEN Nothing ELSE k,
             conns' = LET cs == ClosedIn(conns, connection) IN
                      IF c = Nothing THEN cs
                      ELSE [cs EXCEPT ![k] = [state |-> "idle", tool |-> Nothing]],
             reloads' = [reloads EXCEPT ![r] =
                            [retired |-> connection, created |-> connection']]
      PROVE  ConnectorsInvariant'
  <2>1. Replaced
    <3>1. CASE c = Nothing
      BY <1>4, <3>1, RemoveStep
    <3>2. CASE c # Nothing
      BY <1>4, <3>2, ReplaceStep
    <3> QED
      BY <3>1, <3>2
  <2>2. reloads' \in [Reloads -> {Nothing} \cup
            [retired : Conns \cup {Nothing}, created : Conns \cup {Nothing}]]
    BY <1>2, <1>4
  <2> QED
    BY <1>1, <1>2, <1>4, <2>1, <2>2, ReplacedIs
<1> QED
  BY <1>3, <1>4 DEF Reload

LEMMA ReloadEndsStep ==
    ASSUME ConnectorsInvariant, NEW r \in Reloads, ReloadEnds(r)
    PROVE  ConnectorsInvariant'
<1>1. /\ UNCHANGED <<config, connection, connectorsStarted, disposed, told, annotates, getters,
                     held, decided>>
      /\ reloads' = [reloads EXCEPT ![r] = Nothing] /\ reloads[r] # Nothing
  BY DEF ReloadEnds
<1>2. /\ reloads' \in [Reloads -> {Nothing} \cup
             [retired : Conns \cup {Nothing}, created : Conns \cup {Nothing}]]
      /\ reloads[r].created \in Conns \cup {Nothing}
      /\ getters \in [Getters -> Conns \cup {Nothing}] /\ connectorsStarted \in BOOLEAN
  BY <1>1 DEF ConnectorsInvariant, ConnectorsTypeOK
<1>3. CASE conns' = conns
  <2>1. UNCHANGED <<cache, queued>>
    BY <1>3 DEF ReloadEnds
  <2> QED
    BY <1>1, <1>2, <1>3, <2>1, BuildStep
<1>4. CASE conns' # conns
  <2>1. reloads[r].created \in Conns /\ conns' = Readied(conns, reloads[r].created)
    BY <1>2, <1>4 DEF ReloadEnds
  <2>2. Changed
    BY <1>4 DEF ReloadEnds
  <2>3. Moves(conns')
    BY <2>1, ReadiedMoves
  <2> QED
    BY <1>1, <1>2, <2>2, <2>3, NoticedChange, SameDecided
<1> QED
  BY <1>3, <1>4

LEMMA DisposeStep ==
    ASSUME ConnectorsInvariant, Dispose
    PROVE  ConnectorsInvariant'
<1>1. /\ UNCHANGED <<connectorsStarted, queued, told, annotates, getters, reloads, held, decided>>
      /\ disposed' = TRUE /\ config' = Nothing /\ connection' = Nothing /\ cache' = Nothing
      /\ conns' = ClosedIn(conns, connection)
  BY DEF Dispose
<1>2. Replaced
  BY <1>1, RemoveStep
<1>3. ConnectorsTypeOK'
  BY <1>1, <1>2 DEF Replaced, ConnectorsInvariant, ConnectorsTypeOK, Connection,
                    States, Configs
<1>4. CacheIsCurrent' /\ StatusIsTold' /\ DecidedRight'
  BY <1>1 DEF CacheIsCurrent, StatusIsTold, DecidedRight, Found, ConnectorsInvariant
<1>5. KeptTo'
  BY <1>1, <1>2 DEF Replaced, ConnectorsInvariant, KeptTo
<1> QED
  BY <1>2, <1>3, <1>4, <1>5 DEF Replaced, ConnectorsInvariant

\* A call moves, and nothing else.
LEMMA CallMoves ==
    ASSUME ConnectorsInvariant,
           decided' \in [Callers -> {Nothing} \cup Decisions], DecidedRight',
           UNCHANGED <<config, connection, conns, connectorsStarted, disposed, cache, queued,
                       told, annotates, getters, reloads, held>>
    PROVE  ConnectorsInvariant'
<1>1. ConnectorsTypeOK'
  BY DEF ConnectorsInvariant, ConnectorsTypeOK
<1>2. CacheIsCurrent' /\ StatusIsTold' /\ NothingIsLeftOpen'
  BY DEF ConnectorsInvariant, CacheIsCurrent, Built, StatusIsTold, StatusOf, NothingIsLeftOpen,
         Made
<1>3. KeptTo'
  BY DEF ConnectorsInvariant, KeptTo
<1> QED
  BY <1>1, <1>2, <1>3 DEF ConnectorsInvariant

\* A call is found to need what the posture and the annotation of its spec say,
\* which a server that keeps to it still has.
LEMMA EvaluateStep ==
    ASSUME ConnectorsInvariant, NEW a \in Callers, Evaluate(a)
    PROVE  ConnectorsInvariant'
<1> DEFINE found == [needed |-> RequiresApproval(held),
                     posture |-> IF config = Nothing THEN Nothing ELSE config.posture,
                     on |-> Nothing]
<1>1. /\ UNCHANGED <<config, connection, conns, connectorsStarted, disposed, cache, queued,
                     told, annotates, getters, reloads, held>>
      /\ held # Nothing
      /\ decided' = [decided EXCEPT ![a] = found]
  BY DEF Evaluate
<1>2. found \in Decisions
  BY DEF Decisions, RequiresApproval, ConnectorsInvariant, ConnectorsTypeOK, Configs
<1>3. Found(found)
  <2>1. found.posture \in {Nothing, "always"} => found.needed
    BY NothingAssumption DEF RequiresApproval, ConnectorsInvariant, ConnectorsTypeOK, Configs
  <2>2. annotates = "writes" => held = "writes"
    BY <1>1, NothingAssumption DEF ConnectorsInvariant, KeptTo, Annotations
  <2>3. annotates = "writes" /\ found.posture = "writes" => found.needed
    BY <2>2 DEF RequiresApproval
  <2> QED
    BY <2>1, <2>3 DEF Found
<1> HIDE DEF found
<1>4. decided' \in [Callers -> {Nothing} \cup Decisions]
  BY <1>1, <1>2 DEF ConnectorsInvariant, ConnectorsTypeOK
<1>5. DecidedRight'
  <2>1. \A b \in Callers : decided'[b] \in {decided[b], found}
    BY <1>1 DEF ConnectorsInvariant, ConnectorsTypeOK
  <2> QED
    BY <1>1, <1>3, <2>1 DEF ConnectorsInvariant, DecidedRight, Found
<1> QED
  BY <1>1, <1>4, <1>5, CallMoves

LEMMA CallToolStep ==
    ASSUME ConnectorsInvariant, NEW a \in Callers, CallTool(a)
    PROVE  ConnectorsInvariant'
<1> DEFINE gone == [decided[a] EXCEPT !.on = connection]
<1>1. /\ UNCHANGED <<config, connection, connectorsStarted, disposed, told, annotates,
                     getters, reloads, held>>
      /\ connection \in Conns /\ decided[a] \in Decisions
      /\ decided' = [decided EXCEPT ![a] = gone]
      /\ conns' = Readied(conns, connection)
      /\ IF conns' # conns THEN Changed ELSE UNCHANGED <<cache, queued>>
  BY DEF CallTool, ConnectorsInvariant, ConnectorsTypeOK
<1>2. /\ gone \in Decisions
      /\ gone.needed = decided[a].needed /\ gone.posture = decided[a].posture
  BY <1>1 DEF Decisions
<1>3. Found(gone)
  BY <1>2 DEF CallTool, Found, ConnectorsInvariant, DecidedRight
<1> HIDE DEF gone
<1>4. decided' \in [Callers -> {Nothing} \cup Decisions]
  BY <1>1, <1>2 DEF ConnectorsInvariant, ConnectorsTypeOK
<1>5. DecidedRight'
  <2>1. \A b \in Callers : decided'[b] \in {decided[b], gone}
    BY <1>1 DEF ConnectorsInvariant, ConnectorsTypeOK
  <2> QED
    BY <1>1, <1>3, <2>1 DEF ConnectorsInvariant, DecidedRight, Found
<1>6. CASE conns' # conns
  <2>1. /\ Moves(conns') /\ Changed
        /\ getters' \in [Getters -> Conns \cup {Nothing}]
        /\ reloads' \in [Reloads -> {Nothing} \cup
              [retired : Conns \cup {Nothing}, created : Conns \cup {Nothing}]]
        /\ connectorsStarted' \in BOOLEAN
    BY <1>1, <1>6, ReadiedMoves DEF ConnectorsInvariant, ConnectorsTypeOK
  <2> QED
    BY <1>1, <1>4, <1>5, <2>1, NoticedChange
<1>7. CASE conns' = conns
  BY <1>1, <1>4, <1>5, <1>7, CallMoves
<1> QED
  BY <1>6, <1>7

LEMMA CallEndsStep ==
    ASSUME ConnectorsInvariant, NEW a \in Callers, CallEnds(a)
    PROVE  ConnectorsInvariant'
<1>1. /\ UNCHANGED <<config, connection, conns, connectorsStarted, disposed, cache, queued,
                     told, annotates, getters, reloads, held>>
      /\ decided' = [decided EXCEPT ![a] = Nothing]
  BY DEF CallEnds
<1>2. decided' \in [Callers -> {Nothing} \cup Decisions]
  BY <1>1 DEF ConnectorsInvariant, ConnectorsTypeOK
<1>3. DecidedRight'
  <2>1. \A b \in Callers : decided'[b] \in {decided[b], Nothing}
    BY <1>1 DEF ConnectorsInvariant, ConnectorsTypeOK
  <2> QED
    BY <1>1, <2>1 DEF ConnectorsInvariant, DecidedRight, Found
<1> QED
  BY <1>1, <1>2, <1>3, CallMoves

LEMMA ConnectorsStep ==
    ConnectorsInvariant /\ [ConnectorsNext]_connectorsVars => ConnectorsInvariant'
<1> SUFFICES ASSUME ConnectorsInvariant, [ConnectorsNext]_connectorsVars
             PROVE  ConnectorsInvariant'
  OBVIOUS
<1>1. CASE UNCHANGED connectorsVars
  BY <1>1 DEF connectorsVars, ConnectorsInvariant, ConnectorsTypeOK,
     CacheIsCurrent, Built, StatusIsTold, StatusOf, NothingIsLeftOpen, Made, DecidedRight, Found, KeptTo
<1>2. ASSUME NEW g \in Getters, GetTools(g) \/ GetsTools(g)
      PROVE  ConnectorsInvariant'
  BY <1>2, GetToolsStep, GetsToolsStep
<1>3. ASSUME NEW k \in Conns,
             \/ ConnUp(k) \/ ConnFails(k) \/ ConnLost(k) \/ ToolListChanged(k)
             \/ ConnClosed(k)
      PROVE  ConnectorsInvariant'
  BY <1>3, ConnectionStep, ConnClosedStep
<1>4. CASE Emit
  BY <1>4, EmitStep
<1>5. ASSUME NEW r \in Reloads, ReloadEnds(r) \/ \E c \in Configs : Reload(r, c)
      PROVE  ConnectorsInvariant'
  BY <1>5, ReloadStep, ReloadEndsStep
<1>6. CASE Dispose
  BY <1>6, DisposeStep
<1>7. ASSUME NEW a \in Callers, Evaluate(a) \/ CallTool(a) \/ CallEnds(a)
      PROVE  ConnectorsInvariant'
  BY <1>7, EvaluateStep, CallToolStep, CallEndsStep
<1> QED
  BY <1>1, <1>2, <1>3, <1>4, <1>5, <1>6, <1>7 DEF ConnectorsNext

\* A server that keeps to its annotation, its calls having been found right:
\* those that reach a tool that writes are asked about.
LEMMA FoundIsAsked ==
    ASSUME ConnectorsTypeOK, KeptTo, DecidedRight
    PROVE  WritesAreAsked
<1> SUFFICES ASSUME annotates # Nothing, NEW a \in Callers, AtServer(a),
                    conns[decided[a].on].tool = "writes",
                    decided[a].posture \in {Nothing, "always", "writes"}
             PROVE  decided[a].needed
  BY DEF WritesAreAsked
<1>1. decided[a] \in Decisions /\ decided[a].on \in Conns
  BY DEF ConnectorsTypeOK, AtServer, Decisions
<1>2. annotates = "writes"
  BY <1>1, NothingAssumption DEF KeptTo, Annotations
<1>3. Found(decided[a])
  BY DEF DecidedRight
<1> QED
  BY <1>2, <1>3 DEF Found, AtServer

(* Whatever reloads, getTools, calls and a dispose overlap, and whatever    *)
(* the servers do meanwhile: cached tools and the status told are those of *)
(* now, no connection is left open that no entry has, and a call that      *)
(* reaches a tool that writes was found to need approval, unless the       *)
(* posture it was evaluated under asks for none, if its server keeps to    *)
(* how it annotates the tool.                                              *)
THEOREM ConnectorsAreRight == ConnectorsSpec => []ConnectorsFollow
<1>1. ConnectorsInvariant => ConnectorsFollow
  BY FoundIsAsked DEF ConnectorsInvariant, ConnectorsFollow
<1> QED
  BY <1>1, ConnectorsStart, ConnectorsStep, PTL DEF ConnectorsSpec

-----------------------------------------------------------------------------
(* A routine's runs.                                                       *)

Ledgers ==
    [state : RoutineStates, record : [RunIds -> Statuses], live : [RunIds -> LiveRun \cup {Nil}],
     notices : [RunIds -> Nat]]

(* Only the latest run's first turn goes, and what ended, ended in the     *)
(* routine's state as well.                                                *)
OnlyLatestGoes(b) ==
    \A r \in RunIds : Going(b, r) => b.state.last # Nil /\ b.state.last.run = r
EndsTogether(b) ==
    \A r \in RunIds :
        b.live[r] # Nil /\ b.live[r].finished /\ b.state.last # Nil /\ b.state.last.run = r
            => b.state.last.finished
EndedIsFinished(s) == s.last # Nil /\ s.last.status \in Finished => s.last.finished

(* A run notified once is not notified again.                              *)
NoticesAreKept(b) ==
    \A r \in RunIds :
        /\ b.notices[r] <= 1
        /\ b.notices[r] = 1 /\ b.state.last # Nil /\ b.state.last.run = r
            => b.state.last.notified

(* The time a run works fits in the time that passed, pauses left out.     *)
TimeAdds(run, badge, time, work) ==
    /\ run.pausedSince # Nil => badge = "waiting_approval" /\ run.pausedSince <= time
    /\ run.since + run.paused + work <= (IF run.pausedSince = Nil THEN time ELSE run.pausedSince)
TimesAdd(b, time, works) ==
    \A r \in RunIds : b.live[r] # Nil => TimeAdds(b.live[r], b.record[r], time, works[r])

LedgerIsRight(b) ==
    b \in Ledgers /\ OnlyLatestGoes(b) /\ EndsTogether(b) /\ EndedIsFinished(b.state)

(* What changed is run r's, and its time runs on as it did.                *)
OnlyRun(b, c, r) ==
    /\ c \in Ledgers
    /\ c.state.key = b.state.key /\ c.state.next = b.state.next /\ c.state.extra = b.state.extra
    /\ \A q \in RunIds \ {r} :
         c.record[q] = b.record[q] /\ c.live[q] = b.live[q] /\ c.notices[q] = b.notices[q]
    /\ c.live[r] = Nil <=> b.live[r] = Nil
    /\ b.live[r] # Nil =>
         c.live[r].timedOut = b.live[r].timedOut /\ WorkingTime(c.live[r], now) = WorkingTime(b.live[r], now)

(* The end of run r is told, as s, or is not.                              *)
EndIsTold(b, c, r, s) ==
    /\ b.live[r] # Nil => c.live[r].finished
    /\ b.state.last # Nil /\ b.state.last.run = r =>
         /\ c.state.last =
              [run |-> r, status |-> s, finished |-> TRUE, notified |-> TRUE]
         /\ c.notices[r] = IF ~b.state.last.notified /\ s \notin {"cancelled", "ignored"}
                           THEN b.notices[r] + 1 ELSE b.notices[r]
    /\ ~(b.state.last # Nil /\ b.state.last.run = r) =>
         c.state.last = b.state.last /\ c.notices[r] = b.notices[r]
EndIsUntold(b, c, r) ==
    /\ b.live[r] # Nil => c.live[r].finished = b.live[r].finished
    /\ c.state.last = b.state.last /\ c.notices[r] = b.notices[r]

-----------------------------------------------------------------------------

LEMMA RunFields ==
    ASSUME NEW x \in LiveRun
    PROVE  /\ x.finished \in BOOLEAN /\ x.timedOut \in BOOLEAN /\ x.since \in Nat /\ x.paused \in Nat
           /\ x.pausedSince \in Nat \cup {Nil} /\ x # Nil
  BY RoutinesAssumption DEF LiveRun

LEMMA LedgerFields ==
    ASSUME NEW b \in Ledgers
    PROVE  /\ b.state \in RoutineStates /\ b.record \in [RunIds -> Statuses]
           /\ b.live \in [RunIds -> LiveRun \cup {Nil}] /\ b.notices \in [RunIds -> Nat]
           /\ b = [state |-> b.state, record |-> b.record, live |-> b.live, notices |-> b.notices]
           /\ b.state.last # Nil => b.state.last \in LastRun
  BY DEF Ledgers, RoutineStates

(* A run that starts to wait, or goes on, works as long as before.         *)
LEMMA PausedEffect ==
    ASSUME now \in Nat, NEW b \in Ledgers, NEW r \in RunIds, NEW s \in Statuses, NEW works,
           TimesAdd(b, now, works)
    PROVE  LET c == Paused([b EXCEPT !.record[r] = s], r, s) IN
           /\ OnlyRun(b, c, r) /\ EndIsUntold(b, c, r)
           /\ c.record = [b.record EXCEPT ![r] = s] /\ c.state = b.state /\ c.notices = b.notices
           /\ works \in [RunIds -> Nat] => TimesAdd(c, now, works)
PROOF
  <1> DEFINE d == [b EXCEPT !.record[r] = s]
             c == Paused(d, r, s)
             x == b.live[r]
  <1>1. /\ d \in Ledgers /\ d.record = [b.record EXCEPT ![r] = s] /\ d.state = b.state
        /\ d.live = b.live /\ d.notices = b.notices
    BY LedgerFields DEF Ledgers
  <1>2. CASE x = Nil
    <2>1. c = d
      BY <1>1, <1>2 DEF Paused
    <2>2. OnlyRun(b, c, r) /\ EndIsUntold(b, c, r)
      BY <1>1, <1>2, <2>1, LedgerFields DEF OnlyRun, EndIsUntold
    <2>3. TimesAdd(c, now, works)
      BY <1>1, <1>2, <2>1, LedgerFields DEF TimesAdd
    <2> QED BY <1>1, <2>1, <2>2, <2>3
  <1>3. CASE x # Nil
    <2> DEFINE y == IF s = "waiting_approval"
                    THEN [x EXCEPT !.pausedSince = IF @ = Nil THEN now ELSE @]
                    ELSE IF x.pausedSince = Nil THEN x
                    ELSE [x EXCEPT !.paused = @ + (now - x.pausedSince), !.pausedSince = Nil]
    <2>1. x \in LiveRun /\ TimeAdds(x, b.record[r], now, works[r])
      BY <1>3, LedgerFields DEF TimesAdd
    <2>2. /\ y \in LiveRun /\ y.finished = x.finished /\ y.timedOut = x.timedOut
          /\ WorkingTime(y, now) = WorkingTime(x, now)
          /\ works[r] \in Nat => TimeAdds(y, s, now, works[r])
      <3>1. CASE s = "waiting_approval" /\ x.pausedSince = Nil
        <4>1. y = [x EXCEPT !.pausedSince = now]
          BY <3>1
        <4>2. /\ y \in LiveRun /\ y.finished = x.finished /\ y.timedOut = x.timedOut
              /\ y.since = x.since /\ y.paused = x.paused /\ y.pausedSince = now
          BY <2>1, <4>1 DEF LiveRun
        <4> HIDE DEF y
        <4> QED BY <2>1, <3>1, <4>2, RunFields, RoutinesAssumption DEF WorkingTime, TimeAdds
      <3>2. CASE s = "waiting_approval" /\ x.pausedSince # Nil
        <4>1. y = x
          BY <2>1, <3>2 DEF LiveRun
        <4> HIDE DEF y
        <4> QED BY <2>1, <3>2, <4>1, RunFields DEF TimeAdds
      <3>3. CASE s # "waiting_approval" /\ x.pausedSince = Nil
        <4>1. y = x
          BY <3>3
        <4> HIDE DEF y
        <4> QED BY <2>1, <3>3, <4>1, RunFields DEF TimeAdds
      <3>4. CASE s # "waiting_approval" /\ x.pausedSince # Nil
        <4>1. x.pausedSince \in Nat /\ x.pausedSince <= now /\ now - x.pausedSince \in Nat
          BY <2>1, <3>4, RunFields DEF TimeAdds
        <4>2. /\ y = [x EXCEPT !.paused = x.paused + (now - x.pausedSince), !.pausedSince = Nil]
              /\ x.paused + (now - x.pausedSince) \in Nat
          BY <2>1, <3>4, <4>1, RunFields
        <4>3. /\ y \in LiveRun /\ y.finished = x.finished /\ y.timedOut = x.timedOut
              /\ y.since = x.since /\ y.paused = x.paused + (now - x.pausedSince)
              /\ y.pausedSince = Nil
          BY <2>1, <4>2 DEF LiveRun
        <4> HIDE DEF y
        <4> QED BY <2>1, <3>4, <4>1, <4>3, RunFields DEF WorkingTime, TimeAdds
      <3> QED BY <3>1, <3>2, <3>3, <3>4
    <2>4. c = [d EXCEPT !.live = [b.live EXCEPT ![r] = y]]
      BY <1>1, <1>3, LedgerFields DEF Paused
    <2>5. /\ c \in Ledgers /\ c.record = [b.record EXCEPT ![r] = s] /\ c.state = b.state
          /\ c.live = [b.live EXCEPT ![r] = y] /\ c.notices = b.notices
      BY <1>1, <2>2, <2>4, LedgerFields DEF Ledgers
    <2>6. c.live[r] = y /\ y # Nil /\ \A q \in RunIds \ {r} : c.live[q] = b.live[q]
      BY <2>2, <2>5, RunFields, LedgerFields
    <2> HIDE DEF c, y
    <2>7. OnlyRun(b, c, r) /\ EndIsUntold(b, c, r)
      BY <1>3, <2>2, <2>5, <2>6, LedgerFields DEF OnlyRun, EndIsUntold
    <2>8. works \in [RunIds -> Nat] => TimesAdd(c, now, works)
      BY <1>3, <2>2, <2>5, <2>6, LedgerFields DEF TimesAdd
    <2> QED BY <2>5, <2>7, <2>8 DEF c
  <1> QED BY <1>2, <1>3

(* The end of a turn.                                                      *)
LEMMA FinalizeEffect ==
    ASSUME now \in Nat, NEW b \in Ledgers, NEW r \in RunIds, NEW s \in Finished
    PROVE  LET c == Finalize(b, r, s) IN
           /\ OnlyRun(b, c, r) /\ EndIsTold(b, c, r, s) /\ c.record = b.record
           /\ \A time, works : TimesAdd(b, time, works) => TimesAdd(c, time, works)
PROOF
  <1> DEFINE c == Finalize(b, r, s)
             x == b.live[r]
             y == IF x = Nil THEN x ELSE [x EXCEPT !.finished = TRUE]
             last == b.state.last
             isLast == last # Nil /\ last.run = r
             ends == [run |-> r, status |-> s, finished |-> TRUE, notified |-> TRUE]
             ended == [b EXCEPT !.live = [b.live EXCEPT ![r] = y]]
             more == IF ~last.notified /\ s \notin {"cancelled", "ignored"}
                     THEN b.notices[r] + 1 ELSE b.notices[r]
  <1>1. /\ x # Nil => /\ x \in LiveRun /\ y \in LiveRun /\ y # Nil /\ y.finished
                      /\ y.timedOut = x.timedOut /\ y.since = x.since /\ y.paused = x.paused
                      /\ y.pausedSince = x.pausedSince /\ WorkingTime(y, now) = WorkingTime(x, now)
        /\ x = Nil => y = Nil
    <2>1. CASE x = Nil
      BY <2>1
    <2>2. CASE x # Nil
      <3>1. x \in LiveRun /\ y = [x EXCEPT !.finished = TRUE]
        BY <2>2, LedgerFields
      <3>2. /\ y \in LiveRun /\ y.finished /\ y.timedOut = x.timedOut /\ y.since = x.since
            /\ y.paused = x.paused /\ y.pausedSince = x.pausedSince
        BY <3>1 DEF LiveRun
      <3>3. WorkingTime(y, now) = WorkingTime(x, now)
        BY <3>2 DEF WorkingTime
      <3> HIDE DEF x, y
      <3>4. y # Nil
        BY <3>2, RunFields
      <3> QED BY <2>2, <3>1, <3>2, <3>3, <3>4
    <2> QED BY <2>1, <2>2
  <1>2. /\ ended \in Ledgers /\ ended.state = b.state /\ ended.record = b.record
        /\ ended.notices = b.notices /\ ended.live = [b.live EXCEPT ![r] = y]
        /\ (IF b.live[r] = Nil THEN b ELSE [b EXCEPT !.live[r].finished = TRUE]) = ended
    BY <1>1, LedgerFields DEF Ledgers
  <1>3. isLast => last \in LastRun /\ ends \in LastRun
    BY LedgerFields DEF LastRun, Statuses
  <1>4. CASE ~isLast
    <2>1. c = ended
      BY <1>2, <1>4 DEF Finalize
    <2> QED BY <1>1, <1>2, <1>4, <2>1, LedgerFields DEF OnlyRun, EndIsTold, TimesAdd, TimeAdds
  <1>5. CASE isLast
    <2>1. c = [ended EXCEPT !.state.last = ends, !.notices[r] = more]
      BY <1>2, <1>3, <1>5, LedgerFields DEF Finalize
    <2>2. /\ c.state = [b.state EXCEPT !.last = ends] /\ c.record = b.record
          /\ c.live = [b.live EXCEPT ![r] = y] /\ c.notices = [b.notices EXCEPT ![r] = more]
          /\ c = [state |-> c.state, record |-> c.record, live |-> c.live, notices |-> c.notices]
      BY <1>2, <2>1 DEF Ledgers
    <2>3. more \in Nat
      BY LedgerFields
    <2>4. c.state \in RoutineStates /\ c.state.last = ends /\ c.state.key = b.state.key
          /\ c.state.next = b.state.next /\ c.state.extra = b.state.extra
      BY <1>3, <1>5, <2>2, LedgerFields DEF RoutineStates
    <2>5. c \in Ledgers
      <3> HIDE DEF c, y, more, ended
      <3>1. [b.live EXCEPT ![r] = y] \in [RunIds -> LiveRun \cup {Nil}]
        BY <1>1, LedgerFields
      <3>2. [b.notices EXCEPT ![r] = more] \in [RunIds -> Nat]
        BY <2>3, LedgerFields
      <3> QED BY <2>2, <2>4, <3>1, <3>2, LedgerFields DEF Ledgers
    <2> HIDE DEF c, y, ended
    <2>6. OnlyRun(b, c, r)
      BY <1>1, <2>2, <2>4, <2>5, LedgerFields DEF OnlyRun
    <2>7. EndIsTold(b, c, r, s)
      BY <1>1, <1>5, <2>2, <2>4, LedgerFields DEF EndIsTold
    <2>8. \A time, works : TimesAdd(b, time, works) => TimesAdd(c, time, works)
      BY <1>1, <2>2, LedgerFields DEF TimesAdd, TimeAdds
    <2> QED BY <2>2, <2>6, <2>7, <2>8 DEF c
  <1> QED BY <1>4, <1>5

(* A badge is set: a badge that says an end tells it, unless the subagent  *)
(* is about to, or the run was stopped for its time.                       *)
TellsEnd(b, r, s, w) ==
    /\ b.record[r] # s /\ s \in Finished /\ ~w
    /\ ~(b.live[r] # Nil /\ b.live[r].timedOut /\ s = "cancelled")

LEMMA StatusEffect ==
    ASSUME now \in Nat, NEW b \in Ledgers, NEW r \in RunIds, NEW s \in Statuses, NEW w \in BOOLEAN,
           NEW works \in [RunIds -> Nat], TimesAdd(b, now, works)
    PROVE  LET c == SetStatus(b, r, s, w) IN
           /\ OnlyRun(b, c, r) /\ c.record = [b.record EXCEPT ![r] = s]
           /\ TimesAdd(c, now, works)
           /\ TellsEnd(b, r, s, w) => EndIsTold(b, c, r, s)
           /\ ~TellsEnd(b, r, s, w) => EndIsUntold(b, c, r)
PROOF
  <1> DEFINE c == SetStatus(b, r, s, w)
             p == Paused([b EXCEPT !.record[r] = s], r, s)
             f == Finalize(p, r, s)
  <1>1. CASE b.record[r] = s
    <2>1. c = b /\ b.record = [b.record EXCEPT ![r] = s]
      BY <1>1, LedgerFields DEF SetStatus
    <2> QED BY <1>1, <2>1, LedgerFields DEF OnlyRun, EndIsUntold, TellsEnd
  <1>2. CASE b.record[r] # s
    <2>1. /\ OnlyRun(b, p, r) /\ EndIsUntold(b, p, r) /\ TimesAdd(p, now, works)
          /\ p.record = [b.record EXCEPT ![r] = s] /\ p.state = b.state /\ p.notices = b.notices
      BY PausedEffect
    <2>2. p \in Ledgers
      BY <2>1 DEF OnlyRun
    <2>3. c = IF TellsEnd(b, r, s, w) THEN f ELSE p
      <3>1. c = OnRecord([b EXCEPT !.record[r] = s], r, s, w)
        BY <1>2 DEF SetStatus
      <3>2. [b EXCEPT !.record[r] = s].live = b.live
        BY LedgerFields
      <3> QED BY <1>2, <3>1, <3>2 DEF OnRecord, TellsEnd
    <2>4. CASE ~TellsEnd(b, r, s, w)
      BY <2>1, <2>3, <2>4
    <2>5. CASE TellsEnd(b, r, s, w)
      <3>1. s \in Finished
        BY <2>5 DEF TellsEnd
      <3> HIDE DEF p
      <3>2. /\ OnlyRun(p, f, r) /\ EndIsTold(p, f, r, s) /\ f.record = p.record
            /\ TimesAdd(f, now, works)
        BY <2>1, <2>2, <3>1, FinalizeEffect
      <3> HIDE DEF f
      <3>3. OnlyRun(b, f, r)
        BY <2>1, <3>2 DEF OnlyRun
      <3>4. EndIsTold(b, f, r, s)
        BY <2>1, <3>2 DEF EndIsTold, OnlyRun
      <3> HIDE DEF c
      <3> QED BY <2>1, <2>3, <2>5, <3>2, <3>3, <3>4 DEF c
    <2> QED BY <2>4, <2>5
  <1> QED BY <1>1, <1>2

(* What is right stays right where one run changed, and may have ended.    *)
RunKept(b, c, r) ==
    /\ OnlyRun(b, c, r) /\ LedgerIsRight(c)
    /\ NoticesAreKept(b) => NoticesAreKept(c)
    /\ \A q \in RunIds : Going(c, q) => Going(b, q)
    /\ c.state.last = Nil <=> b.state.last = Nil
    /\ b.state.last # Nil =>
         /\ c.state.last.run = b.state.last.run
         /\ b.state.last.run # r => c.state.last = b.state.last

LEMMA TellingKeeps ==
    ASSUME NEW b, NEW c, NEW r \in RunIds, NEW s \in Finished, LedgerIsRight(b), OnlyRun(b, c, r),
           EndIsTold(b, c, r, s) \/ EndIsUntold(b, c, r)
    PROVE  RunKept(b, c, r)
PROOF
  <1>1. b \in Ledgers /\ c \in Ledgers
    BY DEF LedgerIsRight, OnlyRun
  <1>2. /\ c.state.last = Nil <=> b.state.last = Nil
        /\ b.state.last # Nil =>
             /\ c.state.last.run = b.state.last.run
             /\ b.state.last.run # r => c.state.last = b.state.last
    <2>1. CASE EndIsUntold(b, c, r)
      BY <2>1 DEF EndIsUntold
    <2>2. CASE EndIsTold(b, c, r, s)
      <3>1. b.state.last # Nil /\ b.state.last.run = r => c.state.last \in LastRun
        <4>1. [run |-> r, status |-> s, finished |-> TRUE, notified |-> TRUE] \in LastRun
          BY DEF LastRun, Statuses
        <4> QED BY <2>2, <4>1 DEF EndIsTold
      <3> QED BY <2>2, <3>1, RoutinesAssumption DEF EndIsTold
    <2> QED BY <2>1, <2>2
  <1>3. \A q \in RunIds : Going(c, q) => Going(b, q)
    BY DEF OnlyRun, Going, EndIsTold, EndIsUntold
  <1>4. OnlyLatestGoes(c)
    BY <1>2, <1>3 DEF LedgerIsRight, OnlyLatestGoes
  <1>5. EndsTogether(c) /\ EndedIsFinished(c.state)
    <2>1. CASE EndIsUntold(b, c, r)
      <3>1. \A q \in RunIds : /\ c.live[q] = Nil <=> b.live[q] = Nil
                              /\ c.live[q] # Nil => c.live[q].finished = b.live[q].finished
        BY <2>1 DEF OnlyRun, EndIsUntold
      <3> QED BY <2>1, <3>1 DEF EndIsUntold, LedgerIsRight, EndsTogether, EndedIsFinished
    <2>2. CASE EndIsTold(b, c, r, s)
      <3>1. CASE b.state.last # Nil /\ b.state.last.run = r
        BY <2>2, <3>1 DEF EndIsTold, EndsTogether, EndedIsFinished
      <3>2. CASE ~(b.state.last # Nil /\ b.state.last.run = r)
        <4>1. c.state.last = b.state.last
          BY <2>2, <3>2 DEF EndIsTold
        <4> QED BY <3>2, <4>1 DEF OnlyRun, LedgerIsRight, EndsTogether, EndedIsFinished
      <3> QED BY <3>1, <3>2
    <2> QED BY <2>1, <2>2
  <1>6. NoticesAreKept(b) => NoticesAreKept(c)
    <2> SUFFICES ASSUME NoticesAreKept(b), NEW q \in RunIds
                 PROVE  /\ c.notices[q] <= 1
                        /\ c.notices[q] = 1 /\ c.state.last # Nil /\ c.state.last.run = q
                             => c.state.last.notified
      BY DEF NoticesAreKept
    <2>1. b.notices[q] \in Nat /\ c.notices[q] \in Nat
      BY <1>1, LedgerFields
    <2>2. CASE c.state.last = b.state.last /\ c.notices[q] = b.notices[q]
      BY <2>2 DEF NoticesAreKept
    <2>3. CASE EndIsTold(b, c, r, s) /\ b.state.last # Nil /\ b.state.last.run = r
      <3>1. c.state.last.run = r /\ c.state.last.notified
        BY <2>3 DEF EndIsTold
      <3>2. b.notices[r] \in Nat /\ b.notices[r] <= 1 /\ (b.notices[r] = 1 => b.state.last.notified)
        BY <1>1, <2>3, LedgerFields DEF NoticesAreKept
      <3>3. c.notices[r] = b.notices[r] \/ (~b.state.last.notified /\ c.notices[r] = b.notices[r] + 1)
        BY <2>3 DEF EndIsTold
      <3>4. q # r => c.notices[q] = b.notices[q]
        BY DEF OnlyRun
      <3> QED BY <2>1, <3>1, <3>2, <3>3, <3>4 DEF NoticesAreKept
    <2> QED BY <2>2, <2>3 DEF OnlyRun, EndIsTold, EndIsUntold
  <1> QED BY <1>1, <1>2, <1>3, <1>4, <1>5, <1>6 DEF LedgerIsRight, RunKept

LEMMA KeptTwice ==
    ASSUME NEW b, NEW c, NEW d, NEW r \in RunIds, RunKept(b, c, r), RunKept(c, d, r)
    PROVE  RunKept(b, d, r)
  <1>1. OnlyRun(b, d, r)
    BY DEF RunKept, OnlyRun
  <1> QED BY <1>1 DEF RunKept

LEMMA StatusKeeps ==
    ASSUME now \in Nat, NEW b, LedgerIsRight(b), NEW r \in RunIds, NEW s \in Statuses,
           NEW w \in BOOLEAN, NEW works \in [RunIds -> Nat], TimesAdd(b, now, works)
    PROVE  LET c == SetStatus(b, r, s, w) IN
           /\ RunKept(b, c, r) /\ TimesAdd(c, now, works) /\ c.record[r] = s
           /\ TellsEnd(b, r, s, w) => EndIsTold(b, c, r, s)
           /\ ~TellsEnd(b, r, s, w) => EndIsUntold(b, c, r)
PROOF
  <1> DEFINE c == SetStatus(b, r, s, w)
  <1>1. /\ OnlyRun(b, c, r) /\ TimesAdd(c, now, works)
        /\ c.record = [b.record EXCEPT ![r] = s]
        /\ TellsEnd(b, r, s, w) => EndIsTold(b, c, r, s)
        /\ ~TellsEnd(b, r, s, w) => EndIsUntold(b, c, r)
    BY StatusEffect DEF LedgerIsRight
  <1> HIDE DEF c
  <1>2. c.record[r] = s
    BY <1>1, LedgerFields DEF LedgerIsRight
  <1>3. RunKept(b, c, r)
    <2>1. CASE TellsEnd(b, r, s, w)
      BY <1>1, <2>1, TellingKeeps DEF TellsEnd
    <2>2. CASE ~TellsEnd(b, r, s, w)
      <3>1. "done" \in Finished
        BY DEF Finished
      <3> QED BY <1>1, <2>2, <3>1, TellingKeeps
    <2> QED BY <2>1, <2>2
  <1> QED BY <1>1, <1>2, <1>3 DEF c

-----------------------------------------------------------------------------
(* The invariant of a routine.                                             *)

(* Of runs that have not begun there is nothing.                           *)
Unborn(b, workers, count) ==
    /\ \A r \in RunIds : r > count =>
         b.record[r] = "none" /\ b.live[r] = Nil /\ b.notices[r] = 0 /\ workers[r] = "none"
    /\ b.state.last # Nil => b.state.last.run <= count

(* Who is on a run goes with its badge; a first turn that goes has somebody*)
(* in charge, who closes it once its time is over; an end is recorded.     *)
MannedAt(b, r, worker, resumed) ==
    /\ worker = "triage" => b.record[r] = "triaging"
    /\ worker = "working" => b.record[r] # "cancelled"
    /\ Going(b, r) => /\ b.live[r].timedOut => worker = "closing"
                      /\ worker # "none" \/ r = resumed
    /\ b.state.last # Nil /\ b.state.last.run = r /\ b.record[r] \in Finished /\ worker = "none"
         => /\ b.state.last.finished
            /\ b.state.last.status = b.record[r] \/ (b.live[r] # Nil /\ b.live[r].timedOut)
Manned(b, workers, resumed) == \A r \in RunIds : MannedAt(b, r, workers[r], resumed)

(* The planned slot is later than the last one a run was started for, and  *)
(* than the switch.                                                        *)
SlotIsAhead(s, on, time, slot, since) ==
    /\ slot # Nil /\ slot <= time
    /\ s.next # Nil => s.next > slot /\ (on => s.next > since)

(* After a look no run that goes is over its time.                         *)
LookedAt(b, tick, time) ==
    tick # Nil =>
      /\ tick <= time + 1
      /\ tick > time => \A r \in RunIds :
            Going(b, r) => b.live[r].timedOut \/ WorkingTime(b.live[r], time) <= MaxWork

FilesAreRight ==
    /\ \A r \in RunIds : r > begun => savedRecord[r] = "none"
    /\ savedState.last # Nil => savedState.last.run <= begun
    /\ EndedIsFinished(savedState)

(* While stopped, what is on disk is what was in memory.                   *)
StoppedIsSaved ==
    mode = "stopped" =>
      /\ wake = Nil /\ \A r \in RunIds : agent[r] = "none"
      /\ crashes = 0 => savedState = state /\ savedRecord = record

RoutinesInvariant ==
    /\ RoutinesTypeOK
    /\ LedgerIsRight(Books) /\ TimesAdd(Books, now, worked)
    /\ crashes = 0 => NoticesAreKept(Books)
    /\ Unborn(Books, agent, begun)
    /\ mode # "stopped" => Manned(Books, agent, resuming)
    /\ resuming # Nil => mode = "starting" /\ resuming <= begun
    /\ wake # Nil => enabled /\ mode # "stopped"
    /\ onSince <= now
    /\ crashes = 0 => SlotIsAhead(state, enabled, now, lastSlot, onSince)
    /\ LookedAt(Books, wake, now)
    /\ FilesAreRight
    /\ StoppedIsSaved

-----------------------------------------------------------------------------

LEMMA RunIdsFacts ==
    /\ RunIds \subseteq Nat \ {0} /\ Nil \notin RunIds /\ Nil \notin Nat
    /\ \A n \in Nat : n < MaxRuns => n + 1 \in RunIds
  BY RoutinesAssumption DEF RunIds

LEMMA BooksFields ==
    /\ Books.state = state /\ Books.record = record /\ Books.live = live /\ Books.notices = notices
    /\ RoutinesTypeOK => Books \in Ledgers
    /\ \A b \in Ledgers : Keep(b) <=> Books' = b
  <1>1. RoutinesTypeOK => Books \in Ledgers
    BY DEF Books, RoutinesTypeOK, Ledgers
  <1>2. \A b \in Ledgers : Keep(b) <=> Books' = b
    BY DEF Keep, Books, Ledgers
  <1> QED BY <1>1, <1>2 DEF Books

LEMMA StatusNames ==
    /\ Finished \subseteq Statuses /\ Active \subseteq Statuses /\ Resumable \subseteq Active
    /\ {"working", "triaging"} \subseteq Active /\ {"failed", "cancelled"} \subseteq Finished
    /\ "working" \in Resumable /\ Active \cap Finished = {} /\ "none" \notin Active \cup Finished
    /\ Endings \subseteq Finished \ {"cancelled"}
    /\ {"none", "triage", "working", "closing"} = Workers
  BY RoutinesAssumption DEF Statuses, Active, Resumable, Finished, Workers

(* What the invariant promises.                                            *)
LEMMA RunsOnceFollows == RoutinesInvariant => RoutinesRunOnce
PROOF
  <1> SUFFICES ASSUME RoutinesInvariant PROVE RoutinesRunOnce
    OBVIOUS
  <1>1. RoutinesTypeOK /\ Books \in Ledgers
    BY BooksFields DEF RoutinesInvariant
  <1>2. NeverTwoRuns
    BY DEF RoutinesInvariant, LedgerIsRight, OnlyLatestGoes, NeverTwoRuns, FirstTurn
  <1>3. NotifiedOnce
    BY BooksFields DEF RoutinesInvariant, NotifiedOnce, NoticesAreKept
  <1>4. EndIsRecorded
    <2> SUFFICES ASSUME mode # "stopped", state.last # Nil, Ended(state.last.run)
                 PROVE  /\ state.last.finished
                        /\ state.last.status = record[state.last.run] \/ TimedOutOnce(state.last.run)
      BY DEF EndIsRecorded
    <2>1. state.last \in LastRun
      BY <1>1, BooksFields, LedgerFields
    <2>2. state.last.run \in RunIds
      BY <2>1 DEF LastRun
    <2>3. MannedAt(Books, state.last.run, agent[state.last.run], resuming)
      BY <2>2 DEF RoutinesInvariant, Manned
    <2> QED BY <2>3, BooksFields DEF MannedAt, Ended, TimedOutOnce
  <1>5. SlotIsFree
    BY RunIdsFacts DEF RoutinesInvariant, SlotIsFree, Manned, MannedAt
  <1>6. WorkIsLimited
    <2> SUFFICES ASSUME wake # Nil
                 PROVE  /\ wake <= now + 1
                        /\ wake > now => \A r \in RunIds : FirstTurn(r) => worked[r] <= MaxWork
      BY DEF WorkIsLimited
    <2>1. wake <= now + 1
      BY DEF RoutinesInvariant, LookedAt
    <2> SUFFICES ASSUME wake > now, NEW r \in RunIds, FirstTurn(r) PROVE worked[r] <= MaxWork
      BY <2>1
    <2>2. Going(Books, r) /\ agent[r] # "closing" /\ live[r] # Nil
      BY BooksFields DEF FirstTurn, Going
    <2>3. ~live[r].timedOut
      BY <2>2, BooksFields DEF RoutinesInvariant, Manned, MannedAt
    <2>4. WorkingTime(live[r], now) <= MaxWork
      BY <2>2, <2>3, BooksFields DEF RoutinesInvariant, LookedAt
    <2>5. TimeAdds(live[r], record[r], now, worked[r])
      BY <2>2, BooksFields DEF RoutinesInvariant, TimesAdd
    <2>6. live[r] \in LiveRun /\ worked[r] \in Nat /\ now \in Nat
      BY <1>1, <2>2 DEF RoutinesTypeOK
    <2> QED BY <2>4, <2>5, <2>6, RunFields, RoutinesAssumption DEF TimeAdds, WorkingTime
  <1>7. SlotRunsOnce
    BY DEF RoutinesInvariant, SlotRunsOnce, SlotIsAhead
  <1> QED BY <1>1, <1>2, <1>3, <1>4, <1>5, <1>6, <1>7 DEF RoutinesRunOnce

LEMMA RoutinesStart == RoutinesInit => RoutinesInvariant
PROOF
  <1> SUFFICES ASSUME RoutinesInit PROVE RoutinesInvariant
    OBVIOUS
  <1>1. Blank \in RoutineStates /\ Blank.last = Nil /\ Blank.next = Nil
    BY DEF Blank, RoutineStates
  <1>2. RoutinesTypeOK
    BY <1>1, RoutinesAssumption, RunIdsFacts DEF RoutinesInit, RoutinesTypeOK, Statuses, Workers
  <1>3. Books \in Ledgers /\ Books.state = Blank /\ \A r \in RunIds :
          Books.record[r] = "none" /\ Books.live[r] = Nil /\ Books.notices[r] = 0
    BY <1>2, BooksFields DEF RoutinesInit
  <1>4. \A r \in RunIds : ~Going(Books, r)
    BY <1>3 DEF Going
  <1>5. LedgerIsRight(Books) /\ TimesAdd(Books, now, worked) /\ NoticesAreKept(Books)
    BY <1>1, <1>3, <1>4
       DEF LedgerIsRight, OnlyLatestGoes, EndsTogether, EndedIsFinished, TimesAdd, NoticesAreKept
  <1>6. Unborn(Books, agent, begun) /\ Manned(Books, agent, resuming) /\ LookedAt(Books, wake, now)
    BY <1>1, <1>3, <1>4 DEF RoutinesInit, Unborn, Manned, MannedAt, LookedAt, Finished
  <1> QED BY <1>1, <1>2, <1>5, <1>6, RunIdsFacts
          DEF RoutinesInit, RoutinesInvariant, SlotIsAhead, FilesAreRight, EndedIsFinished, StoppedIsSaved

-----------------------------------------------------------------------------
(* A step that is one run's: what it must show is that the run is still    *)
(* manned.                                                                 *)
LEMMA RunStep ==
    ASSUME RoutinesInvariant, mode # "stopped",
           NEW r \in RunIds, r <= begun, NEW c, NEW worker \in Workers,
           RunKept(Books, c, r), Keep(c), agent' = [agent EXCEPT ![r] = worker],
           worked' \in [RunIds -> Nat], TimesAdd(c, now, worked'),
           interrupted' \subseteq RunIds, resuming' \in {resuming, Nil},
           resuming' # resuming => resuming = r, MannedAt(c, r, worker, resuming'),
           UNCHANGED <<now, schedule, savedFiles, begun, mode, enabled, wake, lastSlot, onSince,
                       stops, crashes, switches>>
    PROVE  RoutinesInvariant'
PROOF
  <1>1. RoutinesTypeOK /\ Books \in Ledgers /\ c \in Ledgers /\ Books' = c
    BY BooksFields DEF RoutinesInvariant, RunKept, OnlyRun
  <1>2. state' = c.state /\ record' = c.record /\ live' = c.live /\ notices' = c.notices
    BY DEF Keep
  <1>3. RoutinesTypeOK'
    BY <1>1, <1>2, LedgerFields DEF RoutinesTypeOK, savedFiles
  <1>4. LedgerIsRight(Books)' /\ (crashes = 0 => NoticesAreKept(Books))' /\ TimesAdd(Books, now, worked)'
    BY <1>1 DEF RoutinesInvariant, RunKept
  <1>5. \A q \in RunIds : Going(c, q) =>
          /\ Going(Books, q) /\ c.live[q].timedOut = Books.live[q].timedOut
          /\ WorkingTime(c.live[q], now) = WorkingTime(Books.live[q], now)
    BY DEF RunKept, OnlyRun, Going
  <1>6. Unborn(Books, agent, begun)'
    <2>1. Unborn(Books, agent, begun) /\ agent \in [RunIds -> Workers] /\ begun \in Nat
      BY <1>1 DEF RoutinesInvariant, RoutinesTypeOK
    <2>2. \A q \in RunIds : q > begun => q # r
      BY <2>1, RunIdsFacts
    <2>3. Unborn(c, agent', begun)
      BY <2>1, <2>2 DEF Unborn, RunKept, OnlyRun
    <2> QED BY <1>1, <2>3
  <1>7. Manned(Books, agent, resuming)'
    <2>1. SUFFICES ASSUME NEW q \in RunIds, q # r PROVE MannedAt(c, q, agent[q], resuming')
      BY <1>1 DEF Manned, RoutinesTypeOK
    <2>2. MannedAt(Books, q, agent[q], resuming)
      BY DEF RoutinesInvariant, Manned
    <2>3. c.record[q] = Books.record[q] /\ c.live[q] = Books.live[q]
      BY <2>1 DEF RunKept, OnlyRun
    <2>4. c.state.last # Nil /\ c.state.last.run = q =>
            Books.state.last # Nil /\ Books.state.last.run = q /\ c.state.last = Books.state.last
      BY <2>1 DEF RunKept
    <2>5. q = resuming => q = resuming'
      BY <2>1
    <2> QED BY <1>5, <2>2, <2>3, <2>4, <2>5 DEF MannedAt
  <1>8. (crashes = 0 => SlotIsAhead(state, enabled, now, lastSlot, onSince))'
    BY <1>2, BooksFields DEF RoutinesInvariant, SlotIsAhead, RunKept, OnlyRun
  <1>9. LookedAt(Books, wake, now)'
    <2>1. LookedAt(c, wake, now)
      BY <1>5 DEF RoutinesInvariant, LookedAt
    <2> QED BY <1>1, <2>1
  <1>10. FilesAreRight' /\ StoppedIsSaved'
    BY DEF RoutinesInvariant, FilesAreRight, StoppedIsSaved, savedFiles
  <1> QED BY <1>3, <1>4, <1>6, <1>7, <1>8, <1>9, <1>10 DEF RoutinesInvariant

(* Who works on a run is in charge of it; a run whose end is told has none.*)
LEMMA WorkingIsManned ==
    ASSUME RoutinesInvariant, mode # "stopped", NEW r \in RunIds, agent[r] # "closing",
           NEW c, RunKept(Books, c, r), c.record[r] # "cancelled", NEW resumed
    PROVE  MannedAt(c, r, "working", resumed)
  BY DEF RoutinesInvariant, Manned, MannedAt, RunKept, OnlyRun, Going

LEMMA EndedIsManned ==
    ASSUME NEW b, NEW c, NEW r \in RunIds, NEW s, EndIsTold(b, c, r, s), RunKept(b, c, r),
           c.record[r] = s, NEW resumed
    PROVE  MannedAt(c, r, "none", resumed)
  BY DEF MannedAt, EndIsTold, RunKept, OnlyRun, Going

LEMMA BadgeFacts ==
    ASSUME RoutinesInvariant, NEW b, LedgerIsRight(b), TimesAdd(b, now, worked),
           NEW r \in RunIds, NEW s \in Statuses, NEW w \in BOOLEAN
    PROVE  LET c == SetStatus(b, r, s, w) IN
           /\ RunKept(b, c, r) /\ TimesAdd(c, now, worked) /\ c.record[r] = s
           /\ TellsEnd(b, r, s, w) => EndIsTold(b, c, r, s)
           /\ ~TellsEnd(b, r, s, w) => EndIsUntold(b, c, r)
  BY StatusKeeps DEF RoutinesInvariant, RoutinesTypeOK

LEMMA RunFacts ==
    ASSUME RoutinesInvariant, NEW r \in RunIds, NEW s \in Statuses, NEW w \in BOOLEAN
    PROVE  LET c == SetStatus(Books, r, s, w) IN
           /\ RunKept(Books, c, r) /\ TimesAdd(c, now, worked) /\ c.record[r] = s
           /\ TellsEnd(Books, r, s, w) => EndIsTold(Books, c, r, s)
           /\ ~TellsEnd(Books, r, s, w) => EndIsUntold(Books, c, r)
  BY BadgeFacts DEF RoutinesInvariant

(* A badge that is set twice; an end it says the second time is told.      *)
LEMMA RunFactsTwice ==
    ASSUME RoutinesInvariant, NEW r \in RunIds, NEW s \in Statuses, NEW u \in Statuses,
           NEW v \in BOOLEAN, NEW w \in BOOLEAN
    PROVE  LET d == SetStatus(SetStatus(Books, r, s, v), r, u, w) IN
           /\ RunKept(Books, d, r) /\ TimesAdd(d, now, worked) /\ d.record[r] = u
           /\ u \in Finished \ {s, "cancelled"} /\ ~w
                => \E c : EndIsTold(c, d, r, u) /\ RunKept(c, d, r)
  <1>1. /\ RunKept(Books, SetStatus(Books, r, s, v), r) /\ SetStatus(Books, r, s, v).record[r] = s
        /\ TimesAdd(SetStatus(Books, r, s, v), now, worked)
    BY RunFacts
  <1>2. ASSUME NEW c, RunKept(Books, c, r), c.record[r] = s, TimesAdd(c, now, worked)
        PROVE  LET d == SetStatus(c, r, u, w) IN
               /\ RunKept(Books, d, r) /\ TimesAdd(d, now, worked) /\ d.record[r] = u
               /\ u \in Finished \ {s, "cancelled"} /\ ~w => EndIsTold(c, d, r, u) /\ RunKept(c, d, r)
    <2> DEFINE d == SetStatus(c, r, u, w)
    <2>1. RunKept(c, d, r) /\ TimesAdd(d, now, worked) /\ d.record[r] = u
          /\ (TellsEnd(c, r, u, w) => EndIsTold(c, d, r, u))
      BY <1>2, BadgeFacts DEF RunKept
    <2> HIDE DEF d
    <2>2. RunKept(Books, d, r)
      BY <1>2, <2>1, KeptTwice
    <2>3. u \in Finished \ {s, "cancelled"} /\ ~w => TellsEnd(c, r, u, w)
      BY <1>2 DEF TellsEnd
    <2> QED BY <2>1, <2>2, <2>3 DEF d
  <1> QED BY <1>1, <1>2

LEMMA ElsewhereStep ==
    ASSUME RoutinesInvariant, mode # "stopped",
           NEW r \in RunIds, r <= begun, NEW c, NEW worker \in Workers,
           RunKept(Books, c, r), TimesAdd(c, now, worked), MannedAt(c, r, worker, resuming),
           Keep(c), agent' = [agent EXCEPT ![r] = worker], Elsewhere
    PROVE  RoutinesInvariant'
  <1>1. /\ worked' \in [RunIds -> Nat] /\ TimesAdd(c, now, worked')
        /\ interrupted' \subseteq RunIds /\ resuming' = resuming
        /\ UNCHANGED <<now, schedule, savedFiles, begun, mode, enabled, wake, lastSlot, onSince,
                       stops, crashes, switches>>
    BY DEF Elsewhere, Unmoved, RoutinesInvariant, RoutinesTypeOK
  <1> QED BY <1>1, RunStep

LEMMA TriagedKeeps ==
    ASSUME RoutinesInvariant, NEW r \in RunIds, r <= begun, Triaged(r)
    PROVE  RoutinesInvariant'
  <1>1. mode # "stopped" /\ MannedAt(Books, r, agent[r], resuming) /\ agent[r] = "triage"
        /\ Elsewhere
    BY DEF Triaged, RoutinesInvariant, StoppedIsSaved, Manned
  <1>2. CASE /\ agent' = [agent EXCEPT ![r] = "working"]
             /\ Keep(SetStatus(Books, r, "working", TRUE))
    <2> DEFINE c == SetStatus(Books, r, "working", TRUE)
    <2>1. RunKept(Books, c, r) /\ TimesAdd(c, now, worked) /\ c.record[r] = "working"
      BY RunFacts, StatusNames
    <2> HIDE DEF c
    <2>2. MannedAt(c, r, "working", resuming)
      BY <1>1, <2>1, WorkingIsManned
    <2> QED BY <1>1, <1>2, <2>1, <2>2, ElsewhereStep, StatusNames DEF c
  <1>3. ASSUME agent' = [agent EXCEPT ![r] = "none"],
               NEW s \in Endings, Keep(SetStatus(Books, r, s, FALSE))
        PROVE  RoutinesInvariant'
    <2> DEFINE c == SetStatus(Books, r, s, FALSE)
    <2>1. TellsEnd(Books, r, s, FALSE)
      BY <1>1, StatusNames DEF TellsEnd, MannedAt
    <2>2. RunKept(Books, c, r) /\ TimesAdd(c, now, worked) /\ c.record[r] = s
          /\ EndIsTold(Books, c, r, s)
      BY <2>1, RunFacts, StatusNames
    <2> HIDE DEF c
    <2>3. MannedAt(c, r, "none", resuming)
      BY <2>2, EndedIsManned
    <2> QED BY <1>1, <1>3, <2>2, <2>3, ElsewhereStep, StatusNames DEF c
  <1> QED BY <1>2, <1>3 DEF Triaged

LEMMA ReportsKeeps ==
    ASSUME RoutinesInvariant, NEW r \in RunIds, r <= begun,
           NEW s \in Resumable \cup Endings, Reports(r, s)
    PROVE  RoutinesInvariant'
  <1> DEFINE c == SetStatus(Books, r, s, TRUE)
  <1>1. mode # "stopped" /\ agent[r] = "working" /\ agent' = [agent EXCEPT ![r] = "working"]
        /\ Elsewhere /\ Keep(c)
    BY DEF Reports, RoutinesInvariant, RoutinesTypeOK, StoppedIsSaved
  <1>2. s \in Statuses /\ s # "cancelled"
    BY StatusNames
  <1>3. RunKept(Books, c, r) /\ TimesAdd(c, now, worked) /\ c.record[r] = s
    BY <1>2, RunFacts
  <1> HIDE DEF c
  <1>4. MannedAt(c, r, "working", resuming)
    BY <1>1, <1>2, <1>3, WorkingIsManned
  <1> QED BY <1>1, <1>3, <1>4, ElsewhereStep, StatusNames

LEMMA GoesOnKeeps ==
    ASSUME RoutinesInvariant, NEW r \in RunIds, r <= begun, GoesOn(r)
    PROVE  RoutinesInvariant'
  <1> DEFINE c == SetStatus(Books, r, "working", TRUE)
  <1>1. mode # "stopped" /\ agent[r] = "none" /\ agent' = [agent EXCEPT ![r] = "working"]
        /\ Elsewhere /\ Keep(c)
    BY DEF GoesOn
  <1>2. RunKept(Books, c, r) /\ TimesAdd(c, now, worked) /\ c.record[r] = "working"
    BY RunFacts, StatusNames
  <1> HIDE DEF c
  <1>3. MannedAt(c, r, "working", resuming)
    BY <1>1, <1>2, WorkingIsManned
  <1> QED BY <1>1, <1>2, <1>3, ElsewhereStep, StatusNames

(* A turn that ends is told, whatever its badge said before.               *)
LEMMA TurnEndsKeeps ==
    ASSUME RoutinesInvariant, NEW r \in RunIds, r <= begun, NEW s \in Endings, TurnEnds(r, s)
    PROVE  RoutinesInvariant'
  <1> DEFINE c == SetStatus(Books, r, s, TRUE)
             d == Finalize(c, r, s)
  <1>1. mode # "stopped" /\ agent[r] = "working" /\ agent' = [agent EXCEPT ![r] = "none"]
        /\ Elsewhere /\ Keep(d)
    BY DEF TurnEnds, RoutinesInvariant, StoppedIsSaved
  <1>2. s \in Finished /\ s \in Statuses
    BY StatusNames
  <1>3. RunKept(Books, c, r) /\ TimesAdd(c, now, worked) /\ c.record[r] = s
    BY <1>2, RunFacts
  <1> HIDE DEF c
  <1>4. c \in Ledgers /\ LedgerIsRight(c) /\ now \in Nat
    BY <1>3 DEF RunKept, OnlyRun, RoutinesInvariant, RoutinesTypeOK
  <1>5. /\ OnlyRun(c, d, r) /\ EndIsTold(c, d, r, s) /\ d.record[r] = s /\ TimesAdd(d, now, worked)
    BY <1>2, <1>3, <1>4, FinalizeEffect
  <1> HIDE DEF d
  <1>6. RunKept(c, d, r) /\ RunKept(Books, d, r)
    BY <1>2, <1>3, <1>4, <1>5, TellingKeeps, KeptTwice
  <1>7. MannedAt(d, r, "none", resuming)
    BY <1>5, <1>6, EndedIsManned
  <1> QED BY <1>1, <1>5, <1>6, <1>7, ElsewhereStep, StatusNames

LEMMA UserCancelsKeeps ==
    ASSUME RoutinesInvariant, NEW r \in RunIds, r <= begun, UserCancels(r)
    PROVE  RoutinesInvariant'
  <1> DEFINE c == SetStatus(Books, r, "cancelled", FALSE)
             worker == IF agent[r] = "closing" THEN "closing" ELSE "none"
  <1>1. mode # "stopped" /\ agent' = [agent EXCEPT ![r] = worker] /\ Elsewhere /\ Keep(c)
        /\ (agent[r] \in {"working", "triage"} \/ record[r] \in Active)
    BY DEF UserCancels
  <1>2. /\ RunKept(Books, c, r) /\ TimesAdd(c, now, worked) /\ c.record[r] = "cancelled"
        /\ TellsEnd(Books, r, "cancelled", FALSE) => EndIsTold(Books, c, r, "cancelled")
        /\ ~TellsEnd(Books, r, "cancelled", FALSE) => EndIsUntold(Books, c, r)
    BY RunFacts, StatusNames
  <1> HIDE DEF c
  <1>3. MannedAt(c, r, worker, resuming)
    <2>1. CASE agent[r] = "closing"
      BY <2>1 DEF MannedAt
    <2>2. CASE agent[r] # "closing" /\ TellsEnd(Books, r, "cancelled", FALSE)
      BY <1>2, <2>2, EndedIsManned
    <2>3. CASE agent[r] # "closing" /\ ~TellsEnd(Books, r, "cancelled", FALSE)
      <3>1. MannedAt(Books, r, agent[r], resuming)
        BY <1>1 DEF RoutinesInvariant, Manned
      <3>2. Books.record[r] # "cancelled"
        BY <1>1, <3>1, BooksFields, StatusNames DEF MannedAt
      <3>3. Books.live[r] # Nil /\ Books.live[r].timedOut /\ Books.live[r].finished
        BY <2>3, <3>1, <3>2, StatusNames DEF TellsEnd, MannedAt, Going
      <3>4. c.live[r] # Nil /\ c.live[r].timedOut /\ c.live[r].finished
        BY <1>2, <2>3, <3>3 DEF EndIsUntold, RunKept, OnlyRun
      <3> QED BY <1>2, <2>3, <3>4 DEF MannedAt, Going, RunKept, LedgerIsRight, EndsTogether
    <2> QED BY <2>1, <2>2, <2>3
  <1> QED BY <1>1, <1>2, <1>3, ElsewhereStep, StatusNames

(* What went over its time is told failed, not cancelled.                  *)
LEMMA TimedOutKeeps ==
    ASSUME RoutinesInvariant, NEW r \in RunIds, r <= begun, TimedOut(r)
    PROVE  RoutinesInvariant'
  <1> DEFINE d == SetStatus(SetStatus(Books, r, "cancelled", FALSE), r, "failed", FALSE)
  <1>1. mode # "stopped" /\ agent' = [agent EXCEPT ![r] = "none"] /\ Elsewhere /\ Keep(d)
    BY DEF TimedOut, RoutinesInvariant, StoppedIsSaved
  <1> "cancelled" \in Statuses /\ "failed" \in Statuses /\ "failed" \in Finished
    BY StatusNames
  <1>2. /\ RunKept(Books, d, r) /\ TimesAdd(d, now, worked) /\ d.record[r] = "failed"
        /\ \E c : EndIsTold(c, d, r, "failed") /\ RunKept(c, d, r)
    BY RunFactsTwice
  <1> HIDE DEF d
  <1>3. MannedAt(d, r, "none", resuming)
    BY <1>2, EndedIsManned
  <1> QED BY <1>1, <1>2, <1>3, ElsewhereStep, StatusNames

-----------------------------------------------------------------------------
(* Picking up what a restart found.                                        *)

LEMMA AsBefore ==
    ASSUME RoutinesInvariant, NEW r \in RunIds
    PROVE  RunKept(Books, Books, r)
  BY DEF RoutinesInvariant, RunKept, OnlyRun, LedgerIsRight

(* A run whose work isn't counted yet.                                     *)
LEMMA CountedAnew ==
    ASSUME NEW c, NEW works \in [RunIds -> Nat], NEW r \in RunIds, now \in Nat, c \in Ledgers,
           TimesAdd(c, now, works)
    PROVE  TimesAdd(c, now, [works EXCEPT ![r] = 0])
  <1> SUFFICES ASSUME NEW q \in RunIds, c.live[q] # Nil
               PROVE  TimeAdds(c.live[q], c.record[q], now, [works EXCEPT ![r] = 0][q])
    BY DEF TimesAdd
  <1>1. TimeAdds(c.live[q], c.record[q], now, works[q]) /\ c.live[q] \in LiveRun
    BY LedgerFields DEF TimesAdd
  <1>2. [works EXCEPT ![r] = 0][q] <= works[q] /\ [works EXCEPT ![r] = 0][q] \in Nat /\ works[q] \in Nat
    OBVIOUS
  <1> QED BY <1>1, <1>2, RunFields DEF TimeAdds

LEMMA ResumeBeginKeeps ==
    ASSUME RoutinesInvariant, NEW r \in RunIds, r <= begun, ResumeBegin(r)
    PROVE  RoutinesInvariant'
  <1>1. /\ mode = "starting" /\ resuming = Nil /\ worked' = [worked EXCEPT ![r] = 0]
        /\ interrupted' = interrupted \ {r} /\ interrupted' \subseteq RunIds
        /\ agent' = agent /\ agent' = [agent EXCEPT ![r] = agent[r]] /\ agent[r] \in Workers
        /\ UNCHANGED <<now, schedule, savedFiles, begun, mode, enabled, wake, lastSlot, onSince,
                       stops, crashes, switches>>
    BY DEF ResumeBegin, RoutinesInvariant, RoutinesTypeOK
  <1>2. /\ worked \in [RunIds -> Nat] /\ worked' \in [RunIds -> Nat] /\ now \in Nat
        /\ Books \in Ledgers /\ MannedAt(Books, r, agent[r], resuming)
    BY <1>1, BooksFields DEF RoutinesInvariant, RoutinesTypeOK, Manned
  <1>3. CASE UNCHANGED <<books, resuming>>
    <2>1. Keep(Books)
      BY <1>3 DEF Keep, Books, books
    <2>2. TimesAdd(Books, now, worked')
      BY <1>1, <1>2, CountedAnew DEF RoutinesInvariant
    <2> QED BY <1>1, <1>2, <1>3, <2>1, <2>2, AsBefore, RunStep
  <1>4. CASE /\ record[r] \in Resumable /\ Keep(SetStatus(Books, r, "failed", IsWorking(r)))
             /\ UNCHANGED resuming
    <2> DEFINE c == SetStatus(Books, r, "failed", IsWorking(r))
    <2>1. /\ RunKept(Books, c, r) /\ TimesAdd(c, now, worked) /\ c.record[r] = "failed"
          /\ TellsEnd(Books, r, "failed", IsWorking(r)) => EndIsTold(Books, c, r, "failed")
      BY RunFacts, StatusNames DEF IsWorking
    <2> HIDE DEF c
    <2>2. TimesAdd(c, now, worked')
      BY <1>1, <1>2, <2>1, CountedAnew DEF RunKept, OnlyRun
    <2>3. MannedAt(c, r, agent[r], resuming)
      <3>1. CASE agent[r] = "working"
        BY <1>1, <2>1, <3>1, WorkingIsManned
      <3>2. CASE agent[r] = "closing"
        BY <3>2 DEF MannedAt
      <3>3. CASE agent[r] = "none"
        <4>1. TellsEnd(Books, r, "failed", IsWorking(r))
          BY <1>4, <3>3, BooksFields, StatusNames DEF TellsEnd, IsWorking
        <4> QED BY <2>1, <3>3, <4>1, EndedIsManned
      <3>4. agent[r] # "triage"
        BY <1>2, <1>4, BooksFields DEF MannedAt, Resumable
      <3> QED BY <1>1, <3>1, <3>2, <3>3, <3>4, StatusNames
    <2> QED BY <1>1, <1>2, <1>4, <2>1, <2>2, <2>3, RunStep DEF c
  <1>5. CASE /\ record[r] \in Resumable /\ Adoptable(r) /\ Keep([Books EXCEPT !.live[r] = Fresh])
             /\ resuming' = r
    <2> DEFINE c == [Books EXCEPT !.live[r] = Fresh]
    <2>1. /\ Fresh \in LiveRun /\ ~Fresh.finished /\ ~Fresh.timedOut /\ Fresh.since = now
          /\ Fresh.paused = 0 /\ Fresh.pausedSince = Nil
      BY <1>2 DEF Fresh, LiveRun
    <2> HIDE DEF Fresh
    <2>2. /\ c.state = state /\ c.record = record /\ c.live = [live EXCEPT ![r] = Fresh]
          /\ c.notices = notices /\ c \in Ledgers
      BY <1>2, <2>1, BooksFields DEF Ledgers
    <2>3. c.live[r] = Fresh /\ Fresh # Nil /\ \A q \in RunIds \ {r} : c.live[q] = live[q]
      BY <1>2, <2>1, <2>2, BooksFields, LedgerFields, RunFields
    <2> HIDE DEF c
    <2>4. state.last # Nil /\ state.last.run = r /\ ~state.last.finished
      BY <1>5 DEF Adoptable
    <2>5. RoutinesTypeOK'
      BY <1>1, <1>2, <1>5, <2>2, LedgerFields DEF Keep, RoutinesInvariant, RoutinesTypeOK, savedFiles, c
    <2>6. Books' = c
      BY <1>5, <2>2, BooksFields DEF c
    <2>7. \A q \in RunIds \ {r} : ~Going(c, q) /\ ~Going(Books, q)
      BY <2>3, <2>4, BooksFields DEF RoutinesInvariant, LedgerIsRight, OnlyLatestGoes, Going
    <2>8. LedgerIsRight(c) /\ (crashes = 0 => NoticesAreKept(c))
      BY <2>1, <2>2, <2>3, <2>4, <2>7, BooksFields
         DEF RoutinesInvariant, LedgerIsRight, OnlyLatestGoes, EndsTogether, EndedIsFinished, NoticesAreKept
    <2>9. TimesAdd(c, now, worked')
      <3>1. TimesAdd(Books, now, worked')
        BY <1>1, <1>2, CountedAnew DEF RoutinesInvariant
      <3>2. TimeAdds(Fresh, record[r], now, worked'[r])
        BY <1>1, <1>2, <2>1 DEF TimeAdds
      <3> QED BY <2>2, <2>3, <3>1, <3>2, BooksFields DEF TimesAdd
    <2>10. Unborn(c, agent, begun)
      <3>1. Unborn(Books, agent, begun) /\ begun \in Nat
        BY DEF RoutinesInvariant, RoutinesTypeOK
      <3>2. \A q \in RunIds : q > begun => q # r
        BY <3>1, RunIdsFacts
      <3> QED BY <2>2, <2>3, <3>1, <3>2, BooksFields DEF Unborn
    <2>11. Manned(c, agent, r)
      <3>1. MannedAt(c, r, agent[r], r)
        BY <1>2, <1>5, <2>1, <2>2, <2>3, BooksFields, StatusNames DEF MannedAt, Going
      <3>2. SUFFICES ASSUME NEW q \in RunIds \ {r} PROVE MannedAt(c, q, agent[q], r)
        BY <3>1 DEF Manned
      <3>3. MannedAt(Books, q, agent[q], resuming)
        BY <1>1 DEF RoutinesInvariant, Manned
      <3> QED BY <2>2, <2>3, <2>7, <3>3, BooksFields DEF MannedAt
    <2>12. LookedAt(c, wake, now)
      <3>1. WorkingTime(Fresh, now) <= MaxWork
        BY <1>2, <2>1, RoutinesAssumption DEF WorkingTime
      <3>2. wake # Nil => wake <= now + 1
        BY DEF RoutinesInvariant, LookedAt
      <3> QED BY <2>3, <2>7, <3>1, <3>2 DEF LookedAt
    <2>13. state' = state
      BY <1>5, <2>2 DEF Keep, c
    <2> QED BY <1>1, <1>5, <2>5, <2>6, <2>8, <2>9, <2>10, <2>11, <2>12, <2>13
            DEF RoutinesInvariant, FilesAreRight, StoppedIsSaved, savedFiles
  <1> QED BY <1>3, <1>4, <1>5 DEF ResumeBegin

LEMMA ResumeEndKeeps ==
    ASSUME RoutinesInvariant, ResumeEnd
    PROVE  RoutinesInvariant'
  <1> DEFINE r == resuming
  <1>1. /\ mode = "starting" /\ r \in RunIds /\ r <= begun /\ agent[r] # "closing"
        /\ resuming' = Nil /\ worked' = worked /\ interrupted' = interrupted
        /\ UNCHANGED <<now, schedule, savedFiles, begun, mode, enabled, wake, lastSlot, onSince,
                       stops, crashes, switches>>
    BY DEF ResumeEnd, RoutinesInvariant, RoutinesTypeOK
  <1>2. /\ worked \in [RunIds -> Nat] /\ now \in Nat /\ interrupted \subseteq RunIds
        /\ agent \in [RunIds -> Workers]
    BY DEF RoutinesInvariant, RoutinesTypeOK
  <1>3. ASSUME NEW c, RunKept(Books, c, r), TimesAdd(c, now, worked), c.record[r] # "cancelled",
               Keep(c), agent' = [agent EXCEPT ![r] = "working"]
        PROVE  RoutinesInvariant'
    <2>1. MannedAt(c, r, "working", Nil)
      BY <1>1, <1>3, WorkingIsManned
    <2> HIDE DEF r
    <2> QED BY <1>1, <1>2, <1>3, <2>1, RunStep, StatusNames DEF r
  <1>4. CASE /\ IsWorking(r) /\ UNCHANGED agent
             /\ Keep(SetStatus(SetStatus(Books, r, "working", TRUE), r, "failed", TRUE))
    <2> DEFINE d == SetStatus(SetStatus(Books, r, "working", TRUE), r, "failed", TRUE)
    <2> "working" \in Statuses /\ "failed" \in Statuses
      BY StatusNames
    <2>1. RunKept(Books, d, r) /\ TimesAdd(d, now, worked) /\ d.record[r] = "failed"
      BY <1>1, RunFactsTwice
    <2>2. agent' = [agent EXCEPT ![r] = "working"]
      BY <1>2, <1>4 DEF IsWorking
    <2> HIDE DEF d
    <2> QED BY <1>3, <1>4, <2>1, <2>2 DEF d
  <1>5. CASE /\ agent' = [agent EXCEPT ![r] = "working"]
             /\ Keep(SetStatus(Books, r, "working", FALSE))
    <2> DEFINE c == SetStatus(Books, r, "working", FALSE)
    <2>1. RunKept(Books, c, r) /\ TimesAdd(c, now, worked) /\ c.record[r] = "working"
      BY <1>1, RunFacts, StatusNames
    <2> HIDE DEF c
    <2> QED BY <1>3, <1>5, <2>1 DEF c
  <1> QED BY <1>4, <1>5 DEF ResumeEnd

-----------------------------------------------------------------------------
(* Looks of the scheduler.                                                 *)

LEMMA SlotAfter ==
    ASSUME NEW p \in Schedules, NEW t \in Nat
    PROVE  NextRunAfter(p, t) \in Nat /\ NextRunAfter(p, t) > t
  <1>1. p \in Nat \ {0}
    BY RoutinesAssumption
  <1>2. t \div p \in Nat
    BY <1>1
  <1>3. p * (t \div p + 1) > t
    BY <1>1
  <1>4. p * (t \div p + 1) \in Nat
    BY <1>1, <1>2
  <1> QED BY <1>3, <1>4 DEF NextRunAfter

(* A ledger that differs from the present one in what is planned.          *)
Replans(b) ==
    /\ b \in Ledgers
    /\ b.record = record /\ b.live = live /\ b.notices = notices
    /\ b.state.last = state.last

LEMMA PlannedEffect ==
    ASSUME RoutinesInvariant, NEW b, Replans(b), NEW edited \in Schedules \cup {Nil}
    PROVE  LET c == Planned(b, edited) IN
           /\ Replans(c)
           /\ c.state.next # Nil => c.state.next \in Nat /\ c.state.next > now
  <1> DEFINE c == Planned(b, edited)
             next == IF edited = Nil THEN Nil ELSE NextRunAfter(edited, now)
  <1>1. now \in Nat
    BY DEF RoutinesInvariant, RoutinesTypeOK
  <1>2. next \in Nat \cup {Nil} /\ (next # Nil => next > now) /\ edited \in Nat \cup {Nil}
    BY <1>1, SlotAfter, RoutinesAssumption
  <1>3. c = [b EXCEPT !.state = [b.state EXCEPT !.key = edited, !.next = next]]
    BY LedgerFields DEF Replans, Planned
  <1> HIDE DEF next
  <1>4. [b.state EXCEPT !.key = edited, !.next = next] \in RoutineStates
    BY <1>2, LedgerFields DEF Replans, RoutineStates
  <1>5. /\ c.state = [b.state EXCEPT !.key = edited, !.next = next] /\ c.record = b.record
        /\ c.live = b.live /\ c.notices = b.notices /\ c \in Ledgers
    BY <1>3, <1>4 DEF Replans, Ledgers
  <1>6. c.state.next = next /\ c.state.last = b.state.last
    BY <1>4, <1>5, LedgerFields DEF Replans, RoutineStates
  <1> HIDE DEF c
  <1>7. Replans(c)
    BY <1>5, <1>6 DEF Replans
  <1> QED BY <1>2, <1>6, <1>7, RunIdsFacts DEF c

LEMMA ReplansKeeps ==
    ASSUME RoutinesInvariant, NEW b, Replans(b)
    PROVE  /\ LedgerIsRight(b) /\ TimesAdd(b, now, worked)
           /\ crashes = 0 => NoticesAreKept(b)
           /\ Unborn(b, agent, begun)
           /\ mode # "stopped" => Manned(b, agent, resuming)
           /\ \A r \in RunIds : Going(b, r) <=> Going(Books, r)
  <1>1. b.record = Books.record /\ b.live = Books.live /\ b.notices = Books.notices
        /\ b.state.last = Books.state.last /\ b \in Ledgers
    BY BooksFields DEF Replans
  <1>2. \A r \in RunIds : Going(b, r) <=> Going(Books, r)
    BY <1>1 DEF Going
  <1>3. LedgerIsRight(b)
    BY <1>1, <1>2
       DEF RoutinesInvariant, LedgerIsRight, OnlyLatestGoes, EndsTogether, EndedIsFinished
  <1>4. TimesAdd(b, now, worked) /\ (crashes = 0 => NoticesAreKept(b)) /\ Unborn(b, agent, begun)
    BY <1>1 DEF RoutinesInvariant, TimesAdd, NoticesAreKept, Unborn
  <1>5. mode # "stopped" => Manned(b, agent, resuming)
    BY <1>1, <1>2 DEF RoutinesInvariant, Manned, MannedAt
  <1> QED BY <1>2, <1>3, <1>4, <1>5

(* Runs that went over their time are marked.                              *)
Marks(b, c, late) ==
    /\ c \in Ledgers /\ c.state = b.state /\ c.record = b.record /\ c.notices = b.notices
    /\ \A r \in RunIds :
         /\ c.live[r] = Nil <=> b.live[r] = Nil
         /\ c.live[r] # Nil =>
              /\ c.live[r].finished = b.live[r].finished /\ c.live[r].since = b.live[r].since
              /\ c.live[r].paused = b.live[r].paused /\ c.live[r].pausedSince = b.live[r].pausedSince
              /\ c.live[r].timedOut = (r \in late \/ b.live[r].timedOut)

LEMMA EnforcedMarks ==
    ASSUME NEW b \in Ledgers, NEW late, \A r \in late : r \in RunIds /\ b.live[r] # Nil
    PROVE  Marks(b, Enforced(b, late), late)
PROOF
  <1> DEFINE c == Enforced(b, late)
             x(r) == IF r \in late THEN [b.live[r] EXCEPT !.timedOut = TRUE] ELSE b.live[r]
  <1>1. ASSUME NEW r \in RunIds, b.live[r] # Nil
        PROVE  /\ x(r) \in LiveRun /\ x(r).finished = b.live[r].finished
               /\ x(r).since = b.live[r].since /\ x(r).paused = b.live[r].paused
               /\ x(r).pausedSince = b.live[r].pausedSince
               /\ x(r).timedOut = (r \in late \/ b.live[r].timedOut)
    <2>1. b.live[r] \in LiveRun /\ b.live[r].timedOut \in BOOLEAN
      BY <1>1, LedgerFields, RunFields
    <2>2. CASE r \notin late
      BY <2>1, <2>2
    <2>3. CASE r \in late
      BY <2>1, <2>3 DEF LiveRun
    <2> QED BY <2>2, <2>3
  <1>2. \A r \in RunIds : b.live[r] = Nil => x(r) = Nil
    OBVIOUS
  <1>3. c = [b EXCEPT !.live = [r \in RunIds |-> x(r)]]
    BY LedgerFields DEF Enforced
  <1> HIDE DEF x
  <1>4. [r \in RunIds |-> x(r)] \in [RunIds -> LiveRun \cup {Nil}]
    BY <1>1, <1>2, LedgerFields
  <1>5. /\ c.state = b.state /\ c.record = b.record /\ c.notices = b.notices /\ c \in Ledgers
        /\ \A r \in RunIds : c.live[r] = x(r)
    BY <1>3, <1>4 DEF Ledgers
  <1> HIDE DEF c
  <1>6. \A r \in RunIds : b.live[r] # Nil => x(r) # Nil
    BY <1>1, RunFields
  <1> QED BY <1>1, <1>2, <1>5, <1>6 DEF Marks, c

LEMMA MarksKeep ==
    ASSUME RoutinesInvariant, mode # "stopped", NEW b, Replans(b), NEW late,
           \A r \in late : r \in RunIds /\ b.live[r] # Nil, NEW c, Marks(b, c, late)
    PROVE  LET workers == [r \in RunIds |-> IF r \in late THEN "closing" ELSE agent[r]] IN
           /\ LedgerIsRight(c) /\ TimesAdd(c, now, worked) /\ (crashes = 0 => NoticesAreKept(c))
           /\ workers \in [RunIds -> Workers]
           /\ Unborn(c, workers, begun) /\ Manned(c, workers, resuming)
PROOF
  <1> DEFINE workers == [r \in RunIds |-> IF r \in late THEN "closing" ELSE agent[r]]
  <1>1. /\ LedgerIsRight(b) /\ TimesAdd(b, now, worked) /\ (crashes = 0 => NoticesAreKept(b))
        /\ Unborn(b, agent, begun) /\ Manned(b, agent, resuming) /\ b \in Ledgers
    BY ReplansKeeps DEF Replans
  <1>2. workers \in [RunIds -> Workers]
    BY StatusNames DEF RoutinesInvariant, RoutinesTypeOK
  <1>3. \A r \in RunIds : workers[r] = IF r \in late THEN "closing" ELSE agent[r]
    OBVIOUS
  <1> HIDE DEF workers
  <1>4. \A r \in RunIds : Going(c, r) <=> Going(b, r)
    BY DEF Marks, Going
  <1>5. LedgerIsRight(c)
    BY <1>1, <1>4 DEF Marks, LedgerIsRight, OnlyLatestGoes, EndsTogether, EndedIsFinished
  <1>6. TimesAdd(c, now, worked)
    BY <1>1 DEF Marks, TimesAdd, TimeAdds
  <1>7. crashes = 0 => NoticesAreKept(c)
    BY <1>1 DEF Marks, NoticesAreKept
  <1>8. Unborn(c, workers, begun)
    BY <1>1, <1>3 DEF Marks, Unborn
  <1>9. Manned(c, workers, resuming)
    <2> SUFFICES ASSUME NEW r \in RunIds PROVE MannedAt(c, r, workers[r], resuming)
      BY DEF Manned
    <2>1. CASE r \in late
      BY <1>3, <2>1 DEF MannedAt
    <2>2. CASE r \notin late
      <3>1. MannedAt(b, r, agent[r], resuming) /\ workers[r] = agent[r]
        BY <1>1, <1>3, <2>2 DEF Manned
      <3>2. c.live[r] # Nil => (c.live[r].timedOut <=> b.live[r].timedOut)
        BY <2>2 DEF Marks
      <3>3. /\ c.state = b.state /\ c.record[r] = b.record[r] /\ (c.live[r] = Nil <=> b.live[r] = Nil)
            /\ Going(c, r) => Going(b, r) /\ c.live[r] # Nil
        BY <1>4 DEF Marks, Going
      <3> QED BY <3>1, <3>2, <3>3 DEF MannedAt
    <2> QED BY <2>1, <2>2
  <1> QED BY <1>2, <1>5, <1>6, <1>7, <1>8, <1>9 DEF workers

(* Closing what is over its time.                                          *)
LEMMA LookedEffect ==
    ASSUME RoutinesInvariant, mode # "stopped", NEW b, Replans(b), Looked(b)
    PROVE  /\ Books' \in Ledgers /\ Books'.state = b.state /\ agent' \in [RunIds -> Workers]
           /\ LedgerIsRight(Books') /\ TimesAdd(Books', now, worked)
           /\ crashes = 0 => NoticesAreKept(Books')
           /\ Unborn(Books', agent', begun) /\ Manned(Books', agent', resuming)
           /\ wake' \in Nat /\ LookedAt(Books', wake', now)
PROOF
  <1> DEFINE late == Overdue(b)
             c == Enforced(b, late)
  <1>1. /\ b \in Ledgers /\ now \in Nat
    BY DEF Replans, RoutinesInvariant, RoutinesTypeOK
  <1>2. \A r \in late : r \in RunIds /\ b.live[r] # Nil
    BY DEF Overdue, Going
  <1>3. Keep(c) /\ agent' = [r \in RunIds |-> IF r \in late THEN "closing" ELSE agent[r]]
        /\ wake' = Armed(b)
    BY DEF Looked
  <1>4. ASSUME NEW r \in RunIds, Going(b, r), r \notin late, ~b.live[r].timedOut
        PROVE  WorkingTime(b.live[r], now) <= MaxWork
    <2>1. ~(WorkingTime(b.live[r], now) > MaxWork)
      BY <1>4 DEF Overdue
    <2>2. b.live[r] \in LiveRun
      BY <1>1, <1>4, LedgerFields DEF Going
    <2>3. WorkingTime(b.live[r], now) \in Int
      BY <1>1, <2>2, RunFields DEF WorkingTime
    <2> QED BY <2>1, <2>3, RoutinesAssumption
  <1> HIDE DEF late
  <1>5. Marks(b, c, late)
    BY <1>1, <1>2, EnforcedMarks
  <1>6. Books' = c
    BY <1>3, <1>5, BooksFields DEF Marks
  <1> HIDE DEF c
  <1>7. /\ LedgerIsRight(c) /\ TimesAdd(c, now, worked) /\ (crashes = 0 => NoticesAreKept(c))
        /\ agent' \in [RunIds -> Workers]
        /\ Unborn(c, agent', begun) /\ Manned(c, agent', resuming)
    BY <1>2, <1>3, <1>5, MarksKeep
  <1>8. wake' \in Nat /\ wake' <= now + 1
    <2>1. b.state.next \in Nat \cup {Nil}
      BY <1>1, LedgerFields DEF RoutineStates
    <2> QED BY <1>1, <1>3, <2>1 DEF Armed
  <1>9. LookedAt(c, wake', now)
    <2> SUFFICES ASSUME NEW r \in RunIds, Going(c, r), ~c.live[r].timedOut
                 PROVE  WorkingTime(c.live[r], now) <= MaxWork
      BY <1>8 DEF LookedAt
    <2>1. Going(b, r) /\ r \notin late /\ ~b.live[r].timedOut
          /\ WorkingTime(c.live[r], now) = WorkingTime(b.live[r], now)
      BY <1>5 DEF Marks, Going, WorkingTime
    <2> QED BY <1>4, <2>1
  <1> QED BY <1>5, <1>6, <1>7, <1>8, <1>9 DEF Marks

-----------------------------------------------------------------------------
(* A run that begins, entered before its badge is set.                     *)
LEMMA EnteredRight ==
    ASSUME RoutinesInvariant, mode # "stopped", NEW b, Replans(b), begun < MaxRuns,
           ~IsRunning(Books), NEW extra \in BOOLEAN
    PROVE  LET r == begun + 1
               e == Entered(b, r, extra) IN
           /\ r \in RunIds /\ e.state.next = b.state.next /\ e.record = b.record /\ e.notices = b.notices
           /\ e.live[r] = Fresh /\ \A q \in RunIds \ {r} : e.live[q] = b.live[q] /\ ~Going(e, q)
           /\ e.state.last # Nil /\ e.state.last.run = r
           /\ e.record[r] = "none" /\ Fresh # Nil /\ ~Fresh.timedOut /\ WorkingTime(Fresh, now) = 0
           /\ LedgerIsRight(e) /\ (crashes = 0 => NoticesAreKept(e))
           /\ TimesAdd(e, now, [worked EXCEPT ![r] = 0])
PROOF
  <1> DEFINE r == begun + 1
             e == Entered(b, r, extra)
             last == [run |-> r, status |-> "triaging", finished |-> FALSE, notified |-> FALSE]
             more == IF extra THEN b.state.extra + 1 ELSE b.state.extra
  <1>1. /\ b \in Ledgers /\ now \in Nat /\ begun \in Nat /\ worked \in [RunIds -> Nat]
    BY DEF Replans, RoutinesInvariant, RoutinesTypeOK
  <1>2. r \in RunIds
    BY <1>1, RunIdsFacts
  <1>3. /\ Fresh \in LiveRun /\ Fresh # Nil /\ ~Fresh.finished /\ ~Fresh.timedOut
        /\ Fresh.since = now /\ Fresh.paused = 0 /\ Fresh.pausedSince = Nil
        /\ WorkingTime(Fresh, now) = 0
    <2>1. /\ Fresh \in LiveRun /\ ~Fresh.finished /\ ~Fresh.timedOut
          /\ Fresh.since = now /\ Fresh.paused = 0 /\ Fresh.pausedSince = Nil
      BY <1>1 DEF Fresh, LiveRun
    <2> HIDE DEF Fresh
    <2> QED BY <1>1, <2>1, RunFields DEF WorkingTime
  <1> HIDE DEF Fresh
  <1>4. last \in LastRun /\ last # Nil /\ last.run = r /\ last.status = "triaging" /\ ~last.notified
    <2>1. "triaging" \in Statuses
      BY StatusNames
    <2>2. last \in LastRun /\ last.run = r /\ last.status = "triaging" /\ ~last.notified
      BY <1>2, <2>1 DEF LastRun
    <2> HIDE DEF last
    <2> QED BY <2>2, RoutinesAssumption
  <1> HIDE DEF last
  <1>5. b.state \in RoutineStates /\ more \in Nat
    BY <1>1, LedgerFields DEF RoutineStates
  <1> HIDE DEF more
  <1>6. [b.state EXCEPT !.last = last, !.extra = more] \in RoutineStates
    BY <1>4, <1>5 DEF RoutineStates
  <1>7. [b.live EXCEPT ![r] = Fresh] \in [RunIds -> LiveRun \cup {Nil}]
    BY <1>1, <1>3, LedgerFields
  <1>8. e = [b EXCEPT !.live = [b.live EXCEPT ![r] = Fresh],
                      !.state = [b.state EXCEPT !.last = last, !.extra = more]]
    BY <1>1, <1>5, LedgerFields DEF Entered, RoutineStates, last, more
  <1>9. /\ e.live = [b.live EXCEPT ![r] = Fresh]
        /\ e.state = [b.state EXCEPT !.last = last, !.extra = more]
        /\ e.record = b.record /\ e.notices = b.notices /\ e \in Ledgers
    BY <1>1, <1>6, <1>7, <1>8 DEF Ledgers
  <1>10. e.state.next = b.state.next /\ e.state.last = last
    BY <1>5, <1>9 DEF RoutineStates
  <1>11. e.live[r] = Fresh /\ \A q \in RunIds \ {r} : e.live[q] = b.live[q]
    BY <1>1, <1>2, <1>9, LedgerFields
  <1>12. e \in Ledgers /\ e.record = b.record /\ e.notices = b.notices
    BY <1>9
  <1> HIDE DEF e
  <1>13. \A q \in RunIds \ {r} : ~Going(e, q)
    BY <1>11 DEF Replans, IsRunning, Going, Books
  <1>14. e.record[r] = "none" /\ e.notices[r] = 0
    BY <1>1, <1>2, <1>12, BooksFields DEF Replans, RoutinesInvariant, Unborn
  <1>15. LedgerIsRight(e)
    <2>1. OnlyLatestGoes(e)
      BY <1>4, <1>10, <1>13 DEF OnlyLatestGoes
    <2>2. EndsTogether(e)
      BY <1>3, <1>4, <1>10, <1>11 DEF EndsTogether
    <2>3. EndedIsFinished(e.state)
      BY <1>4, <1>10 DEF EndedIsFinished, Finished
    <2> QED BY <1>12, <2>1, <2>2, <2>3 DEF LedgerIsRight
  <1>16. crashes = 0 => NoticesAreKept(e)
    BY <1>1, <1>4, <1>10, <1>12, <1>14, ReplansKeeps DEF NoticesAreKept
  <1>17. TimesAdd(e, now, [worked EXCEPT ![r] = 0])
    <2> SUFFICES ASSUME NEW q \in RunIds, e.live[q] # Nil
                 PROVE  TimeAdds(e.live[q], e.record[q], now, [worked EXCEPT ![r] = 0][q])
      BY DEF TimesAdd
    <2>1. CASE q = r
      BY <1>1, <1>2, <1>3, <1>11, <2>1 DEF TimeAdds
    <2>2. CASE q # r
      <3>1. TimeAdds(b.live[q], b.record[q], now, worked[q])
        BY <1>11, <2>2, ReplansKeeps DEF TimesAdd
      <3>2. e.live[q] = b.live[q] /\ e.record[q] = b.record[q] /\ [worked EXCEPT ![r] = 0][q] = worked[q]
        BY <1>1, <1>11, <1>12, <2>2
      <3> QED BY <3>1, <3>2
    <2> QED BY <2>1, <2>2
  <1> QED BY <1>2, <1>3, <1>4, <1>10, <1>11, <1>12, <1>13, <1>14, <1>15, <1>16, <1>17 DEF e

(* A run that begins is the one that goes, and has worked no time yet.     *)
LEMMA StartsEffect ==
    ASSUME RoutinesInvariant, mode # "stopped", NEW b, Replans(b), begun < MaxRuns,
           ~IsRunning(Books), NEW use \in Uses, NEW extra \in BOOLEAN, Starts(b, use, extra)
    PROVE  /\ Books' \in Ledgers /\ Books'.state.next = b.state.next
           /\ agent' \in [RunIds -> Workers] /\ begun' \in 0 .. MaxRuns /\ begun' = begun + 1
           /\ worked' \in [RunIds -> Nat]
           /\ LedgerIsRight(Books') /\ TimesAdd(Books', now, worked')
           /\ crashes = 0 => NoticesAreKept(Books')
           /\ Unborn(Books', agent', begun') /\ Manned(Books', agent', resuming)
           /\ \A q \in RunIds : Going(Books', q) => WorkingTime(Books'.live[q], now) <= MaxWork
PROOF
  <1> DEFINE r == begun + 1
             e == Entered(b, r, extra)
             status == CASE use = "triage" -> "triaging" [] use = "subagent" -> "working"
                         [] use = "unavailable" -> "failed"
             worker == CASE use = "triage" -> "triage" [] use = "subagent" -> "working"
                         [] use = "unavailable" -> "none"
             c == SetStatus(e, r, status, FALSE)
  <1>1. /\ now \in Nat /\ begun \in Nat /\ MaxRuns \in Nat /\ worked \in [RunIds -> Nat]
        /\ agent \in [RunIds -> Workers] /\ Unborn(b, agent, begun) /\ Manned(b, agent, resuming)
    BY ReplansKeeps, RoutinesAssumption DEF RoutinesInvariant, RoutinesTypeOK
  <1>2. use \in {"subagent", "triage", "unavailable"}
    BY RoutinesAssumption
  <1>3. \/ status = "triaging" /\ worker = "triage"
        \/ status = "working" /\ worker = "working"
        \/ status = "failed" /\ worker = "none"
    BY <1>2
  <1>4. /\ Keep(c) /\ begun' = r /\ agent' = [agent EXCEPT ![r] = worker]
        /\ worked' = [worked EXCEPT ![r] = 0]
    BY DEF Starts
  <1>5. /\ r \in RunIds /\ e.state.next = b.state.next /\ e.record = b.record /\ e.notices = b.notices
        /\ e.live[r] = Fresh /\ \A q \in RunIds \ {r} : e.live[q] = b.live[q] /\ ~Going(e, q)
        /\ e.state.last # Nil /\ e.state.last.run = r
        /\ e.record[r] = "none" /\ Fresh # Nil /\ ~Fresh.timedOut /\ WorkingTime(Fresh, now) = 0
        /\ LedgerIsRight(e) /\ (crashes = 0 => NoticesAreKept(e)) /\ TimesAdd(e, now, worked')
    BY <1>4, EnteredRight
  <1> HIDE DEF Fresh
  <1>6. status \in Statuses /\ worker \in Workers /\ worked' \in [RunIds -> Nat]
        /\ agent' \in [RunIds -> Workers] /\ begun' \in 0 .. MaxRuns
    <2>1. status \in Statuses /\ worker \in Workers
      <3>1. {"triaging", "working", "failed"} \subseteq Statuses /\ {"triage", "working", "none"} \subseteq Workers
        BY DEF Statuses, Active, Resumable, Finished, Workers
      <3> HIDE DEF status, worker
      <3> QED BY <1>3, <3>1
    <2> HIDE DEF status, worker
    <2>2. worked' \in [RunIds -> Nat] /\ agent' \in [RunIds -> Workers]
      BY <1>1, <1>4, <2>1
    <2>3. begun' \in 0 .. MaxRuns
      BY <1>1, <1>4
    <2> QED BY <2>1, <2>2, <2>3
  <1> HIDE DEF status, worker, e
  <1> LedgerIsRight(e) /\ TimesAdd(e, now, worked') /\ r \in RunIds
    BY <1>5
  <1>7. /\ RunKept(e, c, r) /\ TimesAdd(c, now, worked') /\ c.record[r] = status
        /\ TellsEnd(e, r, status, FALSE) => EndIsTold(e, c, r, status)
    BY <1>1, <1>6, StatusKeeps
  <1> HIDE DEF c
  <1>8. c \in Ledgers /\ Books' = c
    BY <1>4, <1>7, BooksFields DEF RunKept, OnlyRun
  <1>9. LedgerIsRight(c) /\ (crashes = 0 => NoticesAreKept(c)) /\ c.state.next = b.state.next
    BY <1>5, <1>7 DEF RunKept, OnlyRun
  <1>10. \A q \in RunIds : q # r => /\ c.record[q] = b.record[q] /\ c.live[q] = b.live[q]
                                    /\ c.notices[q] = b.notices[q] /\ agent'[q] = agent[q]
                                    /\ ~Going(c, q) /\ ~(c.state.last # Nil /\ c.state.last.run = q)
    BY <1>1, <1>4, <1>5, <1>7 DEF RunKept, OnlyRun
  <1>11. agent'[r] = worker /\ (Going(c, r) => ~c.live[r].timedOut /\ WorkingTime(c.live[r], now) = 0)
    BY <1>1, <1>4, <1>5, <1>7 DEF RunKept, OnlyRun
  <1>12. Unborn(c, agent', begun')
    <2>1. \A q \in RunIds : q > r => q > begun /\ q # r
      BY <1>1, RunIdsFacts
    <2>2. c.state.last.run = r
      BY <1>5, <1>7 DEF RunKept
    <2> QED BY <1>1, <1>4, <1>10, <2>1, <2>2 DEF Unborn
  <1>13. Manned(c, agent', resuming)
    <2>1. ASSUME NEW q \in RunIds, q # r PROVE MannedAt(c, q, agent'[q], resuming)
      BY <1>1, <1>10, <2>1 DEF Manned, MannedAt
    <2>2. MannedAt(c, r, worker, resuming)
      <3>1. CASE worker = "none"
        <4>1. TellsEnd(e, r, status, FALSE)
          BY <1>3, <1>5, <3>1, StatusNames DEF TellsEnd
        <4> QED BY <1>5, <1>7, <3>1, <4>1, EndedIsManned
      <3>2. CASE worker # "none"
        BY <1>3, <1>7, <1>11, <3>2 DEF MannedAt
      <3> QED BY <3>1, <3>2
    <2> QED BY <1>11, <2>1, <2>2 DEF Manned
  <1>14. \A q \in RunIds : Going(c, q) => WorkingTime(c.live[q], now) <= MaxWork
    BY <1>10, <1>11, RoutinesAssumption
  <1> QED BY <1>4, <1>6, <1>7, <1>8, <1>9, <1>12, <1>13, <1>14

(* The rest of what a step keeps.                                          *)
Settings ==
    /\ UNCHANGED <<now, savedFiles, interrupted, resuming, stops, crashes>>
    /\ schedule' \in Schedules \cup {Nil} /\ switches' \in Nat /\ enabled' \in BOOLEAN
    /\ onSince' \in {onSince, now}
    /\ mode' \in {"starting", "running"} /\ (resuming # Nil => mode' = "starting")

LEMMA BookSteps ==
    ASSUME RoutinesInvariant, mode # "stopped", Settings,
           Books' \in Ledgers, agent' \in [RunIds -> Workers], worked' \in [RunIds -> Nat],
           begun' \in 0 .. MaxRuns, begun' >= begun, wake' \in Nat \cup {Nil}, wake' # Nil => enabled',
           lastSlot' \in Nat \cup {Nil},
           LedgerIsRight(Books'), TimesAdd(Books', now, worked'),
           crashes = 0 => NoticesAreKept(Books'),
           Unborn(Books', agent', begun'), Manned(Books', agent', resuming),
           LookedAt(Books', wake', now),
           crashes = 0 => SlotIsAhead(state', enabled', now, lastSlot', onSince')
    PROVE  RoutinesInvariant'
PROOF
  <1>1. /\ state' = Books'.state /\ record' = Books'.record /\ live' = Books'.live
        /\ notices' = Books'.notices
    BY DEF Books
  <1>2. /\ now' = now /\ savedState' = savedState /\ savedRecord' = savedRecord
        /\ interrupted' = interrupted /\ resuming' = resuming /\ stops' = stops /\ crashes' = crashes
    BY DEF Settings, savedFiles
  <1>3. RoutinesTypeOK'
    <2>1. /\ state' \in RoutineStates /\ record' \in [RunIds -> Statuses]
          /\ live' \in [RunIds -> LiveRun \cup {Nil}] /\ notices' \in [RunIds -> Nat]
      BY <1>1, LedgerFields
    <2> QED BY <1>2, <2>1 DEF Settings, RoutinesInvariant, RoutinesTypeOK
  <1>4. begun \in Nat /\ begun' \in Nat /\ now \in Nat /\ onSince \in Nat
    BY DEF RoutinesInvariant, RoutinesTypeOK
  <1>5. FilesAreRight' /\ StoppedIsSaved'
    <2>1. \A r \in RunIds : r > begun' => r > begun
      BY <1>4, RunIdsFacts
    <2>2. savedState.last # Nil => savedState.last.run \in Nat
      BY RunIdsFacts DEF RoutinesInvariant, RoutinesTypeOK, RoutineStates, LastRun
    <2>3. savedState.last # Nil => savedState.last.run <= begun'
      BY <1>4, <2>2 DEF RoutinesInvariant, FilesAreRight
    <2> QED BY <1>2, <2>1, <2>3 DEF Settings, RoutinesInvariant, FilesAreRight, StoppedIsSaved
  <1>6. (resuming # Nil => mode = "starting" /\ resuming <= begun)'
    BY <1>2, <1>4, RunIdsFacts DEF Settings, RoutinesInvariant, RoutinesTypeOK
  <1>7. (wake # Nil => enabled /\ mode # "stopped")' /\ (onSince <= now)'
    BY <1>2, <1>4 DEF Settings, RoutinesInvariant
  <1>8. /\ LedgerIsRight(Books)' /\ TimesAdd(Books, now, worked)'
        /\ (crashes = 0 => NoticesAreKept(Books))' /\ Unborn(Books, agent, begun)'
        /\ (mode # "stopped" => Manned(Books, agent, resuming))'
        /\ (crashes = 0 => SlotIsAhead(state, enabled, now, lastSlot, onSince))'
        /\ LookedAt(Books, wake, now)'
    BY <1>2
  <1> QED BY <1>3, <1>5, <1>6, <1>7, <1>8 DEF RoutinesInvariant

(* A look, of the schedule of the file, at a ledger whose slot, if the file*)
(* has one, is ahead.                                                      *)
LEMMA TickKeeps ==
    ASSUME RoutinesInvariant, mode # "stopped", NEW b, Replans(b), NEW edited \in Schedules \cup {Nil},
           Tick(b, edited), Settings, enabled',
           crashes = 0 => /\ lastSlot # Nil
                          /\ b.state.next # Nil => b.state.next > lastSlot
                          /\ b.state.next # Nil /\ edited # Nil => b.state.next > onSince'
    PROVE  RoutinesInvariant'
PROOF
  <1>1. /\ now \in Nat /\ onSince \in Nat /\ onSince <= now /\ begun \in 0 .. MaxRuns
        /\ lastSlot \in Nat \cup {Nil} /\ worked \in [RunIds -> Nat]
        /\ crashes = 0 => lastSlot # Nil /\ lastSlot <= now
        /\ onSince' \in Nat /\ onSince <= onSince' /\ onSince' <= now
    BY DEF RoutinesInvariant, RoutinesTypeOK, SlotIsAhead, Settings
  <1>2. Books'.state = state'
    BY DEF Books
  <1>3. LET p == Planned(b, edited) IN
        Replans(p) /\ (p.state.next # Nil => p.state.next \in Nat /\ p.state.next > now)
    BY PlannedEffect
  <1>4. ASSUME NEW d, Replans(d), Looked(d),
               crashes = 0 /\ d.state.next # Nil => d.state.next > lastSlot /\ d.state.next > onSince'
        PROVE  RoutinesInvariant'
    <2>1. /\ Books' \in Ledgers /\ Books'.state = d.state /\ agent' \in [RunIds -> Workers]
          /\ LedgerIsRight(Books') /\ TimesAdd(Books', now, worked)
          /\ crashes = 0 => NoticesAreKept(Books')
          /\ Unborn(Books', agent', begun) /\ Manned(Books', agent', resuming)
          /\ wake' \in Nat /\ LookedAt(Books', wake', now)
      BY <1>4, LookedEffect
    <2>2. begun' = begun /\ worked' = worked /\ lastSlot' = lastSlot
      BY <1>4 DEF Looked
    <2>3. crashes = 0 => SlotIsAhead(state', enabled', now, lastSlot', onSince')
      BY <1>1, <1>2, <1>4, <2>1, <2>2 DEF SlotIsAhead
    <2>4. begun' >= begun /\ begun' \in 0 .. MaxRuns
      BY <1>1, <2>2
    <2> QED BY <1>1, <2>1, <2>2, <2>3, <2>4, BookSteps
  <1>5. CASE Looked(Planned(b, edited))
    <2> DEFINE p == Planned(b, edited)
    <2>1. Replans(p) /\ (p.state.next # Nil => p.state.next \in Nat /\ p.state.next > now)
      BY <1>3
    <2> HIDE DEF p
    <2>2. crashes = 0 /\ p.state.next # Nil => p.state.next > lastSlot /\ p.state.next > onSince'
      BY <1>1, <2>1
    <2> QED BY <1>4, <1>5, <2>1, <2>2 DEF p
  <1>6. CASE Looked(b) /\ edited # Nil
    BY <1>4, <1>6
  <1>7. CASE Due(b, edited) /\ ~Blocked(b) /\ SlotStarts(b, edited)
    <2> DEFINE p == Planned(b, edited)
    <2>1. Replans(p) /\ (p.state.next # Nil => p.state.next \in Nat /\ p.state.next > now)
      BY <1>3
    <2>2. PICK use \in Uses : Starts(p, use, FALSE)
      BY <1>7 DEF SlotStarts
    <2>3. begun < MaxRuns /\ wake' = Armed(p)
          /\ lastSlot' = (IF lastSlot # Nil /\ b.state.next > lastSlot /\ b.state.next > onSince
                          THEN b.state.next ELSE Nil)
      BY <1>7 DEF SlotStarts
    <2>4. edited # Nil /\ b.state.next # Nil /\ b.state.next <= now /\ b.state.next \in Nat
      BY <1>7, LedgerFields DEF Due, Replans, RoutineStates
    <2>5. ~IsRunning(Books)
      BY <1>7, ReplansKeeps DEF Blocked, IsRunning
    <2> HIDE DEF p
    <2>6. /\ Books' \in Ledgers /\ Books'.state.next = p.state.next
          /\ agent' \in [RunIds -> Workers] /\ begun' \in 0 .. MaxRuns /\ begun' = begun + 1
          /\ worked' \in [RunIds -> Nat]
          /\ LedgerIsRight(Books') /\ TimesAdd(Books', now, worked')
          /\ crashes = 0 => NoticesAreKept(Books')
          /\ Unborn(Books', agent', begun') /\ Manned(Books', agent', resuming)
          /\ \A q \in RunIds : Going(Books', q) => WorkingTime(Books'.live[q], now) <= MaxWork
      BY <2>1, <2>2, <2>3, <2>5, StartsEffect
    <2>7. wake' \in Nat /\ wake' <= now + 1
      BY <1>1, <2>1, <2>3 DEF Armed
    <2>8. LookedAt(Books', wake', now)
      BY <2>6, <2>7 DEF LookedAt
    <2>9. lastSlot' \in Nat \cup {Nil}
      BY <2>3, <2>4
    <2>10. crashes = 0 => SlotIsAhead(state', enabled', now, lastSlot', onSince')
      <3> SUFFICES ASSUME crashes = 0 PROVE SlotIsAhead(state', enabled', now, lastSlot', onSince')
        OBVIOUS
      <3>1. lastSlot' = b.state.next
        BY <1>1, <2>3, <2>4
      <3>2. state'.next # Nil => state'.next \in Nat /\ state'.next > now
        BY <1>2, <2>1, <2>6
      <3> QED BY <1>1, <2>4, <3>1, <3>2 DEF SlotIsAhead
    <2>11. begun' >= begun
      BY <1>1, <2>6
    <2> QED BY <2>6, <2>7, <2>8, <2>9, <2>10, <2>11, BookSteps
  <1> QED BY <1>5, <1>6, <1>7 DEF Tick

LEMMA PresentReplans == RoutinesInvariant => Replans(Books)
  BY BooksFields DEF RoutinesInvariant, Replans

(* A step that leaves the runs alone.                                      *)
LEMMA BooksRest ==
    ASSUME RoutinesInvariant, mode # "stopped", Settings,
           UNCHANGED <<books, agent, begun, worked, lastSlot>>, onSince' = onSince,
           wake' \in {wake, Nil}, wake' # Nil => enabled', enabled' => enabled
    PROVE  RoutinesInvariant'
PROOF
  <1>1. Books' = Books /\ state' = state
    BY DEF Books, books
  <1>2. /\ Books \in Ledgers /\ agent \in [RunIds -> Workers] /\ worked \in [RunIds -> Nat]
        /\ begun \in 0 .. MaxRuns /\ begun >= begun /\ lastSlot \in Nat \cup {Nil}
        /\ wake' \in Nat \cup {Nil}
    BY BooksFields DEF RoutinesInvariant, RoutinesTypeOK
  <1>3. LookedAt(Books, wake', now)
    BY DEF RoutinesInvariant, LookedAt
  <1>4. crashes = 0 => SlotIsAhead(state, enabled', now, lastSlot, onSince)
    BY DEF RoutinesInvariant, SlotIsAhead
  <1>5. agent' = agent /\ begun' = begun /\ worked' = worked /\ lastSlot' = lastSlot
    OBVIOUS
  <1>6. /\ LedgerIsRight(Books') /\ TimesAdd(Books', now, worked')
        /\ crashes = 0 => NoticesAreKept(Books')
        /\ Unborn(Books', agent', begun') /\ Manned(Books', agent', resuming)
    BY <1>1, <1>5 DEF RoutinesInvariant
  <1> QED BY <1>1, <1>2, <1>3, <1>4, <1>5, <1>6, BookSteps

LEMMA TimerKeeps == RoutinesInvariant /\ TimerFires => RoutinesInvariant'
PROOF
  <1> SUFFICES ASSUME RoutinesInvariant, TimerFires PROVE RoutinesInvariant'
    OBVIOUS
  <1>1. mode # "stopped" /\ enabled /\ Tick(Books, schedule) /\ schedule \in Schedules \cup {Nil}
    BY DEF TimerFires, RoutinesInvariant, RoutinesTypeOK
  <1>2. Settings /\ enabled' /\ onSince' = onSince
    BY <1>1 DEF TimerFires, Unmoved, Settings, RoutinesInvariant, RoutinesTypeOK
  <1>3. crashes = 0 => /\ lastSlot # Nil
                       /\ Books.state.next # Nil => Books.state.next > lastSlot
                       /\ Books.state.next # Nil => Books.state.next > onSince'
    BY <1>1, <1>2, BooksFields DEF RoutinesInvariant, SlotIsAhead
  <1> QED BY <1>1, <1>2, <1>3, PresentReplans, TickKeeps

LEMMA EditKeeps ==
    ASSUME RoutinesInvariant, NEW edited \in Schedules \cup {Nil}, EditFile(edited)
    PROVE  RoutinesInvariant'
  <1>1. /\ schedule' = edited /\ switches' = switches + 1
        /\ UNCHANGED <<mode, enabled, onSince>> /\ Unmoved
    BY DEF EditFile
  <1>2. CASE wake # Nil /\ Tick(Books, edited)
    <2>1. mode # "stopped" /\ enabled /\ enabled' /\ onSince' = onSince
      BY <1>1, <1>2 DEF RoutinesInvariant
    <2>2. Settings
      BY <1>1, <2>1 DEF Unmoved, Settings, RoutinesInvariant, RoutinesTypeOK
    <2>3. crashes = 0 => /\ lastSlot # Nil
                         /\ Books.state.next # Nil => Books.state.next > lastSlot
                         /\ Books.state.next # Nil => Books.state.next > onSince'
      BY <2>1, BooksFields DEF RoutinesInvariant, SlotIsAhead
    <2> QED BY <1>2, <2>1, <2>2, <2>3, PresentReplans, TickKeeps
  <1>3. CASE wake = Nil /\ UNCHANGED <<books, agent, begun, worked, lastSlot, wake>>
    <2>1. CASE mode # "stopped"
      <3>1. Settings
        BY <1>1, <2>1 DEF Unmoved, Settings, RoutinesInvariant, RoutinesTypeOK
      <3> QED BY <1>1, <1>3, <2>1, <3>1, BooksRest DEF RoutinesInvariant
    <2>2. CASE mode = "stopped"
      <3>1. Books' = Books /\ state' = state /\ record' = record /\ live' = live /\ notices' = notices
        BY <1>3 DEF Books, books
      <3>2. /\ now' = now /\ savedState' = savedState /\ savedRecord' = savedRecord
            /\ interrupted' = interrupted /\ resuming' = resuming /\ stops' = stops
            /\ crashes' = crashes /\ mode' = mode /\ enabled' = enabled /\ onSince' = onSince
            /\ agent' = agent /\ begun' = begun /\ worked' = worked /\ lastSlot' = lastSlot
            /\ wake' = wake
        BY <1>1, <1>3 DEF Unmoved, savedFiles
      <3>3. RoutinesTypeOK'
        BY <1>1, <3>1, <3>2 DEF RoutinesInvariant, RoutinesTypeOK
      <3> QED BY <3>1, <3>2, <3>3 DEF RoutinesInvariant, FilesAreRight, StoppedIsSaved
    <2> QED BY <2>1, <2>2
  <1> QED BY <1>2, <1>3 DEF EditFile

LEMMA SwitchOffKeeps == RoutinesInvariant /\ SwitchOff => RoutinesInvariant'
PROOF
  <1> SUFFICES ASSUME RoutinesInvariant, SwitchOff PROVE RoutinesInvariant'
    OBVIOUS
  <1>1. /\ mode # "stopped" /\ mode' = mode /\ schedule' = schedule /\ onSince' = onSince
        /\ switches' = switches + 1 /\ switches \in Nat /\ enabled' = FALSE /\ wake' = Nil
    BY DEF SwitchOff, RoutinesInvariant, RoutinesTypeOK
  <1>2. enabled' \in BOOLEAN
    BY <1>1
  <1>3. switches' \in Nat
    BY <1>1
  <1>4. Settings
    BY <1>1, <1>2, <1>3 DEF SwitchOff, Unmoved, Settings, RoutinesInvariant, RoutinesTypeOK
  <1> QED BY <1>1, <1>4, BooksRest DEF SwitchOff

LEMMA SwitchOnKeeps == RoutinesInvariant /\ SwitchOn => RoutinesInvariant'
PROOF
  <1> SUFFICES ASSUME RoutinesInvariant, SwitchOn PROVE RoutinesInvariant'
    OBVIOUS
  <1> DEFINE b == Rescheduled(Books)
  <1>1. /\ mode # "stopped" /\ enabled' = TRUE /\ onSince' = now /\ Tick(b, schedule)
        /\ schedule \in Schedules \cup {Nil} /\ now \in Nat /\ lastSlot \in Nat \cup {Nil}
    BY DEF SwitchOn, RoutinesInvariant, RoutinesTypeOK
  <1>2. Settings /\ enabled'
    BY <1>1 DEF SwitchOn, Unmoved, Settings, RoutinesInvariant, RoutinesTypeOK
  <1>3. /\ Replans(b)
        /\ schedule # Nil /\ b.state.next # Nil => b.state.next \in Nat /\ b.state.next > now
        /\ schedule = Nil => b = Books
    BY <1>1, PresentReplans, PlannedEffect DEF Rescheduled
  <1> HIDE DEF b
  <1>4. crashes = 0 => /\ lastSlot # Nil
                       /\ b.state.next # Nil => b.state.next > lastSlot
                       /\ b.state.next # Nil /\ schedule # Nil => b.state.next > onSince'
    BY <1>1, <1>3, BooksFields DEF RoutinesInvariant, SlotIsAhead
  <1> QED BY <1>1, <1>2, <1>3, <1>4, TickKeeps

LEMMA RunNowKeeps == RoutinesInvariant /\ RunNow => RoutinesInvariant'
PROOF
  <1> SUFFICES ASSUME RoutinesInvariant, RunNow PROVE RoutinesInvariant'
    OBVIOUS
  <1>1. /\ mode # "stopped" /\ begun < MaxRuns /\ ~IsRunning(Books) /\ enabled /\ enabled'
        /\ wake' = wake /\ lastSlot' = lastSlot /\ onSince' = onSince
        /\ begun \in 0 .. MaxRuns /\ wake \in Nat \cup {Nil} /\ lastSlot \in Nat \cup {Nil}
    BY DEF RunNow, RoutinesInvariant, RoutinesTypeOK
  <1>2. Settings
    BY <1>1 DEF RunNow, Unmoved, Settings, RoutinesInvariant, RoutinesTypeOK
  <1>3. PICK use \in Uses : Starts(Books, use, TRUE)
    BY DEF RunNow
  <1>4. /\ Books' \in Ledgers /\ Books'.state.next = Books.state.next
        /\ agent' \in [RunIds -> Workers] /\ begun' \in 0 .. MaxRuns /\ begun' = begun + 1
        /\ worked' \in [RunIds -> Nat]
        /\ LedgerIsRight(Books') /\ TimesAdd(Books', now, worked')
        /\ crashes = 0 => NoticesAreKept(Books')
        /\ Unborn(Books', agent', begun') /\ Manned(Books', agent', resuming)
        /\ \A q \in RunIds : Going(Books', q) => WorkingTime(Books'.live[q], now) <= MaxWork
    BY <1>1, <1>3, PresentReplans, StartsEffect
  <1>5. Books'.state = state' /\ Books.state = state
    BY DEF Books
  <1>6. LookedAt(Books', wake', now)
    BY <1>1, <1>4 DEF RoutinesInvariant, LookedAt
  <1>7. crashes = 0 => SlotIsAhead(state', enabled', now, lastSlot', onSince')
    BY <1>1, <1>4, <1>5 DEF RoutinesInvariant, SlotIsAhead
  <1>8. begun' >= begun
    BY <1>1, <1>4
  <1> QED BY <1>1, <1>2, <1>4, <1>6, <1>7, <1>8, BookSteps

LEMMA StartEndsKeeps == RoutinesInvariant /\ StartEnds => RoutinesInvariant'
PROOF
  <1> SUFFICES ASSUME RoutinesInvariant, StartEnds PROVE RoutinesInvariant'
    OBVIOUS
  <1>1. mode # "stopped" /\ resuming = Nil /\ schedule \in Schedules \cup {Nil}
        /\ enabled' = enabled /\ onSince' = onSince
    BY DEF StartEnds, RoutinesInvariant, RoutinesTypeOK
  <1>2. Settings
    BY <1>1 DEF StartEnds, Unmoved, Settings, RoutinesInvariant, RoutinesTypeOK
  <1>3. CASE enabled /\ Tick(Books, schedule)
    <2>1. crashes = 0 => /\ lastSlot # Nil
                         /\ Books.state.next # Nil => Books.state.next > lastSlot
                         /\ Books.state.next # Nil => Books.state.next > onSince'
      BY <1>1, <1>3, BooksFields DEF RoutinesInvariant, SlotIsAhead
    <2> QED BY <1>1, <1>2, <1>3, <2>1, PresentReplans, TickKeeps
  <1>4. CASE UNCHANGED <<books, agent, begun, worked, lastSlot, wake>>
    BY <1>1, <1>2, <1>4, BooksRest DEF RoutinesInvariant
  <1> QED BY <1>3, <1>4 DEF StartEnds

-----------------------------------------------------------------------------
(* Time, the files, and the process.                                       *)

LEMMA PassKeeps ==
    ASSUME RoutinesInvariant, NEW n \in Nat \ {0}, Pass(n)
    PROVE  RoutinesInvariant'
PROOF
  <1>1. /\ now' = now + n /\ now \in Nat /\ now' \in Nat /\ worked \in [RunIds -> Nat]
        /\ onSince \in Nat /\ wake \in Nat \cup {Nil} /\ lastSlot \in Nat \cup {Nil}
    BY DEF Pass, RoutinesInvariant, RoutinesTypeOK
  <1>2. worked' = [r \in RunIds |-> IF WorksOn(r) THEN worked[r] + n ELSE worked[r]]
    BY DEF Pass
  <1>3. worked' \in [RunIds -> Nat]
    BY <1>1, <1>2
  <1>4. Books' = Books /\ state' = state /\ record' = record /\ live' = live /\ notices' = notices
    BY DEF Pass, Books, books
  <1>5. /\ savedState' = savedState /\ savedRecord' = savedRecord /\ schedule' = schedule
        /\ interrupted' = interrupted /\ resuming' = resuming /\ stops' = stops
        /\ crashes' = crashes /\ mode' = mode /\ enabled' = enabled /\ onSince' = onSince
        /\ agent' = agent /\ begun' = begun /\ lastSlot' = lastSlot /\ wake' = wake
        /\ switches' = switches
    BY DEF Pass, savedFiles
  <1>6. RoutinesTypeOK'
    BY <1>1, <1>3, <1>4, <1>5 DEF RoutinesInvariant, RoutinesTypeOK
  <1>7. TimesAdd(Books, now', worked')
    <2> SUFFICES ASSUME NEW r \in RunIds, live[r] # Nil
                 PROVE  TimeAdds(live[r], record[r], now', worked'[r])
      BY BooksFields DEF TimesAdd
    <2>1. live[r] \in LiveRun /\ TimeAdds(live[r], record[r], now, worked[r])
      BY BooksFields DEF RoutinesInvariant, RoutinesTypeOK, TimesAdd
    <2>2. worked[r] \in Nat /\ worked'[r] = IF WorksOn(r) THEN worked[r] + n ELSE worked[r]
      BY <1>1, <1>2
    <2>3. WorksOn(r) => live[r].pausedSince = Nil
      BY <2>1 DEF WorksOn, TimeAdds
    <2> QED BY <1>1, <2>1, <2>2, <2>3, RunFields DEF TimeAdds
  <1>8. LookedAt(Books, wake, now')
    <2>1. wake # Nil => wake \in Nat /\ wake <= now + 1
      BY <1>1 DEF RoutinesInvariant, LookedAt
    <2> QED BY <1>1, <2>1 DEF LookedAt
  <1>9. crashes = 0 => SlotIsAhead(state, enabled, now', lastSlot, onSince)
    BY <1>1 DEF RoutinesInvariant, SlotIsAhead
  <1>10. onSince <= now'
    BY <1>1 DEF RoutinesInvariant
  <1> QED BY <1>4, <1>5, <1>6, <1>7, <1>8, <1>9, <1>10
          DEF RoutinesInvariant, FilesAreRight, StoppedIsSaved

LEMMA SaveKeeps == RoutinesInvariant /\ SaveFiles => RoutinesInvariant'
PROOF
  <1> SUFFICES ASSUME RoutinesInvariant, SaveFiles PROVE RoutinesInvariant'
    OBVIOUS
  <1>1. /\ mode # "stopped" /\ savedState' \in {state, savedState}
        /\ savedRecord' \in {record, savedRecord}
    BY DEF SaveFiles, SaveState, SaveRecords
  <1>2. Books' = Books /\ state' = state /\ record' = record /\ live' = live /\ notices' = notices
    BY DEF SaveFiles, Books, books
  <1>3. /\ now' = now /\ schedule' = schedule /\ worked' = worked
        /\ interrupted' = interrupted /\ resuming' = resuming /\ stops' = stops
        /\ crashes' = crashes /\ mode' = mode /\ enabled' = enabled /\ onSince' = onSince
        /\ agent' = agent /\ begun' = begun /\ lastSlot' = lastSlot /\ wake' = wake
        /\ switches' = switches
    BY DEF SaveFiles
  <1>4. RoutinesTypeOK'
    BY <1>1, <1>2, <1>3 DEF RoutinesInvariant, RoutinesTypeOK
  <1>5. FilesAreRight'
    BY <1>1, <1>3, BooksFields DEF RoutinesInvariant, FilesAreRight, LedgerIsRight, Unborn
  <1> QED BY <1>1, <1>2, <1>3, <1>4, <1>5 DEF RoutinesInvariant, StoppedIsSaved

LEMMA StopKeeps == RoutinesInvariant /\ ProcessStops => RoutinesInvariant'
PROOF
  <1> SUFFICES ASSUME RoutinesInvariant, ProcessStops PROVE RoutinesInvariant'
    OBVIOUS
  <1>1. /\ mode # "stopped" /\ stops' = stops + 1 /\ mode' = "stopped" /\ wake' = Nil
        /\ agent' = [r \in RunIds |-> "none"] /\ savedState' = state' /\ savedRecord' = record'
        /\ interrupted' = {} /\ resuming' = Nil
        /\ now' = now /\ schedule' = schedule /\ begun' = begun /\ enabled' = enabled
        /\ worked' = worked /\ lastSlot' = lastSlot /\ onSince' = onSince /\ crashes' = crashes
        /\ switches' = switches
    BY DEF ProcessStops
  <1>2. /\ now \in Nat /\ worked \in [RunIds -> Nat] /\ begun \in Nat
        /\ agent' \in [RunIds -> Workers] /\ \A r \in RunIds : agent'[r] = "none"
    BY <1>1, StatusNames DEF RoutinesInvariant, RoutinesTypeOK
  <1>3. ASSUME NEW c, c \in Ledgers, Books' = c, LedgerIsRight(c), TimesAdd(c, now, worked),
               crashes = 0 => NoticesAreKept(c), Unborn(c, agent', begun),
               c.state.next = state.next
        PROVE  RoutinesInvariant'
    <2>1. state' = c.state /\ record' = c.record /\ live' = c.live /\ notices' = c.notices
      BY <1>3 DEF Books
    <2>2. RoutinesTypeOK'
      BY <1>1, <1>2, <1>3, <2>1, LedgerFields DEF RoutinesInvariant, RoutinesTypeOK
    <2>3. crashes = 0 => SlotIsAhead(state', enabled, now, lastSlot, onSince)
      BY <1>3, <2>1 DEF RoutinesInvariant, SlotIsAhead
    <2>4. FilesAreRight'
      BY <1>1, <1>3, <2>1 DEF FilesAreRight, LedgerIsRight, Unborn
    <2>5. StoppedIsSaved'
      BY <1>1, <1>2 DEF StoppedIsSaved
    <2>6. LookedAt(Books, wake, now)'
      BY <1>1 DEF LookedAt
    <2> QED BY <1>1, <1>3, <2>2, <2>3, <2>4, <2>5, <2>6 DEF RoutinesInvariant
  <1>4. CASE UNCHANGED books
    <2>1. Books' = Books
      BY <1>4 DEF Books, books
    <2>2. Unborn(Books, agent', begun)
      BY <1>2 DEF RoutinesInvariant, Unborn
    <2> QED BY <1>3, <2>1, <2>2, BooksFields DEF RoutinesInvariant
  <1>5. CASE resuming # Nil /\ Keep(GivenUp(resuming))
    <2> DEFINE r == resuming
               d == SetStatus(SetStatus(Books, r, "working", FALSE), r, "failed", FALSE)
    <2>1. r \in RunIds /\ r <= begun /\ Keep(d)
      BY <1>5 DEF RoutinesInvariant, RoutinesTypeOK, GivenUp
    <2> "working" \in Statuses /\ "failed" \in Statuses
      BY StatusNames
    <2> HIDE DEF r
    <2>2. RunKept(Books, d, r) /\ TimesAdd(d, now, worked)
      BY <2>1, RunFactsTwice
    <2> HIDE DEF d
    <2>3. d \in Ledgers /\ Books' = d /\ LedgerIsRight(d) /\ (crashes = 0 => NoticesAreKept(d))
          /\ d.state.next = state.next
      BY <2>1, <2>2, BooksFields DEF RunKept, OnlyRun, RoutinesInvariant
    <2>4. Unborn(d, agent', begun)
      <3>1. \A q \in RunIds : q > begun => q # r
        BY <1>2, <2>1, RunIdsFacts
      <3> QED BY <1>2, <2>2, <3>1 DEF RoutinesInvariant, RunKept, OnlyRun, Unborn
    <2> QED BY <1>3, <2>2, <2>3, <2>4
  <1> QED BY <1>4, <1>5 DEF ProcessStops

(* What a restart makes of the two files.                                  *)
LEMMA RestartKeeps ==
    ASSUME RoutinesInvariant, Restarts, stops' \in Nat, crashes' \in Nat, switches' \in Nat,
           crashes' = 0 => crashes = 0 /\ mode = "stopped"
    PROVE  RoutinesInvariant'
PROOF
  <1> DEFINE midTriage == {r \in RunIds : savedRecord[r] = "triaging"}
             badges == [r \in RunIds |-> IF r \in midTriage THEN "failed" ELSE savedRecord[r]]
             b == [state |-> savedState, record |-> badges, live |-> [r \in RunIds |-> Nil],
                   notices |-> notices]
             last == savedState.last
             ends == last # Nil /\ (last.run \in midTriage
                                    \/ (badges[last.run] \in Finished /\ badges[last.run] # last.status))
             c == IF ends THEN Finalize(b, last.run, badges[last.run]) ELSE b
  <1>1. /\ savedState \in RoutineStates /\ savedRecord \in [RunIds -> Statuses]
        /\ notices \in [RunIds -> Nat] /\ now \in Nat /\ begun \in Nat /\ worked \in [RunIds -> Nat]
        /\ last # Nil => last \in LastRun /\ last.run \in RunIds
    BY DEF RoutinesInvariant, RoutinesTypeOK, RoutineStates, LastRun
  <1>2. badges \in [RunIds -> Statuses]
    BY <1>1, StatusNames
  <1>3. \A r \in RunIds : badges[r] = IF savedRecord[r] = "triaging" THEN "failed" ELSE savedRecord[r]
    OBVIOUS
  <1>4. Reconciled(Loaded) = c
    <2>1. /\ Loaded.state = savedState /\ Loaded.record = savedRecord
          /\ [Loaded EXCEPT !.record = [r \in RunIds |-> IF r \in midTriage THEN "failed" ELSE @[r]]] = b
      BY DEF Loaded
    <2> QED BY <2>1 DEF Reconciled
  <1> HIDE DEF badges
  <1>5. /\ b.state = savedState /\ b.record = badges /\ b.notices = notices /\ b \in Ledgers
        /\ \A r \in RunIds : b.live[r] = Nil
    BY <1>1, <1>2 DEF Ledgers
  <1> HIDE DEF b
  <1>6. LedgerIsRight(b)
    BY <1>5 DEF RoutinesInvariant, FilesAreRight, LedgerIsRight, OnlyLatestGoes, EndsTogether, Going
  <1>7. TimesAdd(b, now, worked)
    BY <1>5 DEF TimesAdd
  <1>8. crashes' = 0 => NoticesAreKept(b)
    BY <1>5, BooksFields DEF RoutinesInvariant, StoppedIsSaved, NoticesAreKept
  <1>9. ends => last.run \in RunIds /\ badges[last.run] \in Finished
    BY <1>1, <1>3, StatusNames
  <1>10. ends => /\ OnlyRun(b, c, last.run) /\ EndIsTold(b, c, last.run, badges[last.run])
                 /\ c.record = b.record /\ TimesAdd(c, now, worked)
    BY <1>1, <1>5, <1>7, <1>9, FinalizeEffect
  <1>11. ~ends => c = b
    OBVIOUS
  <1> HIDE DEF c
  <1>12. ends => RunKept(b, c, last.run)
    BY <1>6, <1>9, <1>10, TellingKeeps
  <1>13. /\ LedgerIsRight(c) /\ TimesAdd(c, now, worked) /\ (crashes' = 0 => NoticesAreKept(c))
         /\ c \in Ledgers /\ c.record = badges /\ c.state.next = savedState.next
         /\ \A r \in RunIds : c.live[r] = Nil
         /\ c.state.last = Nil <=> last = Nil
         /\ last # Nil => c.state.last.run = last.run
    <2>1. CASE ends
      <3>1. \A r \in RunIds : c.live[r] = Nil
        BY <1>5, <1>10, <2>1 DEF OnlyRun
      <3> QED BY <1>5, <1>8, <1>10, <1>12, <2>1, <3>1 DEF RunKept, OnlyRun
    <2>2. CASE ~ends
      BY <1>5, <1>6, <1>7, <1>8, <1>11, <2>2
    <2> QED BY <2>1, <2>2
  <1>14. last # Nil /\ badges[last.run] \in Finished =>
           c.state.last.finished /\ c.state.last.status = badges[last.run]
    <2>1. CASE ends
      BY <1>5, <1>10, <2>1 DEF EndIsTold
    <2>2. CASE ~ends
      BY <1>5, <1>11, <2>2 DEF RoutinesInvariant, FilesAreRight, EndedIsFinished
    <2> QED BY <2>1, <2>2
  <1>15. /\ Keep(c) /\ agent' = [r \in RunIds |-> "none"] /\ mode' = "starting" /\ wake' = Nil
         /\ interrupted' = {r \in RunIds : savedRecord[r] \in Resumable} /\ resuming' = Nil
         /\ now' = now /\ schedule' = schedule /\ savedState' = savedState
         /\ savedRecord' = savedRecord /\ begun' = begun /\ enabled' = enabled
         /\ worked' = worked /\ lastSlot' = lastSlot /\ onSince' = onSince /\ switches' = switches
    BY <1>4 DEF Restarts, savedFiles
  <1> HIDE DEF midTriage, last, ends
  <1>16. Books' = c /\ state' = c.state /\ record' = c.record /\ live' = c.live /\ notices' = c.notices
    BY <1>13, <1>15, BooksFields DEF Keep
  <1>17. agent' \in [RunIds -> Workers] /\ \A r \in RunIds : agent'[r] = "none"
    BY <1>15, StatusNames
  <1>18. RoutinesTypeOK'
    BY <1>1, <1>13, <1>15, <1>16, <1>17, LedgerFields DEF RoutinesInvariant, RoutinesTypeOK
  <1>19. Unborn(c, agent', begun)
    <2>1. \A r \in RunIds : r > begun => savedRecord[r] = "none" /\ notices[r] = 0
      BY BooksFields DEF RoutinesInvariant, FilesAreRight, Unborn
    <2>2. \A r \in RunIds : r > begun => c.notices[r] = 0
      <3>1. CASE ends
        <4>1. last.run <= begun
          BY <1>9, <3>1 DEF ends, last, RoutinesInvariant, FilesAreRight
        <4>2. \A r \in RunIds : r > begun => r # last.run
          BY <1>1, <1>9, <3>1, <4>1, RunIdsFacts
        <4> QED BY <1>5, <1>10, <2>1, <3>1, <4>2 DEF OnlyRun
      <3>2. CASE ~ends
        BY <1>5, <1>11, <2>1, <3>2
      <3> QED BY <3>1, <3>2
    <2>3. c.state.last # Nil => c.state.last.run <= begun
      BY <1>13 DEF RoutinesInvariant, FilesAreRight, last
    <2> QED BY <1>3, <1>13, <1>17, <2>1, <2>2, <2>3 DEF Unborn
  <1>20. Manned(c, agent', Nil)
    BY <1>13, <1>14, <1>17 DEF Manned, MannedAt, Going
  <1>21. crashes' = 0 => SlotIsAhead(c.state, enabled, now, lastSlot, onSince)
    BY <1>13 DEF RoutinesInvariant, StoppedIsSaved, SlotIsAhead
  <1>22. LookedAt(c, wake', now)
    BY <1>15 DEF LookedAt
  <1>23. FilesAreRight' /\ StoppedIsSaved'
    BY <1>15 DEF RoutinesInvariant, FilesAreRight, StoppedIsSaved
  <1>24. onSince <= now
    BY DEF RoutinesInvariant
  <1> QED BY <1>13, <1>15, <1>16, <1>18, <1>19, <1>20, <1>21, <1>22, <1>23, <1>24
          DEF RoutinesInvariant

LEMMA RestartsKeep ==
    RoutinesInvariant /\ (ProcessRestarts \/ ProcessCrashes) => RoutinesInvariant'
PROOF
  <1> SUFFICES ASSUME RoutinesInvariant, ProcessRestarts \/ ProcessCrashes PROVE RoutinesInvariant'
    OBVIOUS
  <1>1. stops \in Nat /\ crashes \in Nat /\ switches \in Nat
    BY DEF RoutinesInvariant, RoutinesTypeOK
  <1>2. CASE ProcessRestarts
    BY <1>1, <1>2, RestartKeeps DEF ProcessRestarts, Restarts
  <1>3. CASE ProcessCrashes
    <2>1. crashes' \in Nat /\ crashes' # 0 /\ stops' = stops /\ switches' = switches /\ Restarts
      BY <1>1, <1>3 DEF ProcessCrashes, Restarts
    <2> QED BY <1>1, <2>1, RestartKeeps
  <1> QED BY <1>2, <1>3

LEMMA RoutinesRest == RoutinesInvariant /\ UNCHANGED routineVars => RoutinesInvariant'
PROOF
  <1> SUFFICES ASSUME RoutinesInvariant, UNCHANGED routineVars PROVE RoutinesInvariant'
    OBVIOUS
  <1>1. Books' = Books
    BY DEF routineVars, books, Books
  <1> QED BY <1>1 DEF routineVars, books, savedFiles, RoutinesInvariant, RoutinesTypeOK,
                      FilesAreRight, StoppedIsSaved

LEMMA RoutinesStep == RoutinesInvariant /\ RoutinesNext => RoutinesInvariant'
PROOF
  <1> SUFFICES ASSUME RoutinesInvariant, RoutinesNext PROVE RoutinesInvariant'
    OBVIOUS
  <1>1. begun \in Nat /\ begun <= MaxRuns /\ 1 .. begun \subseteq RunIds
        /\ \A r \in 1 .. begun : r <= begun
    BY RoutinesAssumption DEF RoutinesInvariant, RoutinesTypeOK, RunIds
  <1>2. ASSUME NEW r \in 1 .. begun,
               \/ Triaged(r) \/ GoesOn(r) \/ UserCancels(r) \/ TimedOut(r)
               \/ \E s \in Resumable \cup Endings : Reports(r, s)
               \/ \E s \in Endings : TurnEnds(r, s)
               \/ ResumeBegin(r)
        PROVE  RoutinesInvariant'
    BY <1>1, <1>2, TriagedKeeps, GoesOnKeeps, UserCancelsKeeps, TimedOutKeeps, ReportsKeeps,
       TurnEndsKeeps, ResumeBeginKeeps
  <1>3. CASE Advance
    <2>1. Pass(1)
      BY <1>3 DEF Advance
    <2> QED BY <2>1, PassKeeps
  <1>4. CASE Sleep
    <2>1. PICK n \in 2 .. MaxSleep : Pass(n)
      BY <1>4 DEF Sleep
    <2>2. n \in Nat \ {0}
      BY RoutinesAssumption
    <2> QED BY <2>1, <2>2, PassKeeps
  <1>5. ASSUME NEW edited \in Schedules \cup {Nil}, EditFile(edited) PROVE RoutinesInvariant'
    BY <1>5, EditKeeps
  <1> QED BY <1>2, <1>3, <1>4, <1>5, TimerKeeps, SwitchOffKeeps, SwitchOnKeeps, RunNowKeeps,
             ResumeEndKeeps, StartEndsKeeps, SaveKeeps, StopKeeps, RestartsKeep DEF RoutinesNext

(* The routines: never two runs of one routine, each end recorded and      *)
(* notified once, a slot that frees up, work within the limit, and a slot  *)
(* that runs once across restarts, unless it passed while it was off.      *)
THEOREM RoutinesAreRight == RoutinesSpec => []RoutinesRunOnce
PROOF
  <1>1. RoutinesInvariant /\ [RoutinesNext]_routineVars => RoutinesInvariant'
    BY RoutinesStep, RoutinesRest
  <1> QED BY RoutinesStart, <1>1, RunsOnceFollows, PTL DEF RoutinesSpec
-----------------------------------------------------------------------------
(* The connection to a tool server.                                        *)

(* A session that is opened or listed belongs to an attempt, the one that   *)
(* is live is the one in use.                                               *)
SessionsAreHeld ==
    \A s \in Sessions :
        /\ phase[s] = "live" <=> session = s
        /\ phase[s] \in Opening => Owned(s)
        /\ Owned(s) => phase[s] \in Opening \cup {"disposing"}
        /\ s \in notes => phase[s] \in {"listed", "live", "disposing", "ending"}

(* A lazy attempt, the loop and a session in use exclude each other, and    *)
(* the loop only begins once there was a session.                           *)
OneWay ==
    /\ attempt # Undefined => session = Undefined /\ loop = Undefined
    /\ loop # Undefined => session = Undefined
    /\ session # Undefined \/ loop # Undefined => negotiated # Undefined
    /\ timer # Undefined => timer = session

(* What a close found opened or in use is being disposed of, and once it is *)
(* over nothing is left of it.                                              *)
CloseIsClose ==
    /\ currentState = "closed" <=> ~Open
    /\ ~Open =>
        /\ session = Undefined
        /\ \A s \in Sessions : phase[s] \in {"opening", "disposing", "ending", "gone"}
    /\ closeStage = "done" =>
        /\ attempt = Undefined /\ loop = Undefined
        /\ \A s \in Sessions : phase[s] # "disposing"

(* A call runs on a session that no attempt is opening, or has failed to.   *)
RunsOnAdopted ==
    \A c \in Calls : \A s \in Sessions : toolCalls[c] = RunningOn(s) => ~Owned(s)

(* No request is of a session being opened, and those of the session in use *)
(* are the latest.                                                          *)
RequestsInOrder ==
    \A i \in 1 .. Len(refreshes) :
        /\ phase[refreshes[i].from] \notin Opening
        /\ refreshes[i].from = session =>
            \A j \in i .. Len(refreshes) : refreshes[j].from = session

(* Whatever the server has is offered, is the answer of the last request    *)
(* or its answer to come, or is announced.                                  *)
LastAnswer ==
    IF \E i \in 1 .. Len(refreshes) : refreshes[i].from = session
    THEN refreshes[Len(refreshes)].got \in {Undefined, serves}
    ELSE tools.at = serves
CatchingUp ==
    ~Rushed /\ ~Overtakes /\ ~ListsFail =>
        /\ \A s \in Sessions : phase[s] = "listed" => listed[s] = serves \/ s \in notes
        /\ session # Undefined /\ session \notin notes /\ timer = Undefined => LastAnswer

McpInvariant ==
    /\ McpTypeOK
    /\ SessionsAreHeld
    /\ OneWay
    /\ CloseIsClose
    /\ StateIsTrue
    /\ ToolsAreTheSessions
    /\ NobodyWaitsForNothing
    /\ RunsOnAdopted
    /\ RequestsInOrder
    /\ CatchingUp

LEMMA CallStatesDiffer ==
    /\ Waiting \in CallStates /\ Waiting # Undefined
    /\ \A s \in Sessions :
        /\ RunningOn(s) \in CallStates /\ RunningOn(s) # Waiting /\ RunningOn(s) # Undefined
        /\ \A t \in Sessions : RunningOn(s) = RunningOn(t) => s = t
    /\ \A h \in {"ok", "lost", "refused", "timeout"} :
        /\ Settled(h) \in CallStates /\ Settled(h) # Waiting /\ Settled(h) # Undefined
        /\ \A s \in Sessions : Settled(h) # RunningOn(s)
PROOF
  BY McpAssumption DEF CallStates, Waiting, RunningOn, Settled

LEMMA RemoveAtIs ==
    ASSUME NEW S, NEW q \in Seq(S), NEW i \in 1 .. Len(q)
    PROVE  /\ RemoveAt(q, i) \in Seq(S)
           /\ Len(RemoveAt(q, i)) = Len(q) - 1
           /\ \A j \in 1 .. Len(q) - 1 :
                RemoveAt(q, i)[j] = q[IF j < i THEN j ELSE j + 1]
PROOF
  <1> DEFINE front == SubSeq(q, 1, i - 1)
             back == SubSeq(q, i + 1, Len(q))
  <1>1. Len(q) \in Nat /\ \A j \in 1 .. Len(q) : q[j] \in S
    OBVIOUS
  <1>2. /\ front \in Seq(S) /\ Len(front) = i - 1
        /\ \A j \in 1 .. i - 1 : front[j] = q[j]
    BY <1>1, SubSeqProperties
  <1>3. /\ back \in Seq(S) /\ Len(back) = Len(q) - i
        /\ \A j \in 1 .. Len(q) - i : back[j] = q[i + j]
    BY <1>1, SubSeqProperties
  <1>4. RemoveAt(q, i) = front \o back
    BY DEF RemoveAt
  <1> HIDE DEF front, back
  <1>5. /\ front \o back \in Seq(S)
        /\ Len(front \o back) = Len(front) + Len(back)
        /\ \A j \in 1 .. Len(front) + Len(back) :
             (front \o back)[j] = IF j <= Len(front) THEN front[j] ELSE back[j - Len(front)]
    BY <1>2, <1>3, ConcatProperties
  <1>6. ASSUME NEW j \in 1 .. Len(q) - 1
        PROVE  (front \o back)[j] = q[IF j < i THEN j ELSE j + 1]
    <2>1. CASE j < i
      BY <2>1, <1>1, <1>2, <1>3, <1>5
    <2>2. CASE ~(j < i)
      <3>1. (front \o back)[j] = back[j - Len(front)] /\ j - Len(front) \in 1 .. Len(q) - i
        BY <2>2, <1>1, <1>2, <1>3, <1>5
      <3>2. back[j - Len(front)] = q[i + (j - Len(front))]
        BY <3>1, <1>3
      <3>3. i + (j - Len(front)) = j + 1
        BY <1>1, <1>2
      <3> QED
        BY <2>2, <3>1, <3>2, <3>3
    <2> QED
      BY <2>1, <2>2
  <1> QED
    BY <1>1, <1>2, <1>3, <1>4, <1>5, <1>6

LEMMA RequestsAre ==
    ASSUME McpTypeOK
    PROVE  /\ Len(refreshes) \in Nat /\ DOMAIN refreshes = 1 .. Len(refreshes)
           /\ \A i \in 1 .. Len(refreshes) :
                /\ refreshes[i] \in Requests
                /\ refreshes[i].from \in Sessions /\ refreshes[i].from # Undefined
                /\ refreshes[i].got \in {Undefined} \cup 0 .. MaxChanges
PROOF
  <1>1. refreshes \in Seq(Requests)
    BY DEF McpTypeOK
  <1>2. \A i \in 1 .. Len(refreshes) : refreshes[i] \in Requests
    BY <1>1
  <1>3. \A r \in Requests : /\ r.from \in Sessions /\ r.from # Undefined
                            /\ r.got \in {Undefined} \cup 0 .. MaxChanges
    BY McpAssumption DEF Requests
  <1> QED
    BY <1>1, <1>2, <1>3

LEMMA FirstRetry ==
    /\ [n |-> 1, opens |-> Undefined] \in Retries
    /\ Undefined \notin Retries
    /\ \A l \in Retries : /\ l.n \in 1 .. MaxReconnects /\ l.opens \in Sessions \cup {Undefined}
                          /\ \A s \in Sessions : [l EXCEPT !.opens = s] \in Retries
                          /\ l.n < MaxReconnects => [n |-> l.n + 1, opens |-> Undefined] \in Retries
PROOF
  BY McpAssumption DEF Retries

LEMMA AttemptEnds ==
    ASSUME McpInvariant, NEW s \in Sessions, Owned(s), NEW why, AttemptFails(s, why)
    PROVE  /\ attempt' = Undefined
           /\ loop' \in Retries \cup {Undefined}
           /\ loop' # Undefined => Open /\ loop # Undefined /\ loop'.opens = Undefined
           /\ IF Open /\ loop' = Undefined
              THEN EnterError ELSE UNCHANGED <<currentState, tools, cool>>
           /\ toolCalls' \in [Calls -> CallStates \cup {Undefined}]
           /\ \A c \in Calls : /\ toolCalls'[c] = toolCalls[c] \/ toolCalls'[c] = Settled("refused")
                               /\ loop' = Undefined => toolCalls'[c] # Waiting
PROOF
  <1> USE McpAssumption, CallStatesDiffer, FirstRetry
  <1>1. /\ attempt' = Undefined
        /\ loop' \in Retries \cup {Undefined}
        /\ loop' # Undefined => Open /\ loop # Undefined /\ loop'.opens = Undefined
        /\ IF Open /\ loop' = Undefined
           THEN EnterError ELSE UNCHANGED <<currentState, tools, cool>>
    BY DEF McpInvariant, McpTypeOK, OneWay, Owned, AttemptFails
  <1>2. toolCalls' = Released(Undefined) \/ (loop' # Undefined /\ toolCalls' = toolCalls)
    BY DEF McpInvariant, McpTypeOK, OneWay, Owned, AttemptFails
  <1>3. toolCalls \in [Calls -> CallStates \cup {Undefined}]
    BY DEF McpInvariant, McpTypeOK
  <1> QED
    BY <1>1, <1>2, <1>3 DEF Released

LEMMA RequestsStay ==
    ASSUME McpInvariant, UNCHANGED refreshes, session' \in {session, Undefined},
           \A s \in Sessions : phase'[s] \in Opening => phase[s] \in Opening \/ Unused(s)
    PROVE  RequestsInOrder'
PROOF
  BY RequestsAre DEF McpInvariant, RequestsInOrder, Unused

(* Requests stay in order when the `i`th is over.                           *)
LEMMA StillInOrder ==
    ASSUME McpInvariant, NEW i \in 1 .. Len(refreshes), UNCHANGED <<phase, session>>,
           Len(refreshes') = Len(refreshes) - 1,
           \A j \in 1 .. Len(refreshes) - 1 :
              refreshes'[j] = refreshes[IF j < i THEN j ELSE j + 1]
    PROVE  RequestsInOrder'
PROOF
  <1> DEFINE was(j) == IF j < i THEN j ELSE j + 1
  <1>1. Len(refreshes) \in Nat
    BY RequestsAre DEF McpInvariant
  <1>2. \A j \in 1 .. Len(refreshes') :
           was(j) \in 1 .. Len(refreshes) /\ refreshes'[j] = refreshes[was(j)]
    BY <1>1
  <1>3. \A j \in 1 .. Len(refreshes') : \A k \in j .. Len(refreshes') :
           k \in 1 .. Len(refreshes') /\ was(k) \in was(j) .. Len(refreshes)
    BY <1>1
  <1> HIDE DEF was
  <1>4. RequestsInOrder
    BY DEF McpInvariant
  <1>5. ASSUME NEW j \in 1 .. Len(refreshes')
        PROVE  /\ phase[refreshes'[j].from] \notin Opening
               /\ refreshes'[j].from = session =>
                    \A k \in j .. Len(refreshes') : refreshes'[k].from = session
    BY <1>2, <1>3, <1>4 DEF RequestsInOrder
  <1> QED
    BY <1>5 DEF RequestsInOrder

(* An attempt for `s` has failed and nothing is left of `s`.                *)
LEMMA AttemptGone ==
    ASSUME McpInvariant, NEW s \in Sessions, Owned(s), NEW why, AttemptFails(s, why),
           phase' = [phase EXCEPT ![s] = "gone"], notes' = notes \ {s},
           listed' \in [Sessions -> 0 .. MaxChanges],
           \A t \in Sessions : t # s => listed'[t] = listed[t],
           UNCHANGED <<session, negotiated, sse, timer, refreshes, closeStage, serves>>
    PROVE  McpInvariant'
PROOF
  <1>1. /\ attempt' = Undefined
        /\ loop' \in Retries \cup {Undefined}
        /\ loop' # Undefined => Open /\ loop # Undefined /\ loop'.opens = Undefined
        /\ IF Open /\ loop' = Undefined
           THEN EnterError ELSE UNCHANGED <<currentState, tools, cool>>
        /\ toolCalls' \in [Calls -> CallStates \cup {Undefined}]
        /\ \A c \in Calls : /\ toolCalls'[c] = toolCalls[c] \/ toolCalls'[c] = Settled("refused")
                            /\ loop' = Undefined => toolCalls'[c] # Waiting
    BY AttemptEnds
  <1>2. \A t \in Sessions : ~Owned(t)'
    BY <1>1, McpAssumption DEF Owned
  <1>3. cool' \in BOOLEAN
    BY <1>1, Zenon DEF McpInvariant, McpTypeOK, EnterError
  <1> USE McpAssumption, FirstRetry, CallStatesDiffer
  <1>4. McpTypeOK'
    BY <1>1, <1>3 DEF McpInvariant, McpTypeOK, EnterError
  <1>5. session = Undefined /\ (attempt # Undefined \/ loop # Undefined)
    BY DEF McpInvariant, OneWay, Owned
  <1>6. SessionsAreHeld'
    BY <1>2, <1>5 DEF McpInvariant, McpTypeOK, SessionsAreHeld, Owned, OneWay, Opening
  <1>7. OneWay'
    BY <1>1, <1>5 DEF McpInvariant, McpTypeOK, OneWay
  <1>8. CloseIsClose'
    BY <1>1, <1>5 DEF McpInvariant, McpTypeOK, CloseIsClose, EnterError, Open
  <1>9. StateIsTrue' /\ ToolsAreTheSessions'
    BY <1>1, <1>5 DEF McpInvariant, McpTypeOK, StateIsTrue, ToolsAreTheSessions, EnterError, Open
  <1>10. NobodyWaitsForNothing' /\ RunsOnAdopted'
    BY <1>1, <1>2 DEF McpInvariant, McpTypeOK, NobodyWaitsForNothing, RunsOnAdopted
  <1>11. RequestsInOrder'
    BY <1>5, RequestsStay DEF McpInvariant, McpTypeOK, Opening
  <1>12. CatchingUp'
    BY <1>5 DEF McpInvariant, McpTypeOK, CatchingUp
  <1> QED
    BY <1>4, <1>6, <1>7, <1>8, <1>9, <1>10, <1>11, <1>12 DEF McpInvariant

LEMMA ReadyKeeps ==
    ASSUME McpInvariant, Ready
    PROVE  McpInvariant'
PROOF
  <1> USE McpAssumption
  <1>1. McpTypeOK'
    BY DEF McpInvariant, McpTypeOK, Opening, Ready, BeginAttempt, ConnectOnce
  <1>2. SessionsAreHeld' /\ OneWay'
    BY DEF McpInvariant, McpTypeOK, SessionsAreHeld, OneWay, Owned, Opening, Ready, MayBegin,
       BeginAttempt, ConnectOnce, Unused
  <1>3. CloseIsClose' /\ StateIsTrue' /\ ToolsAreTheSessions'
    BY DEF CloseIsClose, StateIsTrue, ToolsAreTheSessions, Open, Ready, MayBegin, BeginAttempt
  <1>4. NobodyWaitsForNothing' /\ RunsOnAdopted'
    BY DEF McpInvariant, NobodyWaitsForNothing, RunsOnAdopted, Owned, Ready, BeginAttempt,
       ConnectOnce, Unused
  <1>5. RequestsInOrder'
    BY RequestsStay DEF Ready, BeginAttempt, ConnectOnce
  <1>6. CatchingUp'
    BY DEF McpInvariant, CatchingUp, Ready, MayBegin, BeginAttempt, ConnectOnce
  <1> QED BY <1>1, <1>2, <1>3, <1>4, <1>5, <1>6 DEF McpInvariant

LEMMA CallsToolKeeps ==
    ASSUME McpInvariant, NEW c \in Calls, CallsTool(c)
    PROVE  McpInvariant'
PROOF
  <1> USE McpAssumption
  <1>a. PICK x \in CallStates : toolCalls' = [toolCalls EXCEPT ![c] = x]
    BY CallStatesDiffer DEF McpInvariant, McpTypeOK, CallsTool
  <1>1. McpTypeOK'
    BY <1>a
    DEF McpInvariant, McpTypeOK, Opening, ServerRuns, Open, CallsTool, BeginAttempt, ConnectOnce
  <1>2. SessionsAreHeld' /\ OneWay'
    BY DEF McpInvariant, McpTypeOK, SessionsAreHeld, OneWay, Owned, Opening, CallsTool, MayBegin,
       BeginAttempt, ConnectOnce, Unused
  <1>3. CloseIsClose' /\ StateIsTrue' /\ ToolsAreTheSessions'
    BY DEF McpInvariant, CloseIsClose, StateIsTrue, ToolsAreTheSessions, Open, CallsTool, MayBegin,
       BeginAttempt
  <1>b. x = Waiting => (attempt # Undefined \/ loop # Undefined)'
    BY <1>a, CallStatesDiffer DEF McpInvariant, McpTypeOK, CallsTool, BeginAttempt
  <1>c. \A s \in Sessions : x = RunningOn(s) => session = s /\ UNCHANGED <<attempt, loop, phase>>
    BY <1>a, CallStatesDiffer DEF McpInvariant, McpTypeOK, CallsTool
  <1>d. \A t \in Sessions :
           /\ phase[t] \in {"live", "disposing", "ending"} => phase'[t] = phase[t]
           /\ phase[t] = "live" \/ (phase[t] \in {"disposing", "ending"} /\ ~Owned(t)) => ~Owned(t)'
    BY DEF McpInvariant, McpTypeOK, SessionsAreHeld, Owned, Opening, CallsTool, BeginAttempt,
       ConnectOnce, Unused
  <1>e. attempt # Undefined \/ loop # Undefined => (attempt # Undefined \/ loop # Undefined)'
    BY DEF CallsTool, MayBegin
  <1>4. NobodyWaitsForNothing' /\ RunsOnAdopted'
    <2>1. ASSUME NEW k \in Calls
          PROVE  /\ toolCalls'[k] = Waiting => (attempt # Undefined \/ loop # Undefined)'
                 /\ \A t \in Sessions : toolCalls'[k] = RunningOn(t) =>
                      phase'[t] \in {"live", "disposing", "ending"} /\ ~Owned(t)'
      <3>1. CASE k = c
        BY <3>1, <1>a, <1>b, <1>c, <1>d DEF McpInvariant, McpTypeOK, SessionsAreHeld
      <3>2. CASE k # c
        BY <3>2, <1>a, <1>d, <1>e DEF McpInvariant, NobodyWaitsForNothing, RunsOnAdopted
      <3> QED
        BY <3>1, <3>2
    <2> QED
      BY <2>1 DEF NobodyWaitsForNothing, RunsOnAdopted
  <1>5. RequestsInOrder'
    BY RequestsStay DEF McpInvariant, McpTypeOK, CallsTool, BeginAttempt, ConnectOnce
  <1>6. CatchingUp'
    BY DEF McpInvariant, McpTypeOK, CatchingUp, LastAnswer, CallsTool, BeginAttempt, ConnectOnce
  <1> QED BY <1>1, <1>2, <1>3, <1>4, <1>5, <1>6 DEF McpInvariant

LEMMA AnswersKeeps ==
    ASSUME McpInvariant, NEW c \in Calls, Answers(c)
    PROVE  McpInvariant'
PROOF
  <1> USE McpAssumption
  <1>1. McpTypeOK'
    BY CallStatesDiffer DEF McpInvariant, McpTypeOK, Answers
  <1>2. SessionsAreHeld' /\ OneWay'
    BY DEF McpInvariant, SessionsAreHeld, OneWay, Owned, Answers
  <1>3. CloseIsClose' /\ StateIsTrue' /\ ToolsAreTheSessions'
    BY DEF McpInvariant, CloseIsClose, StateIsTrue, ToolsAreTheSessions, Open, Answers
  <1>4. NobodyWaitsForNothing' /\ RunsOnAdopted'
    BY CallStatesDiffer DEF McpInvariant, NobodyWaitsForNothing, RunsOnAdopted, Owned, Answers
  <1>5. RequestsInOrder'
    BY RequestsStay DEF Answers
  <1>6. CatchingUp'
    BY DEF McpInvariant, CatchingUp, LastAnswer, Answers
  <1> QED BY <1>1, <1>2, <1>3, <1>4, <1>5, <1>6 DEF McpInvariant

LEMMA TimesOutKeeps ==
    ASSUME McpInvariant, NEW c \in Calls, TimesOut(c)
    PROVE  McpInvariant'
PROOF
  <1> USE McpAssumption
  <1>1. McpTypeOK'
    BY CallStatesDiffer DEF McpInvariant, McpTypeOK, TimesOut
  <1>2. SessionsAreHeld' /\ OneWay'
    BY DEF McpInvariant, SessionsAreHeld, OneWay, Owned, TimesOut
  <1>3. CloseIsClose' /\ StateIsTrue' /\ ToolsAreTheSessions'
    BY DEF McpInvariant, CloseIsClose, StateIsTrue, ToolsAreTheSessions, Open, TimesOut
  <1>4. NobodyWaitsForNothing' /\ RunsOnAdopted'
    BY CallStatesDiffer DEF McpInvariant, NobodyWaitsForNothing, RunsOnAdopted, Owned, TimesOut
  <1>5. RequestsInOrder'
    BY RequestsStay DEF TimesOut
  <1>6. CatchingUp'
    BY DEF McpInvariant, CatchingUp, LastAnswer, TimesOut
  <1> QED BY <1>1, <1>2, <1>3, <1>4, <1>5, <1>6 DEF McpInvariant

LEMMA ForgottenKeeps ==
    ASSUME McpInvariant, NEW c \in Calls, Forgotten(c)
    PROVE  McpInvariant'
PROOF
  <1> USE McpAssumption
  <1>1. McpTypeOK'
    BY CallStatesDiffer, FirstRetry DEF McpInvariant, McpTypeOK, Forgotten, LostSession
  <1>2. SessionsAreHeld' /\ OneWay'
    BY DEF McpInvariant, McpTypeOK, SessionsAreHeld, OneWay, Owned, Opening, Forgotten, LostSession
  <1>3. CloseIsClose' /\ StateIsTrue' /\ ToolsAreTheSessions'
    BY FirstRetry
    DEF McpInvariant, CloseIsClose, StateIsTrue, ToolsAreTheSessions, Open, Forgotten, LostSession
  <1>4. NobodyWaitsForNothing' /\ RunsOnAdopted'
    BY CallStatesDiffer
    DEF McpInvariant, OneWay, NobodyWaitsForNothing, RunsOnAdopted, Owned, Forgotten, LostSession
  <1>5. RequestsInOrder'
    BY RequestsStay DEF Opening, Forgotten, LostSession
  <1>6. CatchingUp'
    BY DEF McpInvariant, CatchingUp, Forgotten, LostSession
  <1> QED BY <1>1, <1>2, <1>3, <1>4, <1>5, <1>6 DEF McpInvariant

LEMMA BackoffEndsKeeps ==
    ASSUME McpInvariant, BackoffEnds
    PROVE  McpInvariant'
PROOF
  <1> USE McpAssumption
  <1>a. PICK s \in Sessions :
           ConnectOnce(s, negotiated = "sse") /\ loop' = [loop EXCEPT !.opens = s]
    BY DEF BackoffEnds
  <1>b. loop \in Retries /\ loop.opens = Undefined /\ loop # Undefined
    BY DEF McpInvariant, McpTypeOK, BackoffEnds
  <1>c. loop' \in Retries /\ loop'.opens = s /\ loop' # Undefined
    BY <1>a, <1>b DEF Retries
  <1>1. McpTypeOK'
    BY <1>c DEF McpInvariant, McpTypeOK, Opening, BackoffEnds, ConnectOnce
  <1>2. SessionsAreHeld' /\ OneWay'
    BY <1>c
    DEF McpInvariant, McpTypeOK, SessionsAreHeld, OneWay, Owned, Opening, BackoffEnds, ConnectOnce,
       Unused
  <1>3. CloseIsClose' /\ StateIsTrue' /\ ToolsAreTheSessions'
    BY <1>c
    DEF McpInvariant, CloseIsClose, StateIsTrue, ToolsAreTheSessions, Open, BackoffEnds, ConnectOnce
  <1>4. NobodyWaitsForNothing' /\ RunsOnAdopted'
    BY <1>c
    DEF McpInvariant, NobodyWaitsForNothing, RunsOnAdopted, Owned, BackoffEnds, ConnectOnce, Unused
  <1>5. RequestsInOrder'
    BY RequestsStay DEF BackoffEnds, ConnectOnce
  <1>6. CatchingUp'
    BY DEF McpInvariant, CatchingUp, LastAnswer, BackoffEnds, ConnectOnce
  <1> QED BY <1>1, <1>2, <1>3, <1>4, <1>5, <1>6 DEF McpInvariant

LEMMA InitializedKeeps ==
    ASSUME McpInvariant, NEW s \in Sessions, Initialized(s)
    PROVE  McpInvariant'
PROOF
  <1> USE McpAssumption
  <1>1. McpTypeOK'
    BY DEF McpInvariant, McpTypeOK, ServerRuns, Initialized
  <1>2. SessionsAreHeld' /\ OneWay'
    BY DEF McpInvariant, SessionsAreHeld, OneWay, Owned, Opening, Initialized
  <1>3. CloseIsClose' /\ StateIsTrue' /\ ToolsAreTheSessions'
    BY DEF McpInvariant, CloseIsClose, StateIsTrue, ToolsAreTheSessions, Open, Initialized
  <1>4. NobodyWaitsForNothing' /\ RunsOnAdopted'
    BY DEF McpInvariant, NobodyWaitsForNothing, RunsOnAdopted, Owned, Initialized
  <1>5. RequestsInOrder'
    BY RequestsStay DEF Opening, Initialized
  <1>6. CatchingUp'
    BY DEF McpInvariant, CatchingUp, LastAnswer, Initialized
  <1> QED BY <1>1, <1>2, <1>3, <1>4, <1>5, <1>6 DEF McpInvariant

LEMMA ListsKeeps ==
    ASSUME McpInvariant, NEW s \in Sessions, Lists(s)
    PROVE  McpInvariant'
PROOF
  <1> USE McpAssumption
  <1>1. McpTypeOK'
    BY DEF McpInvariant, McpTypeOK, ServerRuns, Lists
  <1>2. SessionsAreHeld' /\ OneWay'
    BY DEF McpInvariant, SessionsAreHeld, OneWay, Owned, Opening, Lists
  <1>3. CloseIsClose' /\ StateIsTrue' /\ ToolsAreTheSessions'
    BY DEF McpInvariant, CloseIsClose, StateIsTrue, ToolsAreTheSessions, Open, Lists
  <1>4. NobodyWaitsForNothing' /\ RunsOnAdopted'
    BY DEF McpInvariant, NobodyWaitsForNothing, RunsOnAdopted, Owned, Lists
  <1>5. RequestsInOrder'
    BY RequestsStay DEF Opening, Lists
  <1>6. CatchingUp'
    BY DEF McpInvariant, McpTypeOK, CatchingUp, LastAnswer, Lists
  <1> QED BY <1>1, <1>2, <1>3, <1>4, <1>5, <1>6 DEF McpInvariant

LEMMA AdoptKeeps ==
    ASSUME McpInvariant, NEW s \in Sessions, Adopt(s)
    PROVE  McpInvariant'
PROOF
  <1> USE McpAssumption
  <1>a. cool' \in BOOLEAN
    BY DEF Adopt
  <1>b. tools' \in Offers
    BY DEF Adopt, Offers, McpInvariant, McpTypeOK
  <1>1. McpTypeOK'
    BY <1>a, <1>b, CallStatesDiffer DEF McpInvariant, McpTypeOK, ServerRuns, Adopt, Released
  <1>2. SessionsAreHeld' /\ OneWay'
    BY DEF McpInvariant, McpTypeOK, SessionsAreHeld, OneWay, Owned, Opening, Adopt
  <1>3. CloseIsClose' /\ StateIsTrue' /\ ToolsAreTheSessions'
    BY DEF McpInvariant, McpTypeOK, SessionsAreHeld, OneWay, CloseIsClose, StateIsTrue,
       ToolsAreTheSessions, Owned, Opening, Open, Adopt, Released, Offers
  <1>4. NobodyWaitsForNothing' /\ RunsOnAdopted'
    BY CallStatesDiffer
    DEF McpInvariant, McpTypeOK, OneWay, NobodyWaitsForNothing, RunsOnAdopted, Owned, Adopt,
       Released
  <1>5. RequestsInOrder'
    BY DEF McpInvariant, RequestsInOrder, Opening, Adopt
  <1>6. CatchingUp'
    BY DEF McpInvariant, McpTypeOK, CatchingUp, LastAnswer, RequestsInOrder, Opening, Adopt
  <1> QED BY <1>1, <1>2, <1>3, <1>4, <1>5, <1>6 DEF McpInvariant

LEMMA ConnectFailsKeeps ==
    ASSUME McpInvariant, NEW s \in Sessions, ConnectFails(s)
    PROVE  McpInvariant'
PROOF
  <1> USE McpAssumption
  <1>1. McpTypeOK'
    BY DEF McpInvariant, McpTypeOK, ServerRuns, ConnectFails
  <1>2. SessionsAreHeld' /\ OneWay'
    BY DEF McpInvariant, SessionsAreHeld, OneWay, Owned, Opening, ConnectFails
  <1>3. CloseIsClose' /\ StateIsTrue' /\ ToolsAreTheSessions'
    BY DEF McpInvariant, CloseIsClose, StateIsTrue, ToolsAreTheSessions, Open, ConnectFails
  <1>4. NobodyWaitsForNothing' /\ RunsOnAdopted'
    BY DEF McpInvariant, NobodyWaitsForNothing, RunsOnAdopted, Owned, ConnectFails
  <1>5. RequestsInOrder'
    BY RequestsStay DEF Opening, ConnectFails
  <1>6. CatchingUp'
    BY DEF McpInvariant, CatchingUp, LastAnswer, ConnectFails
  <1> QED BY <1>1, <1>2, <1>3, <1>4, <1>5, <1>6 DEF McpInvariant

LEMMA DiesKeeps ==
    ASSUME McpInvariant, NEW s \in Sessions, Dies(s)
    PROVE  McpInvariant'
PROOF
  <1> USE McpAssumption
  <1>1. McpTypeOK'
    BY CallStatesDiffer, FirstRetry DEF McpInvariant, McpTypeOK, Dies, LostSession, Cut
  <1>2. SessionsAreHeld' /\ OneWay'
    BY DEF McpInvariant, McpTypeOK, SessionsAreHeld, OneWay, Owned, Opening, Dies, LostSession
  <1>3. CloseIsClose' /\ StateIsTrue' /\ ToolsAreTheSessions'
    BY FirstRetry
    DEF McpInvariant, CloseIsClose, StateIsTrue, ToolsAreTheSessions, Open, Dies, LostSession
  <1>4. NobodyWaitsForNothing' /\ RunsOnAdopted'
    BY CallStatesDiffer
    DEF McpInvariant, OneWay, NobodyWaitsForNothing, RunsOnAdopted, Owned, Dies, LostSession, Cut
  <1>5. RequestsInOrder'
    BY RequestsStay DEF Opening, Dies, LostSession
  <1>6. CatchingUp'
    BY DEF McpInvariant, CatchingUp, Dies, LostSession
  <1> QED BY <1>1, <1>2, <1>3, <1>4, <1>5, <1>6 DEF McpInvariant

LEMMA CoolsDownKeeps ==
    ASSUME McpInvariant, CoolsDown
    PROVE  McpInvariant'
PROOF
  <1> USE McpAssumption
  <1>1. McpTypeOK'
    BY DEF McpInvariant, McpTypeOK, Opening, ServerRuns, Open, CoolsDown
  <1>2. SessionsAreHeld' /\ OneWay'
    BY DEF McpInvariant, SessionsAreHeld, OneWay, Owned, CoolsDown
  <1>3. CloseIsClose' /\ StateIsTrue' /\ ToolsAreTheSessions'
    BY DEF McpInvariant, CloseIsClose, StateIsTrue, ToolsAreTheSessions, Open, CoolsDown
  <1>4. NobodyWaitsForNothing' /\ RunsOnAdopted'
    BY DEF McpInvariant, NobodyWaitsForNothing, RunsOnAdopted, Owned, CoolsDown
  <1>5. RequestsInOrder'
    BY RequestsStay DEF CoolsDown
  <1>6. CatchingUp'
    BY DEF McpInvariant, CatchingUp, LastAnswer, CoolsDown
  <1> QED BY <1>1, <1>2, <1>3, <1>4, <1>5, <1>6 DEF McpInvariant

LEMMA CloseKeeps ==
    ASSUME McpInvariant, Close
    PROVE  McpInvariant'
PROOF
  <1> USE McpAssumption
  <1>a. /\ loop' \in Retries \cup {Undefined}
        /\ toolCalls' \in [Calls -> CallStates \cup {Undefined}]
    BY CallStatesDiffer DEF McpInvariant, McpTypeOK, Close, Released
  <1>1. McpTypeOK'
    BY <1>a DEF McpInvariant, McpTypeOK, ServerRuns, Close
  <1>2. SessionsAreHeld' /\ OneWay'
    BY DEF McpInvariant, SessionsAreHeld, OneWay, Owned, Opening, Close
  <1>3. CloseIsClose' /\ StateIsTrue' /\ ToolsAreTheSessions'
    <2>1. ~Open' /\ closeStage' = "closing" /\ session' = Undefined /\ currentState' = "closed"
      BY DEF Close, Open
    <2>2. \A s \in Sessions : phase'[s] \in {"opening", "disposing", "ending", "gone"}
      BY DEF McpInvariant, McpTypeOK, Close, Opening, ServerRuns
    <2> QED
      BY <2>1, <2>2 DEF CloseIsClose, StateIsTrue, ToolsAreTheSessions
  <1>4. NobodyWaitsForNothing' /\ RunsOnAdopted'
    BY CallStatesDiffer
    DEF McpInvariant, NobodyWaitsForNothing, RunsOnAdopted, Owned, Close, Released
  <1>5. RequestsInOrder'
    BY RequestsStay DEF Opening, Close
  <1>6. CatchingUp'
    BY DEF CatchingUp, Close
  <1> QED BY <1>1, <1>2, <1>3, <1>4, <1>5, <1>6 DEF McpInvariant

LEMMA CloseEndsKeeps ==
    ASSUME McpInvariant, CloseEnds
    PROVE  McpInvariant'
PROOF
  <1> USE McpAssumption
  <1>1. McpTypeOK'
    BY DEF McpInvariant, McpTypeOK, CloseEnds
  <1>2. SessionsAreHeld' /\ OneWay'
    BY DEF McpInvariant, SessionsAreHeld, OneWay, Owned, CloseEnds
  <1>3. CloseIsClose' /\ StateIsTrue' /\ ToolsAreTheSessions'
    BY DEF McpInvariant, CloseIsClose, StateIsTrue, ToolsAreTheSessions, Open, CloseEnds
  <1>4. NobodyWaitsForNothing' /\ RunsOnAdopted'
    BY DEF McpInvariant, NobodyWaitsForNothing, RunsOnAdopted, Owned, CloseEnds
  <1>5. RequestsInOrder'
    BY RequestsStay DEF CloseEnds
  <1>6. CatchingUp'
    BY DEF McpInvariant, CatchingUp, LastAnswer, CloseEnds
  <1> QED BY <1>1, <1>2, <1>3, <1>4, <1>5, <1>6 DEF McpInvariant

LEMMA ChangesKeeps ==
    ASSUME McpInvariant, Changes
    PROVE  McpInvariant'
PROOF
  <1> USE McpAssumption
  <1>1. McpTypeOK'
    BY DEF McpInvariant, McpTypeOK, Changes
  <1>2. SessionsAreHeld' /\ OneWay'
    BY DEF McpInvariant, SessionsAreHeld, OneWay, Owned, Changes
  <1>3. CloseIsClose' /\ StateIsTrue' /\ ToolsAreTheSessions'
    BY DEF McpInvariant, CloseIsClose, StateIsTrue, ToolsAreTheSessions, Open, Changes
  <1>4. NobodyWaitsForNothing' /\ RunsOnAdopted'
    BY DEF McpInvariant, NobodyWaitsForNothing, RunsOnAdopted, Owned, Changes
  <1>5. RequestsInOrder'
    BY RequestsStay DEF Changes
  <1>6. CatchingUp'
    BY DEF McpInvariant, McpTypeOK, SessionsAreHeld, CatchingUp, Changes
  <1> QED BY <1>1, <1>2, <1>3, <1>4, <1>5, <1>6 DEF McpInvariant

LEMMA AnnouncedKeeps ==
    ASSUME McpInvariant, NEW s \in Sessions, Announced(s)
    PROVE  McpInvariant'
PROOF
  <1> USE McpAssumption
  <1>1. McpTypeOK'
    BY DEF McpInvariant, McpTypeOK, Announced
  <1>2. SessionsAreHeld' /\ OneWay'
    BY DEF McpInvariant, SessionsAreHeld, OneWay, Owned, Announced
  <1>3. CloseIsClose' /\ StateIsTrue' /\ ToolsAreTheSessions'
    BY DEF McpInvariant, CloseIsClose, StateIsTrue, ToolsAreTheSessions, Open, Announced
  <1>4. NobodyWaitsForNothing' /\ RunsOnAdopted'
    BY DEF McpInvariant, NobodyWaitsForNothing, RunsOnAdopted, Owned, Announced
  <1>5. RequestsInOrder'
    BY RequestsStay DEF Announced
  <1>6. CatchingUp'
    BY DEF McpInvariant, CatchingUp, LastAnswer, Announced
  <1> QED BY <1>1, <1>2, <1>3, <1>4, <1>5, <1>6 DEF McpInvariant

LEMMA RefreshToolsKeeps ==
    ASSUME McpInvariant, RefreshTools
    PROVE  McpInvariant'
PROOF
  <1> USE McpAssumption
  <1>1. McpTypeOK'
    BY DEF McpInvariant, McpTypeOK, RefreshTools, Requests
  <1>2. SessionsAreHeld' /\ OneWay'
    BY DEF McpInvariant, SessionsAreHeld, OneWay, Owned, RefreshTools
  <1>3. CloseIsClose' /\ StateIsTrue' /\ ToolsAreTheSessions'
    BY DEF McpInvariant, CloseIsClose, StateIsTrue, ToolsAreTheSessions, Open, RefreshTools
  <1>4. NobodyWaitsForNothing' /\ RunsOnAdopted'
    BY DEF McpInvariant, NobodyWaitsForNothing, RunsOnAdopted, Owned, RefreshTools
  <1>5. RequestsInOrder'
    BY DEF McpInvariant, McpTypeOK, SessionsAreHeld, RequestsInOrder, Opening, OneWay, RefreshTools
  <1>6. CatchingUp'
    BY DEF McpInvariant, OneWay, CatchingUp, LastAnswer, RefreshTools
  <1> QED BY <1>1, <1>2, <1>3, <1>4, <1>5, <1>6 DEF McpInvariant

LEMMA AnswersRefreshKeeps ==
    ASSUME McpInvariant, NEW i \in DOMAIN refreshes, AnswersRefresh(i)
    PROVE  McpInvariant'
PROOF
  <1> USE McpAssumption
  <1>a. refreshes' \in Seq(Requests) /\ Len(refreshes') = Len(refreshes)
    <2>1. /\ refreshes \in Seq(Requests) /\ i \in 1 .. Len(refreshes) /\ serves \in 0 .. MaxChanges
          /\ refreshes' = [refreshes EXCEPT ![i] = [refreshes[i] EXCEPT !.got = serves]]
      BY DEF McpInvariant, McpTypeOK, AnswersRefresh
    <2>2. refreshes[i] \in Requests
      BY <2>1
    <2>3. [refreshes[i] EXCEPT !.got = serves] \in Requests
      BY <2>1, <2>2 DEF Requests
    <2> QED
      BY <2>1, <2>3
  <1>1. McpTypeOK'
    BY <1>a DEF McpInvariant, McpTypeOK, AnswersRefresh
  <1>2. SessionsAreHeld' /\ OneWay'
    BY DEF McpInvariant, SessionsAreHeld, OneWay, Owned, AnswersRefresh
  <1>3. CloseIsClose' /\ StateIsTrue' /\ ToolsAreTheSessions'
    BY DEF McpInvariant, CloseIsClose, StateIsTrue, ToolsAreTheSessions, Open, AnswersRefresh
  <1>4. NobodyWaitsForNothing' /\ RunsOnAdopted'
    BY DEF McpInvariant, NobodyWaitsForNothing, RunsOnAdopted, Owned, AnswersRefresh
  <1>5. RequestsInOrder'
    BY DEF McpInvariant, RequestsInOrder, AnswersRefresh
  <1>6. CatchingUp'
    BY DEF McpInvariant, CatchingUp, LastAnswer, AnswersRefresh
  <1> QED BY <1>1, <1>2, <1>3, <1>4, <1>5, <1>6 DEF McpInvariant

LEMMA RefreshedKeeps ==
    ASSUME McpInvariant, NEW i \in DOMAIN refreshes, Refreshed(i)
    PROVE  McpInvariant'
PROOF
  <1> USE McpAssumption
  <1>a. /\ refreshes \in Seq(Requests) /\ i \in 1 .. Len(refreshes) /\ Len(refreshes) \in Nat
        /\ Len(refreshes) <= MaxRefreshes
    BY DEF McpInvariant, McpTypeOK
  <1>b. /\ refreshes' \in Seq(Requests) /\ Len(refreshes') = Len(refreshes) - 1
        /\ \A j \in 1 .. Len(refreshes) - 1 :
             refreshes'[j] = refreshes[IF j < i THEN j ELSE j + 1]
    BY <1>a, RemoveAtIs DEF Refreshed
  <1>c. Len(refreshes') \in Nat /\ Len(refreshes') <= MaxRefreshes
    BY <1>a, <1>b
  <1>d. /\ tools' \in Offers \cup {Undefined}
        /\ (session # Undefined => tools' # Undefined /\ tools'.from = session)
        /\ (tools # Undefined => tools' # Undefined)
    BY RequestsAre DEF McpInvariant, McpTypeOK, Refreshed, Offers, ToolsAreTheSessions
  <1>1. McpTypeOK'
    BY <1>b, <1>d DEF McpInvariant, McpTypeOK, Refreshed
  <1>2. SessionsAreHeld' /\ OneWay'
    BY DEF McpInvariant, SessionsAreHeld, OneWay, Owned, Refreshed
  <1>3. CloseIsClose' /\ StateIsTrue' /\ ToolsAreTheSessions'
    BY <1>d, RequestsAre
    DEF McpInvariant, CloseIsClose, StateIsTrue, ToolsAreTheSessions, Open, Refreshed
  <1>4. NobodyWaitsForNothing' /\ RunsOnAdopted'
    BY DEF McpInvariant, NobodyWaitsForNothing, RunsOnAdopted, Owned, Refreshed
  <1>5. RequestsInOrder'
    BY <1>a, <1>b, StillInOrder DEF Refreshed
  <1>6. CatchingUp'
    <2> SUFFICES ASSUME ~Rushed, ~Overtakes, ~ListsFail, session # Undefined, session \notin notes,
                        timer = Undefined
                 PROVE  LastAnswer'
      BY DEF McpInvariant, CatchingUp, Refreshed
    <2>1. i = 1 /\ refreshes[1].got # Undefined /\ LastAnswer
      BY DEF McpInvariant, CatchingUp, Refreshed
    <2>2. CASE Len(refreshes) = 1
      <3>1. ~\E j \in 1 .. Len(refreshes') : refreshes'[j].from = session
        BY <2>2, <1>b
      <3>2. tools'.at = serves
        BY <2>1, <2>2 DEF LastAnswer, Refreshed
      <3> QED
        BY <3>1, <3>2 DEF LastAnswer, Refreshed
    <2>3. CASE Len(refreshes) # 1
      <3>1. /\ Len(refreshes') \in 1 .. Len(refreshes)
            /\ refreshes'[Len(refreshes')] = refreshes[Len(refreshes)]
        BY <2>1, <2>3, <1>a, <1>b
      <3>2. \A j \in 1 .. Len(refreshes) :
               refreshes[j].from = session => refreshes[Len(refreshes)].from = session
        BY DEF McpInvariant, RequestsInOrder
      <3>a. \A j \in 1 .. Len(refreshes') :
               refreshes'[j] = refreshes[j + 1] /\ j + 1 \in 1 .. Len(refreshes)
        BY <2>1, <1>a, <1>b
      <3>3. (\E j \in 1 .. Len(refreshes) : refreshes[j].from = session)
              <=> \E j \in 1 .. Len(refreshes') : refreshes'[j].from = session
        <4>1. ASSUME NEW j \in 1 .. Len(refreshes), refreshes[j].from = session
              PROVE  \E k \in 1 .. Len(refreshes') : refreshes'[k].from = session
          <5>1. refreshes[Len(refreshes)].from = session
            BY <3>2, <4>1
          <5>2. Len(refreshes') \in 1 .. Len(refreshes')
            BY <3>1
          <5>3. refreshes'[Len(refreshes')].from = session
            BY <3>1, <5>1
          <5> QED
            BY <5>2, <5>3
        <4>2. ASSUME NEW k \in 1 .. Len(refreshes'), refreshes'[k].from = session
              PROVE  \E j \in 1 .. Len(refreshes) : refreshes[j].from = session
          BY <3>a, <4>2
        <4> QED
          BY <4>1, <4>2
      <3>4. (~\E j \in 1 .. Len(refreshes) : refreshes[j].from = session) => tools' = tools
        BY DEF Refreshed
      <3> QED
        BY <2>1, <3>1, <3>3 DEF LastAnswer, Refreshed
    <2> QED
      BY <2>2, <2>3
  <1> QED BY <1>1, <1>2, <1>3, <1>4, <1>5, <1>6 DEF McpInvariant

LEMMA RefreshFailsKeeps ==
    ASSUME McpInvariant, NEW i \in DOMAIN refreshes, RefreshFails(i)
    PROVE  McpInvariant'
PROOF
  <1> USE McpAssumption
  <1>a. /\ refreshes \in Seq(Requests) /\ i \in 1 .. Len(refreshes) /\ Len(refreshes) \in Nat
        /\ Len(refreshes) <= MaxRefreshes
    BY DEF McpInvariant, McpTypeOK
  <1>b. /\ refreshes' \in Seq(Requests) /\ Len(refreshes') = Len(refreshes) - 1
        /\ \A j \in 1 .. Len(refreshes) - 1 :
             refreshes'[j] = refreshes[IF j < i THEN j ELSE j + 1]
    BY <1>a, RemoveAtIs DEF RefreshFails
  <1>c. Len(refreshes') \in Nat /\ Len(refreshes') <= MaxRefreshes
    BY <1>a, <1>b
  <1>1. McpTypeOK'
    BY <1>b DEF McpInvariant, McpTypeOK, RefreshFails
  <1>2. SessionsAreHeld' /\ OneWay'
    BY DEF McpInvariant, SessionsAreHeld, OneWay, Owned, RefreshFails
  <1>3. CloseIsClose' /\ StateIsTrue' /\ ToolsAreTheSessions'
    BY DEF McpInvariant, CloseIsClose, StateIsTrue, ToolsAreTheSessions, Open, RefreshFails
  <1>4. NobodyWaitsForNothing' /\ RunsOnAdopted'
    BY DEF McpInvariant, NobodyWaitsForNothing, RunsOnAdopted, Owned, RefreshFails
  <1>5. RequestsInOrder'
    BY <1>a, <1>b, StillInOrder DEF RefreshFails
  <1>6. CatchingUp'
    <2> SUFFICES ASSUME ~Rushed, ~Overtakes, ~ListsFail, session # Undefined, session \notin notes,
                        timer = Undefined
                 PROVE  LastAnswer'
      BY DEF McpInvariant, CatchingUp, RefreshFails
    <2>1. refreshes[i].from # session /\ LastAnswer
      BY DEF McpInvariant, CatchingUp, RefreshFails, SessionsAreHeld, McpTypeOK
    <2>2. CASE \E j \in 1 .. Len(refreshes) : refreshes[j].from = session
      <3>1. PICK j \in 1 .. Len(refreshes) : refreshes[j].from = session
        BY <2>2
      <3>2. refreshes[Len(refreshes)].from = session /\ i # Len(refreshes)
        BY <2>1, <3>1 DEF McpInvariant, RequestsInOrder
      <3>3. /\ Len(refreshes') \in 1 .. Len(refreshes')
            /\ refreshes'[Len(refreshes')] = refreshes[Len(refreshes)]
        BY <3>2, <1>a, <1>b
      <3> QED
        BY <2>1, <3>2, <3>3 DEF LastAnswer, RefreshFails
    <2>3. CASE ~\E j \in 1 .. Len(refreshes) : refreshes[j].from = session
      <3>1. ASSUME NEW j \in 1 .. Len(refreshes')
            PROVE  refreshes'[j].from # session
        <4>1. (IF j < i THEN j ELSE j + 1) \in 1 .. Len(refreshes)
          BY <1>a, <1>b
        <4> QED
          BY <4>1, <2>3, <1>a, <1>b
      <3> QED
        BY <2>1, <2>3, <3>1 DEF LastAnswer, RefreshFails
    <2> QED
      BY <2>2, <2>3
  <1> QED BY <1>1, <1>2, <1>3, <1>4, <1>5, <1>6 DEF McpInvariant

LEMMA OpenedKeeps ==
    ASSUME McpInvariant, NEW s \in Sessions, Opened(s)
    PROVE  McpInvariant'
PROOF
  <1> USE McpAssumption
  <1>1. phase[s] = "opening" /\ Owned(s) /\ s \notin notes
    BY DEF McpInvariant, SessionsAreHeld, Opening, Opened
  <1>2. CASE Open
    <2>1. /\ phase' = [phase EXCEPT ![s] = "starting"]
          /\ UNCHANGED <<currentState, session, tools, cool, negotiated, sse, attempt, loop, timer,
                         refreshes, closeStage, listed, serves, notes, toolCalls>>
      BY <1>2 DEF Opened
    <2>2. McpTypeOK'
      BY <2>1 DEF McpInvariant, McpTypeOK, ServerRuns
    <2>3. SessionsAreHeld' /\ OneWay' /\ CloseIsClose'
      BY <1>1, <1>2, <2>1
      DEF McpInvariant, SessionsAreHeld, OneWay, CloseIsClose, Owned, Opening, Open
    <2>4. StateIsTrue' /\ ToolsAreTheSessions' /\ NobodyWaitsForNothing' /\ RunsOnAdopted'
      BY <1>1, <2>1
      DEF McpInvariant, StateIsTrue, ToolsAreTheSessions, NobodyWaitsForNothing, RunsOnAdopted,
         Owned, Open
    <2>5. RequestsInOrder'
      BY <1>1, <2>1, RequestsStay DEF Opening
    <2>6. CatchingUp'
      BY <2>1 DEF McpInvariant, CatchingUp, LastAnswer
    <2> QED
      BY <2>2, <2>3, <2>4, <2>5, <2>6 DEF McpInvariant
  <1>3. CASE ~Open
    <2>1. AttemptFails(s, "closed") /\ phase' = [phase EXCEPT ![s] = "gone"] /\ notes' = notes \ {s}
      BY <1>1, <1>3 DEF Opened
    <2>2. /\ listed' \in [Sessions -> 0 .. MaxChanges] /\ listed' = listed
          /\ UNCHANGED <<session, negotiated, sse, timer, refreshes, closeStage, serves>>
      BY DEF Opened, McpInvariant, McpTypeOK
    <2> QED
      BY <1>1, <2>1, <2>2, AttemptGone
  <1> QED
    BY <1>2, <1>3

LEMMA OpenFailsKeeps ==
    ASSUME McpInvariant, NEW s \in Sessions, OpenFails(s)
    PROVE  McpInvariant'
PROOF
  <1>1. phase[s] = "opening" /\ Owned(s) /\ s \notin notes
    BY DEF McpInvariant, SessionsAreHeld, Opening, OpenFails
  <1>2. AttemptFails(s, "config") /\ phase' = [phase EXCEPT ![s] = "gone"] /\ notes' = notes \ {s}
    BY <1>1 DEF OpenFails
  <1>3. /\ listed' \in [Sessions -> 0 .. MaxChanges] /\ listed' = listed
        /\ UNCHANGED <<session, negotiated, sse, timer, refreshes, closeStage, serves>>
    BY DEF OpenFails, McpInvariant, McpTypeOK
  <1> QED
    BY <1>1, <1>2, <1>3, AttemptGone

LEMMA DisposeEndsKeeps ==
    ASSUME McpInvariant, NEW s \in Sessions, DisposeEnds(s)
    PROVE  McpInvariant'
PROOF
  <1> USE McpAssumption
  <1>1. /\ phase[s] \in {"disposing", "ending"} /\ session # s
        /\ notes' = notes \ {s} /\ listed' = [listed EXCEPT ![s] = 0]
        /\ UNCHANGED <<session, negotiated, timer, refreshes, closeStage, serves>>
    BY DEF McpInvariant, SessionsAreHeld, DisposeEnds
  <1>2. /\ listed' \in [Sessions -> 0 .. MaxChanges]
        /\ \A t \in Sessions : t # s => listed'[t] = listed[t]
    BY <1>1 DEF McpInvariant, McpTypeOK
  <1>3. CASE /\ ~Owned(s) /\ phase' = [phase EXCEPT ![s] = "gone"] /\ toolCalls' = Cut(s)
             /\ UNCHANGED <<currentState, tools, cool, sse, attempt, loop>>
    <2>1. McpTypeOK'
      BY <1>1, <1>3, CallStatesDiffer DEF McpInvariant, McpTypeOK, Cut
    <2>2. SessionsAreHeld' /\ OneWay' /\ CloseIsClose'
      BY <1>1, <1>3 DEF McpInvariant, SessionsAreHeld, OneWay, CloseIsClose, Owned, Opening, Open
    <2>3. StateIsTrue' /\ ToolsAreTheSessions'
      BY <1>1, <1>3 DEF McpInvariant, StateIsTrue, ToolsAreTheSessions, Open
    <2>4. NobodyWaitsForNothing' /\ RunsOnAdopted'
      BY <1>3, CallStatesDiffer DEF McpInvariant, NobodyWaitsForNothing, RunsOnAdopted, Owned, Cut
    <2>5. RequestsInOrder'
      BY <1>1, <1>3, RequestsStay DEF Opening
    <2>6. CatchingUp'
      BY <1>1, <1>3 DEF McpInvariant, CatchingUp, LastAnswer
    <2> QED
      BY <2>1, <2>2, <2>3, <2>4, <2>5, <2>6 DEF McpInvariant
  <1>4. CASE /\ Owned(s) /\ phase' = [phase EXCEPT ![s] = "gone"] /\ AttemptFails(s, "connect")
             /\ UNCHANGED sse
    BY <1>1, <1>2, <1>4, AttemptGone
  <1>5. CASE /\ Owned(s) /\ MayFallBack(s)
             /\ \E f \in Sessions \ {s} :
                  /\ Unused(f)
                  /\ phase' = [phase EXCEPT ![s] = "gone", ![f] = "opening"]
                  /\ sse' = sse \cup {f}
                  /\ attempt' = f
             /\ UNCHANGED <<currentState, tools, cool, loop, toolCalls>>
    <2>1. PICK f \in Sessions \ {s} :
                  /\ Unused(f)
                  /\ phase' = [phase EXCEPT ![s] = "gone", ![f] = "opening"]
                  /\ sse' = sse \cup {f}
                  /\ attempt' = f
      BY <1>5
    <2>2. UNCHANGED <<currentState, tools, cool, loop, toolCalls>>
      BY <1>5
    \* Once a session was in use the transport is settled: the attempt is a lazy one.
    <2>3. attempt = s /\ loop = Undefined /\ session = Undefined /\ Open
      BY <1>5 DEF McpInvariant, OneWay, Owned, MayFallBack
    <2>4. phase[f] = "gone" /\ ~Owned(f)
      BY <2>1, <2>3 DEF Unused, Owned
    <2>5. McpTypeOK'
      BY <1>1, <2>1, <2>2 DEF McpInvariant, McpTypeOK, Opening
    <2>6. SessionsAreHeld' /\ OneWay' /\ CloseIsClose'
      BY <1>1, <2>1, <2>2, <2>3, <2>4
      DEF McpInvariant, McpTypeOK, SessionsAreHeld, OneWay, CloseIsClose, Owned, Opening, Open
    <2>7. StateIsTrue' /\ ToolsAreTheSessions'
      BY <1>1, <2>1, <2>2, <2>3 DEF McpInvariant, StateIsTrue, ToolsAreTheSessions
    <2>8. NobodyWaitsForNothing' /\ RunsOnAdopted'
      BY <2>1, <2>2, <2>3, <2>4
      DEF McpInvariant, McpTypeOK, NobodyWaitsForNothing, RunsOnAdopted, Owned
    <2>9. RequestsInOrder'
      BY <1>1, <2>1, RequestsStay DEF McpInvariant, McpTypeOK, Opening
    <2>10. CatchingUp'
      BY <1>1, <2>1, <2>3 DEF McpInvariant, McpTypeOK, CatchingUp
    <2> QED
      BY <2>5, <2>6, <2>7, <2>8, <2>9, <2>10 DEF McpInvariant
  <1> QED
    BY <1>3, <1>4, <1>5 DEF DisposeEnds

LEMMA McpStarts == McpInit => McpInvariant
PROOF
  <1> SUFFICES ASSUME McpInit PROVE McpInvariant
    OBVIOUS
  <1> USE McpAssumption, CallStatesDiffer
  <1>1. cool \in BOOLEAN
    BY DEF McpInit
  <1>2. McpTypeOK
    BY <1>1 DEF McpInit, McpTypeOK
  <1>3. Open /\ Len(refreshes) = 0
    BY DEF McpInit, Open
  <1>4. SessionsAreHeld /\ OneWay /\ CloseIsClose /\ StateIsTrue /\ ToolsAreTheSessions
    BY <1>3
    DEF McpInit, SessionsAreHeld, OneWay, CloseIsClose, StateIsTrue, ToolsAreTheSessions, Owned,
       Opening
  <1>5. NobodyWaitsForNothing /\ RunsOnAdopted
    BY DEF McpInit, NobodyWaitsForNothing, RunsOnAdopted
  <1>6. RequestsInOrder /\ CatchingUp
    BY DEF McpInit, RequestsInOrder, CatchingUp
  <1> QED
    BY <1>2, <1>4, <1>5, <1>6 DEF McpInvariant

LEMMA McpStays ==
    McpInvariant /\ UNCHANGED mcpVars => McpInvariant'
PROOF
  BY DEF mcpVars, McpInvariant, McpTypeOK, SessionsAreHeld, OneWay, CloseIsClose, StateIsTrue,
     ToolsAreTheSessions, NobodyWaitsForNothing, RunsOnAdopted, RequestsInOrder, CatchingUp,
     LastAnswer, Owned, Open

LEMMA McpStep == McpInvariant /\ [McpNext]_mcpVars => McpInvariant'
PROOF
  <1> SUFFICES ASSUME McpInvariant, McpNext PROVE McpInvariant'
    BY McpStays
  <1>1. CASE Ready \/ BackoffEnds \/ CoolsDown \/ Close \/ CloseEnds \/ Changes \/ RefreshTools
    BY <1>1, ReadyKeeps, BackoffEndsKeeps, CoolsDownKeeps, CloseKeeps, CloseEndsKeeps, ChangesKeeps,
       RefreshToolsKeeps
  <1>2. CASE \E c \in Calls : CallsTool(c) \/ Answers(c) \/ TimesOut(c) \/ Forgotten(c)
    BY <1>2, CallsToolKeeps, AnswersKeeps, TimesOutKeeps, ForgottenKeeps
  <1>3. CASE \E s \in Sessions : Opened(s) \/ OpenFails(s) \/ Initialized(s) \/ Lists(s)
    BY <1>3, OpenedKeeps, OpenFailsKeeps, InitializedKeeps, ListsKeeps
  <1>4. CASE \E s \in Sessions : \/ Adopt(s) \/ ConnectFails(s) \/ DisposeEnds(s) \/ Dies(s)
                                 \/ Announced(s)
    BY <1>4, AdoptKeeps, ConnectFailsKeeps, DisposeEndsKeeps, DiesKeeps, AnnouncedKeeps
  <1>5. CASE \E i \in DOMAIN refreshes : AnswersRefresh(i) \/ Refreshed(i) \/ RefreshFails(i)
    BY <1>5, AnswersRefreshKeeps, RefreshedKeeps, RefreshFailsKeeps
  <1> QED
    BY <1>1, <1>2, <1>3, <1>4, <1>5 DEF McpNext

(* At most one session is being opened or in use, since it is that of the   *)
(* lazy attempt, of the loop or the one in use.                             *)
LEMMA OneIsHeld == McpInvariant => OneSession
PROOF
  <1> SUFFICES ASSUME McpInvariant PROVE OneSession
    OBVIOUS
  <1> DEFINE keeping == {s \in Sessions : phase[s] \in Opening \cup {"live"}}
  <1>1. \A s, t \in keeping : s = t
    BY McpAssumption DEF McpInvariant, SessionsAreHeld, OneWay, Owned
  <1>2. CASE keeping = {}
    BY <1>2, FS_EmptySet DEF OneSession
  <1>3. CASE keeping # {}
    <2>1. PICK s : s \in keeping
      BY <1>3
    <2>2. keeping = {s}
      BY <1>1, <2>1
    <2>3. Cardinality(keeping) = 1
      BY <2>2, FS_Singleton
    <2> QED
      BY <2>3 DEF OneSession
  <1> QED
    BY <1>2, <1>3

LEMMA ServerIsRight ==
    McpInvariant => /\ OneSession /\ ClosedIsOver /\ ToolsCatchUp
PROOF
  <1> SUFFICES ASSUME McpInvariant PROVE ClosedIsOver /\ ToolsCatchUp
    BY OneIsHeld
  <1>1. ClosedIsOver
    BY DEF McpInvariant, ClosedIsOver, CloseIsClose, SessionsAreHeld, Owned, Open, ServerRuns
  <1>2. ToolsCatchUp
    BY DEF McpInvariant, ToolsCatchUp, CatchingUp, LastAnswer
  <1> QED
    BY <1>1, <1>2

(* In an error nothing is under way, so only a new attempt could begin.     *)
LEMMA ErrorIsLeftAlone ==
    ASSUME McpInvariant, McpNext, currentState = "error", cool
    PROVE  \A s \in Sessions : phase[s] = "gone" => phase'[s] = "gone"
PROOF
  <1>1. Open
    BY DEF McpInvariant, CloseIsClose
  <1>2. attempt = Undefined /\ loop = Undefined /\ session = Undefined
    BY <1>1 DEF McpInvariant, StateIsTrue
  <1>3. ~MayBegin
    BY DEF MayBegin
  <1>4. \A s \in Sessions : ~Owned(s)
    BY <1>2, McpAssumption DEF Owned
  <1>5. DOMAIN phase = Sessions
    BY DEF McpInvariant, McpTypeOK
  <1>6. CASE Ready \/ BackoffEnds \/ CoolsDown \/ Close \/ CloseEnds \/ Changes \/ RefreshTools
    BY <1>2, <1>3, <1>6 DEF Ready, BackoffEnds, CoolsDown, Close, CloseEnds, Changes, RefreshTools
  <1>7. CASE \E c \in Calls : CallsTool(c) \/ Answers(c) \/ TimesOut(c) \/ Forgotten(c)
    BY <1>2, <1>3, <1>7, McpAssumption DEF CallsTool, Answers, TimesOut, Forgotten
  <1>8. CASE \E s \in Sessions : Opened(s) \/ OpenFails(s) \/ Initialized(s) \/ Lists(s)
    BY <1>5, <1>8 DEF Opened, OpenFails, Initialized, Lists
  <1>9. CASE \E s \in Sessions : \/ Adopt(s) \/ ConnectFails(s) \/ DisposeEnds(s) \/ Dies(s)
                                 \/ Announced(s)
    BY <1>4, <1>5, <1>9 DEF Adopt, ConnectFails, DisposeEnds, Dies, Announced
  <1>10. CASE \E i \in DOMAIN refreshes : AnswersRefresh(i) \/ Refreshed(i) \/ RefreshFails(i)
    BY <1>10 DEF AnswersRefresh, Refreshed, RefreshFails
  <1> QED
    BY <1>6, <1>7, <1>8, <1>9, <1>10 DEF McpNext

(* A connection runs its server at most once, lets go of it when it is      *)
(* closed, says what it does, offers the tools of the session in use, lets  *)
(* nobody wait for nothing and leaves a server that failed alone.           *)
THEOREM ConnectionIsRight == McpSpec => ServerIsConnectedOnce
PROOF
  <1>1. McpInvariant => /\ McpTypeOK /\ OneSession /\ ClosedIsOver /\ StateIsTrue
                        /\ ToolsAreTheSessions /\ NobodyWaitsForNothing /\ ToolsCatchUp
    BY ServerIsRight DEF McpInvariant
  <1>2. McpInvariant /\ [McpNext]_mcpVars =>
          [currentState = "error" /\ cool =>
             \A s \in Sessions : phase[s] = "gone" => phase'[s] = "gone"]_mcpVars
    BY ErrorIsLeftAlone
  <1> QED
    BY <1>1, <1>2, McpStarts, McpStep, PTL DEF McpSpec, ServerIsConnectedOnce, LeftAlone
=============================================================================
