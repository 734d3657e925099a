----------------------------- MODULE Vault_proofs -----------------------------
(***************************************************************************)
(* Of the vault, for any devices, notes, edits, failures and callers: no   *)
(* edit is lost and nothing is deleted that no user deleted, whatever the  *)
(* sync engines of several devices do between each other's steps; and the  *)
(* limiter never lets more tasks run than it has slots, nor wastes one.    *)
(* The clients of the hub miss nothing that must arrive, and what they     *)
(* watch runs as long as they do.                                          *)
(***************************************************************************)
EXTENDS Limiter, SyncEngine, WsHub, FiniteSetTheorems, TLAPS

-----------------------------------------------------------------------------
(* The limiter: `active` counts those who have a slot, the callers still   *)
(* to resume included.                                                     *)

Holders == running \cup resumed

(* Callers in line have no slot, and nobody is both running and resumed.   *)
Apart ==
    /\ running \cap resumed = {}
    /\ \A i \in 1..Len(waiting) : waiting[i] \notin Holders
    /\ \A i, j \in 1..Len(waiting) : waiting[i] = waiting[j] => i = j

Counted ==
    /\ IsFiniteSet(Holders) /\ Cardinality(Holders) = active
    /\ active <= Concurrency
    /\ Len(waiting) > 0 => active = Concurrency

Inv == TypeOK /\ Apart /\ Counted

LEMMA InitInv == Init => Inv
<1> SUFFICES ASSUME Init PROVE Inv
  OBVIOUS
<1>1. Holders = {}
  BY DEF Init, Holders
<1> QED
  BY <1>1, FS_EmptySet, ConcurrencyAssumption DEF Init, Inv, TypeOK, Apart, Counted

LEMMA BeginInv ==
    ASSUME Inv, NEW c \in Calls, Begin(c)
    PROVE  Inv'
<1>1. TypeOK'
  BY DEF Inv, TypeOK, Begin
<1>2. Holders' = Holders \cup {c} /\ c \notin Holders
  BY DEF Begin, Fresh, Holders
<1>3. Len(waiting) = 0
  BY ConcurrencyAssumption DEF Begin, Inv, TypeOK, Counted
<1>4. Counted'
  BY <1>2, <1>3, FS_AddElement, ConcurrencyAssumption DEF Begin, Inv, TypeOK, Counted
<1>5. Apart'
  BY <1>3 DEF Begin, Fresh, Inv, Apart
<1> QED
  BY <1>1, <1>4, <1>5 DEF Inv

LEMMA WaitInv ==
    ASSUME Inv, NEW c \in Calls, Wait(c)
    PROVE  Inv'
<1>1. TypeOK'
  BY DEF Inv, TypeOK, Wait
<1>2. Holders' = Holders /\ c \notin Holders
  BY DEF Wait, Fresh, Holders
<1>3. Counted'
  BY <1>2, ConcurrencyAssumption DEF Wait, Inv, TypeOK, Counted
<1>4. \A i \in 1..Len(waiting) : waiting[i] # c
  BY DEF Wait, Fresh, Waiting, Inv, TypeOK
<1>5. Len(waiting') = Len(waiting) + 1 /\ waiting'[Len(waiting) + 1] = c
      /\ \A i \in 1..Len(waiting) : waiting'[i] = waiting[i]
  BY DEF Wait, Inv, TypeOK
<1>6. Apart'
  BY <1>2, <1>4, <1>5 DEF Wait, Inv, TypeOK, Apart
<1> QED
  BY <1>1, <1>3, <1>6 DEF Inv

LEMMA ResumeInv ==
    ASSUME Inv, NEW c \in Calls, Resume(c)
    PROVE  Inv'
<1>1. Holders' = Holders
  BY DEF Resume, Holders
<1> QED
  BY <1>1 DEF Resume, Inv, TypeOK, Apart, Counted

LEMMA EndInv ==
    ASSUME Inv, NEW c \in Calls, End(c)
    PROVE  Inv'
<1>1. c \in Holders /\ c \notin resumed
  BY DEF End, Inv, Apart, Holders
<1>2. CASE waiting # <<>>
  <2> DEFINE granted == Head(waiting)
  <2>a. waiting \in Seq(Calls)
    BY DEF Inv, TypeOK
  <2>b. Len(waiting) \in Nat /\ Len(waiting) > 0 /\ granted = waiting[1] /\ granted \in Calls
    BY <1>2, <2>a
  <2>1. Len(waiting) \in Nat /\ Len(waiting) > 0 /\ granted = waiting[1] /\ granted \in Calls /\ granted \notin Holders
    BY <2>b DEF Inv, Apart
  <2>c. running' = running \ {c} /\ resumed' = resumed \cup {granted} /\ active' = active
    BY <1>2 DEF End
  <2>2. Holders' = (Holders \ {c}) \cup {granted}
    BY <1>1, <2>c DEF Holders
  <2>3. IsFiniteSet(Holders \ {c}) /\ Cardinality(Holders \ {c}) = active - 1
    BY <1>1, FS_RemoveElement DEF Inv, Counted
  <2>4. IsFiniteSet(Holders') /\ Cardinality(Holders') = active
    <3>1. granted \notin Holders \ {c}
      BY <2>1
    <3>2. Cardinality((Holders \ {c}) \cup {granted}) = Cardinality(Holders \ {c}) + 1
      BY <3>1, <2>3, FS_AddElement
    <3>3. active \in Nat
      BY DEF Inv, TypeOK
    <3> QED
      BY <2>2, <2>3, <3>2, <3>3, FS_AddElement
  <2>5. Counted'
    BY <2>1, <2>c, <2>4 DEF Inv, Counted
  <2>6. /\ waiting' \in Seq(Calls) /\ Len(waiting') = Len(waiting) - 1
        /\ \A i \in 1..Len(waiting') : waiting'[i] = waiting[i + 1]
    <3>1. waiting' = Tail(waiting)
      BY <1>2 DEF End
    <3> QED
      BY <3>1, <1>2, <2>a, <2>b
  <2>7. Apart'
    <3>1. running' \cap resumed' = {}
      BY <2>c, <2>1 DEF Inv, Apart, Holders
    <3>2. ASSUME NEW i \in 1..Len(waiting')
          PROVE  waiting'[i] \notin Holders'
      <4>1. i + 1 \in 1..Len(waiting) /\ i + 1 # 1 /\ 1 \in 1..Len(waiting) /\ waiting'[i] = waiting[i + 1]
        BY <2>b, <2>6
      <4>2. waiting[i + 1] \notin Holders /\ waiting[i + 1] # granted
        BY <4>1, <2>b DEF Inv, Apart
      <4> QED
        BY <4>1, <4>2, <2>2
    <3>3. ASSUME NEW i \in 1..Len(waiting'), NEW j \in 1..Len(waiting'), waiting'[i] = waiting'[j]
          PROVE  i = j
      <4>1. i + 1 \in 1..Len(waiting) /\ j + 1 \in 1..Len(waiting) /\ waiting[i + 1] = waiting[j + 1]
        BY <3>3, <2>b, <2>6
      <4>2. i + 1 = j + 1
        BY <4>1 DEF Inv, Apart
      <4> QED
        BY <4>2
    <3> QED
      BY <3>1, <3>2, <3>3 DEF Apart
  <2>8. TypeOK'
    BY <1>2, <2>1, <2>6 DEF End, Inv, TypeOK
  <2> QED
    BY <2>5, <2>7, <2>8 DEF Inv
<1>3. CASE waiting = <<>>
  <2>1. Holders' = Holders \ {c}
    BY <1>1, <1>3 DEF End, Holders
  <2>2. IsFiniteSet(Holders') /\ Cardinality(Holders') = active - 1 /\ active' = active - 1 /\ active > 0
    BY <1>1, <1>3, <2>1, FS_RemoveElement, FS_EmptySet DEF End, Inv, TypeOK, Counted
  <2> QED
    BY <1>3, <2>1, <2>2, ConcurrencyAssumption DEF End, Inv, TypeOK, Apart, Counted
<1> QED
  BY <1>2, <1>3

THEOREM Invariance == Spec => []Inv
<1>1. Inv /\ [Next]_vars => Inv'
  <2> SUFFICES ASSUME Inv, [Next]_vars PROVE Inv'
    OBVIOUS
  <2>1. CASE Next
    BY <2>1, BeginInv, WaitInv, ResumeInv, EndInv DEF Next
  <2>2. CASE UNCHANGED vars
    BY <2>2 DEF vars, Inv, TypeOK, Apart, Counted, Holders
  <2> QED
    BY <2>1, <2>2
<1> QED
  BY InitInv, <1>1, PTL DEF Spec

(* "At most `concurrency` tasks at a time": `active` never overshoots.     *)
THEOREM StaysWithinTheLimit == Spec => []NeverOvershoots
<1>1. Inv => NeverOvershoots
  BY DEF Inv, Counted, NeverOvershoots, Holders
<1> QED
  BY Invariance, <1>1, PTL

(* A caller waits only while every slot is taken.                          *)
THEOREM WaitsOnlyWhenFull == Spec => []NoSlotIsWasted
<1>1. Inv => NoSlotIsWasted
  BY DEF Inv, TypeOK, Counted, NoSlotIsWasted, Holders
<1> QED
  BY Invariance, <1>1, PTL

-----------------------------------------------------------------------------
(* The sync engine.                                                        *)

\* Copies have longer names than what they are copies of.
Nests(depth) == \A p \in Path : \A c \in CopyNames[p] : depth[p] < depth[c]
CopiesNest == \E depth \in [Path -> Nat] : Nests(depth)
Depth == CHOOSE depth \in [Path -> Nat] : Nests(depth)
Deeper(p) == {q \in Path : Depth[p] < Depth[q]}

\* What a device has of a path beyond what it last had in sync.
News(d, p) == vault[d][p] \ (base[d][p].p \cup saved[d].base[p].p)

\* Edit e is in file p: on the service, or new on a device.
At(e, p) == e \in server[p].content \/ \E d \in Device : e \in News(d, p)

\* It is safe from what devices do to their file p: a user deleted it, the service
\* has it, or a copy of p, or a copy of that.
Safe(e, p) == e \in dropped \/ e \in server[p].content \/ \E q \in Deeper(p) : At(e, q)

\* It is in p, or where p's edits go.
Held(e, p) == Safe(e, p) \/ At(e, p)

KnownEdits ==
    /\ dropped \subseteq 1 .. edits
    /\ \A p \in Path : server[p].content \subseteq 1 .. edits
    /\ \A d \in Device, p \in Path :
          /\ vault[d][p] \subseteq 1 .. edits
          /\ base[d][p].p \subseteq 1 .. edits
          /\ saved[d].base[p].p \subseteq 1 .. edits
    /\ \A d \in Device : run[d].ours \subseteq 1 .. edits /\ run[d].theirs.content \subseteq 1 .. edits

\* An entry of a snapshot: the service had it, and if it is still what the service
\* has, the vault has it too, but for what users deleted.
EntryAt(d, p, e) ==
    /\ e.p = Absent <=> e.t = 0
    /\ e.t <= server[p].rev
    /\ e.t # 0 /\ e.t = server[p].rev =>
          server[p].content = e.p /\ e.p \subseteq vault[d][p] \cup dropped
    /\ \A x \in e.p : Safe(x, p)
    /\ e.t # 0 /\ vault[d][p] = Absent => p \in removed

EntriesAt(d) == \A p \in Path : EntryAt(d, p, base[d][p]) /\ EntryAt(d, p, saved[d].base[p])

ServerAt ==
    \A p \in Path :
        /\ server[p].content # Absent => server[p].rev # 0
        /\ server[p].content = Absent /\ server[p].rev # 0 => p \in removed

\* What a listing says of a path still to do.
ListedAt(d) ==
    \A p \in run[d].todo :
        LET ours == run[d].listed.ours[p]
            theirs == run[d].listed.theirs[p]
        IN  /\ ours = Absent /\ theirs = base[d][p].t /\ theirs # 0 =>
                  vault[d][p] \cap base[d][p].p = {} /\ p \in removed
            /\ theirs = 0 /\ ours = base[d][p].p /\ base[d][p].t # 0 =>
                  /\ p \in removed
                  /\ base[d][p].t < server[p].rev /\ saved[d].base[p].t < server[p].rev

Midway == {"merged", "copied", "resolving"}

\* A path in the middle of its writes.
HeldAt(d) ==
    LET p == run[d].path
        theirs == run[d].theirs
    IN  run[d].step \in Midway =>
            /\ p \in run[d].todo
            /\ run[d].listed.ours[p] # Absent /\ run[d].listed.theirs[p] # 0
            /\ run[d].ours # Absent /\ theirs.content # Absent /\ theirs.rev # 0
            /\ theirs.rev <= server[p].rev
            /\ theirs.rev = server[p].rev => theirs.content = server[p].content
            /\ base[d][p].t <= theirs.rev /\ saved[d].base[p].t <= theirs.rev
            /\ \A x \in theirs.content : Safe(x, p)
            /\ run[d].ours \subseteq vault[d][p] \cup dropped
            /\ vault[d][p] = Absent => p \in removed
            /\ run[d].step = "merged" => theirs.content \subseteq run[d].ours

\* What its copy has.
Copied(d) == CopyOf(run[d].keep, run[d].ours, run[d].theirs.content)
CopyAt(d) ==
    LET c == run[d].copy
    IN  /\ run[d].step \in {"copied", "resolving"} =>
              c \in CopyNames[run[d].path] /\ \A x \in Copied(d) : Held(x, c)
        /\ run[d].step = "copied" =>
              /\ run[d].listed.ours[c] = Absent /\ run[d].listed.theirs[c] = 0
              /\ Copied(d) \subseteq vault[d][c] \cup dropped
              /\ vault[d][c] = Absent => c \in removed

IdleAt(d) == run[d].step = "idle" => run[d].todo = {}

DeviceAt(d) == EntriesAt(d) /\ ListedAt(d) /\ HeldAt(d) /\ CopyAt(d) /\ IdleAt(d)

Covered == \A e \in 1 .. edits : \E p \in Path : Held(e, p)

SyncInvariant ==
    SyncTypeOK /\ KnownEdits /\ ServerAt /\ Covered /\ \A d \in Device : DeviceAt(d)

-----------------------------------------------------------------------------
LEMMA DeeperIs ==
    ASSUME CopiesNest
    PROVE  /\ \A p \in Path : Deeper(p) \subseteq Path /\ p \notin Deeper(p)
           /\ \A p \in Path : \A c \in CopyNames[p] : c \in Deeper(p)
           /\ \A p \in Path : \A q \in Deeper(p) : \A r \in Deeper(q) : r \in Deeper(p)
<1>1. Depth \in [Path -> Nat] /\ Nests(Depth)
  BY DEF CopiesNest, Depth
<1>2. \A p \in Path : CopyNames[p] \subseteq Path
  BY SyncAssumption DEF Path
<1> QED
  BY <1>1, <1>2 DEF Deeper, Nests

\* What a step leaves as it is or moves on.
GoesOn ==
    /\ dropped \subseteq dropped' /\ removed \subseteq removed'
    /\ \A p \in Path : server'[p] = server[p] \/ server'[p].rev > server[p].rev

Grows ==
    /\ \A p \in Path : \A x : Safe(x, p) => Safe(x, p)'
    /\ \A p \in Path : \A x : Held(x, p) => Held(x, p)'

\* If what leaves the service stays safe, and what leaves a vault is held, all that
\* is held stays held.
LEMMA GrowsWhen ==
    ASSUME CopiesNest, dropped \subseteq dropped',
           \A p \in Path : \A x \in server[p].content : Safe(x, p)',
           \A p \in Path, d \in Device : \A x \in News(d, p) : Held(x, p)'
    PROVE  Grows
<1>1. \A p \in Path : \A x : At(x, p) => Held(x, p)'
  BY DEF At, Held
<1>2. \A p \in Path : \A q \in Deeper(p) : \A x : Held(x, q)' => Safe(x, p)'
  <2> SUFFICES ASSUME NEW p \in Path, NEW q \in Deeper(p), NEW x, Held(x, q)'
               PROVE  Safe(x, p)'
    OBVIOUS
  <2>1. CASE At(x, q)'
    BY <2>1 DEF Safe, Deeper
  <2>2. CASE Safe(x, q)'
    <3>1. (x \in dropped)' \/ (x \in server[q].content)' \/ \E r \in Deeper(q) : At(x, r)'
      BY <2>2 DEF Safe, Deeper
    <3>2. (x \in server[q].content)' => At(x, q)'
      BY DEF At
    <3>3. \A r \in Deeper(q) : r \in Deeper(p)
      BY DeeperIs
    <3> QED
      BY <3>1, <3>2, <3>3 DEF Safe, Deeper
  <2> QED
    BY <2>1, <2>2 DEF Held
<1>3. \A p \in Path : \A x : Safe(x, p) => Safe(x, p)'
  <2> SUFFICES ASSUME NEW p \in Path, NEW x, Safe(x, p)
               PROVE  Safe(x, p)'
    OBVIOUS
  <2>1. CASE x \in dropped
    BY <2>1 DEF Safe
  <2>2. CASE x \in server[p].content
    BY <2>2
  <2>3. CASE \E q \in Deeper(p) : At(x, q)
    BY <2>3, <1>1, <1>2, DeeperIs
  <2> QED
    BY <2>1, <2>2, <2>3 DEF Safe
<1> QED
  BY <1>1, <1>3 DEF Grows, Held

LEMMA CoveredStays ==
    ASSUME Covered, Grows, edits' = edits
    PROVE  Covered'
  BY DEF Covered, Grows

\* An entry that a step leaves, of a vault it leaves, adds to, or deletes from for a user.
LEMMA EntryStays ==
    ASSUME NEW d \in Device, NEW p \in Path, NEW e \in Entry, EntryAt(d, p, e),
           SyncTypeOK, SyncTypeOK', GoesOn, Grows,
           e.t # 0 /\ e.t = server[p].rev /\ server'[p] = server[p] =>
               e.p \cap vault[d][p] \subseteq vault'[d][p] \cup dropped',
           e.t # 0 /\ vault'[d][p] = Absent => vault[d][p] = Absent \/ p \in removed'
    PROVE  EntryAt(d, p, e)'
<1>1. server[p].rev \in Nat /\ server'[p].rev \in Nat /\ e.t \in Nat
  BY DEF SyncTypeOK, File, Entry
<1>2. (e.t <= server[p].rev)'
  BY <1>1 DEF EntryAt, GoesOn
<1>3. (e.t # 0 /\ e.t = server[p].rev =>
          server[p].content = e.p /\ e.p \subseteq vault[d][p] \cup dropped)'
  BY <1>1 DEF EntryAt, GoesOn
<1>4. (\A x \in e.p : Safe(x, p))'
  BY DEF EntryAt, Grows
<1>5. (e.t # 0 /\ vault[d][p] = Absent => p \in removed)'
  BY DEF EntryAt, GoesOn
<1> QED
  BY <1>2, <1>3, <1>4, <1>5 DEF EntryAt

\* A device that a step leaves alone, or whose user edits or deletes a file.
LEMMA DeviceStays ==
    ASSUME NEW d \in Device, DeviceAt(d), KnownEdits,
           SyncTypeOK, SyncTypeOK', GoesOn, Grows,
           base'[d] = base[d], saved'[d] = saved[d], run'[d] = run[d],
           \A p \in Path :
               /\ vault[d][p] \subseteq vault'[d][p] \cup dropped'
               /\ vault'[d][p] \cap (1 .. edits) \subseteq vault[d][p]
               /\ vault'[d][p] = Absent => vault[d][p] = Absent \/ p \in removed'
    PROVE  DeviceAt(d)'
<1>1. base[d] \in [Path -> Entry] /\ saved[d].base \in [Path -> Entry]
  BY DEF SyncTypeOK
<1>2. run[d] \in Run /\ run[d].todo \subseteq Path /\ run[d].path \in Path /\ run[d].copy \in Path
  BY DEF SyncTypeOK, Run
<1>3. \A p \in Path : server[p].rev \in Nat /\ server'[p].rev \in Nat
  BY DEF SyncTypeOK, File
<1>4. \A p \in Path : base[d][p].t \in Nat /\ saved[d].base[p].t \in Nat
  BY <1>1 DEF Entry
<1>5. EntriesAt(d)'
  <2> SUFFICES ASSUME NEW p \in Path
               PROVE  EntryAt(d, p, base[d][p])' /\ EntryAt(d, p, saved[d].base[p])'
    BY DEF EntriesAt
  <2>1. base[d][p] \in Entry /\ saved[d].base[p] \in Entry
    BY <1>1
  <2>2. EntryAt(d, p, base[d][p]) /\ EntryAt(d, p, saved[d].base[p])
    BY DEF DeviceAt, EntriesAt
  <2> DEFINE e == base[d][p]
             s == saved[d].base[p]
  <2>3. e \in Entry /\ s \in Entry /\ EntryAt(d, p, e) /\ EntryAt(d, p, s)
    BY <2>1, <2>2
  <2>4. e' = e /\ s' = s
    OBVIOUS
  <2> HIDE DEF e, s
  <2>5. EntryAt(d, p, e)' /\ EntryAt(d, p, s)'
    BY <2>3, <2>4, EntryStays
  <2> QED
    BY <2>5 DEF e, s
<1>6. ListedAt(d)'
  <2> SUFFICES ASSUME NEW p \in run[d].todo
               PROVE  LET ours == run[d].listed.ours[p]
                          theirs == run[d].listed.theirs[p]
                      IN  /\ ours = Absent /\ theirs = base[d][p].t /\ theirs # 0 =>
                                vault'[d][p] \cap base[d][p].p = {} /\ p \in removed'
                          /\ theirs = 0 /\ ours = base[d][p].p /\ base[d][p].t # 0 =>
                                /\ p \in removed'
                                /\ base[d][p].t < server'[p].rev
                                /\ saved[d].base[p].t < server'[p].rev
    BY DEF ListedAt
  <2>1. p \in Path /\ base[d][p].p \subseteq 1 .. edits
    BY <1>2 DEF KnownEdits
  <2> QED
    BY <2>1, <1>3, <1>4 DEF DeviceAt, ListedAt, GoesOn
<1>7. HeldAt(d)'
  <2> SUFFICES ASSUME run[d].step \in Midway
               PROVE  HeldAt(d)'
    BY DEF HeldAt
  <2> DEFINE p == run[d].path
             theirs == run[d].theirs
  <2>1. p \in Path /\ theirs.rev \in Nat
    BY <1>2 DEF Run, File
  <2>2. /\ theirs.rev <= server'[p].rev
        /\ theirs.rev = server'[p].rev => theirs.content = server'[p].content
    BY <2>1, <1>3 DEF DeviceAt, HeldAt, GoesOn
  <2>3. \A x \in theirs.content : Safe(x, p)'
    BY <2>1 DEF DeviceAt, HeldAt, Grows
  <2>4. /\ run[d].ours \subseteq vault'[d][p] \cup dropped'
        /\ vault'[d][p] = Absent => p \in removed'
    BY <2>1 DEF DeviceAt, HeldAt, GoesOn
  <2> QED
    BY <2>2, <2>3, <2>4 DEF DeviceAt, HeldAt, GoesOn
<1>8. CopyAt(d)'
  <2> DEFINE c == run[d].copy
  <2>1. c \in Path
    BY <1>2
  <2>2. Copied(d)' = Copied(d)
    BY DEF Copied
  <2>3. run[d].step \in {"copied", "resolving"} =>
              c \in CopyNames[run[d].path] /\ \A x \in Copied(d) : Held(x, c)'
    BY <2>1 DEF DeviceAt, CopyAt, Grows
  <2>4. run[d].step = "copied" =>
              /\ run[d].listed.ours[c] = Absent /\ run[d].listed.theirs[c] = 0
              /\ Copied(d) \subseteq vault'[d][c] \cup dropped'
              /\ vault'[d][c] = Absent => c \in removed'
    BY <2>1 DEF DeviceAt, CopyAt, GoesOn
  <2> QED
    BY <2>2, <2>3, <2>4 DEF CopyAt
<1>9. IdleAt(d)'
  BY DEF DeviceAt, IdleAt
<1> QED
  BY <1>5, <1>6, <1>7, <1>8, <1>9 DEF DeviceAt

\* A device one of whose paths moves: the others stay as they were.
LEMMA DeviceMoves ==
    ASSUME NEW d \in Device, NEW p \in Path, DeviceAt(d),
           SyncTypeOK, SyncTypeOK', GoesOn, Grows,
           run'[d].todo \subseteq run[d].todo, run'[d].listed = run[d].listed,
           saved'[d] = saved[d],
           \A q \in Path \ {p} : base'[d][q] = base[d][q] /\ vault'[d][q] = vault[d][q],
           EntryAt(d, p, base[d][p])', EntryAt(d, p, saved[d].base[p])',
           p \in run'[d].todo =>
               /\ run[d].listed.ours[p] # Absent \/ run[d].listed.theirs[p] = 0
               /\ run[d].listed.theirs[p] # 0 \/ run[d].listed.ours[p] # base'[d][p].p
                     \/ base'[d][p].t = 0,
           HeldAt(d)', CopyAt(d)', IdleAt(d)'
    PROVE  DeviceAt(d)'
<1>1. base[d] \in [Path -> Entry] /\ saved[d].base \in [Path -> Entry]
  BY DEF SyncTypeOK
<1>2. run[d].todo \subseteq Path
  BY DEF SyncTypeOK, Run
<1>3. \A q \in Path : server[q].rev \in Nat /\ server'[q].rev \in Nat
  BY DEF SyncTypeOK, File
<1>4. \A q \in Path : base[d][q].t \in Nat /\ saved[d].base[q].t \in Nat
  BY <1>1 DEF Entry
<1>5. EntriesAt(d)'
  <2> SUFFICES ASSUME NEW q \in Path \ {p}
               PROVE  EntryAt(d, q, base[d][q])' /\ EntryAt(d, q, saved[d].base[q])'
    BY DEF EntriesAt
  <2> DEFINE e == base[d][q]
             s == saved[d].base[q]
  <2>1. e \in Entry /\ s \in Entry /\ EntryAt(d, q, e) /\ EntryAt(d, q, s)
    BY <1>1 DEF DeviceAt, EntriesAt
  <2>2. e' = e /\ s' = s /\ vault'[d][q] = vault[d][q]
    OBVIOUS
  <2> HIDE DEF e, s
  <2>3. EntryAt(d, q, e)' /\ EntryAt(d, q, s)'
    BY <2>1, <2>2, EntryStays
  <2> QED
    BY <2>3 DEF e, s
<1>6. ListedAt(d)'
  <2> SUFFICES ASSUME NEW q \in run'[d].todo
               PROVE  LET ours == run[d].listed.ours[q]
                          theirs == run[d].listed.theirs[q]
                      IN  /\ ours = Absent /\ theirs = base'[d][q].t /\ theirs # 0 =>
                                vault'[d][q] \cap base'[d][q].p = {} /\ q \in removed'
                          /\ theirs = 0 /\ ours = base'[d][q].p /\ base'[d][q].t # 0 =>
                                /\ q \in removed'
                                /\ base'[d][q].t < server'[q].rev
                                /\ saved'[d].base[q].t < server'[q].rev
    BY DEF ListedAt
  <2>1. q \in run[d].todo /\ q \in Path
    BY <1>2
  <2>2. CASE q = p
    BY <2>2
  <2>3. CASE q # p
    BY <2>1, <2>3, <1>3, <1>4 DEF DeviceAt, ListedAt, GoesOn
  <2> QED
    BY <2>2, <2>3
<1> QED
  BY <1>5, <1>6 DEF DeviceAt

\* A step of one device's engine.
LEMMA EngineStep ==
    ASSUME NEW d \in Device, SyncInvariant, SyncTypeOK', GoesOn, Grows,
           edits' = edits, KnownEdits', ServerAt', DeviceAt(d)',
           \A x \in Device \ {d} :
               /\ vault'[x] = vault[x] /\ base'[x] = base[x] /\ saved'[x] = saved[x]
               /\ run'[x] = run[x]
    PROVE  SyncInvariant'
<1>1. ASSUME NEW x \in Device \ {d}
      PROVE  DeviceAt(x)'
  BY DeviceStays DEF SyncInvariant
<1>2. Covered'
  BY CoveredStays DEF SyncInvariant
<1> QED
  BY <1>1, <1>2 DEF SyncInvariant

\* Where p's edits go other than p: dropped by a user, or a copy of p.
Away(x, p) == x \in dropped \/ \E q \in Deeper(p) : At(x, q)

LEMMA HeldByCopy ==
    ASSUME CopiesNest, NEW p \in Path, NEW c \in CopyNames[p], NEW x, Held(x, c)
    PROVE  Away(x, p)
<1>1. c \in Path /\ c \in Deeper(p) /\ \A q \in Deeper(c) : q \in Deeper(p)
  BY DeeperIs, SyncAssumption DEF Path
<1>2. x \in server[c].content => At(x, c)
  BY DEF At
<1> QED
  BY <1>1, <1>2 DEF Held, Safe, Away

LEMMA NoRunIs ==
    /\ NoRun \in Run /\ NoRun.step = "idle" /\ NoRun.todo = {}
    /\ NoRun.ours = Absent /\ NoRun.theirs.content = Absent
    /\ NoFiles \in Listing
<1>1. NoRun.path \in Path /\ NoRun.copy \in Path
  BY SyncAssumption DEF NoRun, Path
<1>2. NoFiles \in Listing
  BY DEF NoFiles, Listing, Content, Absent
<1> QED
  BY <1>1, <1>2 DEF NoRun, Run, File, Content, Absent

LEMMA DoneIs ==
    ASSUME SyncTypeOK, NEW d \in Device, NEW p, NEW reported \in SUBSET Copy, Done(d, p, reported)
    PROVE  /\ run' \in [Device -> Run]
           /\ run'[d].step = "paths" /\ run'[d].todo = run[d].todo \ {p}
           /\ run'[d].listed = run[d].listed
           /\ run'[d].ours = Absent /\ run'[d].theirs.content = Absent
           /\ \A x \in Device \ {d} : run'[x] = run[x]
<1>1. run[d] \in Run
  BY DEF SyncTypeOK
<1> DEFINE new == [NoRun EXCEPT !.step = "paths", !.todo = run[d].todo \ {p},
                     !.listed = run[d].listed, !.taken = run[d].taken,
                     !.reported = run[d].reported \cup reported]
<1>2. run' = [run EXCEPT ![d] = new]
  BY DEF Done
<1>3. /\ new \in Run /\ new.step = "paths" /\ new.todo = run[d].todo \ {p}
      /\ new.listed = run[d].listed /\ new.ours = Absent /\ new.theirs.content = Absent
  BY <1>1, NoRunIs DEF Run, NoRun
<1> HIDE DEF new
<1> QED
  BY <1>2, <1>3 DEF SyncTypeOK

\* What path p may become: V in the vault, f on the service, e in the snapshot.
Fits(d, p, V, f, e) ==
    /\ V \in Content /\ f \in File /\ e \in Entry
    /\ V \subseteq 1 .. edits /\ f.content \subseteq 1 .. edits /\ e.p \subseteq 1 .. edits
    /\ f = server[p] \/ f.rev > server[p].rev
    /\ f.content = Absent /\ f.rev # 0 => p \in removed
    /\ f.content # Absent => f.rev # 0
    /\ V = Absent => vault[d][p] = Absent \/ p \in removed
    /\ e.p = Absent <=> e.t = 0
    /\ e.t <= f.rev
    /\ e.t # 0 /\ e.t = f.rev => f.content = e.p /\ e.p \subseteq V \cup dropped
    /\ \A x \in e.p : x \in f.content \/ Safe(x, p)
    /\ e.t # 0 /\ V = Absent => p \in removed
    /\ LET s == saved[d].base[p]
       IN  f = server[p] /\ s.t # 0 /\ s.t = f.rev => s.p \cap vault[d][p] \subseteq V \cup dropped
    /\ \A x \in server[p].content : x \in f.content \/ Away(x, p)
    /\ \A x \in News(d, p) :
           x \in V \ (e.p \cup saved[d].base[p].p) \/ x \in f.content \/ Safe(x, p)

\* Path p of device d becomes that.
Becomes(d, p, V, f, e) ==
    /\ vault' = [vault EXCEPT ![d][p] = V]
    /\ server' = [server EXCEPT ![p] = f]
    /\ base' = [base EXCEPT ![d][p] = e]
    /\ conflicts' \in [Device -> SUBSET Copy] /\ saved' = saved /\ users' = users
    /\ faults' \in 0 .. MaxFault /\ crashes' = crashes

\* What holds after that step, but for what the device's run says.
Moved(d, p, V, f, e) ==
    /\ SyncTypeOK' /\ GoesOn /\ Grows /\ KnownEdits' /\ ServerAt'
    /\ edits' = edits /\ dropped' = dropped /\ removed' = removed /\ saved' = saved
    /\ vault'[d][p] = V /\ server'[p] = f /\ base'[d][p] = e
    /\ \A q \in Path \ {p} : /\ vault'[d][q] = vault[d][q] /\ base'[d][q] = base[d][q]
                             /\ server'[q] = server[q]
    /\ \A x \in Device \ {d} : vault'[x] = vault[x] /\ base'[x] = base[x] /\ saved'[x] = saved[x]
    /\ EntryAt(d, p, base[d][p])' /\ EntryAt(d, p, saved[d].base[p])'

LEMMA PathMoves ==
    ASSUME CopiesNest, SyncInvariant, NEW d \in Device, NEW p \in Path, NEW V, NEW f, NEW e,
           Fits(d, p, V, f, e), Becomes(d, p, V, f, e),
           run' \in [Device -> Run],
           run'[d].ours \subseteq 1 .. edits, run'[d].theirs.content \subseteq 1 .. edits,
           \A x \in Device \ {d} : run'[x] = run[x]
    PROVE  Moved(d, p, V, f, e)
<1> /\ V \in Content /\ f \in File /\ e \in Entry
    /\ V \subseteq 1 .. edits /\ f.content \subseteq 1 .. edits /\ e.p \subseteq 1 .. edits
    /\ f = server[p] \/ f.rev > server[p].rev
    /\ f.content = Absent /\ f.rev # 0 => p \in removed
    /\ f.content # Absent => f.rev # 0
    /\ V = Absent => vault[d][p] = Absent \/ p \in removed
    /\ e.p = Absent <=> e.t = 0
    /\ e.t <= f.rev
    /\ e.t # 0 /\ e.t = f.rev => f.content = e.p /\ e.p \subseteq V \cup dropped
    /\ \A x \in e.p : x \in f.content \/ Safe(x, p)
    /\ e.t # 0 /\ V = Absent => p \in removed
    /\ LET s == saved[d].base[p]
       IN  f = server[p] /\ s.t # 0 /\ s.t = f.rev => s.p \cap vault[d][p] \subseteq V \cup dropped
    /\ \A x \in server[p].content : x \in f.content \/ Away(x, p)
    /\ \A x \in News(d, p) :
           x \in V \ (e.p \cup saved[d].base[p].p) \/ x \in f.content \/ Safe(x, p)
  BY DEF Fits
<1> /\ vault' = [vault EXCEPT ![d][p] = V]
    /\ server' = [server EXCEPT ![p] = f]
    /\ base' = [base EXCEPT ![d][p] = e]
    /\ conflicts' \in [Device -> SUBSET Copy] /\ saved' = saved /\ users' = users
    /\ faults' \in 0 .. MaxFault /\ crashes' = crashes
  BY DEF Becomes
<1>1. SyncTypeOK /\ KnownEdits /\ ServerAt /\ DeviceAt(d)
  BY DEF SyncInvariant
<1>2. /\ vault'[d][p] = V /\ server'[p] = f /\ base'[d][p] = e
      /\ \A q \in Path \ {p} : /\ vault'[d][q] = vault[d][q] /\ base'[d][q] = base[d][q]
                               /\ server'[q] = server[q]
      /\ \A x \in Device \ {d} : vault'[x] = vault[x] /\ base'[x] = base[x]
      /\ vault' \in [Device -> [Path -> Content]]
      /\ base' \in [Device -> [Path -> Entry]] /\ server' \in [Path -> File]
  BY <1>1 DEF SyncTypeOK
<1>3. \A x \in Device \ {d} : saved'[x] = saved[x]
  OBVIOUS
<1>4. edits' = edits /\ dropped' = dropped /\ removed' = removed /\ deletes' = deletes
  BY DEF users
<1>5. SyncTypeOK'
  <2>2. \A x \in Device, q \in Path : base'[x][q].p = Absent <=> base'[x][q].t = 0
    <3> SUFFICES ASSUME NEW x \in Device, NEW q \in Path
                 PROVE  base'[x][q].p = Absent <=> base'[x][q].t = 0
      OBVIOUS
    <3>1. CASE x = d /\ q = p
      BY <3>1, <1>2
    <3>2. CASE ~ (x = d /\ q = p)
      BY <3>2, <1>1, <1>2 DEF SyncTypeOK
    <3> QED
      BY <3>1, <3>2
  <2>3. saved' \in [Device -> [base : [Path -> Entry], conflicts : SUBSET Copy]]
    BY <1>1 DEF SyncTypeOK
  <2>4. edits' \in 0 .. MaxEdit /\ dropped' \in Content /\ removed' \in SUBSET Path
        /\ deletes' \in 0 .. MaxDelete /\ crashes' \in 0 .. MaxCrash
    BY <1>1, <1>4 DEF SyncTypeOK
  <2> QED
    BY <2>2, <2>3, <2>4, <1>2 DEF SyncTypeOK
<1>6. GoesOn
  BY <1>2, <1>4 DEF GoesOn
<1>7. \A q \in Path \ {p} : \A x : At(x, q)' <=> At(x, q)
  <2> SUFFICES ASSUME NEW q \in Path \ {p}, NEW x
               PROVE  At(x, q)' <=> At(x, q)
    OBVIOUS
  <2>1. \A k \in Device : News(k, q)' = News(k, q)
    BY <1>2 DEF News
  <2> QED
    BY <2>1, <1>2 DEF At
<1>8. \A x : Away(x, p) => Away(x, p)'
  BY <1>4, <1>7, DeeperIs DEF Away
<1>9. \A x : Safe(x, p) => x \in server[p].content \/ Away(x, p)
  BY DEF Safe, Away
<1>10. \A x : x \in f.content \/ Away(x, p)' => Safe(x, p)'
  BY <1>2 DEF Safe, Away
<1>11. \A x : Safe(x, p) => Safe(x, p)'
  BY <1>8, <1>9, <1>10
<1>12. Grows
  <2>1. \A q \in Path : \A x \in server[q].content : Safe(x, q)'
    <3>1. \A x \in server[p].content : Safe(x, p)'
      BY <1>8, <1>10
    <3>2. \A q \in Path \ {p} : \A x \in server[q].content : Safe(x, q)'
      BY <1>2 DEF Safe
    <3> QED
      BY <3>1, <3>2
  <2>2. \A q \in Path, k \in Device : \A x \in News(k, q) : Held(x, q)'
    <3> SUFFICES ASSUME NEW q \in Path, NEW k \in Device, NEW x \in News(k, q)
                 PROVE  Held(x, q)'
      OBVIOUS
    <3>1. CASE k = d /\ q = p
      <4>1. x \in V \ (e.p \cup saved[d].base[p].p) => x \in News(d, p)'
        BY <1>2 DEF News
      <4> QED
        BY <3>1, <4>1, <1>10, <1>11 DEF Held, At
    <3>2. CASE ~ (k = d /\ q = p)
      <4>1. News(k, q)' = News(k, q)
        BY <3>2, <1>2 DEF News
      <4> QED
        BY <4>1 DEF Held, At
    <3> QED
      BY <3>1, <3>2
  <2> QED
    BY <2>1, <2>2, <1>4, GrowsWhen
<1>13. KnownEdits'
  <2>1. \A k \in Device : run'[k].ours \subseteq 1 .. edits /\ run'[k].theirs.content \subseteq 1 .. edits
    BY <1>1 DEF KnownEdits
  <2>2. \A q \in Path : server'[q].content \subseteq 1 .. edits
    BY <1>1, <1>2 DEF KnownEdits
  <2>3. \A k \in Device, q \in Path :
          vault'[k][q] \subseteq 1 .. edits /\ base'[k][q].p \subseteq 1 .. edits
    <3> SUFFICES ASSUME NEW k \in Device, NEW q \in Path
                 PROVE  vault'[k][q] \subseteq 1 .. edits /\ base'[k][q].p \subseteq 1 .. edits
      OBVIOUS
    <3>1. CASE k = d /\ q = p
      BY <3>1, <1>2
    <3>2. CASE ~ (k = d /\ q = p)
      BY <3>2, <1>1, <1>2 DEF KnownEdits
    <3> QED
      BY <3>1, <3>2
  <2> QED
    BY <2>1, <2>2, <2>3, <1>1, <1>4 DEF KnownEdits
<1>14. ServerAt'
  BY <1>1, <1>2, <1>4 DEF ServerAt
<1>15. EntryAt(d, p, base[d][p])'
  <2>1. \A x \in e.p : Safe(x, p)'
    BY <1>10, <1>11
  <2> QED
    BY <2>1, <1>2, <1>4 DEF EntryAt
<1>16. EntryAt(d, p, saved[d].base[p])'
  <2> DEFINE s == saved[d].base[p]
  <2>1. s \in Entry /\ EntryAt(d, p, s) /\ s' = s
    BY <1>1 DEF DeviceAt, EntriesAt, SyncTypeOK
  <2>2. /\ s.t # 0 /\ s.t = server[p].rev /\ server'[p] = server[p] =>
               s.p \cap vault[d][p] \subseteq vault'[d][p] \cup dropped'
        /\ s.t # 0 /\ vault'[d][p] = Absent => vault[d][p] = Absent \/ p \in removed'
    BY <1>2, <1>4
  <2> HIDE DEF s
  <2>3. EntryAt(d, p, s)'
    BY <2>1, <2>2, <1>1, <1>5, <1>6, <1>12, EntryStays
  <2> QED
    BY <2>3 DEF s
<1> QED
  BY <1>2, <1>3, <1>4, <1>5, <1>6, <1>12, <1>13, <1>14, <1>15, <1>16 DEF Moved

\* A path is done.
LEMMA PathDone ==
    ASSUME CopiesNest, SyncInvariant, NEW d \in Device, NEW p \in Path, NEW V, NEW f, NEW e,
           NEW reported \in SUBSET Copy,
           Fits(d, p, V, f, e), Becomes(d, p, V, f, e), Done(d, p, reported)
    PROVE  SyncInvariant'
<1>1. SyncTypeOK /\ DeviceAt(d)
  BY DEF SyncInvariant
<1>2. /\ run' \in [Device -> Run]
      /\ run'[d].step = "paths" /\ run'[d].todo = run[d].todo \ {p}
      /\ run'[d].listed = run[d].listed
      /\ run'[d].ours = Absent /\ run'[d].theirs.content = Absent
      /\ \A x \in Device \ {d} : run'[x] = run[x]
  BY <1>1, DoneIs
<1>3. Moved(d, p, V, f, e)
  BY <1>2, PathMoves DEF Absent
<1>4. HeldAt(d)' /\ CopyAt(d)' /\ IdleAt(d)'
  BY <1>2 DEF HeldAt, CopyAt, IdleAt, Midway
<1>5. DeviceAt(d)'
  BY <1>1, <1>2, <1>3, <1>4, DeviceMoves DEF Moved
<1> QED
  BY <1>2, <1>3, <1>5, EngineStep DEF Moved

\* What is known of a path on a device.
LEMMA PathIs ==
    ASSUME SyncInvariant, NEW d \in Device, NEW p \in Path
    PROVE  /\ vault[d][p] \in Content /\ vault[d][p] \subseteq 1 .. edits
           /\ server[p] \in File /\ server[p].content \subseteq 1 .. edits
           /\ server[p].rev \in Nat /\ server[p].content \in Content
           /\ base[d][p] \in Entry /\ base[d][p].p \subseteq 1 .. edits
           /\ base[d][p].t \in Nat /\ base[d][p].p \in Content
           /\ saved[d].base[p] \in Entry
           /\ saved[d].base[p].t \in Nat /\ saved[d].base[p].p \in Content
           /\ vault = [vault EXCEPT ![d][p] = vault[d][p]]
           /\ server = [server EXCEPT ![p] = server[p]]
           /\ base = [base EXCEPT ![d][p] = base[d][p]]
           /\ EntryAt(d, p, base[d][p]) /\ EntryAt(d, p, saved[d].base[p])
           /\ server[p].content # Absent => server[p].rev # 0
           /\ server[p].content = Absent /\ server[p].rev # 0 => p \in removed
           /\ run[d] \in Run
           /\ conflicts \in [Device -> SUBSET Copy] /\ faults \in 0 .. MaxFault
<1>1. SyncTypeOK /\ KnownEdits /\ ServerAt /\ EntriesAt(d)
  BY DEF SyncInvariant, DeviceAt
<1>2. vault[d] \in [Path -> Content] /\ base[d] \in [Path -> Entry]
      /\ saved[d].base \in [Path -> Entry]
  BY <1>1 DEF SyncTypeOK
<1>3. vault = [vault EXCEPT ![d][p] = vault[d][p]]
  BY <1>1, <1>2 DEF SyncTypeOK
<1>4. base = [base EXCEPT ![d][p] = base[d][p]]
  BY <1>1, <1>2 DEF SyncTypeOK
<1>5. server = [server EXCEPT ![p] = server[p]]
  BY <1>1 DEF SyncTypeOK
<1>6. /\ vault[d][p] \in Content /\ server[p] \in File /\ base[d][p] \in Entry
      /\ saved[d].base[p] \in Entry /\ run[d] \in Run
      /\ conflicts \in [Device -> SUBSET Copy] /\ faults \in 0 .. MaxFault
  BY <1>1, <1>2 DEF SyncTypeOK
<1>7. /\ server[p].rev \in Nat /\ server[p].content \in Content
      /\ base[d][p].t \in Nat /\ base[d][p].p \in Content
      /\ saved[d].base[p].t \in Nat /\ saved[d].base[p].p \in Content
  BY <1>6 DEF File, Entry
<1>8. /\ vault[d][p] \subseteq 1 .. edits /\ server[p].content \subseteq 1 .. edits
      /\ base[d][p].p \subseteq 1 .. edits
  BY <1>1 DEF KnownEdits
<1>9. EntryAt(d, p, base[d][p]) /\ EntryAt(d, p, saved[d].base[p])
  BY <1>1 DEF EntriesAt
<1> QED
  BY <1>1, <1>3, <1>4, <1>5, <1>6, <1>7, <1>8, <1>9 DEF ServerAt

LEMMA FitsAsIs ==
    ASSUME SyncInvariant, NEW d \in Device, NEW p \in Path
    PROVE  Fits(d, p, vault[d][p], server[p], base[d][p])
<1> DEFINE V == vault[d][p]
           f == server[p]
           e == base[d][p]
<1>1. /\ V \in Content /\ f \in File /\ e \in Entry
      /\ V \subseteq 1 .. edits /\ f.content \subseteq 1 .. edits /\ e.p \subseteq 1 .. edits
      /\ f.content = Absent /\ f.rev # 0 => p \in removed
      /\ f.content # Absent => f.rev # 0
  BY PathIs
<1>2. /\ e.p = Absent <=> e.t = 0
      /\ e.t <= f.rev
      /\ e.t # 0 /\ e.t = f.rev => f.content = e.p /\ e.p \subseteq V \cup dropped
      /\ \A x \in e.p : x \in f.content \/ Safe(x, p)
      /\ e.t # 0 /\ V = Absent => p \in removed
  BY PathIs DEF EntryAt
<1>3. /\ f = server[p] /\ V = vault[d][p]
      /\ \A x \in News(d, p) : x \in V \ (e.p \cup saved[d].base[p].p)
  BY DEF News
<1> HIDE DEF V, f, e
<1>4. Fits(d, p, V, f, e)
  BY <1>1, <1>2, <1>3 DEF Fits
<1> QED
  BY <1>4 DEF V, f, e

\* A path that is put off: nothing changes but the run and what the status lists.
LEMMA PutOff ==
    ASSUME CopiesNest, SyncInvariant, NEW d \in Device, NEW p \in Path,
           NEW reported \in SUBSET Copy, Done(d, p, reported),
           vault' = vault, server' = server, base' = base,
           conflicts' \in [Device -> SUBSET Copy], saved' = saved, users' = users,
           faults' \in 0 .. MaxFault, crashes' = crashes
    PROVE  SyncInvariant'
<1> DEFINE V == vault[d][p]
           f == server[p]
           e == base[d][p]
<1>1. Fits(d, p, V, f, e)
  BY FitsAsIs
<1>2. Becomes(d, p, V, f, e)
  BY PathIs DEF Becomes
<1> HIDE DEF V, f, e
<1> QED
  BY <1>1, <1>2, PathDone

LEMMA RunsPaths ==
    ASSUME SyncInvariant, NEW d \in Device
    PROVE  run[d].todo \subseteq Path /\ run[d].path \in Path /\ run[d].copy \in Path
           /\ run[d].listed.ours \in [Path -> Content] /\ run[d].listed.theirs \in [Path -> Nat]
           /\ run[d].ours \in Content /\ run[d].theirs \in File
           /\ run[d].theirs.content \in Content /\ run[d].theirs.rev \in Nat
           /\ run[d].ours \subseteq 1 .. edits /\ run[d].theirs.content \subseteq 1 .. edits
           /\ run[d].keep \in {"ours", "theirs"}
           /\ run[d].taken \subseteq Copy /\ run[d].reported \subseteq Copy
  BY DEF SyncInvariant, SyncTypeOK, KnownEdits, Run, Listing, File

\* A path that fails, for which no name is free, or whose last write fails.
LEMMA PathFailsStep ==
    ASSUME CopiesNest, SyncInvariant, NEW d \in Device,
           \/ \E p \in Path : PathFails(d, p) \/ NoFreeName(d, p)
           \/ LastWriteFails(d)
    PROVE  SyncInvariant'
<1>1. faults \in 0 .. MaxFault /\ conflicts \in [Device -> SUBSET Copy]
  BY DEF SyncInvariant, SyncTypeOK
<1>2. ASSUME NEW p \in Path, PathFails(d, p) PROVE SyncInvariant'
  <2>1. faults' \in 0 .. MaxFault
    BY <1>1, <1>2, SyncAssumption DEF PathFails, Fault
  <2> QED
    BY <2>1, <1>1, <1>2, PutOff DEF PathFails, snapshot
<1>3. ASSUME NEW p \in Path, NoFreeName(d, p) PROVE SyncInvariant'
  BY <1>1, <1>3, PutOff DEF NoFreeName, snapshot
<1>4. CASE LastWriteFails(d)
  <2>1. faults' \in 0 .. MaxFault
    BY <1>1, <1>4, SyncAssumption DEF LastWriteFails, Fault
  <2>2. run[d].path \in Path
    BY RunsPaths
  <2> QED
    BY <2>1, <2>2, <1>1, <1>4, PutOff DEF LastWriteFails, snapshot
<1> QED
  BY <1>2, <1>3, <1>4

-----------------------------------------------------------------------------
(* One path, in one write.                                                 *)

LEMMA DecisionSays ==
    ASSUME NEW e, NEW ours, NEW theirs, NEW action, Decision(e, ours, theirs) = action
    PROVE  /\ action = "pull" => theirs # 0 /\ theirs # e.t /\ (ours = e.p \/ ours = Absent)
           /\ action = "push" => ours # Absent /\ ours # e.p /\ (theirs = e.t \/ theirs = 0)
           /\ action = "delete-target" => ours = Absent /\ ours # e.p /\ theirs = e.t
           /\ action = "delete-primary" => ours = e.p /\ theirs = 0 /\ theirs # e.t
           /\ action = "reconcile" => ours # Absent /\ theirs # 0
<1>1. CASE ours = e.p /\ theirs = e.t
  BY <1>1 DEF Decision
<1>2. CASE ours # e.p /\ theirs = e.t
  BY <1>2 DEF Decision
<1>3. CASE ours = e.p /\ theirs # e.t
  BY <1>3 DEF Decision
<1>4. CASE ours # e.p /\ theirs # e.t
  BY <1>4 DEF Decision
<1> QED
  BY <1>1, <1>2, <1>3, <1>4

\* Base and vault as they are, whatever the service gets.
LEMMA EntryUnder ==
    ASSUME SyncInvariant, NEW d \in Device, NEW p \in Path, NEW f \in File,
           f = server[p] \/ f.rev > server[p].rev
    PROVE  LET e == base[d][p]
           IN  /\ e.p = Absent <=> e.t = 0
               /\ e.t <= f.rev
               /\ e.t # 0 /\ e.t = f.rev => f.content = e.p /\ e.p \subseteq vault[d][p] \cup dropped
               /\ \A x \in e.p : Safe(x, p)
               /\ e.t # 0 /\ vault[d][p] = Absent => p \in removed
<1>1. f.rev \in Nat
  BY DEF File
<1> QED
  BY <1>1, PathIs DEF EntryAt

LEMMA NothingForgets == NoEntry \in Entry /\ NoEntry.p = {} /\ NoEntry.t = 0
  BY DEF NoEntry, Entry, Content, Absent

LEMMA ForgetPathStep ==
    ASSUME CopiesNest, SyncInvariant, NEW d \in Device, NEW p \in Path, ForgetPath(d, p)
    PROVE  SyncInvariant'
<1> DEFINE V == vault[d][p]
           f == server[p]
           e == NoEntry
<1>1. Fits(d, p, V, f, e)
  <2>1. e \in Entry /\ e.p = {} /\ e.t = 0
    BY NothingForgets
  <2> HIDE DEF e
  <2> QED
    BY <2>1, PathIs DEF Fits, News, Absent
<1>2. /\ vault' = [vault EXCEPT ![d][p] = V]
      /\ server' = [server EXCEPT ![p] = f]
      /\ base' = [base EXCEPT ![d][p] = e]
      /\ conflicts' \in [Device -> SUBSET Copy] /\ faults' \in 0 .. MaxFault
  BY PathIs DEF ForgetPath, Forget
<1>3. Done(d, p, {}) /\ saved' = saved /\ users' = users /\ crashes' = crashes
  BY DEF ForgetPath
<1> HIDE DEF V, f, e
<1> QED
  BY <1>1, <1>2, <1>3, PathDone DEF Becomes

LEMMA PullStep ==
    ASSUME CopiesNest, SyncInvariant, NEW d \in Device, NEW p \in Path, Pull(d, p)
    PROVE  /\ SyncInvariant'
           /\ server' = server /\ (vault'[d][p] = Absent => vault[d][p] = Absent)
<1>1. run[d].listed.ours[p] = base[d][p].p \/ run[d].listed.ours[p] = Absent
  BY DecisionSays DEF Pull, Decides
<1>2. CASE server[p].content # Absent /\ vault[d][p] = run[d].listed.ours[p]
  <2> DEFINE V == server[p].content
             f == server[p]
             e == [p |-> server[p].content, t |-> server[p].rev]
             reported == {p} \cap Copy
  <2>1. /\ vault' = [vault EXCEPT ![d][p] = V]
        /\ server' = [server EXCEPT ![p] = f]
        /\ base' = [base EXCEPT ![d][p] = e]
        /\ faults' \in 0 .. MaxFault
    BY <1>2, PathIs DEF Pull, WriteVault, Record
  <2>2. Done(d, p, reported) /\ saved' = saved /\ users' = users /\ crashes' = crashes
    BY <1>2 DEF Pull
  <2>3. conflicts' \in [Device -> SUBSET Copy]
    <3>1. conflicts \in [Device -> SUBSET Copy]
      BY PathIs
    <3>2. \E c \in SUBSET Copy : conflicts' = [conflicts EXCEPT ![d] = @ \cup c]
      <4>1. conflicts' = [conflicts EXCEPT ![d] = @ \cup
               (IF run[d].listed.ours[p] = Absent THEN {p} \cap Copy ELSE {})]
        BY <1>2 DEF Pull
      <4>2. (IF run[d].listed.ours[p] = Absent THEN {p} \cap Copy ELSE {}) \in SUBSET Copy
        OBVIOUS
      <4> QED
        BY <4>1, <4>2
    <3> QED
      BY <3>1, <3>2
  <2>4. Fits(d, p, V, f, e)
    <3>1. e \in Entry /\ e.p = V /\ e.t = f.rev /\ f = server[p] /\ f.content = V
          /\ V \in Content /\ f \in File /\ f.rev \in Nat /\ V \subseteq 1 .. edits
          /\ V # Absent /\ f.rev # 0
      BY <1>2, PathIs DEF Entry
    <3>2. LET s == saved[d].base[p]
          IN  s.t # 0 /\ s.t = f.rev => s.p \cap vault[d][p] \subseteq V \cup dropped
      BY PathIs DEF EntryAt
    <3>3. \A x \in News(d, p) : FALSE
      BY <1>1, <1>2 DEF News, Absent
    <3> HIDE DEF e, f, V
    <3> QED
      BY <3>1, <3>2, <3>3 DEF Fits
  <2>5. reported \in SUBSET Copy
    OBVIOUS
  <2>6. server' = server /\ vault'[d][p] # Absent
    BY <1>2, <2>1 DEF Pull, SyncInvariant, SyncTypeOK
  <2> HIDE DEF V, f, e, reported
  <2>7. SyncInvariant'
    BY <2>1, <2>2, <2>3, <2>4, <2>5, PathDone DEF Becomes
  <2> QED
    BY <2>6, <2>7
<1>3. CASE ~ (server[p].content # Absent /\ vault[d][p] = run[d].listed.ours[p])
  BY <1>3, PutOff, PathIs DEF Pull
<1> QED
  BY <1>2, <1>3

LEMMA DeletePrimaryStep ==
    ASSUME CopiesNest, SyncInvariant, NEW d \in Device, NEW p \in Path, DeletePrimary(d, p)
    PROVE  /\ SyncInvariant'
           /\ server' = server /\ p \in removed
<1>1. /\ run[d].listed.ours[p] = base[d][p].p /\ run[d].listed.theirs[p] = 0 /\ base[d][p].t # 0
      /\ p \in run[d].todo
  BY DecisionSays DEF DeletePrimary, Decides
<1>2. p \in removed /\ saved[d].base[p].t < server[p].rev
  BY <1>1 DEF SyncInvariant, DeviceAt, ListedAt
<1>3. CASE vault[d][p] = run[d].listed.ours[p]
  <2> DEFINE V == Absent
             f == server[p]
             e == NoEntry
  <2>1. /\ vault' = [vault EXCEPT ![d][p] = V]
        /\ server' = [server EXCEPT ![p] = f]
        /\ base' = [base EXCEPT ![d][p] = e]
        /\ conflicts' \in [Device -> SUBSET Copy] /\ faults' \in 0 .. MaxFault
    BY <1>3, PathIs DEF DeletePrimary, WriteVault, Forget
  <2>2. Done(d, p, {}) /\ saved' = saved /\ users' = users /\ crashes' = crashes
    BY <1>3 DEF DeletePrimary
  <2>3. Fits(d, p, V, f, e)
    <3>1. e \in Entry /\ e.p = {} /\ e.t = 0 /\ V = {} /\ V \in Content
      BY NothingForgets DEF Absent, Content
    <3>2. /\ f = server[p] /\ saved[d].base[p].t \in Nat /\ saved[d].base[p].t # f.rev
          /\ f.rev \in Nat /\ f \in File /\ f.content \subseteq 1 .. edits
          /\ f.content # Absent => f.rev # 0
      BY <1>2, PathIs
    <3>3. \A x \in News(d, p) : FALSE
      BY <1>1, <1>3 DEF News
    <3>4. \A x : x \notin e.p /\ x \notin V
      BY <3>1
    <3>5. e.p = Absent /\ V = Absent
      BY <3>1 DEF Absent
    <3> HIDE DEF e, f, V
    <3>6. e.p \subseteq 1 .. edits /\ V \subseteq 1 .. edits
      BY <3>4
    <3> QED
      BY <3>1, <3>2, <3>3, <3>4, <3>5, <3>6, <1>2 DEF Fits
  <2> HIDE DEF V, f, e
  <2>4. SyncInvariant'
    BY <2>1, <2>2, <2>3, PathDone DEF Becomes
  <2> QED
    BY <2>4, <1>2 DEF DeletePrimary
<1>4. CASE vault[d][p] # run[d].listed.ours[p]
  <2>1. SyncInvariant'
    BY <1>4, PutOff, PathIs DEF DeletePrimary
  <2> QED
    BY <2>1, <1>2 DEF DeletePrimary
<1> QED
  BY <1>3, <1>4

LEMMA WrittenIs ==
    ASSUME NEW f \in File, NEW L \in Content
    PROVE  /\ Written(f, L) \in File /\ Written(f, L).content = L
           /\ Written(f, L) = f \/ Written(f, L).rev > f.rev
           /\ f.rev \in Nat /\ Written(f, L).rev \in Nat
  BY DEF Written, File

\* The service gets L for path p, all of which the vault has; the device records it,
\* or doesn't hear.
LEMMA WritesServer ==
    ASSUME SyncInvariant, NEW d \in Device, NEW p \in Path,
           NEW L \in Content, L # Absent, L \subseteq 1 .. edits, L \subseteq vault[d][p] \cup dropped,
           vault[d][p] = Absent => p \in removed,
           \A x \in server[p].content : x \in L \/ Away(x, p),
           NEW e, e = [p |-> L, t |-> Written(server[p], L).rev] \/ e = base[d][p]
    PROVE  Fits(d, p, vault[d][p], Written(server[p], L), e)
<1> DEFINE f == Written(server[p], L)
           V == vault[d][p]
<1>1. /\ f \in File /\ f.rev \in Nat /\ f.content = L
      /\ f = server[p] \/ f.rev > server[p].rev
  BY PathIs, WrittenIs
<1>2. f.rev # 0
  <2>1. CASE f = server[p]
    BY <2>1, <1>1, PathIs
  <2>2. CASE f.rev > server[p].rev
    BY <2>2, <1>1, PathIs
  <2> QED
    BY <2>1, <2>2, <1>1
<1>3. /\ e \in Entry /\ e.p \subseteq 1 .. edits
      /\ e.p = Absent <=> e.t = 0
      /\ e.t <= f.rev
      /\ e.t # 0 /\ e.t = f.rev => f.content = e.p /\ e.p \subseteq V \cup dropped
      /\ \A x \in e.p : x \in f.content \/ Safe(x, p)
      /\ e.t # 0 /\ V = Absent => p \in removed
      /\ \A x \in News(d, p) :
           x \in V \ (e.p \cup saved[d].base[p].p) \/ x \in f.content
  <2>1. CASE e = [p |-> L, t |-> f.rev]
    <3>1. e \in Entry /\ e.p = L /\ e.t = f.rev
      BY <2>1, <1>1 DEF Entry
    <3> QED
      BY <3>1, <1>1, <1>2 DEF News
  <2>2. CASE e = base[d][p]
    <3> HIDE DEF f
    <3>1. /\ e.p = Absent <=> e.t = 0
          /\ e.t <= f.rev
          /\ e.t # 0 /\ e.t = f.rev => f.content = e.p /\ e.p \subseteq V \cup dropped
          /\ \A x \in e.p : Safe(x, p)
          /\ e.t # 0 /\ V = Absent => p \in removed
      BY <2>2, <1>1, EntryUnder
    <3>2. e \in Entry /\ e.p \subseteq 1 .. edits
      BY <2>2, PathIs
    <3> QED
      BY <3>1, <3>2, <2>2 DEF News
  <2> QED
    BY <2>1, <2>2
<1>4. /\ V \in Content /\ V \subseteq 1 .. edits
      /\ LET s == saved[d].base[p]
         IN  s.p \cap vault[d][p] \subseteq V \cup dropped
  BY PathIs
<1> HIDE DEF f, V
<1>5. Fits(d, p, V, f, e)
  BY <1>1, <1>2, <1>3, <1>4 DEF Fits, V
<1> QED
  BY <1>5 DEF f, V

\* A path done with a write to the service only.
LEMMA ServerStep ==
    ASSUME CopiesNest, SyncInvariant, NEW d \in Device, NEW p \in Path,
           NEW L \in Content, L # Absent, L \subseteq 1 .. edits, L \subseteq vault[d][p] \cup dropped,
           vault[d][p] = Absent => p \in removed,
           \A x \in server[p].content : x \in L \/ Away(x, p),
           WriteServer(p, L),
           \/ Record(d, p, L, server'[p].rev) /\ UNCHANGED faults
           \/ Fault /\ UNCHANGED base,
           NEW reported \in SUBSET Copy, Done(d, p, reported),
           vault' = vault, conflicts' = conflicts, saved' = saved, users' = users,
           crashes' = crashes
    PROVE  SyncInvariant'
<1> DEFINE f == Written(server[p], L)
           V == vault[d][p]
<1>1. vault' = [vault EXCEPT ![d][p] = V] /\ conflicts' \in [Device -> SUBSET Copy]
  BY PathIs
<1>2. server' = [server EXCEPT ![p] = f] /\ server'[p] = f
  BY DEF WriteServer, SyncInvariant, SyncTypeOK
<1>3. /\ faults' \in 0 .. MaxFault
      /\ \E e : /\ e = [p |-> L, t |-> f.rev] \/ e = base[d][p]
                /\ base' = [base EXCEPT ![d][p] = e]
  <2>1. faults \in 0 .. MaxFault /\ base = [base EXCEPT ![d][p] = base[d][p]]
    BY PathIs
  <2>2. faults' \in 0 .. MaxFault
    BY <2>1, SyncAssumption DEF Fault
  <2> DEFINE sentAs == [p |-> L, t |-> f.rev]
  <2>3. base' = [base EXCEPT ![d][p] = sentAs] \/ base' = base
    BY <1>2 DEF Record
  <2> HIDE DEF f, sentAs
  <2>4. \E e : /\ e = sentAs \/ e = base[d][p]
               /\ base' = [base EXCEPT ![d][p] = e]
    BY <2>1, <2>3
  <2> QED
    BY <2>2, <2>4 DEF sentAs
<1>4. PICK e : /\ e = [p |-> L, t |-> f.rev] \/ e = base[d][p]
               /\ base' = [base EXCEPT ![d][p] = e]
  BY <1>3
<1>5. Fits(d, p, V, f, e)
  BY <1>4, WritesServer
<1> HIDE DEF f, V
<1> QED
  BY <1>1, <1>2, <1>3, <1>4, <1>5, PathDone DEF Becomes

LEMMA PushStep ==
    ASSUME CopiesNest, SyncInvariant, NEW d \in Device, NEW p \in Path, Push(d, p)
    PROVE  SyncInvariant'
<1>1. /\ run[d].listed.theirs[p] = base[d][p].t \/ run[d].listed.theirs[p] = 0
      /\ p \in run[d].todo
  BY DecisionSays DEF Push, Decides
<1>2. CASE vault[d][p] # Absent /\ Precondition(p, run[d].listed.theirs[p])
  <2> DEFINE L == vault[d][p]
  <2>1. L \in Content /\ L # Absent /\ L \subseteq 1 .. edits
    BY <1>2, PathIs
  <2>2. \A x \in server[p].content : x \in L \/ Away(x, p)
    <3>1. CASE server[p].content = Absent
      BY <3>1 DEF Absent
    <3>2. CASE server[p].content # Absent
      <4>1. server[p].rev # 0 /\ server[p].rev = base[d][p].t
        BY <3>2, <1>1, <1>2, PathIs DEF Precondition, Rev
      <4>2. server[p].content \subseteq vault[d][p] \cup dropped
        BY <4>1, PathIs DEF EntryAt
      <4> QED
        BY <4>2 DEF Away
    <3> QED
      BY <3>1, <3>2
  <2>3. /\ WriteServer(p, L)
        /\ \/ Record(d, p, L, server'[p].rev) /\ UNCHANGED faults
           \/ Fault /\ UNCHANGED base
        /\ Done(d, p, {})
        /\ vault' = vault /\ conflicts' = conflicts /\ saved' = saved /\ users' = users
        /\ crashes' = crashes
    BY <1>2 DEF Push, Heard
  <2>4. L \subseteq vault[d][p] \cup dropped /\ (vault[d][p] = Absent => p \in removed)
    BY <1>2
  <2> HIDE DEF L
  <2> QED
    BY <2>1, <2>2, <2>3, <2>4, ServerStep
<1>3. CASE ~ (vault[d][p] # Absent /\ Precondition(p, run[d].listed.theirs[p]))
  BY <1>3, PutOff, PathIs DEF Push
<1> QED
  BY <1>2, <1>3

LEMMA DeleteTargetStep ==
    ASSUME CopiesNest, SyncInvariant, NEW d \in Device, NEW p \in Path, DeleteTarget(d, p)
    PROVE  /\ SyncInvariant'
           /\ \/ server' = server
              \/ /\ p \in removed /\ server[p].content \subseteq dropped
                 /\ \A q \in Path \ {p} : server'[q] = server[q]
<1>1. /\ run[d].listed.ours[p] = Absent /\ base[d][p].p # Absent
      /\ run[d].listed.theirs[p] = base[d][p].t /\ p \in run[d].todo
  BY DecisionSays DEF DeleteTarget, Decides
<1>2. base[d][p].t # 0
  BY <1>1, PathIs DEF EntryAt
<1>3. p \in removed /\ vault[d][p] \cap base[d][p].p = {}
  BY <1>1, <1>2 DEF SyncInvariant, DeviceAt, ListedAt
<1>4. CASE Rev(server[p]) = run[d].listed.theirs[p]
  <2> DEFINE V == vault[d][p]
             f == [content |-> Absent, rev |-> server[p].rev + 1]
  <2>1. server[p].content \subseteq dropped
    <3>1. server[p].rev = base[d][p].t
      BY <1>1, <1>2, <1>4 DEF Rev
    <3> QED
      BY <3>1, <1>2, <1>3, PathIs DEF EntryAt
  <2>2. server' = [server EXCEPT ![p] = f]
    BY <1>4 DEF DeleteTarget
  <2>3. /\ faults' \in 0 .. MaxFault
        /\ \E e : /\ e = NoEntry \/ e = base[d][p]
                  /\ base' = [base EXCEPT ![d][p] = e]
    <3>1. \/ base' = [base EXCEPT ![d][p] = NoEntry] /\ UNCHANGED faults
          \/ Fault /\ UNCHANGED base
      BY <1>4 DEF DeleteTarget, Heard, Forget
    <3>2. faults \in 0 .. MaxFault /\ base = [base EXCEPT ![d][p] = base[d][p]]
      BY PathIs
    <3>3. faults' \in 0 .. MaxFault
      BY <3>1, <3>2, SyncAssumption DEF Fault
    <3> QED
      BY <3>1, <3>2, <3>3
  <2>4. PICK e : /\ e = NoEntry \/ e = base[d][p]
                 /\ base' = [base EXCEPT ![d][p] = e]
    BY <2>3
  <2>5. Fits(d, p, V, f, e)
    <3>1. /\ f \in File /\ f.content = {} /\ f.rev \in Nat /\ f.rev > server[p].rev
          /\ f # server[p] /\ Absent = {} /\ f.rev # 0
      BY PathIs DEF File, Absent, Content
    <3> HIDE DEF f
    <3>2. /\ e.p = Absent <=> e.t = 0
          /\ e.t <= f.rev /\ (e.t # 0 => e.t # f.rev)
          /\ \A x \in e.p : Safe(x, p)
          /\ e \in Entry /\ e.p \subseteq 1 .. edits
          /\ \A x \in News(d, p) : x \in V \ (e.p \cup saved[d].base[p].p)
      <4>1. CASE e = NoEntry
        BY <4>1, <3>1, NothingForgets DEF News
      <4>2. CASE e = base[d][p]
        <5>1. e \in Entry /\ e.p \subseteq 1 .. edits /\ EntryAt(d, p, e) /\ e.t \in Nat
          BY <4>2, PathIs
        <5>2. server[p].rev \in Nat
          BY PathIs
        <5>3. e.t <= f.rev /\ e.t # f.rev
          BY <5>1, <5>2, <3>1 DEF EntryAt
        <5> QED
          BY <4>2, <5>1, <5>3 DEF EntryAt, News
      <4> QED
        BY <2>4, <4>1, <4>2
    <3>3. V \in Content /\ V \subseteq 1 .. edits
      BY PathIs
    <3>4. \A x \in server[p].content : Away(x, p)
      BY <2>1 DEF Away
    <3>5. f.content \subseteq 1 .. edits
      BY <3>1
    <3> QED
      BY <3>1, <3>2, <3>3, <3>4, <3>5, <1>3 DEF Fits
  <2>6. Done(d, p, {}) /\ saved' = saved /\ users' = users /\ crashes' = crashes
        /\ vault' = [vault EXCEPT ![d][p] = V] /\ conflicts' \in [Device -> SUBSET Copy]
    BY PathIs DEF DeleteTarget
  <2>7. \A q \in Path \ {p} : server'[q] = server[q]
    BY <2>2 DEF SyncInvariant, SyncTypeOK
  <2> HIDE DEF f, V
  <2>8. SyncInvariant'
    BY <2>2, <2>3, <2>4, <2>5, <2>6, PathDone DEF Becomes
  <2> QED
    BY <2>1, <2>7, <2>8, <1>3
<1>5. CASE Rev(server[p]) # run[d].listed.theirs[p]
  BY <1>5, PutOff, PathIs DEF DeleteTarget
<1> QED
  BY <1>4, <1>5

LEMMA ReconcileNothingStep ==
    ASSUME CopiesNest, SyncInvariant, NEW d \in Device, NEW p \in Path, ReconcileNothing(d, p)
    PROVE  SyncInvariant'
<1>1. CASE vault[d][p] = server[p].content /\ vault[d][p] # Absent
  <2> DEFINE V == vault[d][p]
             f == server[p]
             e == [p |-> vault[d][p], t |-> server[p].rev]
  <2>1. /\ vault' = [vault EXCEPT ![d][p] = V]
        /\ server' = [server EXCEPT ![p] = f]
        /\ base' = [base EXCEPT ![d][p] = e]
        /\ conflicts' \in [Device -> SUBSET Copy] /\ faults' \in 0 .. MaxFault
    BY <1>1, PathIs DEF ReconcileNothing, Record
  <2>2. Done(d, p, {}) /\ saved' = saved /\ users' = users /\ crashes' = crashes
    BY DEF ReconcileNothing
  <2>3. Fits(d, p, V, f, e)
    <3>1. /\ e \in Entry /\ e.p = V /\ e.t = f.rev /\ f = server[p] /\ f.content = V
          /\ V \in Content /\ f \in File /\ f.rev \in Nat /\ V \subseteq 1 .. edits
          /\ V # Absent /\ f.rev # 0 /\ V = vault[d][p]
      BY <1>1, PathIs DEF Entry
    <3> HIDE DEF e, f, V
    <3> QED
      BY <3>1 DEF Fits, News
  <2> HIDE DEF V, f, e
  <2> QED
    BY <2>1, <2>2, <2>3, PathDone DEF Becomes
<1>2. CASE ~ (vault[d][p] = server[p].content /\ vault[d][p] # Absent)
  BY <1>2, PutOff, PathIs DEF ReconcileNothing
<1> QED
  BY <1>1, <1>2

\* What is known of a path in the middle of its writes.
LEMMA MidwayIs ==
    ASSUME SyncInvariant, NEW d \in Device, run[d].step \in Midway
    PROVE  LET p == run[d].path
               theirs == run[d].theirs
           IN  /\ p \in Path /\ p \in run[d].todo
               /\ run[d].ours \in Content /\ run[d].ours \subseteq 1 .. edits
               /\ theirs.content \in Content /\ theirs.content \subseteq 1 .. edits
               /\ theirs.rev \in Nat
               /\ run[d].ours # Absent /\ theirs.content # Absent /\ theirs.rev # 0
               /\ theirs.rev <= server[p].rev
               /\ theirs.rev = server[p].rev => theirs.content = server[p].content
               /\ base[d][p].t <= theirs.rev /\ saved[d].base[p].t <= theirs.rev
               /\ \A x \in theirs.content : Safe(x, p)
               /\ run[d].ours \subseteq vault[d][p] \cup dropped
               /\ vault[d][p] = Absent => p \in removed
               /\ run[d].step = "merged" => theirs.content \subseteq run[d].ours
  BY RunsPaths DEF SyncInvariant, DeviceAt, HeldAt

\* What the copy has of p is away from p.
LEMMA CopyIs ==
    ASSUME CopiesNest, SyncInvariant, NEW d \in Device, run[d].step \in {"copied", "resolving"}
    PROVE  /\ run[d].copy \in Copy /\ run[d].copy \in CopyNames[run[d].path]
           /\ \A x \in Copied(d) : Held(x, run[d].copy) /\ Away(x, run[d].path)
<1>1. /\ run[d].copy \in CopyNames[run[d].path]
      /\ \A x \in Copied(d) : Held(x, run[d].copy)
  BY DEF SyncInvariant, DeviceAt, CopyAt
<1>2. run[d].path \in Path
  BY RunsPaths
<1> QED
  BY <1>1, <1>2, HeldByCopy, SyncAssumption

LEMMA PushMergedStep ==
    ASSUME CopiesNest, SyncInvariant, NEW d \in Device, PushMerged(d)
    PROVE  SyncInvariant'
<1> DEFINE p == run[d].path
           L == run[d].ours
           theirs == run[d].theirs
<1>1. /\ p \in Path /\ p \in run[d].todo
      /\ L \in Content /\ L \subseteq 1 .. edits
      /\ theirs.content \in Content /\ theirs.content \subseteq 1 .. edits
      /\ theirs.rev \in Nat
      /\ L # Absent /\ theirs.content # Absent /\ theirs.rev # 0
      /\ theirs.rev <= server[p].rev
      /\ theirs.rev = server[p].rev => theirs.content = server[p].content
      /\ \A x \in theirs.content : Safe(x, p)
      /\ L \subseteq vault[d][p] \cup dropped
      /\ vault[d][p] = Absent => p \in removed
      /\ theirs.content \subseteq L
  BY MidwayIs DEF PushMerged, Midway
<1>2. /\ Done(d, p, {})
      /\ vault' = vault /\ conflicts' = conflicts /\ saved' = saved /\ users' = users
      /\ crashes' = crashes
  BY DEF PushMerged
<1>3. \/ /\ L = theirs.content
         /\ Record(d, p, L, theirs.rev)
         /\ UNCHANGED <<server, faults>>
      \/ /\ Precondition(p, theirs.rev)
         /\ WriteServer(p, L)
         /\ \/ Record(d, p, L, server'[p].rev) /\ UNCHANGED faults
            \/ Fault /\ UNCHANGED base
      \/ UNCHANGED <<server, base, faults>>
  BY DEF PushMerged, Heard
<1>4. CASE L = theirs.content /\ Record(d, p, L, theirs.rev) /\ UNCHANGED <<server, faults>>
  <2> DEFINE V == vault[d][p]
             f == server[p]
             e == [p |-> L, t |-> theirs.rev]
  <2> HIDE DEF p, L, theirs
  <2>1. /\ vault' = [vault EXCEPT ![d][p] = V]
        /\ server' = [server EXCEPT ![p] = f]
        /\ base' = [base EXCEPT ![d][p] = e]
        /\ conflicts' \in [Device -> SUBSET Copy] /\ faults' \in 0 .. MaxFault
    BY <1>1, <1>2, <1>4, PathIs DEF Record
  <2>2. Fits(d, p, V, f, e)
    <3>1. e \in Entry /\ e.p = L /\ e.t = theirs.rev
      BY <1>1 DEF Entry
    <3>2. /\ V \in Content /\ V \subseteq 1 .. edits /\ V = vault[d][p]
          /\ f \in File /\ f.content \subseteq 1 .. edits /\ f = server[p]
          /\ f.content = Absent /\ f.rev # 0 => p \in removed
          /\ f.content # Absent => f.rev # 0
      BY <1>1, PathIs
    <3> HIDE DEF V, f, e
    <3>3. \A x \in News(d, p) : x \in V \ (e.p \cup saved[d].base[p].p) \/ Safe(x, p)
      BY <3>1, <3>2, <1>1, <1>4 DEF News
    <3> QED
      BY <3>1, <3>2, <3>3, <1>1, <1>4 DEF Fits
  <2> HIDE DEF V, f, e
  <2> QED
    BY <2>1, <2>2, <1>1, <1>2, PathDone DEF Becomes
<1>5. CASE /\ Precondition(p, theirs.rev)
           /\ WriteServer(p, L)
           /\ \/ Record(d, p, L, server'[p].rev) /\ UNCHANGED faults
              \/ Fault /\ UNCHANGED base
  <2>1. \A x \in server[p].content : x \in L \/ Away(x, p)
    BY <1>1, <1>5 DEF Precondition, Rev
  <2> HIDE DEF p, L, theirs
  <2> QED
    BY <2>1, <1>1, <1>2, <1>5, ServerStep
<1>6. CASE UNCHANGED <<server, base, faults>>
  <2> HIDE DEF p, L, theirs
  <2> QED
    BY <1>1, <1>2, <1>6, PutOff, PathIs
<1> QED
  BY <1>3, <1>4, <1>5, <1>6

LEMMA ResolveOursStep ==
    ASSUME CopiesNest, SyncInvariant, NEW d \in Device, ResolveOurs(d)
    PROVE  SyncInvariant'
<1> DEFINE p == run[d].path
           L == run[d].ours
           theirs == run[d].theirs
<1>1. /\ p \in Path /\ p \in run[d].todo
      /\ L \in Content /\ L \subseteq 1 .. edits /\ L # Absent
      /\ theirs.rev \in Nat /\ theirs.rev # 0
      /\ theirs.rev = server[p].rev => theirs.content = server[p].content
      /\ L \subseteq vault[d][p] \cup dropped
      /\ vault[d][p] = Absent => p \in removed
  BY MidwayIs DEF ResolveOurs, Midway
<1>2. run[d].copy \in Copy /\ \A x \in theirs.content : Away(x, p)
  BY CopyIs DEF ResolveOurs, Copied, CopyOf
<1>3. /\ vault' = vault /\ conflicts' = conflicts /\ saved' = saved /\ users' = users
      /\ crashes' = crashes
  BY DEF ResolveOurs
<1>4. \/ /\ Precondition(p, theirs.rev)
         /\ WriteServer(p, L)
         /\ \/ Record(d, p, L, server'[p].rev) /\ UNCHANGED faults
            \/ Fault /\ UNCHANGED base
         /\ Done(d, p, {run[d].copy}) \/ Done(d, p, {})
      \/ Done(d, p, {}) /\ UNCHANGED <<server, base, faults>>
  BY DEF ResolveOurs
<1>5. {run[d].copy} \in SUBSET Copy /\ {} \in SUBSET Copy
  BY <1>2
<1>6. CASE /\ Precondition(p, theirs.rev)
           /\ WriteServer(p, L)
           /\ \/ Record(d, p, L, server'[p].rev) /\ UNCHANGED faults
              \/ Fault /\ UNCHANGED base
           /\ Done(d, p, {run[d].copy}) \/ Done(d, p, {})
  <2>1. \A x \in server[p].content : x \in L \/ Away(x, p)
    BY <1>1, <1>2, <1>6 DEF Precondition, Rev
  <2> DEFINE reported == {run[d].copy}
  <2>2. Done(d, p, reported) \/ Done(d, p, {})
    BY <1>6
  <2>3. reported \in SUBSET Copy /\ {} \in SUBSET Copy
    BY <1>5
  <2> HIDE DEF p, L, theirs, reported
  <2> QED
    BY <2>1, <2>2, <2>3, <1>1, <1>3, <1>6, ServerStep
<1>7. CASE Done(d, p, {}) /\ UNCHANGED <<server, base, faults>>
  <2> HIDE DEF p, L, theirs
  <2> QED
    BY <1>1, <1>3, <1>7, PutOff, PathIs
<1> QED
  BY <1>4, <1>6, <1>7

LEMMA ResolveTheirsStep ==
    ASSUME CopiesNest, SyncInvariant, NEW d \in Device, ResolveTheirs(d)
    PROVE  SyncInvariant'
<1> DEFINE p == run[d].path
           theirs == run[d].theirs
           V == theirs.content
           f == server[p]
           e == [p |-> theirs.content, t |-> theirs.rev]
           reported == {run[d].copy}
<1>1. /\ p \in Path /\ p \in run[d].todo
      /\ V \in Content /\ V \subseteq 1 .. edits /\ V # Absent
      /\ theirs.rev \in Nat /\ theirs.rev # 0 /\ theirs.rev <= server[p].rev
      /\ theirs.rev = server[p].rev => theirs.content = server[p].content
      /\ saved[d].base[p].t <= theirs.rev
      /\ \A x \in theirs.content : Safe(x, p)
  BY MidwayIs DEF ResolveTheirs, Midway
<1>2. reported \in SUBSET Copy /\ \A x \in run[d].ours : Away(x, p)
  BY CopyIs DEF ResolveTheirs, Copied, CopyOf
<1>3. /\ server' = server /\ conflicts' = conflicts /\ saved' = saved /\ users' = users
      /\ crashes' = crashes /\ faults' = faults
  BY DEF ResolveTheirs
<1>4. CASE vault[d][p] = run[d].ours
  <2>1. /\ vault' = [vault EXCEPT ![d][p] = V]
        /\ base' = [base EXCEPT ![d][p] = e]
        /\ Done(d, p, reported)
    BY <1>4 DEF ResolveTheirs, WriteVault, Record
  <2>2. /\ server' = [server EXCEPT ![p] = f]
        /\ conflicts' \in [Device -> SUBSET Copy] /\ faults' \in 0 .. MaxFault
    BY <1>1, <1>3, PathIs
  <2>3. Fits(d, p, V, f, e)
    <3>1. e \in Entry /\ e.p = V /\ e.t = theirs.rev
      BY <1>1 DEF Entry
    <3>2. /\ f \in File /\ f.content \subseteq 1 .. edits /\ f = server[p] /\ f.rev \in Nat
          /\ f.content = Absent /\ f.rev # 0 => p \in removed
          /\ f.content # Absent => f.rev # 0
      BY <1>1, PathIs
    <3>3. LET s == saved[d].base[p]
          IN  s.t # 0 /\ s.t = f.rev => s.p \cap vault[d][p] \subseteq V \cup dropped
      <4>1. EntryAt(d, p, saved[d].base[p]) /\ saved[d].base[p].t \in Nat
        BY <1>1, PathIs
      <4>2. saved[d].base[p].t = f.rev => theirs.rev = f.rev
        BY <4>1, <3>2, <1>1
      <4> QED
        BY <4>1, <4>2, <1>1 DEF EntryAt
    <3>4. \A x \in News(d, p) : Safe(x, p)
      BY <1>2, <1>4 DEF News, Away, Safe
    <3>5. theirs.content = V
      OBVIOUS
    <3> HIDE DEF V, f, e, p, theirs
    <3> QED
      BY <3>1, <3>2, <3>3, <3>4, <3>5, <1>1 DEF Fits
  <2> HIDE DEF V, f, e, p, theirs, reported
  <2> QED
    BY <2>1, <2>2, <2>3, <1>1, <1>2, <1>3, PathDone DEF Becomes
<1>5. CASE vault[d][p] # run[d].ours
  <2>1. vault' = vault /\ base' = base /\ Done(d, p, {})
    BY <1>5 DEF ResolveTheirs
  <2> HIDE DEF V, f, e, p, theirs, reported
  <2> QED
    BY <2>1, <1>1, <1>3, PutOff, PathIs
<1> QED
  BY <1>4, <1>5

-----------------------------------------------------------------------------
(* Users, crashes, and the beginning and end of a run.                     *)

\* A user's step: it touches one device's file only.
LEMMA UserStep ==
    ASSUME CopiesNest, SyncInvariant, SyncTypeOK', KnownEdits', NEW d \in Device, NEW p \in Path,
           NEW V, vault' = [vault EXCEPT ![d][p] = V],
           dropped \subseteq dropped', removed \subseteq removed',
           vault[d][p] \subseteq V \cup dropped', V \cap (1 .. edits) \subseteq vault[d][p],
           V = Absent => p \in removed',
           1 .. edits' \subseteq (1 .. edits) \cup (V \ (1 .. edits)),
           UNCHANGED <<server, snapshot, run>>
    PROVE  SyncInvariant'
<1>1. SyncTypeOK /\ KnownEdits /\ ServerAt /\ Covered /\ \A x \in Device : DeviceAt(x)
  BY DEF SyncInvariant
<1>2. base' = base /\ saved' = saved /\ run' = run /\ server' = server
  BY DEF snapshot
<1>3. /\ vault'[d][p] = V
      /\ \A x \in Device, q \in Path : x # d \/ q # p => vault'[x][q] = vault[x][q]
  BY <1>1 DEF SyncTypeOK
<1>4. GoesOn
  BY <1>2 DEF GoesOn
<1>5. Grows
  <2>1. \A q \in Path : \A x \in server[q].content : Safe(x, q)'
    BY <1>2 DEF Safe
  <2>2. \A q \in Path, k \in Device : \A x \in News(k, q) : Held(x, q)'
    <3> SUFFICES ASSUME NEW q \in Path, NEW k \in Device, NEW x \in News(k, q)
                 PROVE  Held(x, q)'
      OBVIOUS
    <3>1. CASE k = d /\ q = p
      <4>1. x \in dropped' \/ x \in News(d, p)'
        BY <3>1, <1>2, <1>3 DEF News
      <4> QED
        BY <3>1, <4>1 DEF Held, At, Safe
    <3>2. CASE ~ (k = d /\ q = p)
      <4>1. News(k, q)' = News(k, q)
        BY <3>2, <1>2, <1>3 DEF News
      <4> QED
        BY <4>1 DEF Held, At
    <3> QED
      BY <3>1, <3>2
  <2> QED
    BY <2>1, <2>2, GrowsWhen
<1>6. Covered'
  <2> SUFFICES ASSUME NEW x \in 1 .. edits'
               PROVE  \E q \in Path : Held(x, q)'
    BY DEF Covered
  <2>1. CASE x \in 1 .. edits
    BY <2>1, <1>1, <1>5 DEF Covered, Grows
  <2>2. CASE x \in V \ (1 .. edits)
    <3>1. x \in News(d, p)'
      BY <2>2, <1>1, <1>2, <1>3 DEF News, KnownEdits
    <3> QED
      BY <3>1 DEF Held, At
  <2> QED
    BY <2>1, <2>2
<1>7. ASSUME NEW x \in Device PROVE DeviceAt(x)'
  <2>1. \A q \in Path :
               /\ vault[x][q] \subseteq vault'[x][q] \cup dropped'
               /\ vault'[x][q] \cap (1 .. edits) \subseteq vault[x][q]
               /\ vault'[x][q] = Absent => vault[x][q] = Absent \/ q \in removed'
    <3> SUFFICES ASSUME NEW q \in Path
                 PROVE  /\ vault[x][q] \subseteq vault'[x][q] \cup dropped'
                        /\ vault'[x][q] \cap (1 .. edits) \subseteq vault[x][q]
                        /\ vault'[x][q] = Absent => vault[x][q] = Absent \/ q \in removed'
      OBVIOUS
    <3> QED
      BY <1>3
  <2>2. base'[x] = base[x] /\ saved'[x] = saved[x] /\ run'[x] = run[x]
    BY <1>2
  <2> QED
    BY <2>1, <2>2, <1>1, <1>4, <1>5, DeviceStays
<1>8. ServerAt'
  BY <1>1, <1>2 DEF ServerAt
<1> QED
  BY <1>6, <1>7, <1>8 DEF SyncInvariant

LEMMA EditStep ==
    ASSUME CopiesNest, SyncInvariant, NEW d \in Device, NEW p \in Path, Edit(d, p)
    PROVE  SyncInvariant'
<1> DEFINE V == vault[d][p] \cup {edits + 1}
<1>1. SyncTypeOK /\ KnownEdits
  BY DEF SyncInvariant
<1>2. /\ edits \in Nat /\ edits' = edits + 1 /\ edits' \in 0 .. MaxEdit
      /\ 1 .. edits' = (1 .. edits) \cup {edits + 1} /\ edits + 1 \in 1 .. MaxEdit
      /\ edits + 1 \notin 1 .. edits
  <2>1. edits \in Nat /\ MaxEdit \in Nat /\ edits < MaxEdit /\ edits' = edits + 1
    BY <1>1, SyncAssumption DEF Edit, SyncTypeOK
  <2>2. 1 .. (edits + 1) = (1 .. edits) \cup {edits + 1}
    BY <2>1
  <2> QED
    BY <2>1, <2>2
<1>3. vault' = [vault EXCEPT ![d][p] = V]
  BY DEF Edit
<1>4. V \in Content /\ vault[d][p] \subseteq 1 .. edits
  BY <1>1, <1>2 DEF SyncTypeOK, Content, KnownEdits
<1>5. /\ vault' \in [Device -> [Path -> Content]] /\ vault'[d][p] = V
      /\ \A x \in Device, q \in Path : x # d \/ q # p => vault'[x][q] = vault[x][q]
  <2> HIDE DEF V
  <2> QED
    BY <1>1, <1>3, <1>4 DEF SyncTypeOK
<1>6. /\ server' = server /\ base' = base /\ conflicts' = conflicts /\ saved' = saved
      /\ run' = run /\ dropped' = dropped /\ removed' = removed /\ deletes' = deletes
      /\ faults' = faults /\ crashes' = crashes
  BY DEF Edit, snapshot
<1>7. SyncTypeOK'
  BY <1>1, <1>2, <1>5, <1>6 DEF SyncTypeOK
<1>8. KnownEdits'
  <2>1. \A S : S \subseteq 1 .. edits => S \subseteq 1 .. edits'
    BY <1>2
  <2>2. \A x \in Device, q \in Path : vault'[x][q] \subseteq 1 .. edits'
    <3> SUFFICES ASSUME NEW x \in Device, NEW q \in Path
                 PROVE  vault'[x][q] \subseteq 1 .. edits'
      OBVIOUS
    <3>1. CASE x = d /\ q = p
      BY <3>1, <1>2, <1>4, <1>5
    <3>2. CASE x # d \/ q # p
      BY <3>2, <2>1, <1>1, <1>5 DEF KnownEdits
    <3> QED
      BY <3>1, <3>2
  <2> QED
    BY <2>1, <2>2, <1>1, <1>6 DEF KnownEdits
<1>9. /\ vault[d][p] \subseteq V \cup dropped' /\ V \cap (1 .. edits) \subseteq vault[d][p]
      /\ V # Absent
      /\ 1 .. edits' \subseteq (1 .. edits) \cup (V \ (1 .. edits))
  BY <1>2 DEF Absent
<1>10. UNCHANGED <<server, snapshot, run>>
  BY DEF Edit
<1> HIDE DEF V
<1> QED
  BY <1>3, <1>6, <1>7, <1>8, <1>9, <1>10, UserStep

LEMMA DeleteStep ==
    ASSUME CopiesNest, SyncInvariant, NEW d \in Device, NEW p \in Path, Delete(d, p)
    PROVE  SyncInvariant'
<1>1. SyncTypeOK /\ KnownEdits
  BY DEF SyncInvariant
<1>2. vault' = [vault EXCEPT ![d][p] = Absent]
  BY DEF Delete
<1>3. /\ vault' \in [Device -> [Path -> Content]] /\ vault'[d][p] = Absent
      /\ \A x \in Device, q \in Path : x # d \/ q # p => vault'[x][q] = vault[x][q]
  BY <1>1, <1>2 DEF SyncTypeOK, Absent, Content
<1>4. /\ server' = server /\ base' = base /\ conflicts' = conflicts /\ saved' = saved
      /\ run' = run /\ edits' = edits /\ faults' = faults /\ crashes' = crashes
      /\ dropped' = dropped \cup vault[d][p] /\ removed' = removed \cup {p}
  BY DEF Delete, snapshot
<1>5. deletes' \in 0 .. MaxDelete
  BY <1>1, SyncAssumption DEF Delete, SyncTypeOK
<1>6. vault[d][p] \in Content /\ vault[d][p] \subseteq 1 .. edits
  BY <1>1 DEF SyncTypeOK, KnownEdits
<1>7. dropped' \in Content /\ removed' \in SUBSET Path /\ dropped' \subseteq 1 .. edits
  BY <1>1, <1>4, <1>6 DEF SyncTypeOK, Content, KnownEdits
<1>8. SyncTypeOK'
  BY <1>1, <1>3, <1>4, <1>5, <1>7 DEF SyncTypeOK
<1>9. KnownEdits'
  <2>1. \A x \in Device, q \in Path : vault'[x][q] \subseteq 1 .. edits
    BY <1>1, <1>3 DEF KnownEdits, Absent
  <2> QED
    BY <2>1, <1>1, <1>4, <1>7 DEF KnownEdits
<1>10. /\ vault[d][p] \subseteq Absent \cup dropped' /\ Absent \cap (1 .. edits) \subseteq vault[d][p]
       /\ p \in removed' /\ dropped \subseteq dropped' /\ removed \subseteq removed'
       /\ 1 .. edits' \subseteq (1 .. edits) \cup (Absent \ (1 .. edits))
  BY <1>4 DEF Absent
<1>11. UNCHANGED <<server, snapshot, run>>
  BY DEF Delete
<1> QED
  BY <1>2, <1>8, <1>9, <1>10, <1>11, UserStep

\* A step that leaves the files alone, in which a run begins or ends.
LEMMA RunStep ==
    ASSUME CopiesNest, SyncInvariant, SyncTypeOK', NEW d \in Device,
           vault' = vault, server' = server, users' = users,
           \A x \in Device \ {d} :
               base'[x] = base[x] /\ saved'[x] = saved[x] /\ run'[x] = run[x],
           base'[d] = base[d] \/ base'[d] = saved[d].base,
           saved'[d].base = saved[d].base \/ saved'[d].base = base'[d],
           ListedAt(d)', IdleAt(d)', run'[d].step \notin Midway,
           run'[d].ours = Absent, run'[d].theirs.content = Absent
    PROVE  SyncInvariant'
<1>1. SyncTypeOK /\ KnownEdits /\ ServerAt /\ DeviceAt(d)
  BY DEF SyncInvariant
<1>2. edits' = edits /\ dropped' = dropped /\ removed' = removed
  BY DEF users
<1>3. GoesOn
  BY <1>2 DEF GoesOn
<1>4. Grows
  <2>1. \A q \in Path : \A x \in server[q].content : Safe(x, q)'
    BY DEF Safe
  <2>2. \A q \in Path, k \in Device : News(k, q) \subseteq News(k, q)'
    <3> SUFFICES ASSUME NEW q \in Path, NEW k \in Device
                 PROVE  News(k, q) \subseteq News(k, q)'
      OBVIOUS
    <3>1. CASE k = d
      BY <3>1 DEF News
    <3>2. CASE k # d
      BY <3>2 DEF News
    <3> QED
      BY <3>1, <3>2
  <2>3. \A q \in Path, k \in Device : \A x \in News(k, q) : Held(x, q)'
    BY <2>2 DEF Held, At
  <2> QED
    BY <2>1, <2>3, <1>2, GrowsWhen
<1>5. KnownEdits'
  <2>1. \A k \in Device, q \in Path :
            base'[k][q].p \subseteq 1 .. edits /\ saved'[k].base[q].p \subseteq 1 .. edits
    <3> SUFFICES ASSUME NEW q \in Path, NEW k \in Device
                 PROVE  base'[k][q].p \subseteq 1 .. edits /\ saved'[k].base[q].p \subseteq 1 .. edits
      OBVIOUS
    <3>1. CASE k = d
      BY <3>1, <1>1 DEF KnownEdits
    <3>2. CASE k # d
      BY <3>2, <1>1 DEF KnownEdits
    <3> QED
      BY <3>1, <3>2
  <2>2. \A k \in Device : run'[k].ours \subseteq 1 .. edits /\ run'[k].theirs.content \subseteq 1 .. edits
    <3> SUFFICES ASSUME NEW k \in Device
                 PROVE  run'[k].ours \subseteq 1 .. edits /\ run'[k].theirs.content \subseteq 1 .. edits
      OBVIOUS
    <3>1. CASE k = d
      BY <3>1 DEF Absent
    <3>2. CASE k # d
      BY <3>2, <1>1 DEF KnownEdits
    <3> QED
      BY <3>1, <3>2
  <2> QED
    BY <2>1, <2>2, <1>1, <1>2 DEF KnownEdits
<1>6. ServerAt'
  BY <1>1, <1>2 DEF ServerAt
<1>7. DeviceAt(d)'
  <2>1. EntriesAt(d)'
    <3> SUFFICES ASSUME NEW q \in Path
                 PROVE  EntryAt(d, q, base[d][q])' /\ EntryAt(d, q, saved[d].base[q])'
      BY DEF EntriesAt
    <3>1. ASSUME NEW e \in {base[d][q], saved[d].base[q]}
          PROVE  /\ e.p = Absent <=> e.t = 0
                 /\ e.t <= server'[q].rev
                 /\ e.t # 0 /\ e.t = server'[q].rev =>
                       server'[q].content = e.p /\ e.p \subseteq vault'[d][q] \cup dropped'
                 /\ \A x \in e.p : Safe(x, q)'
                 /\ e.t # 0 /\ vault'[d][q] = Absent => q \in removed'
      <4>1. e \in Entry /\ EntryAt(d, q, e)
        BY <1>1, PathIs
      <4> QED
        BY <4>1, <1>2, <1>4 DEF EntryAt, Grows
    <3>2. /\ base'[d][q] \in {base[d][q], saved[d].base[q]}
          /\ saved'[d].base[q] \in {base[d][q], saved[d].base[q]}
      OBVIOUS
    <3> QED
      BY <3>1, <3>2 DEF EntryAt
  <2>2. HeldAt(d)' /\ CopyAt(d)'
    BY DEF HeldAt, CopyAt, Midway
  <2> QED
    BY <2>1, <2>2 DEF DeviceAt
<1> QED
  BY <1>2, <1>3, <1>4, <1>5, <1>6, <1>7, EngineStep

LEMMA CrashStep ==
    ASSUME CopiesNest, SyncInvariant, NEW d \in Device, Crash(d)
    PROVE  SyncInvariant'
<1>1. SyncTypeOK
  BY DEF SyncInvariant
<1>2. saved[d].base \in [Path -> Entry] /\ saved[d].conflicts \in SUBSET Copy
      /\ \A p \in Path : saved[d].base[p].p = Absent <=> saved[d].base[p].t = 0
  BY <1>1, PathIs DEF SyncTypeOK, EntryAt
<1>3. /\ base' = [base EXCEPT ![d] = saved[d].base]
      /\ conflicts' = [conflicts EXCEPT ![d] = saved[d].conflicts]
      /\ run' = [run EXCEPT ![d] = NoRun]
      /\ vault' = vault /\ server' = server /\ saved' = saved /\ users' = users /\ faults' = faults
  BY DEF Crash
<1>4. /\ base'[d] = saved[d].base /\ run'[d] = NoRun
      /\ \A x \in Device \ {d} :
            base'[x] = base[x] /\ saved'[x] = saved[x] /\ run'[x] = run[x]
      /\ base' \in [Device -> [Path -> Entry]]
      /\ conflicts' \in [Device -> SUBSET Copy]
      /\ run' \in [Device -> Run]
  BY <1>1, <1>2, <1>3, NoRunIs DEF SyncTypeOK
<1>5. SyncTypeOK'
  <2>1. crashes' \in 0 .. MaxCrash
    BY <1>1, SyncAssumption DEF SyncTypeOK, Crash
  <2>2. \A x \in Device, p \in Path : base'[x][p].p = Absent <=> base'[x][p].t = 0
    <3> SUFFICES ASSUME NEW x \in Device, NEW p \in Path
                 PROVE  base'[x][p].p = Absent <=> base'[x][p].t = 0
      OBVIOUS
    <3>1. CASE x = d
      BY <3>1, <1>2, <1>4
    <3>2. CASE x # d
      BY <3>2, <1>1, <1>4 DEF SyncTypeOK
    <3> QED
      BY <3>1, <3>2
  <2> QED
    BY <2>1, <2>2, <1>1, <1>3, <1>4 DEF SyncTypeOK, users
<1>6. ListedAt(d)' /\ IdleAt(d)' /\ run'[d].step \notin Midway
      /\ run'[d].ours = Absent /\ run'[d].theirs.content = Absent
  BY <1>4, NoRunIs DEF ListedAt, IdleAt, Midway
<1> QED
  BY <1>3, <1>4, <1>5, <1>6, RunStep

LEMMA FinishStep ==
    ASSUME CopiesNest, SyncInvariant, NEW d \in Device, Finish(d)
    PROVE  SyncInvariant'
<1>1. SyncTypeOK
  BY DEF SyncInvariant
<1>2. \E C : conflicts' = [conflicts EXCEPT ![d] = @ \cap C]
  BY DEF Finish
<1>3. conflicts' \in [Device -> SUBSET Copy]
  <2>1. PICK C : conflicts' = [conflicts EXCEPT ![d] = @ \cap C]
    BY <1>2
  <2> QED
    BY <2>1, <1>1 DEF SyncTypeOK
<1>4. /\ run' = [run EXCEPT ![d] = NoRun]
      /\ vault' = vault /\ server' = server /\ base' = base /\ users' = users
      /\ crashes' = crashes
  BY DEF Finish
<1>5. /\ run'[d] = NoRun /\ run' \in [Device -> Run]
      /\ \A x \in Device \ {d} : base'[x] = base[x] /\ run'[x] = run[x]
  BY <1>1, <1>4, NoRunIs DEF SyncTypeOK
<1>6. /\ saved' \in [Device -> [base : [Path -> Entry], conflicts : SUBSET Copy]]
      /\ saved'[d].base = saved[d].base \/ saved'[d].base = base[d]
      /\ \A x \in Device \ {d} : saved'[x] = saved[x]
      /\ faults' \in 0 .. MaxFault
  <2>1. CASE /\ saved' = [saved EXCEPT ![d] = [base |-> base[d], conflicts |-> conflicts'[d]]]
             /\ UNCHANGED faults
    <3> DEFINE new == [base |-> base[d], conflicts |-> conflicts'[d]]
    <3>1. new \in [base : [Path -> Entry], conflicts : SUBSET Copy] /\ new.base = base[d]
      BY <1>1, <1>3 DEF SyncTypeOK
    <3>2. saved' = [saved EXCEPT ![d] = new]
      BY <2>1
    <3> HIDE DEF new
    <3> QED
      BY <3>1, <3>2, <2>1, <1>1 DEF SyncTypeOK
  <2>2. CASE Fault /\ UNCHANGED saved
    BY <2>2, <1>1, SyncAssumption DEF SyncTypeOK, Fault
  <2> QED
    BY <2>1, <2>2 DEF Finish
<1>7. SyncTypeOK'
  BY <1>1, <1>3, <1>4, <1>5, <1>6 DEF SyncTypeOK, users
<1>8. ListedAt(d)' /\ IdleAt(d)' /\ run'[d].step \notin Midway
      /\ run'[d].ours = Absent /\ run'[d].theirs.content = Absent
  BY <1>5, NoRunIs DEF ListedAt, IdleAt, Midway
<1>9. base'[d] = base[d]
  BY <1>4
<1> QED
  BY <1>4, <1>5, <1>6, <1>7, <1>8, <1>9, RunStep

\* A run that starts with a listing, or is refused.
LEMMA StartStep ==
    ASSUME CopiesNest, SyncInvariant, NEW d \in Device, run[d].step = "idle",
           NEW listed \in Listing, Start(d, listed),
           ~ RefusesMassDeletion(base[d], listed) =>
               \A p \in Path :
                   /\ listed.ours[p] = Absent /\ listed.theirs[p] = base[d][p].t /\ listed.theirs[p] # 0 =>
                         vault[d][p] \cap base[d][p].p = {} /\ p \in removed
                   /\ listed.theirs[p] = 0 /\ listed.ours[p] = base[d][p].p /\ base[d][p].t # 0 =>
                         /\ p \in removed
                         /\ base[d][p].t < server[p].rev /\ saved[d].base[p].t < server[p].rev,
           vault' = vault, server' = server, base' = base, conflicts' = conflicts, saved' = saved,
           users' = users, faults' \in 0 .. MaxFault, crashes' = crashes
    PROVE  SyncInvariant'
<1>1. SyncTypeOK /\ DeviceAt(d)
  BY DEF SyncInvariant
<1>2. edits' = edits /\ dropped' = dropped /\ removed' = removed /\ deletes' = deletes
  BY DEF users
<1>3. run[d].todo = {} /\ run[d].step \notin Midway
  BY <1>1 DEF DeviceAt, IdleAt, Midway
<1>4. CASE RefusesMassDeletion(base[d], listed)
  <2>1. run' = run
    BY <1>4 DEF Start
  <2>2. SyncTypeOK'
    BY <2>1, <1>1, <1>2 DEF SyncTypeOK
  <2>3. GoesOn
    BY <1>2 DEF GoesOn
  <2>4. Grows
    <3>1. \A q \in Path : \A x \in server[q].content : Safe(x, q)'
      BY DEF Safe
    <3>2. \A q \in Path, k \in Device : News(k, q) = News(k, q)'
      BY DEF News
    <3>3. \A q \in Path, k \in Device : \A x \in News(k, q) : Held(x, q)'
      BY <3>2 DEF Held, At
    <3> QED
      BY <3>1, <3>3, <1>2, GrowsWhen
  <2>5. KnownEdits /\ KnownEdits' /\ ServerAt'
    BY <2>1, <1>2 DEF SyncInvariant, KnownEdits, ServerAt
  <2>6. DeviceAt(d)'
    BY <2>1, <2>2, <2>3, <2>4, <2>5, <1>1, DeviceStays
  <2> QED
    BY <2>1, <2>2, <2>3, <2>4, <2>5, <2>6, <1>2, EngineStep
<1>5. CASE ~ RefusesMassDeletion(base[d], listed)
  <2> DEFINE todo == {p \in Path : Decision(base[d][p], listed.ours[p], listed.theirs[p]) # "skip"}
             new == [NoRun EXCEPT !.step = "paths", !.listed = listed, !.todo = todo]
  <2>1. run' = [run EXCEPT ![d] = new]
    BY <1>5 DEF Start
  <2>2. todo \subseteq Path
    OBVIOUS
  <2> HIDE DEF todo
  <2>3. /\ new \in Run /\ new.step = "paths" /\ new.listed = listed /\ new.todo = todo
        /\ new.ours = Absent /\ new.theirs.content = Absent
    BY <2>2, NoRunIs DEF Run, NoRun
  <2> HIDE DEF new
  <2>4. run' \in [Device -> Run] /\ run'[d] = new /\ \A x \in Device \ {d} : run'[x] = run[x]
    BY <2>1, <2>3, <1>1 DEF SyncTypeOK
  <2>5. SyncTypeOK'
    BY <2>4, <1>1, <1>2 DEF SyncTypeOK
  <2>6. ListedAt(d)'
    <3> SUFFICES ASSUME NEW p \in run'[d].todo
                 PROVE  LET ours == run'[d].listed.ours[p]
                            theirs == run'[d].listed.theirs[p]
                        IN  /\ ours = Absent /\ theirs = base'[d][p].t /\ theirs # 0 =>
                                  vault'[d][p] \cap base'[d][p].p = {} /\ p \in removed'
                            /\ theirs = 0 /\ ours = base'[d][p].p /\ base'[d][p].t # 0 =>
                                  /\ p \in removed'
                                  /\ base'[d][p].t < server'[p].rev
                                  /\ saved'[d].base[p].t < server'[p].rev
      BY DEF ListedAt
    <3>1. p \in Path /\ run'[d].listed = listed
      BY <2>2, <2>3, <2>4
    <3> QED
      BY <3>1, <1>2, <1>5
  <2>7. IdleAt(d)' /\ run'[d].step \notin Midway
        /\ run'[d].ours = Absent /\ run'[d].theirs.content = Absent
    BY <2>3, <2>4 DEF IdleAt, Midway
  <2> QED
    BY <2>4, <2>5, <2>6, <2>7, RunStep
<1> QED
  BY <1>4, <1>5

LEMMA RevIs ==
    ASSUME SyncInvariant, NEW d \in Device, NEW p \in Path
    PROVE  Rev(server[p]) \in Nat /\ (Rev(server[p]) = 0 <=> server[p].content = Absent)
  BY PathIs DEF Rev

LEMMA ListingIs ==
    ASSUME SyncInvariant, NEW d \in Device
    PROVE  /\ [ours |-> vault[d], theirs |-> [p \in Path |-> Rev(server[p])]] \in Listing
           /\ [ours |-> vault[d], theirs |-> NoFiles.theirs] \in Listing
           /\ [ours |-> NoFiles.ours, theirs |-> [p \in Path |-> Rev(server[p])]] \in Listing
<1>1. vault[d] \in [Path -> Content] /\ [p \in Path |-> Rev(server[p])] \in [Path -> Nat]
  BY RevIs DEF SyncInvariant, SyncTypeOK
<1>2. NoFiles.ours \in [Path -> Content] /\ NoFiles.theirs \in [Path -> Nat]
  BY DEF NoFiles, Content, Absent
<1> QED
  BY <1>1, <1>2 DEF Listing

LEMMA BeginRunStep ==
    ASSUME CopiesNest, SyncInvariant, NEW d \in Device, BeginRun(d)
    PROVE  SyncInvariant'
<1> DEFINE listed == [ours |-> vault[d], theirs |-> [p \in Path |-> Rev(server[p])]]
<1>1. listed \in Listing /\ Start(d, listed) /\ run[d].step = "idle"
  BY ListingIs DEF BeginRun
<1>2. ASSUME NEW p \in Path
      PROVE  /\ listed.ours[p] = Absent /\ listed.theirs[p] = base[d][p].t /\ listed.theirs[p] # 0 =>
                   vault[d][p] \cap base[d][p].p = {} /\ p \in removed
             /\ listed.theirs[p] = 0 /\ listed.ours[p] = base[d][p].p /\ base[d][p].t # 0 =>
                   /\ p \in removed
                   /\ base[d][p].t < server[p].rev /\ saved[d].base[p].t < server[p].rev
  <2>1. listed.ours[p] = vault[d][p] /\ listed.theirs[p] = Rev(server[p])
    OBVIOUS
  <2>2. /\ EntryAt(d, p, base[d][p]) /\ EntryAt(d, p, saved[d].base[p])
        /\ base[d][p].t \in Nat /\ saved[d].base[p].t \in Nat /\ server[p].rev \in Nat
        /\ server[p].content = Absent /\ server[p].rev # 0 => p \in removed
    BY PathIs
  <2>3. Rev(server[p]) = 0 <=> server[p].content = Absent
    BY RevIs
  <2> HIDE DEF listed
  <2>4. vault[d][p] = Absent => vault[d][p] \cap base[d][p].p = {}
    BY DEF Absent
  <2> QED
    BY <2>1, <2>2, <2>3, <2>4 DEF EntryAt
<1>3. /\ vault' = vault /\ server' = server /\ base' = base /\ conflicts' = conflicts
      /\ saved' = saved /\ users' = users /\ faults' \in 0 .. MaxFault /\ crashes' = crashes
  BY DEF BeginRun, snapshot, SyncInvariant, SyncTypeOK
<1> HIDE DEF listed
<1> QED
  BY <1>1, <1>2, <1>3, StartStep

LEMMA BeginUnmountedStep ==
    ASSUME CopiesNest, SyncInvariant, NEW d \in Device, BeginUnmounted(d)
    PROVE  SyncInvariant'
<1>1. /\ vault' = vault /\ server' = server /\ base' = base /\ conflicts' = conflicts
      /\ saved' = saved /\ users' = users /\ crashes' = crashes /\ run[d].step = "idle"
  BY DEF BeginUnmounted, snapshot
<1>2. faults' \in 0 .. MaxFault
  <2>1. faults \in 0 .. MaxFault
    BY DEF SyncInvariant, SyncTypeOK
  <2> QED
    BY <2>1, SyncAssumption DEF BeginUnmounted, Fault
<1>3. \A p \in Path : /\ base[d][p] # NoEntry \/ base[d][p].t = 0
                      /\ base[d][p].p = Absent <=> base[d][p].t = 0
  BY PathIs DEF EntryAt, NoEntry
<1>4. CASE Start(d, [ours |-> vault[d], theirs |-> NoFiles.theirs])
  <2> DEFINE listed == [ours |-> vault[d], theirs |-> NoFiles.theirs]
  <2>1. listed \in Listing /\ Start(d, listed)
    BY <1>4, ListingIs
  <2>2. \A p \in Path : listed.theirs[p] = 0
    BY DEF NoFiles
  <2> HIDE DEF listed
  <2>3. ~ RefusesMassDeletion(base[d], listed) =>
            \A p \in Path : listed.ours[p] # base[d][p].p \/ base[d][p].t = 0
    BY <2>2, <1>3 DEF RefusesMassDeletion
  <2> QED
    BY <2>1, <2>2, <2>3, <1>1, <1>2, StartStep
<1>5. CASE Start(d, [ours |-> NoFiles.ours, theirs |-> [p \in Path |-> Rev(server[p])]])
  <2> DEFINE listed == [ours |-> NoFiles.ours, theirs |-> [p \in Path |-> Rev(server[p])]]
  <2>1. listed \in Listing /\ Start(d, listed)
    BY <1>5, ListingIs
  <2>2. \A p \in Path : listed.ours[p] = Absent
    BY DEF NoFiles
  <2> HIDE DEF listed
  <2>3. ~ RefusesMassDeletion(base[d], listed) =>
            \A p \in Path : listed.theirs[p] # base[d][p].t \/ base[d][p].t = 0
    BY <2>2, <1>3 DEF RefusesMassDeletion
  <2> QED
    BY <2>1, <2>2, <2>3, <1>1, <1>2, <1>3, StartStep
<1> QED
  BY <1>4, <1>5 DEF BeginUnmounted

-----------------------------------------------------------------------------
(* The steps of a path that takes several writes.                          *)

\* A step in the middle of a path's writes, of which more are to come.
LEMMA PathGoesOn ==
    ASSUME CopiesNest, SyncInvariant, NEW d \in Device, NEW p \in Path, NEW V, NEW f, NEW e,
           Moved(d, p, V, f, e),
           run'[d].todo = run[d].todo, run'[d].listed = run[d].listed,
           \A x \in Device \ {d} : run'[x] = run[x],
           /\ run[d].listed.ours[p] # Absent \/ run[d].listed.theirs[p] = 0
           /\ run[d].listed.theirs[p] # 0 \/ run[d].listed.ours[p] = Absent,
           run'[d].step \in Midway, HeldAt(d)', CopyAt(d)'
    PROVE  SyncInvariant'
<1>1. SyncTypeOK /\ DeviceAt(d)
  BY DEF SyncInvariant
<1>2. IdleAt(d)'
  BY DEF IdleAt, Midway
<1>3. e.p = Absent <=> e.t = 0
  BY DEF Moved, SyncTypeOK
<1>4. base'[d][p] = e
  BY DEF Moved
<1>5. DeviceAt(d)'
  BY <1>1, <1>2, <1>3, <1>4, DeviceMoves DEF Moved
<1> QED
  BY <1>5, EngineStep DEF Moved

\* The vault gets more in path q.
LEMMA VaultGrows ==
    ASSUME CopiesNest, SyncInvariant, NEW d \in Device, NEW q \in Path,
           NEW W, W \subseteq 1 .. edits, W \in Content, vault[d][q] \subseteq W, W # Absent,
           vault' = [vault EXCEPT ![d][q] = W],
           server' = server, base' = base, saved' = saved, users' = users,
           conflicts' \in [Device -> SUBSET Copy], faults' = faults, crashes' = crashes,
           run' \in [Device -> Run],
           run'[d].ours \subseteq 1 .. edits, run'[d].theirs.content \subseteq 1 .. edits,
           \A x \in Device \ {d} : run'[x] = run[x]
    PROVE  Moved(d, q, W, server[q], base[d][q])
<1> DEFINE f == server[q]
           e == base[d][q]
<1>1. Fits(d, q, W, f, e)
  <2>1. /\ f \in File /\ e \in Entry
        /\ f.content \subseteq 1 .. edits /\ e.p \subseteq 1 .. edits
        /\ f.content = Absent /\ f.rev # 0 => q \in removed
        /\ f.content # Absent => f.rev # 0
    BY PathIs
  <2>2. /\ e.p = Absent <=> e.t = 0
        /\ e.t <= f.rev
        /\ e.t # 0 /\ e.t = f.rev => f.content = e.p /\ e.p \subseteq W \cup dropped
        /\ \A x \in e.p : x \in f.content \/ Safe(x, q)
    BY PathIs DEF EntryAt
  <2>3. /\ f = server[q]
        /\ \A x \in News(d, q) : x \in W \ (e.p \cup saved[d].base[q].p)
    BY DEF News
  <2> HIDE DEF f, e
  <2> QED
    BY <2>1, <2>2, <2>3 DEF Fits
<1>2. Becomes(d, q, W, f, e)
  BY PathIs DEF Becomes
<1> HIDE DEF f, e
<1>3. Moved(d, q, W, f, e)
  BY <1>1, <1>2, PathMoves
<1> QED
  BY <1>3 DEF f, e

\* What both sides have of a path that changed on both.
LEMMA BothAre ==
    ASSUME SyncInvariant, NEW d \in Device, NEW p \in Path, BothChanged(d, p)
    PROVE  /\ p \in run[d].todo /\ run[d].listed.ours[p] # Absent /\ run[d].listed.theirs[p] # 0
           /\ vault[d][p] \in Content /\ vault[d][p] \subseteq 1 .. edits /\ vault[d][p] # Absent
           /\ server[p] \in File /\ server[p].content \in Content /\ server[p].rev \in Nat
           /\ server[p].content \subseteq 1 .. edits /\ server[p].content # Absent
           /\ server[p].rev # 0
           /\ base[d][p].t <= server[p].rev /\ saved[d].base[p].t <= server[p].rev
           /\ \A x \in server[p].content : Safe(x, p)
<1>1. p \in run[d].todo /\ run[d].listed.ours[p] # Absent /\ run[d].listed.theirs[p] # 0
  BY DecisionSays DEF BothChanged, Decides
<1>2. vault[d][p] # Absent /\ server[p].content # Absent
  BY DEF BothChanged
<1>3. \A x \in server[p].content : Safe(x, p)
  BY DEF Safe
<1> QED
  BY <1>1, <1>2, <1>3, PathIs DEF EntryAt

LEMMA MergeStep ==
    ASSUME CopiesNest, SyncInvariant, NEW d \in Device, NEW p \in Path, Merge(d, p)
    PROVE  SyncInvariant'
<1> DEFINE W == vault[d][p] \cup server[p].content
           new == [run[d] EXCEPT !.step = "merged", !.path = p, !.ours = W, !.theirs = server[p]]
<1>1. SyncTypeOK /\ run[d] \in Run
  BY DEF SyncInvariant, SyncTypeOK
<1>2. /\ W \in Content /\ W \subseteq 1 .. edits /\ W # Absent /\ vault[d][p] \subseteq W
      /\ server[p].content \subseteq W
  BY BothAre DEF Merge, Content, Absent
<1>3. /\ vault' = [vault EXCEPT ![d][p] = W]
      /\ server' = server /\ base' = base /\ saved' = saved /\ users' = users
      /\ conflicts' \in [Device -> SUBSET Copy] /\ faults' = faults /\ crashes' = crashes
  BY <1>1 DEF Merge, WriteVault, snapshot, SyncTypeOK
<1>4. run' = [run EXCEPT ![d] = new]
  <2>1. vault'[d][p] = W
    BY <1>1, <1>3 DEF SyncTypeOK
  <2>2. [Hold(d, p, "merged") EXCEPT !.ours = W] = new
    BY <1>1 DEF Hold, Run
  <2> QED
    BY <2>1, <2>2 DEF Merge
<1>5. /\ new \in Run /\ new.step = "merged" /\ new.path = p /\ new.ours = W
      /\ new.theirs = server[p] /\ new.todo = run[d].todo /\ new.listed = run[d].listed
  <2>1. server[p] \in File
    BY PathIs
  <2> HIDE DEF W
  <2> QED
    BY <2>1, <1>1, <1>2 DEF Run
<1> HIDE DEF W, new
<1>6. /\ run'[d] = new /\ run' \in [Device -> Run]
      /\ \A x \in Device \ {d} : run'[x] = run[x]
  BY <1>1, <1>4, <1>5 DEF SyncTypeOK
<1>7. Moved(d, p, W, server[p], base[d][p])
  <2>1. server[p].content \subseteq 1 .. edits
    BY PathIs
  <2> QED
    BY <2>1, <1>2, <1>3, <1>5, <1>6, VaultGrows
<1>8. BothChanged(d, p)
  BY DEF Merge
<1>9. HeldAt(d)' /\ CopyAt(d)'
  <2>1. CopyAt(d)'
    BY <1>5, <1>6 DEF CopyAt
  <2>2. \A x \in server[p].content : Safe(x, p)'
    BY <1>7, <1>8, BothAre DEF Moved, Grows
  <2>3. vault'[d][p] = W
    BY <1>7 DEF Moved
  <2>4. HeldAt(d)'
    BY <1>2, <1>3, <1>5, <1>6, <1>8, <2>2, <2>3, BothAre DEF HeldAt
  <2> QED
    BY <2>1, <2>4
<1>10. run[d].listed.ours[p] # Absent /\ run[d].listed.theirs[p] # 0
  BY <1>8, BothAre
<1>11. run'[d].step \in Midway /\ run'[d].todo = run[d].todo /\ run'[d].listed = run[d].listed
  BY <1>5, <1>6 DEF Midway
<1> QED
  BY <1>6, <1>7, <1>9, <1>10, <1>11, PathGoesOn

LEMMA CopyInVaultStep ==
    ASSUME CopiesNest, SyncInvariant, NEW d \in Device, NEW p \in Path, CopyInVault(d, p)
    PROVE  SyncInvariant'
<1>1. SyncTypeOK /\ run[d] \in Run
  BY DEF SyncInvariant, SyncTypeOK
<1>2. BothChanged(d, p)
  BY DEF CopyInVault
<1>3. PICK c \in CopyNames[p], keep \in Keeps :
          /\ Free(d, c)
          /\ WriteVault(d, c, CopyOf(keep, vault[d][p], server[p].content))
          /\ conflicts' = [conflicts EXCEPT ![d] = @ \cup {c}]
          /\ run' = [run EXCEPT ![d] = [Hold(d, p, "copied") EXCEPT
                         !.taken = @ \cup {c}, !.keep = keep, !.copy = c]]
  BY DEF CopyInVault
<1>4. c \in Copy /\ c \in Path /\ keep \in {"ours", "theirs"} /\ c # p
  <2>1. c \in Copy /\ c \in Path
    BY SyncAssumption DEF Path
  <2>2. c # p
    BY DeeperIs
  <2> QED
    BY <2>1, <2>2 DEF Keeps
<1> DEFINE W == CopyOf(keep, vault[d][p], server[p].content)
           new == [run[d] EXCEPT !.step = "copied", !.path = p, !.ours = vault[d][p],
                                 !.theirs = server[p], !.taken = @ \cup {c}, !.keep = keep,
                                 !.copy = c]
<1>5. W \in Content /\ W \subseteq 1 .. edits /\ W # Absent
  BY <1>2, BothAre DEF CopyOf
<1>6. /\ vault[d][c] = Absent /\ run[d].listed.ours[c] = Absent /\ run[d].listed.theirs[c] = 0
      /\ vault[d][c] \subseteq W
  BY <1>3 DEF Free, Absent
<1>7. /\ vault' = [vault EXCEPT ![d][c] = W]
      /\ server' = server /\ base' = base /\ saved' = saved /\ users' = users
      /\ faults' = faults /\ crashes' = crashes
  BY <1>3 DEF CopyInVault, WriteVault
<1>8. conflicts' \in [Device -> SUBSET Copy]
  BY <1>1, <1>3, <1>4 DEF SyncTypeOK
<1>9. run' = [run EXCEPT ![d] = new]
  <2>1. [Hold(d, p, "copied") EXCEPT !.taken = @ \cup {c}, !.keep = keep, !.copy = c] = new
    BY <1>1 DEF Hold, Run
  <2> QED
    BY <2>1, <1>3
<1>10. /\ new \in Run /\ new.step = "copied" /\ new.path = p /\ new.ours = vault[d][p]
       /\ new.theirs = server[p] /\ new.keep = keep /\ new.copy = c
       /\ new.todo = run[d].todo /\ new.listed = run[d].listed
  <2>1. server[p] \in File /\ vault[d][p] \in Content
    BY PathIs
  <2> QED
    BY <2>1, <1>1, <1>4 DEF Run
<1> HIDE DEF W, new
<1>11. /\ run'[d] = new /\ run' \in [Device -> Run]
       /\ \A x \in Device \ {d} : run'[x] = run[x]
  BY <1>1, <1>9, <1>10 DEF SyncTypeOK
<1>12. Moved(d, c, W, server[c], base[d][c])
  <2>1. vault[d][p] \subseteq 1 .. edits /\ server[p].content \subseteq 1 .. edits
    BY PathIs
  <2> QED
    BY <2>1, <1>4, <1>5, <1>6, <1>7, <1>8, <1>10, <1>11, VaultGrows
<1>13. HeldAt(d)'
  <2>1. \A x \in server[p].content : Safe(x, p)'
    BY <1>2, <1>12, BothAre DEF Moved, Grows
  <2>2. vault'[d][p] = vault[d][p]
    BY <1>4, <1>12 DEF Moved
  <2> QED
    BY <1>2, <1>7, <1>10, <1>11, <2>1, <2>2, BothAre DEF HeldAt
<1>14. CopyAt(d)'
  <2>1. Copied(d)' = W
    BY <1>10, <1>11 DEF Copied, CopyOf, W
  <2>2. vault'[d][c] = W
    BY <1>12 DEF Moved
  <2>3. \A x \in W : Held(x, c)'
    <3>1. /\ EntryAt(d, c, base[d][c])' /\ EntryAt(d, c, saved[d].base[c])'
      BY <1>12 DEF Moved
    <3>2. \A x \in W : x \in News(d, c)' \/ Safe(x, c)'
      BY <2>2, <3>1 DEF News, EntryAt
    <3> QED
      BY <3>2 DEF Held, At
  <2> QED
    BY <2>1, <2>2, <2>3, <1>5, <1>6, <1>10, <1>11 DEF CopyAt
<1>15. run'[d].step \in Midway /\ run'[d].todo = run[d].todo /\ run'[d].listed = run[d].listed
  BY <1>10, <1>11 DEF Midway
<1> QED
  BY <1>4, <1>6, <1>11, <1>12, <1>13, <1>14, <1>15, PathGoesOn

\* The write of a copy to the service, done or given up: the path itself is next.
LEMMA CopyStep ==
    ASSUME CopiesNest, SyncInvariant, NEW d \in Device, run[d].step = "copied",
           NEW c \in Path, c = run[d].copy, NEW V, NEW f, NEW e, V = vault[d][c],
           Fits(d, c, V, f, e), Becomes(d, c, V, f, e),
           run' = [run EXCEPT ![d].step = "resolving"]
    PROVE  SyncInvariant'
<1>. PICK p \in Path : p = run[d].path
  BY RunsPaths
<1>1. SyncTypeOK /\ run[d] \in Run /\ DeviceAt(d)
  BY DEF SyncInvariant, SyncTypeOK
<1>2. /\ c # p /\ run[d].listed.ours[c] = Absent /\ run[d].listed.theirs[c] = 0
  <2>1. c \in CopyNames[p]
    BY CopyIs
  <2> QED
    BY <2>1, <1>1, DeeperIs DEF DeviceAt, CopyAt
<1> DEFINE new == [run[d] EXCEPT !.step = "resolving"]
<1>3. /\ new \in Run /\ new.step = "resolving" /\ new.path = p /\ new.ours = run[d].ours
      /\ new.theirs = run[d].theirs /\ new.keep = run[d].keep /\ new.copy = c
      /\ new.todo = run[d].todo /\ new.listed = run[d].listed
  BY <1>1 DEF Run
<1>4. run' = [run EXCEPT ![d] = new]
  OBVIOUS
<1> HIDE DEF new
<1>5. /\ run'[d] = new /\ run' \in [Device -> Run]
      /\ \A x \in Device \ {d} : run'[x] = run[x]
  BY <1>1, <1>3, <1>4 DEF SyncTypeOK
<1>6. Moved(d, c, V, f, e)
  <2>1. run[d].ours \subseteq 1 .. edits /\ run[d].theirs.content \subseteq 1 .. edits
    BY RunsPaths
  <2> QED
    BY <2>1, <1>3, <1>5, PathMoves
<1>7. HeldAt(d)'
  <2>1. /\ vault'[d][p] = vault[d][p] /\ base'[d][p] = base[d][p] /\ server'[p] = server[p]
        /\ saved' = saved /\ dropped' = dropped /\ removed' = removed
    BY <1>2, <1>6 DEF Moved
  <2>2. /\ p \in run[d].todo
        /\ run[d].listed.ours[p] # Absent /\ run[d].listed.theirs[p] # 0
        /\ \A x \in run[d].theirs.content : Safe(x, p)
    BY <1>1 DEF DeviceAt, HeldAt, Midway
  <2>3. \A x \in run[d].theirs.content : Safe(x, p)'
    <3>1. Grows
      BY <1>6 DEF Moved
    <3> QED
      BY <2>2, <1>2, <3>1 DEF Grows
  <2>4. LET theirs == run[d].theirs
        IN  /\ run[d].ours # Absent /\ theirs.content # Absent /\ theirs.rev # 0
            /\ theirs.rev <= server[p].rev
            /\ theirs.rev = server[p].rev => theirs.content = server[p].content
            /\ base[d][p].t <= theirs.rev /\ saved[d].base[p].t <= theirs.rev
            /\ run[d].ours \subseteq vault[d][p] \cup dropped
            /\ vault[d][p] = Absent => p \in removed
    BY MidwayIs DEF Midway
  <2>5. /\ run'[d].step = "resolving" /\ run'[d].path = p /\ run'[d].ours = run[d].ours
        /\ run'[d].theirs = run[d].theirs /\ run'[d].todo = run[d].todo
        /\ run'[d].listed = run[d].listed
    BY <1>3, <1>5
  <2> QED
    BY <2>1, <2>2, <2>3, <2>4, <2>5 DEF HeldAt
<1>8. CopyAt(d)'
  <2>1. Copied(d)' = Copied(d)
    BY <1>3, <1>5 DEF Copied, CopyOf
  <2>2. c \in CopyNames[p] /\ \A x \in Copied(d) : Held(x, c)
    BY <1>1 DEF DeviceAt, CopyAt
  <2>3. \A x \in Copied(d) : Held(x, c)'
    BY <2>2, <1>6 DEF Moved, Grows
  <2> QED
    BY <2>1, <2>2, <2>3, <1>3, <1>5 DEF CopyAt
<1>9. run'[d].step \in Midway /\ run'[d].todo = run[d].todo /\ run'[d].listed = run[d].listed
  BY <1>3, <1>5 DEF Midway
<1> QED
  BY <1>2, <1>5, <1>6, <1>7, <1>8, <1>9, PathGoesOn

\* Nothing is written.
LEMMA CopyMissing ==
    ASSUME CopiesNest, SyncInvariant, NEW d \in Device, run[d].step = "copied",
           run' = [run EXCEPT ![d].step = "resolving"],
           vault' = vault, server' = server, base' = base, conflicts' = conflicts,
           saved' = saved, users' = users, faults' \in 0 .. MaxFault, crashes' = crashes
    PROVE  SyncInvariant'
<1> DEFINE c == run[d].copy
           V == vault[d][c]
           f == server[c]
           e == base[d][c]
<1>1. c \in Path
  BY RunsPaths
<1>2. Fits(d, c, V, f, e)
  BY <1>1, FitsAsIs
<1>3. Becomes(d, c, V, f, e)
  BY <1>1, PathIs DEF Becomes
<1>4. c = run[d].copy /\ V = vault[d][c]
  OBVIOUS
<1> HIDE DEF c, V, f, e
<1> QED
  BY <1>1, <1>2, <1>3, <1>4, CopyStep

LEMMA CopyOnServerFailsStep ==
    ASSUME CopiesNest, SyncInvariant, NEW d \in Device, CopyOnServerFails(d)
    PROVE  SyncInvariant'
<1>1. faults' \in 0 .. MaxFault
  BY SyncAssumption DEF SyncInvariant, SyncTypeOK, CopyOnServerFails, Fault
<1> QED
  BY <1>1, CopyMissing DEF CopyOnServerFails, snapshot

LEMMA CopyOnServerStep ==
    ASSUME CopiesNest, SyncInvariant, NEW d \in Device, CopyOnServer(d)
    PROVE  SyncInvariant'
<1> DEFINE c == run[d].copy
           L == Copied(d)
           V == vault[d][c]
           f == Written(server[c], L)
<1>1. /\ run[d].step = "copied" /\ run' = [run EXCEPT ![d].step = "resolving"]
      /\ vault' = vault /\ conflicts' = conflicts /\ saved' = saved /\ users' = users
      /\ crashes' = crashes
  BY DEF CopyOnServer
<1>2. faults \in 0 .. MaxFault
  BY DEF SyncInvariant, SyncTypeOK
<1>3. CASE Precondition(c, 0)
  <2>1. c \in Path
    BY RunsPaths
  <2>2. /\ WriteServer(c, L)
        /\ \/ Record(d, c, L, server'[c].rev) /\ UNCHANGED faults
           \/ Fault /\ UNCHANGED base
    BY <1>3 DEF CopyOnServer, Heard, Copied
  <2>3. server' = [server EXCEPT ![c] = f] /\ server'[c] = f
    BY <2>1, <2>2 DEF WriteServer, SyncInvariant, SyncTypeOK
  <2>4. faults' \in 0 .. MaxFault
    BY <2>2, <1>2, SyncAssumption DEF Fault
  <2>5. \E e : /\ e = [p |-> L, t |-> f.rev] \/ e = base[d][c]
               /\ base' = [base EXCEPT ![d][c] = e]
    <3> DEFINE sentAs == [p |-> L, t |-> f.rev]
    <3>1. base = [base EXCEPT ![d][c] = base[d][c]]
      BY <2>1, PathIs
    <3>2. base' = [base EXCEPT ![d][c] = sentAs] \/ base' = base
      BY <2>2, <2>3 DEF Record
    <3> HIDE DEF c, L, f, sentAs
    <3>3. \E e : /\ e = sentAs \/ e = base[d][c]
                 /\ base' = [base EXCEPT ![d][c] = e]
      BY <3>1, <3>2
    <3> QED
      BY <3>3 DEF sentAs
  <2>6. PICK e : /\ e = [p |-> L, t |-> f.rev] \/ e = base[d][c]
                 /\ base' = [base EXCEPT ![d][c] = e]
    BY <2>5
  <2>7. /\ L \in Content /\ L # Absent /\ L \subseteq 1 .. edits
        /\ L \subseteq vault[d][c] \cup dropped /\ (vault[d][c] = Absent => c \in removed)
    <3>1. L \in Content /\ L # Absent /\ L \subseteq 1 .. edits
      BY <1>1, MidwayIs DEF Copied, CopyOf, Midway
    <3> QED
      BY <3>1, <1>1 DEF SyncInvariant, DeviceAt, CopyAt
  <2>8. \A x \in server[c].content : x \in L \/ Away(x, c)
    <3>1. server[c].content = Absent
      BY <1>3, <2>1, RevIs DEF Precondition
    <3> QED
      BY <3>1 DEF Absent
  <2>9. Fits(d, c, V, f, e)
    <3> HIDE DEF c, L
    <3> QED
      BY <2>1, <2>6, <2>7, <2>8, WritesServer
  <2>10. Becomes(d, c, V, f, e)
    BY <2>1, <2>3, <2>4, <2>6, <1>1, PathIs DEF Becomes
  <2>11. c = run[d].copy /\ V = vault[d][c]
    OBVIOUS
  <2> HIDE DEF c, V, f, L
  <2> QED
    BY <2>1, <2>9, <2>10, <2>11, <1>1, CopyStep
<1>4. CASE ~ Precondition(c, 0)
  <2>1. UNCHANGED <<server, base, faults>>
    BY <1>4 DEF CopyOnServer
  <2> QED
    BY <2>1, <1>1, <1>2, CopyMissing
<1> QED
  BY <1>3, <1>4

-----------------------------------------------------------------------------
(* What may be deleted.                                                    *)

LEMMA NothingDeleted ==
    ASSUME server' = server, vault' = vault
    PROVE  DeletedByUsers
  BY DEF DeletedByUsers

LEMMA VaultWritten ==
    ASSUME SyncTypeOK, NEW d \in Device, NEW p \in Path, NEW W, W # Absent \/ p \in removed',
           vault' = [vault EXCEPT ![d][p] = W], server' = server
    PROVE  DeletedByUsers
<1>1. /\ vault'[d][p] = W
      /\ \A x \in Device, q \in Path : x # d \/ q # p => vault'[x][q] = vault[x][q]
  BY DEF SyncTypeOK
<1>2. \A x \in Device, q \in Path :
          vault[x][q] # Absent /\ vault'[x][q] = Absent => q \in removed'
  BY <1>1
<1> QED
  BY <1>2 DEF DeletedByUsers

LEMMA ServerWritten ==
    ASSUME SyncInvariant, NEW d \in Device, NEW p \in Path, NEW L, L # Absent,
           WriteServer(p, L), vault' = vault
    PROVE  DeletedByUsers
<1>1. /\ server'[p].content = L
      /\ \A q \in Path \ {p} : server'[q] = server[q]
  BY DEF WriteServer, Written, SyncInvariant, SyncTypeOK
<1>2. \A q \in Path : server[q].content # Absent => server'[q].content # Absent
  BY <1>1
<1> QED
  BY <1>2 DEF DeletedByUsers

LEMMA PathDeletes ==
    ASSUME CopiesNest, SyncInvariant, NEW d \in Device, NEW p \in Path, SyncPath(d, p)
    PROVE  DeletedByUsers
<1>1. SyncTypeOK
  BY DEF SyncInvariant
<1>2. CASE ForgetPath(d, p) \/ ReconcileNothing(d, p) \/ NoFreeName(d, p)
  BY <1>2, NothingDeleted DEF ForgetPath, ReconcileNothing, NoFreeName
<1>3. CASE Pull(d, p)
  <2>1. CASE server[p].content # Absent /\ vault[d][p] = run[d].listed.ours[p]
    BY <2>1, <1>1, <1>3, VaultWritten DEF Pull, WriteVault
  <2>2. CASE ~ (server[p].content # Absent /\ vault[d][p] = run[d].listed.ours[p])
    BY <2>2, <1>3, NothingDeleted DEF Pull
  <2> QED
    BY <2>1, <2>2
<1>4. CASE Push(d, p)
  <2>1. CASE vault[d][p] # Absent /\ Precondition(p, run[d].listed.theirs[p])
    BY <2>1, <1>4, ServerWritten DEF Push
  <2>2. CASE ~ (vault[d][p] # Absent /\ Precondition(p, run[d].listed.theirs[p]))
    BY <2>2, <1>4, NothingDeleted DEF Push
  <2> QED
    BY <2>1, <2>2
<1>5. CASE DeletePrimary(d, p)
  <2>1. p \in removed /\ removed' = removed
    BY <1>5, DeletePrimaryStep DEF DeletePrimary, users
  <2>2. CASE vault[d][p] = run[d].listed.ours[p]
    BY <2>1, <2>2, <1>1, <1>5, VaultWritten DEF DeletePrimary, WriteVault
  <2>3. CASE vault[d][p] # run[d].listed.ours[p]
    BY <2>3, <1>5, NothingDeleted DEF DeletePrimary
  <2> QED
    BY <2>2, <2>3
<1>6. CASE DeleteTarget(d, p)
  <2>1. vault' = vault /\ dropped' = dropped /\ removed' = removed
    BY <1>6 DEF DeleteTarget, users
  <2>2. CASE server' = server
    BY <2>1, <2>2, NothingDeleted
  <2>3. CASE /\ p \in removed /\ server[p].content \subseteq dropped
             /\ \A q \in Path \ {p} : server'[q] = server[q]
    BY <2>1, <2>3 DEF DeletedByUsers
  <2> QED
    BY <2>2, <2>3, <1>6, DeleteTargetStep
<1>7. CASE Merge(d, p)
  <2>1. vault[d][p] \cup server[p].content # Absent
    BY <1>7, BothAre DEF Merge, Absent
  <2> QED
    BY <2>1, <1>1, <1>7, VaultWritten DEF Merge, WriteVault
<1>8. CASE CopyInVault(d, p)
  <2>1. PICK c \in CopyNames[p], keep \in Keeps :
            WriteVault(d, c, CopyOf(keep, vault[d][p], server[p].content))
    BY <1>8 DEF CopyInVault
  <2>2. c \in Path /\ CopyOf(keep, vault[d][p], server[p].content) # Absent
    BY <1>8, SyncAssumption DEF Path, CopyOf, CopyInVault, BothChanged
  <2>3. server' = server
    BY <1>8 DEF CopyInVault
  <2> QED
    BY <2>1, <2>2, <2>3, <1>1, VaultWritten DEF WriteVault
<1> QED
  BY <1>2, <1>3, <1>4, <1>5, <1>6, <1>7, <1>8 DEF SyncPath

LEMMA EngineDeletes ==
    ASSUME CopiesNest, SyncInvariant, NEW d \in Device, Engine(d)
    PROVE  DeletedByUsers
<1>1. SyncTypeOK /\ run[d].path \in Path /\ run[d].copy \in Path
  BY RunsPaths DEF SyncInvariant
<1>2. CASE BeginRun(d) \/ Finish(d)
  BY <1>2, NothingDeleted DEF BeginRun, Finish
<1>3. run[d].step \in Midway => run[d].ours # Absent /\ run[d].theirs.content # Absent
  BY MidwayIs
<1>4. CASE PushMerged(d)
  <2>1. vault' = vault /\ run[d].ours # Absent
    BY <1>3, <1>4 DEF PushMerged, Midway
  <2>2. server' = server \/ WriteServer(run[d].path, run[d].ours)
    BY <1>4 DEF PushMerged
  <2> QED
    BY <2>1, <2>2, <1>1, NothingDeleted, ServerWritten
<1>5. CASE CopyOnServer(d)
  <2>1. vault' = vault /\ Copied(d) # Absent
    BY <1>3, <1>5 DEF CopyOnServer, Midway, Copied, CopyOf
  <2>2. server' = server \/ WriteServer(run[d].copy, Copied(d))
    BY <1>5 DEF CopyOnServer, Copied
  <2> QED
    BY <2>1, <2>2, <1>1, NothingDeleted, ServerWritten
<1>6. CASE ResolveOurs(d)
  <2>1. vault' = vault /\ run[d].ours # Absent
    BY <1>3, <1>6 DEF ResolveOurs, Midway
  <2>2. server' = server \/ WriteServer(run[d].path, run[d].ours)
    BY <1>6 DEF ResolveOurs
  <2> QED
    BY <2>1, <2>2, <1>1, NothingDeleted, ServerWritten
<1>7. CASE ResolveTheirs(d)
  <2> DEFINE p == run[d].path
             W == run[d].theirs.content
  <2>1. server' = server /\ W # Absent /\ p \in Path
    BY <1>1, <1>3, <1>7 DEF ResolveTheirs, Midway
  <2>2. vault' = vault \/ vault' = [vault EXCEPT ![d][p] = W]
    BY <1>7 DEF ResolveTheirs, WriteVault
  <2> HIDE DEF p, W
  <2> QED
    BY <2>1, <2>2, <1>1, NothingDeleted, VaultWritten
<1> QED
  BY <1>2, <1>4, <1>5, <1>6, <1>7, PathDeletes DEF Engine

LEMMA StepDeletes ==
    ASSUME CopiesNest, SyncInvariant, SyncNext
    PROVE  DeletedByUsers
<1>1. PICK d \in Device :
          \/ Engine(d)
          \/ BeginUnmounted(d) \/ CopyOnServerFails(d) \/ LastWriteFails(d) \/ Crash(d)
          \/ \E p \in Path : Edit(d, p) \/ Delete(d, p) \/ PathFails(d, p)
  BY DEF SyncNext
<1>2. CASE Engine(d)
  BY <1>2, EngineDeletes
<1>3. CASE BeginUnmounted(d) \/ CopyOnServerFails(d) \/ LastWriteFails(d) \/ Crash(d)
  BY <1>3, NothingDeleted DEF BeginUnmounted, CopyOnServerFails, LastWriteFails, Crash
<1>4. ASSUME NEW p \in Path, PathFails(d, p) PROVE DeletedByUsers
  BY <1>4, NothingDeleted DEF PathFails
<1>5. ASSUME NEW p \in Path, Edit(d, p) PROVE DeletedByUsers
  <2>1. vault[d][p] \cup {edits + 1} # Absent
    BY DEF Absent
  <2>2. vault' = [vault EXCEPT ![d][p] = vault[d][p] \cup {edits + 1}] /\ server' = server
    BY <1>5 DEF Edit
  <2> QED
    BY <2>1, <2>2, VaultWritten DEF SyncInvariant
<1>6. ASSUME NEW p \in Path, Delete(d, p) PROVE DeletedByUsers
  <2>1. p \in removed' /\ vault' = [vault EXCEPT ![d][p] = Absent] /\ server' = server
    BY <1>6 DEF Delete
  <2> QED
    BY <2>1, VaultWritten DEF SyncInvariant
<1> QED
  BY <1>1, <1>2, <1>3, <1>4, <1>5, <1>6

-----------------------------------------------------------------------------
LEMMA SyncStarts == SyncInit => SyncInvariant
<1> SUFFICES ASSUME SyncInit PROVE SyncInvariant
  OBVIOUS
<1>1. Absent = {} /\ Absent \in Content /\ NoEntry \in Entry /\ NoEntry.p = {} /\ NoEntry.t = 0
  BY NothingForgets DEF Absent, Content
<1>2. SyncTypeOK
  <2>1. server \in [Path -> File]
    BY <1>1 DEF SyncInit, File
  <2>2. /\ vault \in [Device -> [Path -> Content]]
        /\ base \in [Device -> [Path -> Entry]] /\ conflicts \in [Device -> SUBSET Copy]
    BY <1>1 DEF SyncInit
  <2>3. run \in [Device -> Run]
    BY NoRunIs DEF SyncInit
  <2>4. saved \in [Device -> [base : [Path -> Entry], conflicts : SUBSET Copy]]
    BY <1>1 DEF SyncInit
  <2>5. /\ edits \in 0 .. MaxEdit /\ dropped \in Content /\ removed \in SUBSET Path
        /\ deletes \in 0 .. MaxDelete /\ faults \in 0 .. MaxFault /\ crashes \in 0 .. MaxCrash
    BY <1>1, SyncAssumption DEF SyncInit
  <2>6. \A d \in Device, p \in Path : base[d][p].p = Absent <=> base[d][p].t = 0
    BY <1>1 DEF SyncInit
  <2> QED
    BY <2>1, <2>2, <2>3, <2>4, <2>5, <2>6 DEF SyncTypeOK
<1>3. \A d \in Device, p \in Path :
          /\ vault[d][p] = {} /\ base[d][p] = NoEntry /\ saved[d].base[p] = NoEntry
  BY <1>1 DEF SyncInit
<1>4. \A p \in Path : server[p].content = {} /\ server[p].rev = 0
  BY <1>1 DEF SyncInit
<1>5. \A d \in Device : run[d] = NoRun
  BY DEF SyncInit
<1>6. edits = 0 /\ dropped = {} /\ 1 .. edits = {}
  BY DEF SyncInit
<1>7. KnownEdits
  BY <1>1, <1>3, <1>4, <1>5, <1>6, NoRunIs DEF KnownEdits
<1>8. ServerAt /\ Covered
  BY <1>1, <1>4, <1>6 DEF ServerAt, Covered
<1>9. ASSUME NEW d \in Device PROVE DeviceAt(d)
  <2>1. EntriesAt(d)
    BY <1>1, <1>3, <1>4 DEF EntriesAt, EntryAt
  <2>2. ListedAt(d) /\ HeldAt(d) /\ CopyAt(d) /\ IdleAt(d)
    BY <1>5, NoRunIs DEF ListedAt, HeldAt, CopyAt, IdleAt, Midway
  <2> QED
    BY <2>1, <2>2 DEF DeviceAt
<1> QED
  BY <1>2, <1>7, <1>8, <1>9 DEF SyncInvariant

LEMMA PathKeeps ==
    ASSUME CopiesNest, SyncInvariant, NEW d \in Device, NEW p \in Path, SyncPath(d, p)
    PROVE  SyncInvariant'
  BY ForgetPathStep, PullStep, PushStep, DeletePrimaryStep, DeleteTargetStep,
     ReconcileNothingStep, MergeStep, CopyInVaultStep, PathFailsStep DEF SyncPath

LEMMA SyncKeeps ==
    ASSUME CopiesNest, SyncInvariant, [SyncNext]_syncVars
    PROVE  SyncInvariant'
<1>1. ASSUME NEW d \in Device, Engine(d) PROVE SyncInvariant'
  BY <1>1, BeginRunStep, FinishStep, PushMergedStep, CopyOnServerStep, ResolveOursStep,
     ResolveTheirsStep, PathKeeps DEF Engine
<1>2. ASSUME NEW d \in Device,
             \/ BeginUnmounted(d) \/ CopyOnServerFails(d) \/ LastWriteFails(d) \/ Crash(d)
             \/ \E p \in Path : Edit(d, p) \/ Delete(d, p) \/ PathFails(d, p)
      PROVE  SyncInvariant'
  BY <1>2, BeginUnmountedStep, CopyOnServerFailsStep, PathFailsStep, CrashStep, EditStep,
     DeleteStep
<1>3. CASE UNCHANGED syncVars
  <2>1. /\ vault' = vault /\ server' = server /\ base' = base /\ conflicts' = conflicts
        /\ saved' = saved /\ run' = run /\ edits' = edits /\ dropped' = dropped
        /\ removed' = removed /\ deletes' = deletes /\ faults' = faults /\ crashes' = crashes
    BY <1>3 DEF syncVars, snapshot, users
  <2>2. \A d \in Device, p \in Path : News(d, p)' = News(d, p)
    BY <2>1 DEF News
  <2>3. \A x, p : At(x, p)' <=> At(x, p)
    BY <2>1 DEF At, News
  <2>4. \A x, p : (Safe(x, p)' <=> Safe(x, p)) /\ (Held(x, p)' <=> Held(x, p))
    BY <2>1, <2>3 DEF Safe, Held
  <2>5. SyncTypeOK' /\ KnownEdits' /\ ServerAt'
    BY <2>1 DEF SyncInvariant, SyncTypeOK, KnownEdits, ServerAt
  <2>6. Covered'
    BY <2>1, <2>4 DEF SyncInvariant, Covered
  <2>7. GoesOn /\ Grows
    BY <2>1, <2>4 DEF GoesOn, Grows
  <2>8. ASSUME NEW d \in Device PROVE DeviceAt(d)'
    <3>1. DeviceAt(d) /\ KnownEdits /\ SyncTypeOK
      BY DEF SyncInvariant
    <3> QED
      BY <3>1, <2>1, <2>5, <2>7, DeviceStays
  <2> QED
    BY <2>5, <2>6, <2>8 DEF SyncInvariant
<1> QED
  BY <1>1, <1>2, <1>3 DEF SyncNext

\* What is in a file or where its edits go is in some file, or a user deleted it.
LEMMA NoneIsLost == CopiesNest /\ SyncInvariant => NoLostEdit
<1> SUFFICES ASSUME CopiesNest, SyncInvariant, NEW x \in 1 .. edits
             PROVE  x \in dropped \/ x \in OnServer \/ \E d \in Device : x \in InVault(d)
  BY DEF NoLostEdit
<1>1. PICK p \in Path : Held(x, p)
  BY DEF SyncInvariant, Covered
<1>2. x \in dropped \/ \E q \in Path : At(x, q) \/ x \in server[q].content
  BY <1>1, DeeperIs DEF Held, Safe
<1>3. ASSUME NEW q \in Path, x \in server[q].content PROVE x \in OnServer
  BY <1>3 DEF OnServer
<1>4. ASSUME NEW q \in Path, NEW d \in Device, x \in News(d, q) PROVE x \in InVault(d)
  BY <1>4 DEF InVault, News
<1> QED
  BY <1>2, <1>3, <1>4 DEF At

\* If the names of copies are longer than those of what they are copies of, then for
\* any devices, notes and bounds every step of a user and of the engines keeps every
\* edit somewhere, and deletes only what a user deleted.
THEOREM SyncLosesNothing == CopiesNest => (SyncSpec => NothingIsLostInSync)
<1> SUFFICES ASSUME CopiesNest
             PROVE  SyncSpec => NothingIsLostInSync
  OBVIOUS
<1>1. SyncInit => SyncInvariant
  BY SyncStarts
<1>2. SyncInvariant /\ [SyncNext]_syncVars => SyncInvariant'
  BY SyncKeeps
<1>3. SyncInvariant => SyncTypeOK /\ NoLostEdit
  BY NoneIsLost DEF SyncInvariant
<1>4. SyncInvariant /\ [SyncNext]_syncVars => [DeletedByUsers]_syncVars
  BY StepDeletes
<1> QED
  BY <1>1, <1>2, <1>3, <1>4, PTL DEF SyncSpec, NothingIsLostInSync, OnlyUsersDelete
-----------------------------------------------------------------------------
(* The hub: an open connection is among those that get events until it is  *)
(* told to close, and an ended one watches nothing.                        *)

OpenIsServed == \A c \in Clients : sock[c] = "open" => c \in clients
EndedWatchesNothing == \A c \in Clients : sock[c] = "ended" => watches[c] = {}

HubInvariant ==
    HubTypeOK /\ NothingIsSkipped /\ RunsWhileWatched /\ OpenIsServed /\ EndedWatchesNothing

WatchersOf(w, s) == {c \in Clients : s \in w[c]}

LEMMA WatchersAreFew ==
    ASSUME NEW w, NEW s
    PROVE  /\ IsFiniteSet(WatchersOf(w, s)) /\ Cardinality(WatchersOf(w, s)) \in Nat
           /\ Cardinality(WatchersOf(w, s)) <= Cardinality(Clients)
           /\ Cardinality(Clients) \in Nat
PROOF
  <1>1. WatchersOf(w, s) \subseteq Clients
    BY DEF WatchersOf
  <1> QED BY <1>1, HubAssumption, FS_Subset, FS_CardinalityType

LEMMA WatcherComes ==
    ASSUME NEW w, NEW v, NEW s, NEW c \in Clients, c \notin WatchersOf(w, s),
           WatchersOf(v, s) = WatchersOf(w, s) \cup {c}
    PROVE  Cardinality(WatchersOf(v, s)) = Cardinality(WatchersOf(w, s)) + 1
PROOF
  BY WatchersAreFew, FS_AddElement

LEMMA WatcherGoes ==
    ASSUME NEW w, NEW v, NEW s, NEW c \in WatchersOf(w, s),
           WatchersOf(v, s) = WatchersOf(w, s) \ {c}
    PROVE  /\ Cardinality(WatchersOf(w, s)) > 0
           /\ Cardinality(WatchersOf(v, s)) = Cardinality(WatchersOf(w, s)) - 1
PROOF
  <1>1. Cardinality(WatchersOf(v, s)) = Cardinality(WatchersOf(w, s)) - 1
    BY WatchersAreFew, FS_RemoveElement
  <1> QED BY <1>1, WatchersAreFew

LEMMA HubStarts == HubInit => HubInvariant
PROOF
  <1> SUFFICES ASSUME HubInit PROVE HubInvariant
    OBVIOUS
  <1>1. \A s \in Surfaces : WatchersOf(watches, s) = {}
    BY DEF HubInit, WatchersOf
  <1>2. RunsWhileWatched
    BY <1>1, FS_EmptySet DEF RunsWhileWatched, WatchersOf, HubInit
  <1>3. Cardinality(Clients) \in Nat
    BY HubAssumption, FS_CardinalityType
  <1>4. HubTypeOK
    BY <1>3, HubAssumption DEF HubTypeOK, HubInit
  <1> QED
    BY <1>2, <1>4 DEF HubInvariant, NothingIsSkipped, OpenIsServed, EndedWatchesNothing, HubInit

(* What is sent is counted; who reads too little is cut off and gets no more. *)
LEMMA SendEffect ==
    ASSUME HubTypeOK, NEW to \in SUBSET Clients, NEW droppable \in BOOLEAN, Send(to, droppable)
    PROVE  /\ sock' \in [Clients -> {"ended", "open", "closing", "cut"}]
           /\ unread' \in [Clients -> 0 .. MaxBuffered + 1]
           /\ \A c \in Clients : sock'[c] = "open" =>
                sock[c] = "open" /\ (c \in to => ~Overrun(c))
           /\ \A c \in Clients : sock'[c] = "ended" => sock[c] = "ended"
           /\ \A c \in Clients : c \notin to \/ sock[c] # "open" => unread'[c] = unread[c]
PROOF
  BY HubAssumption DEF HubTypeOK, Send, Takes, Overrun

LEMMA OnlySent ==
    ASSUME HubInvariant, NEW to \in SUBSET Clients, NEW droppable \in BOOLEAN, Send(to, droppable),
           UNCHANGED <<clients, alive, there, watches, count, subscribed, sent, next, hub>>
    PROVE  HubInvariant'
PROOF
  <1>1. HubTypeOK
    BY DEF HubInvariant
  <1> USE SendEffect, <1>1
  <1>2. HubTypeOK'
    BY DEF HubTypeOK
  <1>3. NothingIsSkipped' /\ OpenIsServed' /\ EndedWatchesNothing'
    BY DEF HubInvariant, NothingIsSkipped, OpenIsServed, EndedWatchesNothing, HubTypeOK
  <1>4. RunsWhileWatched'
    BY DEF HubInvariant, RunsWhileWatched
  <1> QED BY <1>2, <1>3, <1>4 DEF HubInvariant

LEMMA BroadcastKeeps == HubInvariant /\ Broadcast => HubInvariant'
PROOF
  <1> SUFFICES ASSUME HubInvariant, Broadcast PROVE HubInvariant'
    OBVIOUS
  <1>1. HubTypeOK
    BY DEF HubInvariant
  <1>2. Send(clients, FALSE) /\ clients \in SUBSET Clients
    BY <1>1 DEF Broadcast, HubTypeOK
  <1> USE SendEffect, <1>1, <1>2
  <1>3. HubTypeOK'
    <2>1. sock' \in [Clients -> {"ended", "open", "closing", "cut"}]
          /\ unread' \in [Clients -> 0 .. MaxBuffered + 1]
      OBVIOUS
    <2>2. sent' \in 0 .. MaxEvents
      BY HubAssumption DEF HubTypeOK, Broadcast
    <2>3. next' \in [Clients -> 0 .. MaxEvents]
      BY <2>2 DEF HubTypeOK, Broadcast
    <2> QED BY <2>1, <2>2, <2>3 DEF HubTypeOK, Broadcast
  <1>4. NothingIsSkipped'
    <2> SUFFICES ASSUME NEW c \in clients, sock'[c] = "open" PROVE next'[c] = sent'
      BY DEF NothingIsSkipped, Broadcast
    <2>1. sock[c] = "open" /\ ~Overrun(c) /\ c \in Clients
      BY DEF HubTypeOK
    <2>2. unread[c] \in Nat /\ MaxBuffered \in Nat
      BY <2>1, HubAssumption DEF HubTypeOK
    <2>3. Takes(c, FALSE)
      BY <2>1, <2>2 DEF Takes, Overrun
    <2> QED BY <2>1, <2>3 DEF Broadcast
  <1>5. OpenIsServed' /\ EndedWatchesNothing'
    BY DEF HubInvariant, OpenIsServed, EndedWatchesNothing, Broadcast
  <1>6. RunsWhileWatched'
    BY DEF HubInvariant, RunsWhileWatched, Broadcast
  <1> QED BY <1>3, <1>4, <1>5, <1>6 DEF HubInvariant

LEMMA DeltaKeeps == HubInvariant /\ BroadcastDelta => HubInvariant'
PROOF
  BY OnlySent DEF BroadcastDelta, HubInvariant, HubTypeOK

LEMMA FrameKeeps == ASSUME HubInvariant, NEW s \in Surfaces, SendFrame(s) PROVE HubInvariant'
PROOF
  <1>1. {c \in clients : s \in watches[c]} \in SUBSET Clients
    BY DEF HubInvariant, HubTypeOK
  <1> QED BY <1>1, OnlySent DEF SendFrame

(* Of one surface: its watchers and what is counted and runs for it.       *)
CountedAt(w, s, n, m) == n = Cardinality(WatchersOf(w, s)) /\ m = IF n > 0 THEN 1 ELSE 0

LEMMA WatchedIsCounted ==
    RunsWhileWatched <=> \A s \in Surfaces : CountedAt(watches, s, count[s], subscribed[s])
PROOF
  BY DEF RunsWhileWatched, CountedAt, WatchersOf

LEMMA WatchedIsCountedNext ==
    RunsWhileWatched' <=> \A s \in Surfaces : CountedAt(watches', s, count'[s], subscribed'[s])
PROOF
  BY DEF RunsWhileWatched, CountedAt, WatchersOf

LEMMA CountsAreTyped ==
    ASSUME NEW w, NEW n, NEW m, NEW s, CountedAt(w, s, n, m)
    PROVE  n \in 0 .. Cardinality(Clients) /\ m \in 0 .. Cardinality(Clients)
PROOF
  BY WatchersAreFew DEF CountedAt

LEMMA SubscribeKeeps ==
    ASSUME HubInvariant, NEW c \in Clients, NEW s \in Surfaces, SubscribeSurface(c, s)
    PROVE  HubInvariant'
PROOF
  <1>0. HubTypeOK /\ RunsWhileWatched /\ UNCHANGED <<clients, alive, there, sent, next, hub>>
    BY DEF HubInvariant, SubscribeSurface
  <1>1. CASE Send({c}, FALSE) /\ UNCHANGED <<watches, count, subscribed>>
    BY <1>0, <1>1, OnlySent
  <1>2. CASE /\ watches' = [watches EXCEPT ![c] = @ \cup {s}]
             /\ count' = [count EXCEPT ![s] = @ + 1]
             /\ subscribed' = IF count[s] = 0
                              THEN [subscribed EXCEPT ![s] = @ + 1] ELSE subscribed
             /\ UNCHANGED <<sock, unread>>
    <2>1. sock[c] # "ended" /\ s \notin watches[c]
      BY DEF SubscribeSurface, Hears
    <2>2. \A q \in Surfaces : CountedAt(watches', q, count'[q], subscribed'[q])
      <3> SUFFICES ASSUME NEW q \in Surfaces PROVE CountedAt(watches', q, count'[q], subscribed'[q])
        OBVIOUS
      <3>1. CountedAt(watches, q, count[q], subscribed[q])
        BY <1>0, WatchedIsCounted
      <3>2. CASE q = s
        <4>1. c \notin WatchersOf(watches, s) /\ WatchersOf(watches', s) = WatchersOf(watches, s) \cup {c}
          BY <1>0, <1>2, <2>1 DEF WatchersOf, HubTypeOK
        <4>2. Cardinality(WatchersOf(watches', s)) = Cardinality(WatchersOf(watches, s)) + 1
          BY <4>1, WatcherComes
        <4> QED BY <1>0, <1>2, <3>1, <3>2, <4>2, WatchersAreFew DEF CountedAt, HubTypeOK
      <3>3. CASE q # s
        <4>1. WatchersOf(watches', q) = WatchersOf(watches, q)
          BY <1>0, <1>2, <3>3 DEF WatchersOf, HubTypeOK
        <4> QED BY <1>0, <1>2, <3>1, <3>3, <4>1 DEF CountedAt, HubTypeOK
      <3> QED BY <3>2, <3>3
    <2>3. \A q \in Surfaces : count'[q] \in 0 .. Cardinality(Clients)
                              /\ subscribed'[q] \in 0 .. Cardinality(Clients)
      BY <2>2, CountsAreTyped
    <2>4. HubTypeOK'
      BY <1>0, <1>2, <2>3 DEF HubTypeOK
    <2>5. NothingIsSkipped' /\ OpenIsServed' /\ EndedWatchesNothing'
      BY <1>0, <1>2, <2>1
      DEF HubInvariant, NothingIsSkipped, OpenIsServed, EndedWatchesNothing, HubTypeOK
    <2> QED BY <2>2, <2>4, <2>5, WatchedIsCountedNext DEF HubInvariant
  <1> QED BY <1>1, <1>2 DEF SubscribeSurface

(* Once a client no longer watches some surfaces the counts are right again. *)
LEMMA UnwatchedEffect ==
    ASSUME HubTypeOK, RunsWhileWatched, NEW c \in Clients, NEW gone \in SUBSET watches[c],
           Unwatched(c, gone)
    PROVE  /\ watches' \in [Clients -> SUBSET Surfaces]
           /\ watches'[c] = watches[c] \ gone
           /\ \A q \in Clients \ {c} : watches'[q] = watches[q]
           /\ count' \in [Surfaces -> 0 .. Cardinality(Clients)]
           /\ subscribed' \in [Surfaces -> 0 .. Cardinality(Clients)]
           /\ RunsWhileWatched'
PROOF
  <1>1. /\ watches' \in [Clients -> SUBSET Surfaces] /\ watches'[c] = watches[c] \ gone
        /\ \A q \in Clients \ {c} : watches'[q] = watches[q]
    BY DEF Unwatched, HubTypeOK
  <1>2. \A s \in Surfaces : CountedAt(watches', s, count'[s], subscribed'[s])
    <2> SUFFICES ASSUME NEW s \in Surfaces PROVE CountedAt(watches', s, count'[s], subscribed'[s])
      OBVIOUS
    <2>1. CountedAt(watches, s, count[s], subscribed[s])
      BY WatchedIsCounted
    <2>2. CASE s \in gone
      <3>1. c \in WatchersOf(watches, s) /\ WatchersOf(watches', s) = WatchersOf(watches, s) \ {c}
        BY <1>1, <2>2 DEF WatchersOf
      <3>2. /\ Cardinality(WatchersOf(watches, s)) > 0
            /\ Cardinality(WatchersOf(watches', s)) = Cardinality(WatchersOf(watches, s)) - 1
        BY <3>1, WatcherGoes
      <3>3. /\ count'[s] = IF count[s] > 0 THEN count[s] - 1 ELSE count[s]
            /\ subscribed'[s] = IF count[s] = 1 THEN subscribed[s] - 1 ELSE subscribed[s]
        BY <2>2 DEF Unwatched
      <3> QED BY <2>1, <3>2, <3>3, WatchersAreFew DEF CountedAt
    <2>3. CASE s \notin gone
      <3>1. WatchersOf(watches', s) = WatchersOf(watches, s)
        BY <1>1, <2>3 DEF WatchersOf
      <3> QED BY <2>1, <2>3, <3>1 DEF CountedAt, Unwatched
    <2> QED BY <2>2, <2>3
  <1>3. \A s \in Surfaces : count'[s] \in 0 .. Cardinality(Clients)
                            /\ subscribed'[s] \in 0 .. Cardinality(Clients)
    BY <1>2, CountsAreTyped
  <1>4. count' \in [Surfaces -> 0 .. Cardinality(Clients)]
        /\ subscribed' \in [Surfaces -> 0 .. Cardinality(Clients)]
    BY <1>3 DEF Unwatched
  <1> QED BY <1>1, <1>2, <1>4, WatchedIsCountedNext

LEMMA UnsubscribeKeeps ==
    ASSUME HubInvariant, NEW c \in Clients, NEW s \in Surfaces, UnsubscribeSurface(c, s)
    PROVE  HubInvariant'
PROOF
  <1>1. /\ HubTypeOK /\ RunsWhileWatched /\ {s} \in SUBSET watches[c] /\ Unwatched(c, {s})
        /\ UNCHANGED <<sock, clients, alive, there, unread, sent, next, hub>>
    BY DEF HubInvariant, UnsubscribeSurface
  <1> USE <1>1, UnwatchedEffect
  <1>2. HubTypeOK' /\ RunsWhileWatched'
    BY DEF HubTypeOK
  <1>3. NothingIsSkipped' /\ OpenIsServed' /\ EndedWatchesNothing'
    BY DEF HubInvariant, NothingIsSkipped, OpenIsServed, EndedWatchesNothing, HubTypeOK
  <1> QED BY <1>2, <1>3 DEF HubInvariant

LEMMA ClosesKeeps ==
    ASSUME HubInvariant, NEW c \in Clients, SocketCloses(c)
    PROVE  HubInvariant'
PROOF
  <1>1. /\ HubTypeOK /\ RunsWhileWatched /\ Unwatched(c, watches[c])
        /\ watches[c] \in SUBSET watches[c]
    BY DEF HubInvariant, SocketCloses
  <1> USE <1>1, UnwatchedEffect
  <1>2. HubTypeOK' /\ RunsWhileWatched'
    BY HubAssumption DEF HubTypeOK, SocketCloses
  <1>3. NothingIsSkipped' /\ OpenIsServed' /\ EndedWatchesNothing'
    BY DEF HubInvariant, NothingIsSkipped, OpenIsServed, EndedWatchesNothing, HubTypeOK, SocketCloses
  <1> QED BY <1>2, <1>3 DEF HubInvariant

(* What else happens to connections leaves the surfaces as they are.       *)
LEMMA ConnectKeeps ==
    ASSUME HubInvariant, NEW c \in Clients, Connect(c)
    PROVE  HubInvariant'
PROOF
  <1>1. HubTypeOK'
    BY HubAssumption DEF HubInvariant, HubTypeOK, Connect
  <1>2. NothingIsSkipped' /\ OpenIsServed' /\ EndedWatchesNothing'
    BY DEF HubInvariant, NothingIsSkipped, OpenIsServed, EndedWatchesNothing, HubTypeOK, Connect
  <1>3. RunsWhileWatched'
    BY DEF HubInvariant, RunsWhileWatched, Connect
  <1> QED BY <1>1, <1>2, <1>3 DEF HubInvariant

LEMMA OtherEndKeeps ==
    ASSUME HubInvariant, NEW c \in Clients, Reads(c) \/ Pong(c) \/ Vanishes(c)
    PROVE  HubInvariant'
PROOF
  <1>1. HubTypeOK'
    BY HubAssumption DEF HubInvariant, HubTypeOK, Reads, Pong, Vanishes
  <1>2. NothingIsSkipped' /\ OpenIsServed' /\ EndedWatchesNothing' /\ RunsWhileWatched'
    BY DEF HubInvariant, NothingIsSkipped, OpenIsServed, EndedWatchesNothing, RunsWhileWatched,
           Reads, Pong, Vanishes
  <1> QED BY <1>1, <1>2 DEF HubInvariant

(* The hub's own steps only ever close sockets.                            *)
LEMMA OwnStepKeeps ==
    ASSUME HubInvariant,
           \/ \E c \in Clients : GraceEnds(c)
           \/ Heartbeat \/ CloseHub \/ \E d \in Devices : Revoke(d)
    PROVE  HubInvariant'
PROOF
  <1>1. HubTypeOK
    BY DEF HubInvariant
  <1>2. /\ sock' \in [Clients -> {"ended", "open", "closing", "cut"}]
        /\ clients' \subseteq clients /\ alive' \subseteq alive
        /\ \A c \in Clients : sock'[c] = "open" => sock[c] = "open" /\ (c \in clients => c \in clients')
        /\ \A c \in Clients : sock'[c] = "ended" => sock[c] = "ended"
        /\ hub' \in {"open", "closing", "closed"}
        /\ UNCHANGED <<there, watches, unread, count, subscribed, sent, next>>
    <2>1. CASE \E c \in Clients : GraceEnds(c)
      BY <1>1, <2>1 DEF HubTypeOK, GraceEnds
    <2>2. CASE Heartbeat
      BY <1>1, <2>2 DEF HubTypeOK, Heartbeat
    <2>3. CASE CloseHub
      BY <1>1, <2>3 DEF HubTypeOK, CloseHub
    <2>4. CASE \E d \in Devices : Revoke(d)
      BY <1>1, <2>4 DEF HubTypeOK, Revoke
    <2> QED BY <2>1, <2>2, <2>3, <2>4
  <1>3. HubTypeOK'
    BY <1>1, <1>2 DEF HubTypeOK
  <1>4. NothingIsSkipped' /\ OpenIsServed' /\ EndedWatchesNothing'
    BY <1>1, <1>2 DEF HubInvariant, NothingIsSkipped, OpenIsServed, EndedWatchesNothing, HubTypeOK
  <1>5. RunsWhileWatched'
    BY <1>2 DEF HubInvariant, RunsWhileWatched
  <1> QED BY <1>3, <1>4, <1>5 DEF HubInvariant

LEMMA HubClosesKeeps == HubInvariant /\ HubCloses => HubInvariant'
PROOF
  <1> SUFFICES ASSUME HubInvariant, HubCloses PROVE HubInvariant'
    OBVIOUS
  <1>1. HubTypeOK /\ RunsWhileWatched /\ UNCHANGED <<sock, clients, alive, there, watches, unread, sent, next>>
    BY DEF HubInvariant, HubCloses
  <1>2. \A s \in Surfaces : WatchersOf(watches, s) = {}
    BY DEF HubInvariant, EndedWatchesNothing, HubCloses, WatchersOf
  <1>3. \A s \in Surfaces : count[s] = 0 /\ subscribed[s] = 0
    BY <1>1, <1>2, FS_EmptySet DEF RunsWhileWatched, WatchersOf
  <1>4. count' = count /\ subscribed' = subscribed
    BY <1>1, <1>3 DEF HubCloses, HubTypeOK
  <1>5. HubTypeOK' /\ RunsWhileWatched'
    BY <1>1, <1>4 DEF HubTypeOK, RunsWhileWatched, HubCloses
  <1>6. NothingIsSkipped' /\ OpenIsServed' /\ EndedWatchesNothing'
    BY <1>1 DEF HubInvariant, NothingIsSkipped, OpenIsServed, EndedWatchesNothing
  <1> QED BY <1>5, <1>6 DEF HubInvariant

LEMMA HubStep == HubInvariant /\ [HubNext]_hubVars => HubInvariant'
PROOF
  <1> SUFFICES ASSUME HubInvariant, [HubNext]_hubVars PROVE HubInvariant'
    OBVIOUS
  <1>1. CASE UNCHANGED hubVars
    <2>1. HubTypeOK'
      BY <1>1 DEF HubInvariant, HubTypeOK, hubVars
    <2>2. NothingIsSkipped' /\ OpenIsServed' /\ EndedWatchesNothing' /\ RunsWhileWatched'
      BY <1>1 DEF HubInvariant, NothingIsSkipped, OpenIsServed, EndedWatchesNothing,
                  RunsWhileWatched, hubVars
    <2> QED BY <2>1, <2>2 DEF HubInvariant
  <1>2. CASE HubNext
    BY <1>2, BroadcastKeeps, DeltaKeeps, FrameKeeps, SubscribeKeeps, UnsubscribeKeeps,
       OtherEndKeeps, ConnectKeeps, ClosesKeeps, OwnStepKeeps, HubClosesKeeps DEF HubNext
  <1> QED BY <1>1, <1>2

(* Who is not among those that get events is sent nothing.                 *)
LEMMA NothingIsSent ==
    ASSUME HubInvariant, NEW c \in Clients, c \notin clients,
           NEW to \in SUBSET Clients, NEW droppable \in BOOLEAN, Send(to, droppable)
    PROVE  unread'[c] <= unread[c]
PROOF
  <1>1. HubTypeOK /\ sock[c] # "open" /\ unread[c] \in Nat
    BY HubAssumption DEF HubInvariant, OpenIsServed, HubTypeOK
  <1>2. unread'[c] = unread[c]
    BY <1>1, SendEffect
  <1> QED BY <1>1, <1>2

LEMMA RevokedStep ==
    HubInvariant /\ [HubNext]_hubVars =>
        [\A c \in Clients : c \notin clients /\ sock[c] # "ended" => unread'[c] <= unread[c]]_hubVars
PROOF
  <1> SUFFICES ASSUME HubInvariant, HubNext, NEW c \in Clients, c \notin clients, sock[c] # "ended"
               PROVE  unread'[c] <= unread[c]
    OBVIOUS
  <1>1. HubTypeOK /\ unread[c] \in Nat
    BY HubAssumption DEF HubInvariant, HubTypeOK
  <1>2. CASE Broadcast \/ BroadcastDelta
    <2>1. clients \in SUBSET Clients
      BY <1>1 DEF HubTypeOK
    <2>2. Send(clients, FALSE) \/ Send(clients, TRUE)
      BY <1>2 DEF Broadcast, BroadcastDelta
    <2> QED BY <2>1, <2>2, NothingIsSent
  <1>3. CASE \E s \in Surfaces : SendFrame(s)
    <2>1. PICK s \in Surfaces : SendFrame(s)
      BY <1>3
    <2>2. {q \in clients : s \in watches[q]} \in SUBSET Clients
      BY <1>1 DEF HubTypeOK
    <2> QED BY <2>1, <2>2, NothingIsSent DEF SendFrame
  <1>4. CASE \E q \in Clients, s \in Surfaces : SubscribeSurface(q, s)
    <2>1. PICK q \in Clients : Send({q}, FALSE) \/ UNCHANGED unread
      BY <1>4 DEF SubscribeSurface
    <2>2. {q} \in SUBSET Clients
      OBVIOUS
    <2>3. CASE Send({q}, FALSE)
      BY <2>2, <2>3, NothingIsSent
    <2>4. CASE UNCHANGED unread
      BY <1>1, <2>4
    <2> QED BY <2>1, <2>3, <2>4
  <1>5. CASE \E q \in Clients : Reads(q) \/ Connect(q) \/ SocketCloses(q)
    <2>1. PICK q \in Clients : Reads(q) \/ Connect(q) \/ SocketCloses(q)
      BY <1>5
    <2>2. CASE q = c
      BY <1>1, <2>1, <2>2 DEF Reads, Connect, SocketCloses, HubTypeOK
    <2>3. CASE q # c
      BY <1>1, <2>1, <2>3 DEF Reads, Connect, SocketCloses, HubTypeOK
    <2> QED BY <2>2, <2>3
  <1>6. CASE UNCHANGED unread
    BY <1>1, <1>6
  <1>7. \/ \E q \in Clients, s \in Surfaces : UnsubscribeSurface(q, s)
        \/ \E q \in Clients : Pong(q) \/ Vanishes(q) \/ GraceEnds(q)
        \/ Heartbeat \/ CloseHub \/ HubCloses \/ \E d \in Devices : Revoke(d)
        => UNCHANGED unread
    BY DEF UnsubscribeSurface, Pong, Vanishes, GraceEnds, Heartbeat, Revoke, CloseHub, HubCloses
  <1> QED
    BY <1>2, <1>3, <1>4, <1>5, <1>6, <1>7 DEF HubNext

(* For any clients, devices, surfaces and bounds, whoever connects, reads, *)
(* stalls, vanishes or is revoked (attachWebSocketHub).                    *)
THEOREM HubServesItsClients == HubSpec => ClientsSkipNothing
PROOF
  <1>1. HubInvariant => HubTypeOK /\ NothingIsSkipped /\ BufferIsBounded /\ RunsWhileWatched
    BY HubAssumption DEF HubInvariant, HubTypeOK, BufferIsBounded
  <1>2. HubSpec => []HubInvariant
    BY HubStarts, HubStep, PTL DEF HubSpec
  <1>3. HubSpec => [](HubTypeOK /\ NothingIsSkipped /\ BufferIsBounded /\ RunsWhileWatched)
    BY <1>1, <1>2, PTL
  <1>4. HubSpec => RevokedGetNothing
    BY <1>2, RevokedStep, PTL DEF HubSpec, RevokedGetNothing
  <1> QED BY <1>3, <1>4 DEF ClientsSkipNothing
=============================================================================
