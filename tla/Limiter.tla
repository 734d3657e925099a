------------------------------- MODULE Limiter ------------------------------
(***************************************************************************)
(* At most Concurrency reads at a time, in call order. A task that ends    *)
(* hands its slot to the first that waits, which resumes a moment later.   *)
(***************************************************************************)
EXTENDS Naturals, Sequences, FiniteSets

CONSTANTS Calls, Concurrency

ASSUME ConcurrencyAssumption == Concurrency \in Nat \ {0}

VARIABLES
    active,  \* slots taken
    waiting, \* callers without one, in call order
    resumed, \* callers handed a slot that are still to go on
    running,
    ended

vars == <<active, waiting, resumed, running, ended>>

Init == active = 0 /\ waiting = <<>> /\ resumed = {} /\ running = {} /\ ended = {}

Waiting == {waiting[i] : i \in DOMAIN waiting}

Fresh(c) == c \notin Waiting \cup resumed \cup running \cup ended

Begin(c) ==
    /\ Fresh(c) /\ active < Concurrency
    /\ active' = active + 1 /\ running' = running \cup {c}
    /\ UNCHANGED <<waiting, resumed, ended>>

Wait(c) ==
    /\ Fresh(c) /\ active >= Concurrency
    /\ waiting' = Append(waiting, c)
    /\ UNCHANGED <<active, resumed, running, ended>>

Resume(c) ==
    /\ c \in resumed /\ resumed' = resumed \ {c}
    /\ running' = running \cup {c}
    /\ UNCHANGED <<active, waiting, ended>>

(* Slip: the slot is given back before it is handed on.                    *)
EndGivingBack(c) ==
    /\ c \in running /\ running' = running \ {c} /\ ended' = ended \cup {c}
    /\ active' = active - 1
    /\ waiting' = IF waiting # <<>> THEN Tail(waiting) ELSE waiting
    /\ resumed' = IF waiting # <<>> THEN resumed \cup {Head(waiting)} ELSE resumed

End(c) ==
    /\ c \in running /\ running' = running \ {c} /\ ended' = ended \cup {c}
    /\ \/ /\ waiting # <<>>
          /\ resumed' = resumed \cup {Head(waiting)} /\ waiting' = Tail(waiting)
          /\ UNCHANGED active
       \/ /\ waiting = <<>> /\ active' = active - 1
          /\ UNCHANGED <<waiting, resumed>>

Next == \E c \in Calls : Begin(c) \/ Wait(c) \/ Resume(c) \/ End(c)

Spec == Init /\ [][Next]_vars

(* Reads end, promises resolve.                                            *)
LiveSpec == Spec /\ \A c \in Calls : WF_vars(Resume(c) \/ End(c))

-----------------------------------------------------------------------------

TypeOK ==
    /\ active \in Nat /\ waiting \in Seq(Calls)
    /\ resumed \subseteq Calls /\ running \subseteq Calls /\ ended \subseteq Calls

(* Never more tasks than slots, those still to resume included: `active`   *)
(* "never overshoots".                                                     *)
NeverOvershoots == IsFiniteSet(running \cup resumed) /\ Cardinality(running \cup resumed) <= Concurrency

(* Nobody waits while a slot is free.                                      *)
NoSlotIsWasted == waiting # <<>> => Cardinality(running \cup resumed) = Concurrency

(* Whoever waits gets a slot.                                              *)
WaitersRun == \A c \in Calls : c \in Waiting ~> c \in running
=============================================================================
