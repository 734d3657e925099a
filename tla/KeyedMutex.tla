----------------------------- MODULE KeyedMutex ----------------------------
(***************************************************************************)
(* The async mutex keyed by vault path. A call asks for its keys in sorted *)
(* order, one when it has the one before; for each it waits for the call   *)
(* that asked last before it. Each call runs once, and may fail.           *)
(***************************************************************************)
EXTENDS Naturals, FiniteSets

CONSTANTS
    Calls,
    Keys,
    KeysOf,   \* the keys a call holds while it runs
    None

ASSUME KeysAssumption == Keys \subseteq Nat /\ KeysOf \in [Calls -> SUBSET Keys]
ASSUME NoneAssumption == None \notin Calls

VARIABLES
    tails,    \* [Keys -> the call that asked last, or None]
    previous, \* previous[c][k]: the call c waits behind for k, or None
    place,    \* place[c][k]: the how-manieth to ask for k; 0 before
    asked,    \* [Calls -> keys asked for]
    held,     \* [Calls -> keys got]
    released, \* [Calls -> keys given back]
    count     \* [Keys -> calls that asked so far]

vars == <<tails, previous, place, asked, held, released, count>>

Init ==
    /\ tails = [k \in Keys |-> None]
    /\ previous = [c \in Calls |-> [k \in Keys |-> None]]
    /\ place = [c \in Calls |-> [k \in Keys |-> 0]]
    /\ asked = [c \in Calls |-> {}] /\ held = [c \in Calls |-> {}] /\ released = [c \in Calls |-> {}]
    /\ count = [k \in Keys |-> 0]

NextKey(c, k) == k \in KeysOf[c] \ asked[c] /\ \A other \in KeysOf[c] \ asked[c] : k <= other

(* Asks for a key: its tail is from now on the end of this call.           *)
Ask(c, k) ==
    /\ NextKey(c, k)
    /\ held[c] = asked[c] /\ released[c] = {}
    /\ asked' = [asked EXCEPT ![c] = @ \cup {k}]
    /\ previous' = [previous EXCEPT ![c][k] = tails[k]]
    /\ tails' = [tails EXCEPT ![k] = c]
    /\ count' = [count EXCEPT ![k] = @ + 1]
    /\ place' = [place EXCEPT ![c][k] = count[k] + 1]
    /\ UNCHANGED <<held, released>>

(* The call before has ended.                                              *)
Get(c, k) ==
    /\ k \in asked[c] \ held[c]
    /\ previous[c][k] = None \/ (previous[c][k] \in Calls /\ k \in released[previous[c][k]])
    /\ held' = [held EXCEPT ![c] = @ \cup {k}]
    /\ UNCHANGED <<tails, previous, place, asked, released, count>>

(* Slip: the key is dropped while others wait for it.                      *)
ReleaseDropping(c, k) ==
    /\ held[c] = KeysOf[c] /\ k \in held[c] \ released[c]
    /\ \A other \in held[c] \ released[c] : other <= k
    /\ released' = [released EXCEPT ![c] = @ \cup {k}]
    /\ tails' = [tails EXCEPT ![k] = None]
    /\ UNCHANGED <<previous, place, asked, held, count>>

(* The run has ended, well or not: the last key asked for goes first, and  *)
(* is dropped unless someone asked since.                                  *)
Release(c, k) ==
    /\ held[c] = KeysOf[c] /\ k \in held[c] \ released[c]
    /\ \A other \in held[c] \ released[c] : other <= k
    /\ released' = [released EXCEPT ![c] = @ \cup {k}]
    /\ tails' = IF tails[k] = c THEN [tails EXCEPT ![k] = None] ELSE tails
    /\ UNCHANGED <<previous, place, asked, held, count>>

Next == \E c \in Calls, k \in Keys : Ask(c, k) \/ Get(c, k) \/ Release(c, k)

Spec == Init /\ [][Next]_vars

Goes(c) == \E k \in Keys : Ask(c, k) \/ Get(c, k) \/ Release(c, k)

(* Callers go on, what runs ends and promises resolve.                     *)
LiveSpec == Spec /\ \A c \in Calls : WF_vars(Goes(c))

-----------------------------------------------------------------------------

TypeOK ==
    /\ tails \in [Keys -> Calls \cup {None}]
    /\ previous \in [Calls -> [Keys -> Calls \cup {None}]]
    /\ place \in [Calls -> [Keys -> Nat]]
    /\ asked \in [Calls -> SUBSET Keys] /\ held \in [Calls -> SUBSET Keys]
    /\ released \in [Calls -> SUBSET Keys]
    /\ count \in [Keys -> Nat]
    /\ \A c \in Calls : released[c] \subseteq held[c] /\ held[c] \subseteq asked[c] /\ asked[c] \subseteq KeysOf[c]

(* Callers holding the same key run strictly one after another ...         *)
OneHolder ==
    \A c, d \in Calls : \A k \in Keys :
        k \in held[c] \ released[c] /\ k \in held[d] \ released[d] => c = d

(* ... in call order.                                                      *)
InCallOrder ==
    \A c, d \in Calls : \A k \in Keys :
        k \in held[c] /\ k \in asked[d] /\ place[d][k] < place[c][k] => k \in released[d]

(* Idle keys are dropped: a key that is kept has work in flight.           *)
IdleKeysAreDropped ==
    \A k \in Keys : tails[k] # None => k \in asked[tails[k]] \ released[tails[k]]

(* Callers of several keys can't deadlock: every call gets to run and ends.*)
EveryCallEnds == \A c \in Calls : <>(released[c] = KeysOf[c])
=============================================================================
