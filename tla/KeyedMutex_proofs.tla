-------------------------- MODULE KeyedMutex_proofs -------------------------
(***************************************************************************)
(* One holder per key, in call order, and no key kept without work, for    *)
(* every set of calls and keys. The chain of promises is followed by the   *)
(* place each call has in a key's line: whoever has the key finds all      *)
(* before it gone.                                                         *)
(***************************************************************************)
EXTENDS KeyedMutex, TLAPS

(* Every caller of a key has a place in its line, and nobody else has it.  *)
Places ==
    /\ \A c \in Calls, k \in Keys : k \in asked[c] <=> place[c][k] # 0
    /\ \A c \in Calls, k \in Keys : place[c][k] <= count[k]
    /\ \A c, d \in Calls : \A k \in Keys : k \in asked[c] /\ place[c][k] = place[d][k] => c = d

(* The tail is the last in line; without one everybody is done.            *)
Tails ==
    \A k \in Keys :
        /\ tails[k] # None => /\ k \in asked[tails[k]] \ released[tails[k]]
                              /\ place[tails[k]][k] = count[k]
        /\ tails[k] = None => \A c \in Calls : k \in asked[c] => k \in released[c]

(* Nobody is between a call and the one it waits behind.                   *)
Chain ==
    \A c \in Calls, k \in Keys : k \in asked[c] =>
        /\ previous[c][k] = None =>
            \A d \in Calls : k \in asked[d] /\ place[d][k] < place[c][k] => k \in released[d]
        /\ previous[c][k] # None =>
            /\ k \in asked[previous[c][k]]
            /\ \A d \in Calls : k \in asked[d] /\ place[d][k] < place[c][k]
                                    => place[d][k] <= place[previous[c][k]][k]

(* Two different callers of a key have different places.                   *)
LEMMA PlacesDiffer ==
    ASSUME TypeOK, Places, NEW c \in Calls, NEW d \in Calls, NEW k \in Keys, k \in asked[c]
    PROVE  /\ place[c][k] \in Nat /\ place[d][k] \in Nat /\ count[k] \in Nat
           /\ place[c][k] # 0 /\ place[c][k] <= count[k] /\ place[d][k] <= count[k]
           /\ c # d => place[c][k] # place[d][k]
<1>1. place[c][k] \in Nat /\ place[d][k] \in Nat /\ count[k] \in Nat
  BY DEF TypeOK
<1>2. c # d => place[c][k] # place[d][k]
  BY DEF Places
<1> QED
  BY <1>1, <1>2 DEF Places

Inv == TypeOK /\ Places /\ Tails /\ Chain /\ InCallOrder

-----------------------------------------------------------------------------

LEMMA InitInv == Init => Inv
BY KeysAssumption, NoneAssumption DEF Init, Inv, TypeOK, Places, Tails, Chain, InCallOrder

LEMMA AskInv ==
    ASSUME Inv, NEW c \in Calls, NEW k \in Keys, Ask(c, k)
    PROVE  Inv'
<1> USE KeysAssumption, NoneAssumption DEF Inv
<1>1. TypeOK'
  BY DEF TypeOK, Ask, NextKey
<1>2. k \notin asked[c] /\ k \notin held[c] /\ k \notin released[c]
  BY DEF TypeOK, Ask, NextKey
<1>3. Places'
  BY <1>2 DEF TypeOK, Ask, Places
<1>4. Tails'
  BY <1>2 DEF TypeOK, Ask, Places, Tails
<1>5. Chain'
  <2> SUFFICES ASSUME NEW d \in Calls, NEW j \in Keys, (j \in asked[d])'
               PROVE  /\ (previous[d][j] = None)' =>
                            \A e \in Calls : (j \in asked[e] /\ place[e][j] < place[d][j])' => j \in released[e]'
                      /\ (previous[d][j] # None)' =>
                            /\ (j \in asked[previous[d][j]])'
                            /\ \A e \in Calls : (j \in asked[e] /\ place[e][j] < place[d][j])'
                                    => (place[e][j] <= place[previous[d][j]][j])'
    BY DEF Chain
  <2>1. CASE d = c /\ j = k
    BY <2>1, <1>2 DEF TypeOK, Ask, Places, Tails, Chain
  <2>2. CASE ~(d = c /\ j = k)
    <3>1. j \in asked[d] /\ previous'[d][j] = previous[d][j] /\ place'[d][j] = place[d][j]
      BY <2>2 DEF TypeOK, Ask
    <3>2. \A e \in Calls : (j \in asked[e] /\ place[e][j] < place[d][j])' =>
                j \in asked[e] /\ place[e][j] < place[d][j] /\ place'[e][j] = place[e][j]
      BY <3>1, <1>2 DEF TypeOK, Ask, Places
    <3>3. previous[d][j] # None => previous[d][j] \in Calls /\ place'[previous[d][j]][j] = place[previous[d][j]][j]
      BY <3>1, <1>2 DEF TypeOK, Ask, Places, Chain
    <3> QED
      BY <3>1, <3>2, <3>3 DEF TypeOK, Ask, Chain
  <2> QED
    BY <2>1, <2>2
<1>6. InCallOrder'
  BY <1>2 DEF TypeOK, Ask, Places, InCallOrder
<1> QED
  BY <1>1, <1>3, <1>4, <1>5, <1>6

LEMMA GetInv ==
    ASSUME Inv, NEW c \in Calls, NEW k \in Keys, Get(c, k)
    PROVE  Inv'
<1> USE KeysAssumption, NoneAssumption DEF Inv
<1>1. TypeOK'
  BY DEF TypeOK, Get
<1>2. Places' /\ Tails' /\ Chain'
  BY DEF Get, Places, Tails, Chain
<1>3. ASSUME NEW d \in Calls, k \in asked[d], place[d][k] < place[c][k]
      PROVE  k \in released[d]
  <2>1. CASE previous[c][k] = None
    BY <1>3, <2>1 DEF Get, TypeOK, Chain
  <2>2. CASE previous[c][k] # None
    <3> DEFINE p == previous[c][k]
    <3>1. p \in Calls /\ k \in released[p] /\ k \in held[p] /\ k \in asked[p]
      BY <2>2 DEF Get, TypeOK
    <3>2. place[d][k] <= place[p][k]
      BY <1>3, <2>2 DEF Get, TypeOK, Chain
    <3>3. CASE d = p
      BY <3>1, <3>3
    <3>4. CASE d # p
      <4>1. /\ place[d][k] \in Nat /\ place[p][k] \in Nat
            /\ place[d][k] # place[p][k]
        BY <1>3, <3>1, <3>4, PlacesDiffer
      <4>2. place[d][k] < place[p][k]
        BY <3>2, <4>1
      <4> QED
        BY <1>3, <3>1, <4>2 DEF InCallOrder
    <3> QED
      BY <3>3, <3>4
  <2> QED
    BY <2>1, <2>2
<1>4. InCallOrder'
  BY <1>3 DEF TypeOK, Get, InCallOrder
<1> QED
  BY <1>1, <1>2, <1>4

LEMMA ReleaseInv ==
    ASSUME Inv, NEW c \in Calls, NEW k \in Keys, Release(c, k)
    PROVE  Inv'
<1> USE KeysAssumption, NoneAssumption DEF Inv
<1>1. TypeOK'
  BY DEF TypeOK, Release
<1>2. k \in held[c] /\ k \in asked[c] /\ k \notin released[c]
  BY DEF TypeOK, Release
<1>3. Places' /\ Chain'
  BY DEF TypeOK, Release, Places, Chain
<1>4. InCallOrder'
  BY DEF TypeOK, Release, InCallOrder
<1>5. Tails'
  <2>1. CASE tails[k] = c
    <3>1. ASSUME NEW d \in Calls, d # c, k \in asked[d]
          PROVE  k \in released[d]
      <4>1. /\ place[d][k] \in Nat /\ place[c][k] \in Nat
            /\ place[d][k] # place[c][k] /\ place[d][k] <= count[k]
        BY <3>1, <1>2, PlacesDiffer
      <4>2. place[c][k] = count[k]
        BY <2>1, NoneAssumption DEF Tails
      <4>3. place[d][k] < place[c][k]
        BY <4>1, <4>2
      <4> QED
        BY <3>1, <4>3, <1>2 DEF InCallOrder
    <3> QED
      BY <2>1, <3>1 DEF TypeOK, Release, Tails
  <2>2. CASE tails[k] # c
    BY <2>2, <1>2 DEF TypeOK, Release, Tails
  <2> QED
    BY <2>1, <2>2
<1> QED
  BY <1>1, <1>3, <1>4, <1>5

THEOREM Invariance == Spec => []Inv
<1>1. Inv /\ [Next]_vars => Inv'
  <2> SUFFICES ASSUME Inv, [Next]_vars PROVE Inv'
    OBVIOUS
  <2>1. CASE Next
    BY <2>1, AskInv, GetInv, ReleaseInv DEF Next
  <2>2. CASE UNCHANGED vars
    BY <2>2 DEF vars, Inv, TypeOK, Places, Tails, Chain, InCallOrder
  <2> QED
    BY <2>1, <2>2
<1> QED
  BY InitInv, <1>1, PTL DEF Spec

(* "Callers holding the same key run strictly one after another, in call   *)
(* order".                                                                 *)
THEOREM RunsInCallOrder == Spec => []InCallOrder
BY Invariance, PTL DEF Inv

THEOREM RunsOneAtATime == Spec => []OneHolder
<1>1. Inv => OneHolder
  <2> SUFFICES ASSUME Inv, NEW c \in Calls, NEW d \in Calls, NEW k \in Keys,
                      k \in held[c] \ released[c], k \in held[d] \ released[d], c # d
               PROVE  FALSE
    BY DEF OneHolder
  <2>1. k \in asked[c] /\ k \in asked[d]
    BY DEF Inv, TypeOK
  <2>2. place[c][k] \in Nat /\ place[d][k] \in Nat /\ place[c][k] # place[d][k]
    BY <2>1, PlacesDiffer DEF Inv
  <2>3. CASE place[c][k] < place[d][k]
    BY <2>1, <2>3 DEF Inv, InCallOrder
  <2>4. CASE place[d][k] < place[c][k]
    BY <2>1, <2>4 DEF Inv, InCallOrder
  <2> QED
    BY <2>2, <2>3, <2>4
<1> QED
  BY Invariance, <1>1, PTL

(* "Idle keys are dropped, so memory is proportional to the number of      *)
(* paths with work in flight".                                             *)
THEOREM DropsIdleKeys == Spec => []IdleKeysAreDropped
<1>1. Inv => IdleKeysAreDropped
  BY DEF Inv, Tails, IdleKeysAreDropped
<1> QED
  BY Invariance, <1>1, PTL
=============================================================================
