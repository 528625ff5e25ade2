--------------------------- MODULE RunSlots_proofs ---------------------------
(* For any numbers of workers, sessions and runs, and any limit: by how much *)
(* the active runs can pass max_concurrent_runs.                             *)
EXTENDS RunSlots, FiniteSetTheorems, TLAPS

(* The next-state relation keeps the four variables in their types: the      *)
(* active runs exist, and a worker prepares a run or none (Insert, Take,     *)
(* Revive).                                                                  *)
THEOREM SlotsTypeCorrect == Spec => []TypeOK
<1>1. Init => TypeOK
  BY DEF Init, TypeOK
<1>2. TypeOK /\ [Next]_slots => TypeOK'
  <2> SUFFICES ASSUME TypeOK, [Next]_slots PROVE TypeOK'
    OBVIOUS
  <2>1. CASE \E s \in Sessions : Check(s) \/ Abandon(s)
    BY <2>1 DEF TypeOK, Check, Abandon
  <2>2. CASE \E s \in Sessions, r \in Runs : Insert(s, r)
    BY <2>2 DEF TypeOK, Insert
  <2>3. CASE \E R \in SUBSET Runs : Settle(R)
    BY <2>3 DEF TypeOK, Settle
  <2>4. CASE \E w \in Workers : Revive(w) \/ Release(w)
    BY <2>4 DEF TypeOK, Revive, Release
  <2>5. CASE \E w \in Workers, r \in Runs : Take(w, r)
    BY <2>5 DEF TypeOK, Take
  <2>6. CASE UNCHANGED slots
    BY <2>6 DEF TypeOK, slots
  <2> QED
    BY <2>1, <2>2, <2>3, <2>4, <2>5, <2>6 DEF Next
<1> QED
  BY <1>1, <1>2, PTL DEF Spec

(* The sets that are counted are finite.                                     *)
LEMMA SlotsFinite ==
  ASSUME TypeOK
  PROVE  /\ IsFiniteSet(active) /\ IsFiniteSet(launching) /\ IsFiniteSet(SlotsTaken)
         /\ Cardinality(active) \in Nat /\ Cardinality(launching) \in Nat
         /\ Cardinality(SlotsTaken) \in Nat
         /\ Cardinality(Sessions) \in Nat /\ Cardinality(Workers) \in Nat
<1>1. active \subseteq Runs /\ launching \subseteq Sessions /\ SlotsTaken \subseteq Runs
  BY DEF TypeOK, SlotsTaken
<1>2. IsFiniteSet(active) /\ IsFiniteSet(launching) /\ IsFiniteSet(SlotsTaken)
  BY <1>1, FS_Subset, SlotsAssumption
<1> QED
  BY <1>2, FS_CardinalityType, SlotsAssumption

(* The slots are at most the active runs and one run for each worker.        *)
LEMMA SlotsCount ==
  ASSUME TypeOK
  PROVE  Cardinality(SlotsTaken) <= Cardinality(active) + Cardinality(Workers)
<1> DEFINE Prepared == {preparing[w] : w \in Workers}
<1>1. preparing \in Surjection(Workers, Prepared)
  BY DEF Surjection, TypeOK
<1>2. IsFiniteSet(Prepared) /\ Cardinality(Prepared) <= Cardinality(Workers)
  BY <1>1, FS_Surjection, SlotsAssumption
<1>3. IsFiniteSet(active \union Prepared)
      /\ Cardinality(active \union Prepared)
           = Cardinality(active) + Cardinality(Prepared) - Cardinality(active \cap Prepared)
  BY <1>2, SlotsFinite, FS_Union
<1>4. IsFiniteSet(active \cap Prepared) /\ Cardinality(active \cap Prepared) \in Nat
  BY <1>2, FS_Subset, FS_CardinalityType
<1>5. SlotsTaken \subseteq active \union Prepared
  BY DEF SlotsTaken
<1>6. Cardinality(SlotsTaken) <= Cardinality(active \union Prepared)
  BY <1>3, <1>5, FS_Subset
<1>7. Cardinality(Prepared) \in Nat
  BY <1>2, FS_CardinalityType
<1> QED
  BY <1>2, <1>3, <1>4, <1>6, <1>7, SlotsFinite

(* A step that frees slots and ends launches keeps the bound.                *)
LEMMA FewerSlots ==
  ASSUME TypeOK, TypeOK', SlotsBounded,
         SlotsTaken' \subseteq SlotsTaken, launching' \subseteq launching
  PROVE  SlotsBounded'
<1>1. Cardinality(SlotsTaken') <= Cardinality(SlotsTaken)
  BY SlotsFinite, FS_Subset
<1>2. Cardinality(launching') <= Cardinality(launching)
  BY SlotsFinite, FS_Subset
<1>3. Cardinality(SlotsTaken') \in Nat /\ Cardinality(launching') \in Nat
  BY SlotsFinite, FS_Subset, FS_CardinalityType
<1> QED
  BY <1>1, <1>2, <1>3, SlotsFinite, SlotsAssumption DEF SlotsBounded, OvershootBound

(* Slots and launches in progress stay within the bound together: a check    *)
(* that passes leaves MaxConcurrent - 1 active runs at most, an insert turns *)
(* a launch into a slot, and what a worker revives was a slot already        *)
(* (launch_run, run_container).                                              *)
THEOREM SlotsStayBounded == Spec => []SlotsBounded
<1>1. Init => SlotsBounded
  <2> SUFFICES ASSUME Init PROVE SlotsBounded
    OBVIOUS
  <2>1. SlotsTaken = {} /\ launching = {}
    BY DEF Init, SlotsTaken
  <2>2. Cardinality(Sessions) \in Nat /\ Cardinality(Workers) \in Nat
    BY FS_CardinalityType, SlotsAssumption
  <2> QED
    BY <2>1, <2>2, FS_EmptySet, SlotsAssumption DEF SlotsBounded, OvershootBound
<1>2. TypeOK /\ TypeOK' /\ SlotsBounded /\ [Next]_slots => SlotsBounded'
  <2> SUFFICES ASSUME TypeOK, TypeOK', SlotsBounded, [Next]_slots PROVE SlotsBounded'
    OBVIOUS
  <2>1. ASSUME NEW s \in Sessions, Check(s) PROVE SlotsBounded'
    <3>1. SlotsTaken' = SlotsTaken
      BY <2>1 DEF Check, SlotsTaken
    <3>2. Cardinality(active) <= MaxConcurrent - 1
      BY <2>1, SlotsFinite, SlotsAssumption DEF Check, Full
    <3>3. Cardinality(launching') <= Cardinality(Sessions)
          /\ Cardinality(launching') \in Nat
      BY FS_Subset, FS_CardinalityType, SlotsAssumption DEF TypeOK
    <3> QED
      BY <3>1, <3>2, <3>3, SlotsCount, SlotsFinite, SlotsAssumption
      DEF SlotsBounded, OvershootBound
  <2>2. ASSUME NEW s \in Sessions, Abandon(s) PROVE SlotsBounded'
    BY <2>2, FewerSlots DEF Abandon, SlotsTaken
  <2>3. ASSUME NEW s \in Sessions, NEW r \in Runs, Insert(s, r) PROVE SlotsBounded'
    <3>1. SlotsTaken' \subseteq SlotsTaken \union {r}
      BY <2>3 DEF Insert, SlotsTaken
    <3>2. Cardinality(SlotsTaken') <= Cardinality(SlotsTaken) + 1
      <4>1. IsFiniteSet(SlotsTaken \union {r})
            /\ Cardinality(SlotsTaken \union {r}) <= Cardinality(SlotsTaken) + 1
        <5>1. IsFiniteSet(SlotsTaken)
          BY SlotsFinite
        <5>2. IsFiniteSet(SlotsTaken \union {r})
              /\ Cardinality(SlotsTaken \union {r})
                   = IF r \in SlotsTaken THEN Cardinality(SlotsTaken)
                     ELSE Cardinality(SlotsTaken) + 1
          BY <5>1, FS_AddElement
        <5> QED
          BY <5>2, SlotsFinite
      <4>2. Cardinality(SlotsTaken') <= Cardinality(SlotsTaken \union {r})
            /\ Cardinality(SlotsTaken') \in Nat
        BY <3>1, <4>1, FS_Subset, FS_CardinalityType
      <4>3. Cardinality(SlotsTaken \union {r}) \in Nat
        BY <4>1, FS_CardinalityType
      <4> QED
        BY <4>1, <4>2, <4>3, SlotsFinite
    <3>3. Cardinality(launching') = Cardinality(launching) - 1
      BY <2>3, SlotsFinite, FS_RemoveElement DEF Insert
    <3>4. Cardinality(SlotsTaken') \in Nat
      BY <3>1, SlotsFinite, FS_AddElement, FS_Subset, FS_CardinalityType
    <3> QED
      BY <3>2, <3>3, <3>4, SlotsFinite, SlotsAssumption DEF SlotsBounded, OvershootBound
  <2>4. ASSUME NEW R \in SUBSET Runs, Settle(R) PROVE SlotsBounded'
    BY <2>4, FewerSlots DEF Settle, SlotsTaken
  <2>5. ASSUME NEW w \in Workers, NEW r \in Runs, Take(w, r) PROVE SlotsBounded'
    <3>1. SlotsTaken' \subseteq SlotsTaken /\ launching' = launching
      BY <2>5 DEF Take, SlotsTaken, TypeOK
    <3> QED
      BY <3>1, FewerSlots
  <2>6. ASSUME NEW w \in Workers, Revive(w) PROVE SlotsBounded'
    <3>1. preparing[w] # NoRun
      BY <2>6, SlotsAssumption DEF Revive, TypeOK
    <3>2. SlotsTaken' \subseteq SlotsTaken /\ launching' = launching
      BY <2>6, <3>1 DEF Revive, SlotsTaken, TypeOK
    <3> QED
      BY <3>2, FewerSlots
  <2>7. ASSUME NEW w \in Workers, Release(w) PROVE SlotsBounded'
    <3>1. SlotsTaken' \subseteq SlotsTaken /\ launching' = launching
      BY <2>7 DEF Release, SlotsTaken, TypeOK
    <3> QED
      BY <3>1, FewerSlots
  <2>8. CASE UNCHANGED slots
    BY <2>8, FewerSlots DEF slots, SlotsTaken
  <2> QED
    BY <2>1, <2>2, <2>3, <2>4, <2>5, <2>6, <2>7, <2>8 DEF Next
<1> QED
  BY <1>1, <1>2, SlotsTypeCorrect, PTL DEF Spec

(* The limit of the configuration is passed by the launches and the workers  *)
(* in flight at most: MaxConcurrent - 1 + |Sessions| + |Workers| active      *)
(* runs.                                                                     *)
THEOREM ActiveStaysWithinOvershoot == Spec => []ActiveWithinOvershoot
<1>1. TypeOK /\ SlotsBounded => ActiveWithinOvershoot
  <2> SUFFICES ASSUME TypeOK, SlotsBounded PROVE ActiveWithinOvershoot
    OBVIOUS
  <2>1. active \subseteq SlotsTaken
    BY DEF SlotsTaken
  <2>2. Cardinality(active) <= Cardinality(SlotsTaken)
    BY <2>1, SlotsFinite, FS_Subset
  <2> QED
    BY <2>2, SlotsFinite, SlotsAssumption
    DEF SlotsBounded, ActiveWithinOvershoot, OvershootBound
<1> QED
  BY <1>1, SlotsTypeCorrect, SlotsStayBounded, PTL
=============================================================================
