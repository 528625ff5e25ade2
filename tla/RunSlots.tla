------------------------------ MODULE RunSlots ------------------------------
(***************************************************************************)
(* What the launch gate promises about max_concurrent_runs, without the    *)
(* life of a run: a launch counts the active runs of the entity, goes on   *)
(* with other work, and inserts its row later; a worker that prepares a    *)
(* container puts its run to "running" whatever happened to it meanwhile.  *)
(* AgentRun implements this specification.                                 *)
(***************************************************************************)
EXTENDS Naturals, FiniteSets

CONSTANTS Workers, Sessions, Runs, MaxConcurrent, NoRun

ASSUME SlotsAssumption ==
  /\ IsFiniteSet(Workers) /\ IsFiniteSet(Sessions) /\ IsFiniteSet(Runs)
  /\ MaxConcurrent \in Nat \ {0}
  /\ NoRun \notin Runs

VARIABLES
  active,     \* runs that are pending, preparing or running
  inserted,   \* runs that exist
  launching,  \* sessions whose launch has passed the gate and not committed
  preparing   \* worker -> the run it is about to set to running, or NoRun

slots == <<active, inserted, launching, preparing>>

TypeOK ==
  /\ active \subseteq inserted /\ inserted \subseteq Runs
  /\ launching \subseteq Sessions
  /\ preparing \in [Workers -> Runs \union {NoRun}]

Init ==
  /\ active = {} /\ inserted = {} /\ launching = {}
  /\ preparing = [w \in Workers |-> NoRun]

\* The plausible slip: ">" for ">=".
FullOffByOne == Cardinality(active) > MaxConcurrent

\* The gate: active_count >= max_concurrent_runs refuses.
Full == Cardinality(active) >= MaxConcurrent

Check(s) ==
  /\ s \notin launching /\ ~ Full
  /\ launching' = launching \union {s}
  /\ UNCHANGED <<active, inserted, preparing>>

\* The plausible slip: the count takes a row that was never committed.
InsertUnrecorded(s, r) ==
  /\ s \in launching /\ r \notin inserted
  /\ launching' = launching \ {s}
  /\ active' = active \union {r}
  /\ UNCHANGED <<inserted, preparing>>

Insert(s, r) ==
  /\ s \in launching /\ r \notin inserted
  /\ launching' = launching \ {s}
  /\ inserted' = inserted \union {r}
  /\ active' = active \union {r}
  /\ UNCHANGED preparing

Abandon(s) ==
  /\ s \in launching
  /\ launching' = launching \ {s}
  /\ UNCHANGED <<active, inserted, preparing>>

\* Cancelled, rescued, finished: the run stops counting.
Settle(R) ==
  /\ active' = active \ R
  /\ UNCHANGED <<inserted, launching, preparing>>

Take(w, r) ==
  /\ r \in active /\ preparing[w] = NoRun
  /\ preparing' = [preparing EXCEPT ![w] = r]
  /\ UNCHANGED <<active, inserted, launching>>

Revive(w) ==
  /\ preparing[w] \in inserted
  /\ active' = active \union {preparing[w]}
  /\ preparing' = [preparing EXCEPT ![w] = NoRun]
  /\ UNCHANGED <<inserted, launching>>

Release(w) ==
  /\ preparing' = [preparing EXCEPT ![w] = NoRun]
  /\ UNCHANGED <<active, inserted, launching>>

Next ==
  \/ \E s \in Sessions : Check(s) \/ Abandon(s) \/ \E r \in Runs : Insert(s, r)
  \/ \E R \in SUBSET Runs : Settle(R)
  \/ \E w \in Workers : Revive(w) \/ Release(w) \/ \E r \in Runs : Take(w, r)

Spec == Init /\ [][Next]_slots
-----------------------------------------------------------------------------
(* By how much max_concurrent_runs can be passed.                          *)

OvershootBound == MaxConcurrent - 1 + Cardinality(Sessions) + Cardinality(Workers)

\* The active runs stay within the configured limit plus what is in flight:
\* each launch may have counted before the others commit, and each worker may
\* put back to running a run that was cancelled while it was prepared.
ActiveWithinOvershoot == Cardinality(active) <= OvershootBound

\* Why: a slot is an active run or one a worker can make active again, and no
\* step but a successful check makes slots plus launches in progress grow.
SlotsTaken == active \union ({preparing[w] : w \in Workers} \ {NoRun})
SlotsBounded == Cardinality(SlotsTaken) + Cardinality(launching) <= OvershootBound
=============================================================================
