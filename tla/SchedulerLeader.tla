--------------------------- MODULE SchedulerLeader ---------------------------
(***************************************************************************)
(* Which backend process runs the scheduled jobs.  Every process that      *)
(* starts tries once to set a key in Redis that expires after TTL; the one *)
(* that sets it starts APScheduler and renews the key from a job of its    *)
(* own; a process that shuts down stops its scheduler and deletes the key. *)
(* Renewal and release read the key first and act on it in a second call.  *)
(*                                                                         *)
(* A token is unique to one attempt: the one a dead process leaves in the  *)
(* key is Orphan, which no process recognises.  Time is counted in the     *)
(* intervals of the renewal job; TTL is three of them.                     *)
(***************************************************************************)
EXTENDS Integers

CONSTANTS
  Processes,  \* the uvicorn workers
  TTL,        \* SCHEDULER_LEADER_TTL_SECONDS, in renewal intervals
  Free,       \* the key does not exist
  Orphan      \* the key holds the token of a process that is gone

ASSUME LeaderAssumption ==
  /\ TTL \in Nat \ {0}
  /\ Free \notin Processes /\ Orphan \notin Processes /\ Free # Orphan

VARIABLES
  key,   \* SCHEDULER_LEADER_LOCK_KEY
  ttl,   \* what is left before it expires
  pc,    \* process -> where start, renewal or stop is
  lag,   \* process -> time since it last set or extended the key, TTL and more are one
  late   \* some process let TTL pass with the lock in its flag: history only

vars == <<key, ttl, pc, lag, late>>

-----------------------------------------------------------------------------
\* The scheduler object runs, and runs the jobs.
Running == {p \in Processes : pc[p] \in {"leading", "renewing"}}

\* _scheduler_lock_acquired
Holding == {p \in Processes : pc[p] \in {"leading", "renewing", "stopping", "deleting"}}

TypeOK ==
  /\ key \in Processes \union {Free, Orphan}
  /\ ttl \in 0..TTL
  /\ pc \in [Processes -> {"starting", "follower", "leading", "renewing",
                           "stopping", "deleting", "down"}]
  /\ lag \in [Processes -> 0..TTL]
  /\ late \in BOOLEAN

Init ==
  /\ key = Free /\ ttl = 0
  /\ pc = [p \in Processes |-> "starting"]
  /\ lag = [p \in Processes |-> 0]
  /\ late = FALSE

Goto(p, l) == pc' = [pc EXCEPT ![p] = l]

-----------------------------------------------------------------------------
(* start_scheduler                                                         *)

\* The plausible slip: SET without NX.
LockFreeIgnored == TRUE

LockFree == key = Free

\* The plausible slip: SET without EX, a key without a lifetime.
LifetimeForgotten == -1

Lifetime == TTL

\* SET key token NX EX ttl; then the jobs are registered and the scheduler
\* starts, or that raises and the lock is released.
Acquire(p) ==
  /\ pc[p] = "starting" /\ LockFree
  /\ key' = p /\ ttl' = Lifetime
  /\ lag' = [lag EXCEPT ![p] = 0]
  /\ Goto(p, "leading") \/ Goto(p, "stopping")
  /\ UNCHANGED late

\* "leader lock already held, scheduler disabled in this worker": no retry.
StandBy(p) ==
  /\ pc[p] = "starting" /\ ~ LockFree
  /\ Goto(p, "follower")
  /\ UNCHANGED <<key, ttl, lag, late>>

-----------------------------------------------------------------------------
(* _renew_scheduler_leader_lock                                            *)

RenewRead(p) ==
  /\ pc[p] = "leading" /\ key = p
  /\ Goto(p, "renewing")
  /\ UNCHANGED <<key, ttl, lag, late>>

\* EXPIRE of a key that is gone does nothing; of a key that is another's, it
\* extends that one.
RenewExpire(p) ==
  /\ pc[p] = "renewing"
  /\ ttl' = IF key = Free THEN 0 ELSE TTL
  /\ lag' = [lag EXCEPT ![p] = 0]
  /\ Goto(p, "leading")
  /\ UNCHANGED <<key, late>>

\* The plausible slip: the loser forgets to shut its scheduler down.
LockLostKeepsRunning(p) ==
  /\ pc[p] = "leading" /\ key # p
  /\ UNCHANGED vars

\* "leader lock lost, stopping scheduler in this worker": it stands by.
LockLost(p) ==
  /\ pc[p] = "leading" /\ key # p
  /\ Goto(p, "follower")
  /\ UNCHANGED <<key, ttl, lag, late>>

-----------------------------------------------------------------------------
(* stop_scheduler                                                          *)

\* The scheduler is shut down before the key is looked at.
Stop(p) ==
  /\ \/ p \in Running /\ Goto(p, "stopping")
     \/ pc[p] = "follower" /\ Goto(p, "down")
  /\ UNCHANGED <<key, ttl, lag, late>>

ReleaseRead(p) ==
  /\ pc[p] = "stopping"
  /\ Goto(p, IF key = p THEN "deleting" ELSE "down")
  /\ UNCHANGED <<key, ttl, lag, late>>

\* DEL, whoever the key belongs to by now.
ReleaseDelete(p) ==
  /\ pc[p] = "deleting"
  /\ key' = Free /\ ttl' = 0
  /\ Goto(p, "down")
  /\ UNCHANGED <<lag, late>>

-----------------------------------------------------------------------------
(* The environment.                                                        *)

Crash(p) ==
  /\ pc[p] # "down"
  /\ key' = IF key = p THEN Orphan ELSE key
  /\ Goto(p, "down")
  /\ UNCHANGED <<ttl, lag, late>>

Boot(p) ==
  /\ pc[p] = "down"
  /\ Goto(p, "starting")
  /\ lag' = [lag EXCEPT ![p] = 0]
  /\ UNCHANGED <<key, ttl, late>>

Tick ==
  /\ ttl' = IF ttl > 0 THEN ttl - 1 ELSE ttl
  /\ key' = IF ttl' = 0 THEN Free ELSE key
  /\ lag' = [p \in Processes |-> IF p \in Holding /\ lag[p] < TTL THEN lag[p] + 1
                                 ELSE lag[p]]
  /\ late' = (late \/ \E p \in Holding : lag'[p] = TTL)
  /\ UNCHANGED pc

ProcessStep(p) ==
  \/ Acquire(p) \/ StandBy(p)
  \/ RenewRead(p) \/ RenewExpire(p) \/ LockLost(p)
  \/ Stop(p) \/ ReleaseRead(p) \/ ReleaseDelete(p)
  \/ Crash(p) \/ Boot(p)

Next == Tick \/ \E p \in Processes : ProcessStep(p)

Spec == Init /\ [][Next]_vars
-----------------------------------------------------------------------------
(* Safety.                                                                 *)

\* Two schedulers run the jobs at once only after some process let the whole
\* TTL pass between two renewals, or during its release: the reads that
\* renewal and release act on later are safe while every process is prompt.
OneSchedulerUnlessLate ==
  late \/ \A p, q \in Running : p = q

-----------------------------------------------------------------------------
(* Liveness.  A process that starts, renews or stops gets on with it, and  *)
(* time passes; nothing makes a process start again.                       *)

Fairness ==
  /\ WF_vars(Tick)
  /\ \A p \in Processes :
       /\ WF_vars(Acquire(p) \/ StandBy(p))
       /\ WF_vars(RenewRead(p) \/ LockLost(p)) /\ WF_vars(RenewExpire(p))
       /\ WF_vars(ReleaseRead(p)) /\ WF_vars(ReleaseDelete(p))

FairSpec == Spec /\ Fairness

\* A scheduler that lost its lock does not run on beside the new one.
LostLockStopsScheduler ==
  \A p \in Processes : (p \in Running /\ key # p) ~> p \notin Running

\* The key never stays with a process that is gone: a later start gets it.
OrphanKeyExpires == key = Orphan ~> key # Orphan

\* "uvicorn demarre 4 workers - un seul elu leader pour le scheduler" (docs,
\* stack.md): once all the processes are up for good, one of them schedules.
OneLeaderElected ==
  <>[](\A p \in Processes : pc[p] # "down") => []<>(Running # {})
=============================================================================
