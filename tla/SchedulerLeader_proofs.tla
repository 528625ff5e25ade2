------------------------ MODULE SchedulerLeader_proofs ------------------------
(* For any number of processes and any lifetime of the key: one scheduler at *)
(* a time while every process renews before the key expires.                 *)
EXTENDS SchedulerLeader, TLAPS

(* The inductive invariant: until some process is late, the one whose flag   *)
(* says it holds the lock is the owner of the key, and the key lives as long *)
(* as that process still has to renew it.                                    *)
LeaseInv ==
  ~ late => \A p \in Holding : key = p /\ ttl = TTL - lag[p] /\ lag[p] < TTL

(* Every step keeps the key, its lifetime and the processes in their types:  *)
(* the lifetime stops at zero, where the key goes.                           *)
THEOREM LeaderTypeCorrect == Spec => []TypeOK
<1>1. Init => TypeOK
  <2> SUFFICES ASSUME Init PROVE TypeOK
    OBVIOUS
  <2>1. 0 \in 0..TTL
    BY LeaderAssumption
  <2>2. key \in Processes \union {Free, Orphan} /\ ttl \in 0..TTL /\ late \in BOOLEAN
    BY <2>1 DEF Init
  <2>3. pc \in [Processes -> {"starting", "follower", "leading", "renewing",
                              "stopping", "deleting", "down"}]
    BY DEF Init
  <2>4. lag \in [Processes -> 0..TTL]
    BY <2>1 DEF Init
  <2> QED
    BY <2>2, <2>3, <2>4 DEF TypeOK
<1>2. TypeOK /\ [Next]_vars => TypeOK'
  <2> SUFFICES ASSUME TypeOK, [Next]_vars PROVE TypeOK'
    OBVIOUS
  <2>1. CASE Tick
    BY <2>1, LeaderAssumption DEF TypeOK, Tick, Holding
  <2>2. ASSUME NEW p \in Processes, ProcessStep(p) PROVE TypeOK'
    <3>1. CASE Acquire(p) \/ StandBy(p)
      BY <3>1, LeaderAssumption DEF TypeOK, Acquire, Lifetime, StandBy, Goto
    <3>2. CASE RenewRead(p) \/ LockLost(p)
      BY <3>2 DEF TypeOK, RenewRead, LockLost, Goto
    <3>3. CASE RenewExpire(p)
      BY <3>3, LeaderAssumption DEF TypeOK, RenewExpire, Goto
    <3>4. CASE Stop(p) \/ ReleaseRead(p)
      BY <3>4 DEF TypeOK, Stop, ReleaseRead, Goto
    <3>5. CASE ReleaseDelete(p) \/ Crash(p) \/ Boot(p)
      BY <3>5, LeaderAssumption DEF TypeOK, ReleaseDelete, Crash, Boot, Goto
    <3> QED
      BY <2>2, <3>1, <3>2, <3>3, <3>4, <3>5 DEF ProcessStep
  <2>3. CASE UNCHANGED vars
    BY <2>3 DEF TypeOK, vars
  <2> QED
    BY <2>1, <2>2, <2>3 DEF Next
<1> QED
  BY <1>1, <1>2, PTL DEF Spec

(* A lock in somebody's flag means that nobody else holds one: the start of  *)
(* another process finds the key set, and what a renewal or a release read   *)
(* still holds when it acts.                                                 *)
LEMMA LeaseStep ==
  ASSUME TypeOK, LeaseInv, [Next]_vars
  PROVE  LeaseInv'
<1> USE LeaderAssumption
<1>1. CASE late'
  BY <1>1 DEF LeaseInv
<1>2. CASE ~ late'
  <2>1. ~ late
    BY <1>2 DEF TypeOK, vars, Next, ProcessStep, Tick, Acquire, Lifetime, StandBy, RenewRead,
      RenewExpire, LockLost, Stop, ReleaseRead, ReleaseDelete, Crash, Boot
  <2>2. \A p \in Holding : key = p /\ ttl = TTL - lag[p] /\ lag[p] < TTL
    BY <2>1 DEF LeaseInv
  <2>3. CASE Tick
    <3>1. ASSUME NEW p \in Holding' PROVE key' = p /\ ttl' = TTL - lag'[p] /\ lag'[p] < TTL
      <4>1. p \in Holding /\ p \in Processes /\ lag[p] \in 0..TTL
        BY <2>3 DEF Tick, Holding, TypeOK
      <4>2. key = p /\ ttl = TTL - lag[p] /\ lag[p] < TTL
        BY <2>2, <4>1
      <4>3. lag'[p] = lag[p] + 1
        BY <2>3, <4>1, <4>2 DEF Tick
      <4>4. lag'[p] # TTL
        BY <1>2, <2>3, <4>1 DEF Tick
      <4>5. ttl' = ttl - 1 /\ ttl' # 0
        BY <2>3, <4>1, <4>2, <4>3, <4>4 DEF Tick, TypeOK
      <4> QED
        BY <2>3, <4>1, <4>2, <4>3, <4>4, <4>5 DEF Tick
    <3> QED
      BY <3>1 DEF LeaseInv
  <2>4. ASSUME NEW p \in Processes, ProcessStep(p) PROVE LeaseInv'
    <3>1. CASE Acquire(p)
      <4>1. Holding = {}
        BY <2>2, <3>1 DEF Acquire, Lifetime, LockFree, Holding
      <4>2. Holding' \subseteq {p}
        BY <3>1, <4>1 DEF Acquire, Lifetime, Goto, Holding, TypeOK
      <4> QED
        BY <3>1, <4>2 DEF Acquire, Lifetime, LeaseInv, TypeOK
    <3>2. CASE RenewExpire(p)
      <4>1. p \in Holding /\ key = p
        BY <2>2, <3>2 DEF RenewExpire, Holding
      <4>2. Holding = {p}
        BY <2>2, <4>1
      <4>3. Holding' = {p}
        BY <3>2, <4>2 DEF RenewExpire, Goto, Holding, TypeOK
      <4> QED
        BY <3>2, <4>1, <4>3 DEF RenewExpire, LeaseInv, TypeOK
    <3>3. CASE ReleaseDelete(p)
      <4>1. p \in Holding
        BY <3>3 DEF ReleaseDelete, Holding
      <4>2. Holding \subseteq {p}
        BY <2>2, <4>1
      <4>3. Holding' = {}
        BY <3>3, <4>2 DEF ReleaseDelete, Goto, Holding, TypeOK
      <4> QED
        BY <4>3 DEF LeaseInv
    <3>4. CASE Crash(p)
      <4>1. Holding' = Holding \ {p}
        BY <3>4 DEF Crash, Goto, Holding, TypeOK
      <4>2. \A q \in Holding' : key' = key
        BY <2>2, <3>4, <4>1 DEF Crash
      <4> QED
        BY <2>2, <3>4, <4>1, <4>2 DEF Crash, LeaseInv
    <3>5. CASE Boot(p)
      <4>1. Holding' = Holding /\ p \notin Holding
        BY <3>5 DEF Boot, Goto, Holding, TypeOK
      <4>2. \A q \in Holding : lag'[q] = lag[q]
        BY <3>5, <4>1 DEF Boot, Holding, TypeOK
      <4> QED
        BY <2>2, <3>5, <4>1, <4>2 DEF Boot, LeaseInv
    <3>6. CASE StandBy(p) \/ RenewRead(p) \/ LockLost(p) \/ Stop(p) \/ ReleaseRead(p)
      <4>1. Holding' \subseteq Holding
        BY <3>6 DEF StandBy, RenewRead, LockLost, Stop, ReleaseRead, Goto, Holding,
                    Running, TypeOK
      <4>2. key' = key /\ ttl' = ttl /\ lag' = lag
        BY <3>6 DEF StandBy, RenewRead, LockLost, Stop, ReleaseRead
      <4> QED
        BY <2>2, <4>1, <4>2 DEF LeaseInv
    <3> QED
      BY <2>4, <3>1, <3>2, <3>3, <3>4, <3>5, <3>6 DEF ProcessStep
  <2>5. CASE UNCHANGED vars
    BY <2>2, <2>5 DEF vars, LeaseInv, Holding
  <2> QED
    BY <2>3, <2>4, <2>5 DEF Next
<1> QED
  BY <1>1, <1>2

(* Two schedulers run the jobs at once only after a process was late         *)
(* (_renew_scheduler_leader_lock, _release_scheduler_leader_lock).           *)
THEOREM OneScheduler == Spec => []OneSchedulerUnlessLate
<1>1. Init => LeaseInv
  BY DEF Init, LeaseInv, Holding
<1>2. TypeOK /\ LeaseInv /\ [Next]_vars => LeaseInv'
  BY LeaseStep
<1>3. LeaseInv => OneSchedulerUnlessLate
  BY DEF LeaseInv, OneSchedulerUnlessLate, Running, Holding
<1> QED
  BY <1>1, <1>2, <1>3, LeaderTypeCorrect, PTL DEF Spec
=============================================================================
