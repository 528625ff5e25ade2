---------------------------- MODULE AgentRun_proofs ----------------------------
(* For any number of workers, requests and runs and any limit: type          *)
(* correctness, one worker per run, what a merge presupposes, which ended    *)
(* runs stay ended, and how many are active at one time.                     *)
EXTENDS AgentRun, FiniteSetTheorems, TLAPS

-----------------------------------------------------------------------------
(* The inductive invariant, in four parts.                                   *)

Taken(r) == worker[r] # NoWorker

\* A request that has read a run has read an inserted one; an approval has
\* read one that a worker took.
RequestInv ==
  \A s \in Sessions :
    /\ sess[s].op \in {"retry", "cancel", "approve", "merged"} =>
         sess[s].run \in Runs /\ status[sess[s].run] # "absent"
    /\ sess[s].op \in {"approve", "merged"} =>
         sess[s].seen \in Decided /\ Taken(sess[s].run)

\* What the status says of worker_id and of the rest, and what callbacks and
\* rescue rest on.
TakenInv ==
  /\ \A r \in Runs :
       /\ status[r] \in {"absent", "pending"} => ~ Taken(r) /\ phase[r] = "started"
       /\ status[r] \in {"preparing", "running"} \union Decided => Taken(r)
       /\ status[r] = "absent" => pr[r] = 0
  /\ \A r \in callbacks \union rescue : Taken(r)

\* A worker that claims holds a pending row, one that executes has signed it,
\* and no two workers hold one run.
WorkerInv ==
  /\ \A w \in Workers :
       /\ wpc[w] \in {"idle", "down"} <=> wrun[w] = 0
       /\ wpc[w] = "claiming" => status[wrun[w]] = "pending"
       /\ wpc[w] \in Executing => worker[wrun[w]] = w
  /\ \A v, w \in Workers : wrun[v] = wrun[w] /\ wrun[v] # 0 => v = w

\* Enough to prove the types.
BaseInv == TypeOK /\ RequestInv /\ TakenInv /\ WorkerInv

\* An original run has no pull request before its callback, and nothing
\* touches its gates after it.
OriginalInv ==
  /\ \A r \in Runs : parent[r] = 0 =>
       /\ phase[r] = "started" => pr[r] = 0
       /\ phase[r] # "started" => Holders(r) = {} /\ r \notin callbacks
       /\ status[r] \in Decided /\ pr[r] # 0 => "hard" \notin gates[r]
  /\ \A r \in callbacks : Holders(r) = {}
  /\ \A s \in Sessions : sess[s].op \in {"approve", "merged"} =>
       LET r == sess[s].run IN
       /\ pr[r] # 0
       /\ parent[r] = 0 => phase[r] # "started" /\ "hard" \notin gates[r]
  /\ \A p \in Runs : mergedBy[p] # 0 => status[mergedBy[p]] # "absent"

\* A pull request belongs to the run it is named after, and once merged it
\* stays merged, by the same run.
PullRequestInv ==
  /\ \A r \in Runs : pr[r] # 0 => pr[pr[r]] = pr[r]
  /\ \A p \in Runs : mergedBy[p] # 0 => prState[p] = "merged" /\ pr[p] = p
  /\ \A s \in Sessions : sess[s].op = "merged" =>
       mergedBy[pr[sess[s].run]] = sess[s].run
  /\ \A r \in Runs : phase[r] = "post_merge" => pr[r] # 0

IInv == BaseInv /\ OriginalInv /\ PullRequestInv
           /\ OriginalMergedAfterGates /\ PostMergeIsMerged

(* The statuses spelled out, and 0 for no run.                               *)
LEMMA LiteralTypes ==
  /\ Status = {"absent", "pending", "preparing", "running", "awaiting_human", "completed",
               "failed", "cancelled", "rejected"}
  /\ Runs \subseteq 0..MaxRuns /\ 0 \in 0..MaxRuns /\ 0 \notin Runs
BY ConstantsAssumption DEF Runs, Status, Active, Decided, Dead

(* A column that is not 0 names a run.                                       *)
LEMMA RunNumbers == \A n \in 0..MaxRuns : n # 0 => n \in Runs
BY DEF Runs

(* The columns of a row that name a run do.                                  *)
LEMMA RunColumns ==
  ASSUME TypeOK, NEW r \in Runs
  PROVE  (pr[r] # 0 => pr[r] \in Runs) /\ (mergedBy[r] # 0 => mergedBy[r] \in Runs)
BY RunNumbers DEF TypeOK

(* A worker that is neither idle nor down has a run in its hands.            *)
LEMMA WorkerHasRun ==
  ASSUME BaseInv, NEW w \in Workers, wpc[w] \notin {"idle", "down"}
  PROVE  wrun[w] \in Runs
BY DEF BaseInv, TypeOK, WorkerInv, Runs

(* A request past its first read has read a run.                             *)
LEMMA RequestHasRun ==
  ASSUME BaseInv, NEW s \in Sessions,
         sess[s].op \in {"retry", "cancel", "approve", "merged"}
  PROVE  sess[s].run \in Runs
BY DEF BaseInv, RequestInv

(* Every step keeps the columns, the requests and the workers in their       *)
(* types.                                                                    *)
LEMMA TypeStep ==
  ASSUME BaseInv, [Next]_vars
  PROVE  TypeOK'
<1> TypeOK
  BY DEF BaseInv
<1>1. ASSUME NEW s \in Sessions, LaunchCheck(s) PROVE TypeOK'
  BY <1>1, LiteralTypes DEF LaunchCheck, Request, TypeOK, runVars, prVars, wVars
<1>2. ASSUME NEW s \in Sessions, LaunchCommit(s) PROVE TypeOK'
  BY <1>2, LiteralTypes
  DEF LaunchCommit, Insert, NoRequest, Unused, TypeOK, prVars, wVars
<1>3. ASSUME NEW s \in Sessions, NEW r \in Runs, RetryCheck(s, r) PROVE TypeOK'
  BY <1>3, LiteralTypes DEF RetryCheck, Request, TypeOK, runVars, prVars, wVars
<1>4. ASSUME NEW s \in Sessions, RetryCommit(s) PROVE TypeOK'
  BY <1>4, LiteralTypes, RequestHasRun
  DEF RetryCommit, Insert, NoRequest, Unused, TypeOK, prVars, wVars
<1>5. ASSUME NEW s \in Sessions, RequestFails(s) PROVE TypeOK'
  BY <1>5, LiteralTypes DEF RequestFails, NoRequest, TypeOK, runVars, prVars, wVars
<1>6. ASSUME NEW s \in Sessions, NEW r \in Runs, CancelLoad(s, r) PROVE TypeOK'
  BY <1>6, LiteralTypes DEF CancelLoad, Request, TypeOK, runVars, prVars, wVars
<1>7. ASSUME NEW s \in Sessions, CancelCommit(s) PROVE TypeOK'
  BY <1>7, LiteralTypes, RequestHasRun
  DEF CancelCommit, NoRequest, TypeOK, prVars, wVars
<1>8. ASSUME NEW s \in Sessions, NEW r \in Runs, ApproveLoad(s, r) PROVE TypeOK'
  BY <1>8, LiteralTypes DEF ApproveLoad, Request, TypeOK, runVars, prVars, wVars
<1>9. ASSUME NEW s \in Sessions, ApproveMerge(s) PROVE TypeOK'
  <2> DEFINE r == sess[s].run
             p == pr[r]
  <2>1. r \in Runs /\ p \in 0..MaxRuns
    BY <1>9, RequestHasRun DEF ApproveMerge, TypeOK
  <2>2. /\ prState' = [prState EXCEPT ![p] = "merged"]
        /\ mergedBy' = [mergedBy EXCEPT ![p] = r]
    BY <1>9 DEF ApproveMerge
  <2> HIDE DEF p
  <2>3. prState' \in [Runs -> {"none", "open", "closed", "merged"}]
    BY <2>2 DEF TypeOK
  <2>4. mergedBy' \in [Runs -> 0..MaxRuns]
    BY <2>2 DEF TypeOK
  <2>5. sess' \in [Sessions -> [op : {"idle", "launch", "retry", "cancel", "approve", "merged"},
                                run : 0..MaxRuns, seen : Status]]
    BY <1>9 DEF ApproveMerge, TypeOK
  <2> QED
    BY <1>9, <2>3 DEF ApproveMerge, TypeOK, runVars, wVars
<1>10. ASSUME NEW s \in Sessions, ApproveCommit(s) PROVE TypeOK'
  BY <1>10, LiteralTypes, RequestHasRun
  DEF ApproveCommit, NoRequest, TypeOK, prVars, wVars
<1>11. ASSUME NEW r \in Runs, Reject(r) PROVE TypeOK'
  BY <1>11, LiteralTypes DEF Reject, ClosePR, TypeOK, wVars
<1>12. ASSUME NEW w \in Workers, ClaimSelect(w) PROVE TypeOK'
  BY <1>12, LiteralTypes DEF ClaimSelect, Claimable, Pending, TypeOK, runVars, prVars
<1>13. ASSUME NEW w \in Workers, ClaimCommit(w) PROVE TypeOK'
  BY <1>13, LiteralTypes, WorkerHasRun DEF ClaimCommit, TypeOK, prVars, Executing
<1>14. ASSUME NEW w \in Workers, PrepareFails(w) PROVE TypeOK'
  BY <1>14, LiteralTypes DEF PrepareFails, GoIdle, TypeOK, runVars, prVars
<1>15. ASSUME NEW w \in Workers, StartContainer(w) PROVE TypeOK'
  BY <1>15, LiteralTypes, WorkerHasRun DEF StartContainer, TypeOK, prVars, Executing
<1>16. ASSUME NEW w \in Workers, ContainerError(w) PROVE TypeOK'
  BY <1>16, LiteralTypes, WorkerHasRun DEF ContainerError, GoIdle, TypeOK, prVars
<1>17. ASSUME NEW w \in Workers, ContainerExit(w) PROVE TypeOK'
  <2> DEFINE r == wrun[w]
  <2>1. r \in Runs
    BY <1>17, WorkerHasRun DEF ContainerExit
  <2>2. PICK rep \in {"usable", "failed"}, opened, succeeded \in BOOLEAN :
          /\ report' = [report EXCEPT ![r] = rep]
          /\ reportedPR' = [reportedPR EXCEPT ![r] = opened]
          /\ prState' = IF opened THEN [prState EXCEPT ![r] = "open"] ELSE prState
          /\ status' = [status EXCEPT ![r] =
                          IF succeeded THEN "completed" ELSE "failed"]
    BY <1>17 DEF ContainerExit
  <2>3. /\ report' \in [Runs -> {"none", "usable", "failed"}]
        /\ reportedPR' \in [Runs -> BOOLEAN]
    BY <2>2 DEF TypeOK
  <2>4. /\ prState' \in [Runs -> {"none", "open", "closed", "merged"}]
        /\ status' \in [Runs -> Status]
    BY <2>2, LiteralTypes DEF TypeOK
  <2> QED
    BY <1>17, <2>4 DEF ContainerExit, TypeOK, Executing
<1>18. ASSUME NEW w \in Workers, Notify(w) PROVE TypeOK'
  BY <1>18, LiteralTypes, WorkerHasRun DEF Notify, GoIdle, TypeOK, runVars, prVars
<1>19. ASSUME NEW w \in Workers, NotifyLost(w) PROVE TypeOK'
  BY <1>19, LiteralTypes DEF NotifyLost, GoIdle, TypeOK, runVars, prVars
<1>20. ASSUME NEW w \in Workers, WorkerCrash(w) PROVE TypeOK'
  BY <1>20, LiteralTypes DEF WorkerCrash, TypeOK, runVars, prVars
<1>21. ASSUME NEW w \in Workers, WorkerRestart(w) PROVE TypeOK'
  BY <1>21, LiteralTypes DEF WorkerRestart, GoIdle, TypeOK, runVars, prVars
<1>22. ASSUME NEW r \in Runs, PostExec(r) PROVE TypeOK'
  BY <1>22, LiteralTypes DEF PostExec, ClosePR, Verdict, GateResults, TypeOK, wVars
<1>23. ASSUME NEW r \in Runs, CallbackFails(r) PROVE TypeOK'
  BY <1>23 DEF CallbackFails, TypeOK, runVars, prVars, wVars
<1>24. ASSUME NEW r \in Runs, RunAges(r) PROVE TypeOK'
  BY <1>24 DEF RunAges, TypeOK, prVars, wVars
<1>25. ASSUME NEW c \in {1, 2}, RescueScan(c) PROVE TypeOK'
  BY <1>25 DEF RescueScan, Stuck, TypeOK, runVars, prVars, wVars
<1>26. ASSUME RescueCommit PROVE TypeOK'
  BY <1>26, LiteralTypes DEF RescueCommit, TypeOK, prVars, wVars
<1>27. CASE UNCHANGED vars
  BY <1>27 DEF TypeOK, vars, runVars, prVars, wVars
<1>28. ASSUME RescueFails \/ RescueLoopEnds \/ RescueRestarts PROVE TypeOK'
  BY <1>28
  DEF RescueFails, RescueLoopEnds, RescueRestarts, 
      TypeOK, runVars, prVars, wVars
<1> QED
  BY <1>1, <1>2, <1>3, <1>4, <1>5, <1>6, <1>7, <1>8, <1>9, <1>10, <1>11, <1>12, <1>13,
         <1>14, <1>15, <1>16, <1>17, <1>18, <1>19, <1>20, <1>21, <1>22, <1>23, <1>24,
         <1>25, <1>26, <1>27, <1>28
  DEF Next, RequestStep, WorkerStep, WorkerProgress, BackendStep
(* What a request has read stays inserted, and the run of an approval taken. *)
LEMMA RequestStepInv ==
  ASSUME BaseInv, [Next]_vars
  PROVE  RequestInv'
<1> TypeOK /\ RequestInv /\ TakenInv /\ WorkerInv
  BY DEF BaseInv
<1>1. ASSUME NEW s \in Sessions, LaunchCheck(s) PROVE RequestInv'
  BY <1>1, LiteralTypes DEF LaunchCheck, Request, RequestInv, Taken, runVars
<1>2. ASSUME NEW s \in Sessions, LaunchCommit(s) PROVE RequestInv'
  BY <1>2, LiteralTypes, RequestHasRun
  DEF LaunchCommit, Insert, NoRequest, RequestInv, Taken
<1>3. ASSUME NEW s \in Sessions, NEW r \in Runs, RetryCheck(s, r) PROVE RequestInv'
  BY <1>3 DEF RetryCheck, Request, RequestInv, TakenInv, Taken, runVars
<1>4. ASSUME NEW s \in Sessions, RetryCommit(s) PROVE RequestInv'
  BY <1>4, LiteralTypes, RequestHasRun
  DEF RetryCommit, Insert, NoRequest, RequestInv, Taken
<1>5. ASSUME NEW s \in Sessions, RequestFails(s) PROVE RequestInv'
  BY <1>5, LiteralTypes DEF RequestFails, NoRequest, RequestInv, Taken, runVars
<1>6. ASSUME NEW s \in Sessions, NEW r \in Runs, CancelLoad(s, r) PROVE RequestInv'
  BY <1>6, LiteralTypes
  DEF CancelLoad, Request, Cancellable, RequestInv, Taken, Active, runVars
<1>7. ASSUME NEW s \in Sessions, CancelCommit(s) PROVE RequestInv'
  BY <1>7, LiteralTypes DEF CancelCommit, NoRequest, RequestInv, Taken
<1>8. ASSUME NEW s \in Sessions, NEW r \in Runs, ApproveLoad(s, r) PROVE RequestInv'
  BY <1>8, LiteralTypes
  DEF ApproveLoad, Request, Approvable, RequestInv, TakenInv, Taken, runVars
<1>9. ASSUME NEW s \in Sessions, ApproveMerge(s) PROVE RequestInv'
  BY <1>9 DEF ApproveMerge, RequestInv, Taken, runVars
<1>10. ASSUME NEW s \in Sessions, ApproveCommit(s) PROVE RequestInv'
  BY <1>10, LiteralTypes DEF ApproveCommit, NoRequest, RequestInv, Taken
<1>11. ASSUME NEW r \in Runs, Reject(r) PROVE RequestInv'
  BY <1>11 DEF Reject, RequestInv, Taken
<1>12. ASSUME NEW w \in Workers, ClaimSelect(w) PROVE RequestInv'
  BY <1>12, LiteralTypes, WorkerHasRun DEF ClaimSelect, RequestInv, Taken, runVars
<1>13. ASSUME NEW w \in Workers, ClaimCommit(w) PROVE RequestInv'
  BY <1>13, ConstantsAssumption DEF ClaimCommit, RequestInv, Taken
<1>14. ASSUME NEW w \in Workers, PrepareFails(w) PROVE RequestInv'
  BY <1>14, LiteralTypes DEF PrepareFails, RequestInv, Taken, runVars
<1>15. ASSUME NEW w \in Workers, StartContainer(w) PROVE RequestInv'
  BY <1>15 DEF StartContainer, RequestInv, Taken
<1>16. ASSUME NEW w \in Workers, ContainerError(w) PROVE RequestInv'
  BY <1>16, LiteralTypes DEF ContainerError, RequestInv, Taken
<1>17. ASSUME NEW w \in Workers, ContainerExit(w) PROVE RequestInv'
  BY <1>17 DEF ContainerExit, RequestInv, Taken
<1>18. ASSUME NEW w \in Workers, Notify(w) PROVE RequestInv'
  BY <1>18, LiteralTypes DEF Notify, RequestInv, Taken, runVars
<1>19. ASSUME NEW w \in Workers, NotifyLost(w) PROVE RequestInv'
  BY <1>19, LiteralTypes DEF NotifyLost, RequestInv, Taken, runVars
<1>20. ASSUME NEW w \in Workers, WorkerCrash(w) PROVE RequestInv'
  BY <1>20 DEF WorkerCrash, RequestInv, Taken, runVars
<1>21. ASSUME NEW w \in Workers, WorkerRestart(w) PROVE RequestInv'
  BY <1>21, LiteralTypes DEF WorkerRestart, RequestInv, Taken, runVars
<1>22. ASSUME NEW r \in Runs, PostExec(r) PROVE RequestInv'
  BY <1>22, LiteralTypes DEF PostExec, Verdict, RequestInv, Taken, TypeOK
<1>23. ASSUME NEW r \in Runs, CallbackFails(r) PROVE RequestInv'
  BY <1>23 DEF CallbackFails, RequestInv, Taken, runVars
<1>24. ASSUME NEW r \in Runs, RunAges(r) PROVE RequestInv'
  BY <1>24 DEF RunAges, RequestInv, Taken
<1>25. ASSUME NEW c \in {1, 2}, RescueScan(c) PROVE RequestInv'
  BY <1>25 DEF RescueScan, RequestInv, Taken, runVars
<1>26. ASSUME RescueCommit PROVE RequestInv'
  BY <1>26 DEF RescueCommit, RequestInv, Taken
<1>27. CASE UNCHANGED vars
  BY <1>27 DEF RequestInv, Taken, vars, runVars
<1>28. ASSUME RescueFails \/ RescueLoopEnds \/ RescueRestarts PROVE RequestInv'
  BY <1>28 DEF RescueFails, RescueLoopEnds, RescueRestarts, RequestInv, Taken, runVars
<1> QED
  BY <1>1, <1>2, <1>3, <1>4, <1>5, <1>6, <1>7, <1>8, <1>9, <1>10, <1>11, <1>12, <1>13,
         <1>14, <1>15, <1>16, <1>17, <1>18, <1>19, <1>20, <1>21, <1>22, <1>23, <1>24,
         <1>25, <1>26, <1>27, <1>28
  DEF Next, RequestStep, WorkerStep, WorkerProgress, BackendStep

(* A claim is the one way out of pending that a worker or a verdict can use, *)
(* and it signs the row.                                                     *)
LEMMA TakenStep ==
  ASSUME BaseInv, [Next]_vars
  PROVE  TakenInv'
<1> TypeOK /\ RequestInv /\ TakenInv /\ WorkerInv
  BY DEF BaseInv
<1>1. ASSUME NEW s \in Sessions, LaunchCheck(s) PROVE TakenInv'
  BY <1>1, LiteralTypes, ConstantsAssumption, RequestHasRun
  DEF LaunchCheck, TakenInv, Taken, runVars
<1>2. ASSUME NEW s \in Sessions, LaunchCommit(s) PROVE TakenInv'
  BY <1>2, LiteralTypes, ConstantsAssumption, RequestHasRun
  DEF LaunchCommit, Insert, Unused, TakenInv, Taken, Decided
<1>3. ASSUME NEW s \in Sessions, NEW r \in Runs, RetryCheck(s, r) PROVE TakenInv'
  BY <1>3, LiteralTypes, ConstantsAssumption DEF RetryCheck, TakenInv, Taken, runVars
<1>4. ASSUME NEW s \in Sessions, RetryCommit(s) PROVE TakenInv'
  BY <1>4, LiteralTypes, ConstantsAssumption, RequestHasRun
  DEF RetryCommit, Insert, Unused, TakenInv, Taken, TypeOK, Decided
<1>5. ASSUME NEW s \in Sessions, RequestFails(s) PROVE TakenInv'
  BY <1>5, LiteralTypes, ConstantsAssumption, RequestHasRun
  DEF RequestFails, TakenInv, Taken, runVars
<1>6. ASSUME NEW s \in Sessions, NEW r \in Runs, CancelLoad(s, r) PROVE TakenInv'
  BY <1>6, LiteralTypes, ConstantsAssumption DEF CancelLoad, TakenInv, Taken, runVars
<1>7. ASSUME NEW s \in Sessions, CancelCommit(s) PROVE TakenInv'
  BY <1>7, LiteralTypes, ConstantsAssumption, RequestHasRun
  DEF CancelCommit, NoRequest, TakenInv, Taken, Decided
<1>8. ASSUME NEW s \in Sessions, NEW r \in Runs, ApproveLoad(s, r) PROVE TakenInv'
  BY <1>8, LiteralTypes, ConstantsAssumption DEF ApproveLoad, TakenInv, Taken, runVars
<1>9. ASSUME NEW s \in Sessions, ApproveMerge(s) PROVE TakenInv'
  BY <1>9, LiteralTypes, ConstantsAssumption DEF ApproveMerge, TakenInv, Taken, runVars
<1>10. ASSUME NEW s \in Sessions, ApproveCommit(s) PROVE TakenInv'
  BY <1>10, LiteralTypes, ConstantsAssumption, RequestHasRun
  DEF ApproveCommit, RequestInv, TakenInv, Taken
<1>11. ASSUME NEW r \in Runs, Reject(r) PROVE TakenInv'
  BY <1>11, LiteralTypes, ConstantsAssumption DEF Reject, TakenInv, Taken, TypeOK
<1>12. ASSUME NEW w \in Workers, ClaimSelect(w) PROVE TakenInv'
  BY <1>12, LiteralTypes, ConstantsAssumption, WorkerHasRun
  DEF ClaimSelect, TakenInv, Taken, runVars
<1>13. ASSUME NEW w \in Workers, ClaimCommit(w) PROVE TakenInv'
  BY <1>13, LiteralTypes, ConstantsAssumption DEF ClaimCommit, TakenInv, Taken, TypeOK
<1>14. ASSUME NEW w \in Workers, PrepareFails(w) PROVE TakenInv'
  BY <1>14, LiteralTypes, ConstantsAssumption, WorkerHasRun
  DEF PrepareFails, TakenInv, Taken, runVars
<1>15. ASSUME NEW w \in Workers, StartContainer(w) PROVE TakenInv'
  BY <1>15, LiteralTypes, ConstantsAssumption
  DEF StartContainer, TakenInv, WorkerInv, Taken, TypeOK
<1>16. ASSUME NEW w \in Workers, ContainerError(w) PROVE TakenInv'
  BY <1>16, LiteralTypes, ConstantsAssumption, WorkerHasRun
  DEF ContainerError, TakenInv, WorkerInv, Taken, TypeOK
<1>17. ASSUME NEW w \in Workers, ContainerExit(w) PROVE TakenInv'
  BY <1>17, LiteralTypes, ConstantsAssumption
  DEF ContainerExit, TakenInv, WorkerInv, Taken, TypeOK
<1>18. ASSUME NEW w \in Workers, Notify(w) PROVE TakenInv'
  BY <1>18, LiteralTypes, ConstantsAssumption, WorkerHasRun
  DEF Notify, TakenInv, WorkerInv, Taken, TypeOK, runVars
<1>19. ASSUME NEW w \in Workers, NotifyLost(w) PROVE TakenInv'
  BY <1>19, LiteralTypes, ConstantsAssumption, WorkerHasRun
  DEF NotifyLost, TakenInv, Taken, runVars
<1>20. ASSUME NEW w \in Workers, WorkerCrash(w) PROVE TakenInv'
  BY <1>20, LiteralTypes, ConstantsAssumption DEF WorkerCrash, TakenInv, Taken, runVars
<1>21. ASSUME NEW w \in Workers, WorkerRestart(w) PROVE TakenInv'
  BY <1>21, LiteralTypes, ConstantsAssumption, WorkerHasRun
  DEF WorkerRestart, TakenInv, Taken, runVars
<1>22. ASSUME NEW r \in Runs, PostExec(r) PROVE TakenInv'
  BY <1>22, LiteralTypes, ConstantsAssumption
  DEF PostExec, ClosePR, Verdict, TakenInv, Taken, TypeOK
<1>23. ASSUME NEW r \in Runs, CallbackFails(r) PROVE TakenInv'
  BY <1>23, LiteralTypes DEF CallbackFails, TakenInv, Taken, runVars
<1>24. ASSUME NEW r \in Runs, RunAges(r) PROVE TakenInv'
  BY <1>24, LiteralTypes DEF RunAges, TakenInv, Taken
<1>25. ASSUME NEW c \in {1, 2}, RescueScan(c) PROVE TakenInv'
  BY <1>25, LiteralTypes, ConstantsAssumption
  DEF RescueScan, Stuck, TakenInv, Taken, runVars
<1>26. ASSUME RescueCommit PROVE TakenInv'
  BY <1>26, LiteralTypes DEF RescueCommit, TakenInv, Taken
<1>27. CASE UNCHANGED vars
  BY <1>27 DEF TakenInv, Taken, vars, runVars
<1>28. ASSUME RescueFails \/ RescueLoopEnds \/ RescueRestarts PROVE TakenInv'
  BY <1>28 DEF RescueFails, RescueLoopEnds, RescueRestarts, TakenInv, Taken, runVars
<1> QED
  BY <1>1, <1>2, <1>3, <1>4, <1>5, <1>6, <1>7, <1>8, <1>9, <1>10, <1>11, <1>12, <1>13,
         <1>14, <1>15, <1>16, <1>17, <1>18, <1>19, <1>20, <1>21, <1>22, <1>23, <1>24,
         <1>25, <1>26, <1>27, <1>28
  DEF Next, RequestStep, WorkerStep, WorkerProgress, BackendStep

(* The row lock of a claim keeps its run pending and out of the other        *)
(* workers' reach, and the signature stays on the run a worker executes.     *)
LEMMA WorkerStepInv ==
  ASSUME BaseInv, [Next]_vars
  PROVE  WorkerInv'
<1> TypeOK /\ RequestInv /\ TakenInv /\ WorkerInv
  BY DEF BaseInv
<1>1. ASSUME NEW s \in Sessions, LaunchCheck(s) PROVE WorkerInv'
  BY <1>1, LiteralTypes, ConstantsAssumption, RequestHasRun
  DEF LaunchCheck, WorkerInv, runVars, wVars
<1>2. ASSUME NEW s \in Sessions, LaunchCommit(s) PROVE WorkerInv'
  BY <1>2, LiteralTypes, ConstantsAssumption, RequestHasRun
  DEF LaunchCommit, Insert, NoRequest, WorkerInv, wVars
<1>3. ASSUME NEW s \in Sessions, NEW r \in Runs, RetryCheck(s, r) PROVE WorkerInv'
  BY <1>3, LiteralTypes, ConstantsAssumption DEF RetryCheck, WorkerInv, runVars, wVars
<1>4. ASSUME NEW s \in Sessions, RetryCommit(s) PROVE WorkerInv'
  BY <1>4, LiteralTypes, ConstantsAssumption, RequestHasRun
  DEF RetryCommit, Insert, NoRequest, WorkerInv, wVars
<1>5. ASSUME NEW s \in Sessions, RequestFails(s) PROVE WorkerInv'
  BY <1>5, LiteralTypes, ConstantsAssumption, RequestHasRun
  DEF RequestFails, WorkerInv, runVars, wVars
<1>6. ASSUME NEW s \in Sessions, NEW r \in Runs, CancelLoad(s, r) PROVE WorkerInv'
  BY <1>6, LiteralTypes, ConstantsAssumption
  DEF CancelLoad, Request, WorkerInv, runVars, wVars
<1>7. ASSUME NEW s \in Sessions, CancelCommit(s) PROVE WorkerInv'
  BY <1>7, LiteralTypes, ConstantsAssumption, RequestHasRun
  DEF CancelCommit, WorkerInv, LockedRows, wVars
<1>8. ASSUME NEW s \in Sessions, NEW r \in Runs, ApproveLoad(s, r) PROVE WorkerInv'
  BY <1>8, LiteralTypes, ConstantsAssumption
  DEF ApproveLoad, Request, WorkerInv, runVars, wVars
<1>9. ASSUME NEW s \in Sessions, ApproveMerge(s) PROVE WorkerInv'
  BY <1>9, LiteralTypes, ConstantsAssumption, RequestHasRun
  DEF ApproveMerge, WorkerInv, runVars, wVars
<1>10. ASSUME NEW s \in Sessions, ApproveCommit(s) PROVE WorkerInv'
  BY <1>10, LiteralTypes, ConstantsAssumption, RequestHasRun
  DEF ApproveCommit, RequestInv, TakenInv, WorkerInv, TypeOK, wVars
<1>11. ASSUME NEW r \in Runs, Reject(r) PROVE WorkerInv'
  BY <1>11, LiteralTypes, ConstantsAssumption DEF Reject, TakenInv, WorkerInv, wVars
<1>12. ASSUME NEW w \in Workers, ClaimSelect(w) PROVE WorkerInv'
  BY <1>12, LiteralTypes, ConstantsAssumption, WorkerHasRun
  DEF ClaimSelect, Claimable, Pending, TakenInv, WorkerInv, LockedRows, Taken, TypeOK,
      Executing, runVars
<1>13. ASSUME NEW w \in Workers, ClaimCommit(w) PROVE WorkerInv'
  BY <1>13, LiteralTypes, ConstantsAssumption, WorkerHasRun
  DEF ClaimCommit, WorkerInv, TypeOK
<1>14. ASSUME NEW w \in Workers, PrepareFails(w) PROVE WorkerInv'
  BY <1>14, LiteralTypes, ConstantsAssumption, WorkerHasRun
  DEF PrepareFails, GoIdle, WorkerInv, TypeOK, Executing, runVars
<1>15. ASSUME NEW w \in Workers, StartContainer(w) PROVE WorkerInv'
  BY <1>15, LiteralTypes, ConstantsAssumption, WorkerHasRun
  DEF StartContainer, WorkerInv, TypeOK
<1>16. ASSUME NEW w \in Workers, ContainerError(w) PROVE WorkerInv'
  BY <1>16, LiteralTypes, ConstantsAssumption, WorkerHasRun
  DEF ContainerError, GoIdle, WorkerInv, TypeOK, Executing
<1>17. ASSUME NEW w \in Workers, ContainerExit(w) PROVE WorkerInv'
  BY <1>17, LiteralTypes, ConstantsAssumption, WorkerHasRun
  DEF ContainerExit, WorkerInv, TypeOK
<1>18. ASSUME NEW w \in Workers, Notify(w) PROVE WorkerInv'
  BY <1>18, LiteralTypes, ConstantsAssumption, WorkerHasRun
  DEF Notify, GoIdle, WorkerInv, TypeOK, Executing, runVars
<1>19. ASSUME NEW w \in Workers, NotifyLost(w) PROVE WorkerInv'
  BY <1>19, LiteralTypes, ConstantsAssumption, WorkerHasRun
  DEF NotifyLost, GoIdle, WorkerInv, TypeOK, Executing, runVars
<1>20. ASSUME NEW w \in Workers, WorkerCrash(w) PROVE WorkerInv'
  BY <1>20, LiteralTypes, ConstantsAssumption, WorkerHasRun
  DEF WorkerCrash, WorkerInv, TypeOK, Executing, runVars
<1>21. ASSUME NEW w \in Workers, WorkerRestart(w) PROVE WorkerInv'
  BY <1>21, LiteralTypes, ConstantsAssumption, WorkerHasRun
  DEF WorkerRestart, GoIdle, WorkerInv, Executing, runVars
<1>22. ASSUME NEW r \in Runs, PostExec(r) PROVE WorkerInv'
  <2>1. \A w \in Workers : wpc[w] = "claiming" => wrun[w] \in Runs \ {r}
    BY <1>22, WorkerHasRun DEF PostExec, TakenInv, WorkerInv
  <2>2. \A q \in Runs \ {r} : status'[q] = status[q]
    BY <1>22 DEF PostExec, TypeOK
  <2> QED
    BY <1>22, <2>1, <2>2 DEF PostExec, WorkerInv, wVars
<1>23. ASSUME NEW r \in Runs, CallbackFails(r) PROVE WorkerInv'
  BY <1>23, LiteralTypes, ConstantsAssumption
  DEF CallbackFails, WorkerInv, runVars, wVars
<1>24. ASSUME NEW r \in Runs, RunAges(r) PROVE WorkerInv'
  BY <1>24, LiteralTypes, ConstantsAssumption DEF RunAges, WorkerInv, wVars
<1>25. ASSUME NEW c \in {1, 2}, RescueScan(c) PROVE WorkerInv'
  BY <1>25, LiteralTypes, ConstantsAssumption DEF RescueScan, WorkerInv, runVars, wVars
<1>26. ASSUME RescueCommit PROVE WorkerInv'
  <2>1. \A w \in Workers : wpc[w] = "claiming" => wrun[w] \in Runs \ rescue
    BY WorkerHasRun DEF TakenInv, WorkerInv
  <2>2. \A q \in Runs \ rescue : status'[q] = status[q]
    BY <1>26 DEF RescueCommit
  <2> QED
    BY <1>26, <2>1 DEF RescueCommit, WorkerInv, wVars
<1>27. CASE UNCHANGED vars
  BY <1>27 DEF WorkerInv, vars, runVars, wVars
<1>28. ASSUME RescueFails \/ RescueLoopEnds \/ RescueRestarts PROVE WorkerInv'
  BY <1>28 DEF RescueFails, RescueLoopEnds, RescueRestarts, WorkerInv, runVars, wVars
<1> QED
  BY <1>1, <1>2, <1>3, <1>4, <1>5, <1>6, <1>7, <1>8, <1>9, <1>10, <1>11, <1>12, <1>13,
         <1>14, <1>15, <1>16, <1>17, <1>18, <1>19, <1>20, <1>21, <1>22, <1>23, <1>24,
         <1>25, <1>26, <1>27, <1>28
  DEF Next, RequestStep, WorkerStep, WorkerProgress, BackendStep

(* The callback of an original run comes once, after its worker, and only it *)
(* gives the run a pull request and gates.                                   *)
LEMMA OriginalStep ==
  ASSUME IInv, [Next]_vars
  PROVE  OriginalInv'
<1> /\ BaseInv /\ TypeOK /\ RequestInv /\ TakenInv /\ WorkerInv
    /\ OriginalInv /\ PullRequestInv
    /\ OriginalMergedAfterGates /\ PostMergeIsMerged
  BY DEF IInv, BaseInv
<1>1. ASSUME NEW s \in Sessions, LaunchCheck(s) PROVE OriginalInv'
  BY <1>1, LiteralTypes, ConstantsAssumption, RequestHasRun
  DEF LaunchCheck, Request, OriginalInv, Holders, runVars, prVars, wVars
<1>2. ASSUME NEW s \in Sessions, LaunchCommit(s) PROVE OriginalInv'
  BY <1>2, LiteralTypes, ConstantsAssumption, RequestHasRun
  DEF LaunchCommit, Insert, NoRequest, Unused, OriginalInv, Holders, TakenInv, prVars,
      wVars
<1>3. ASSUME NEW s \in Sessions, NEW r \in Runs, RetryCheck(s, r) PROVE OriginalInv'
  BY <1>3, LiteralTypes, ConstantsAssumption
  DEF RetryCheck, Request, OriginalInv, Holders, runVars, prVars, wVars
<1>4. ASSUME NEW s \in Sessions, RetryCommit(s) PROVE OriginalInv'
  BY <1>4, LiteralTypes, ConstantsAssumption, RequestHasRun
  DEF RetryCommit, Insert, NoRequest, Unused, OriginalInv, Holders, RequestInv, TypeOK,
      prVars, wVars
<1>5. ASSUME NEW s \in Sessions, RequestFails(s) PROVE OriginalInv'
  BY <1>5, LiteralTypes, ConstantsAssumption, RequestHasRun
  DEF RequestFails, NoRequest, OriginalInv, Holders, Taken, runVars, prVars, wVars
<1>6. ASSUME NEW s \in Sessions, NEW r \in Runs, CancelLoad(s, r) PROVE OriginalInv'
  BY <1>6, LiteralTypes, ConstantsAssumption
  DEF CancelLoad, Request, Cancellable, OriginalInv, Holders, runVars, prVars, wVars
<1>7. ASSUME NEW s \in Sessions, CancelCommit(s) PROVE OriginalInv'
  BY <1>7, LiteralTypes, ConstantsAssumption, RequestHasRun
  DEF CancelCommit, NoRequest, OriginalInv, Holders, RequestInv, TakenInv, Taken, TypeOK,
      Decided, prVars, wVars
<1>8. ASSUME NEW s \in Sessions, NEW r \in Runs, ApproveLoad(s, r) PROVE OriginalInv'
  BY <1>8, LiteralTypes, ConstantsAssumption
  DEF ApproveLoad, Request, Approvable, OriginalInv, Holders, runVars, prVars, wVars
<1>9. ASSUME NEW s \in Sessions, ApproveMerge(s) PROVE OriginalInv'
  BY <1>9, LiteralTypes, ConstantsAssumption, RequestHasRun
  DEF ApproveMerge, OriginalInv, Holders, RequestInv, runVars, wVars
<1>10. ASSUME NEW s \in Sessions, ApproveCommit(s) PROVE OriginalInv'
  BY <1>10, LiteralTypes, ConstantsAssumption, RequestHasRun
  DEF ApproveCommit, NoRequest, OriginalInv, Holders, prVars, wVars
<1>11. ASSUME NEW r \in Runs, Reject(r) PROVE OriginalInv'
  BY <1>11, LiteralTypes, ConstantsAssumption
  DEF Reject, ClosePR, OriginalInv, Holders, wVars
<1>12. ASSUME NEW w \in Workers, ClaimSelect(w) PROVE OriginalInv'
  BY <1>12, LiteralTypes, ConstantsAssumption, WorkerHasRun
  DEF ClaimSelect, Claimable, Pending, OriginalInv, Holders, TakenInv, runVars, prVars
<1>13. ASSUME NEW w \in Workers, ClaimCommit(w) PROVE OriginalInv'
  BY <1>13, LiteralTypes, ConstantsAssumption, WorkerHasRun
  DEF ClaimCommit, OriginalInv, Holders, prVars
<1>14. ASSUME NEW w \in Workers, PrepareFails(w) PROVE OriginalInv'
  BY <1>14, LiteralTypes, ConstantsAssumption, WorkerHasRun
  DEF PrepareFails, GoIdle, OriginalInv, Holders, TypeOK, runVars, prVars
<1>15. ASSUME NEW w \in Workers, StartContainer(w) PROVE OriginalInv'
  BY <1>15, LiteralTypes, ConstantsAssumption, WorkerHasRun
  DEF StartContainer, OriginalInv, Holders, prVars
<1>16. ASSUME NEW w \in Workers, ContainerError(w) PROVE OriginalInv'
  BY <1>16, LiteralTypes, ConstantsAssumption, WorkerHasRun
  DEF ContainerError, GoIdle, OriginalInv, Holders, TypeOK, prVars
<1>17. ASSUME NEW w \in Workers, ContainerExit(w) PROVE OriginalInv'
  <2>1. PICK r \in Runs, st \in {"completed", "failed"} :
          r = wrun[w] /\ status' = [status EXCEPT ![r] = st]
    BY <1>17, WorkerHasRun DEF ContainerExit
  <2>2. UNCHANGED <<phase, gates, parent, pr, mergedBy, sess, callbacks, wrun>>
    BY <1>17 DEF ContainerExit
  <2>3. status'[r] = st /\ \A q \in Runs : q # r => status'[q] = status[q]
    BY <2>1 DEF TypeOK
  <2>4. \A q \in Runs : Holders(q)' = Holders(q)
    BY <2>2 DEF Holders
  <2>5. parent[r] = 0 => pr[r] = 0
    <3>1. w \in Holders(r)
      BY <2>1 DEF Holders
    <3> QED
      BY <3>1 DEF OriginalInv
  <2>6. \A q \in Runs : parent[q] = 0 /\ status'[q] \in Decided /\ pr[q] # 0 =>
          "hard" \notin gates[q]
    BY <2>3, <2>5 DEF OriginalInv
  <2>7. \A p \in Runs : mergedBy[p] # 0 => status'[mergedBy[p]] # "absent"
    <3> SUFFICES ASSUME NEW p \in Runs, mergedBy[p] # 0 PROVE status'[mergedBy[p]] # "absent"
      OBVIOUS
    <3>1. mergedBy[p] \in Runs
      BY DEF TypeOK, Runs
    <3> QED
      BY <2>3, <3>1 DEF OriginalInv
  <2>8. \A q \in callbacks : Holders(q)' = Holders(q)
    BY <2>4 DEF TypeOK
  <2> QED
    BY <2>2, <2>4, <2>6, <2>7, <2>8 DEF OriginalInv
<1>18. ASSUME NEW w \in Workers, Notify(w) PROVE OriginalInv'
  BY <1>18, LiteralTypes, ConstantsAssumption, WorkerHasRun
  DEF Notify, GoIdle, OriginalInv, Holders, WorkerInv, TypeOK, runVars, prVars
<1>19. ASSUME NEW w \in Workers, NotifyLost(w) PROVE OriginalInv'
  BY <1>19, LiteralTypes, ConstantsAssumption, WorkerHasRun
  DEF NotifyLost, GoIdle, OriginalInv, Holders, TypeOK, runVars, prVars
<1>20. ASSUME NEW w \in Workers, WorkerCrash(w) PROVE OriginalInv'
  BY <1>20, LiteralTypes, ConstantsAssumption, WorkerHasRun
  DEF WorkerCrash, OriginalInv, Holders, TypeOK, runVars, prVars
<1>21. ASSUME NEW w \in Workers, WorkerRestart(w) PROVE OriginalInv'
  <2>1. wrun' = wrun
    BY <1>21 DEF WorkerRestart, GoIdle, WorkerInv, TypeOK
  <2> QED
    BY <1>21, <2>1 DEF WorkerRestart, OriginalInv, Holders, runVars, prVars
<1>22. ASSUME NEW r \in Runs, PostExec(r) PROVE OriginalInv'
  <2> DEFINE p == IF pr[r] = 0 /\ reportedPR[r] THEN r ELSE pr[r]
  <2>1. /\ r \in callbacks /\ callbacks' = callbacks \ {r} /\ wrun' = wrun
        /\ phase' = [phase EXCEPT ![r] = "report"] /\ pr' = [pr EXCEPT ![r] = p]
        /\ parent' = parent /\ mergedBy' = mergedBy /\ sess' = sess
    BY <1>22 DEF PostExec, wVars
  <2>2. /\ \A q \in Runs \ {r} : status'[q] = status[q] /\ gates'[q] = gates[q]
        /\ status'[r] # "absent"
        /\ status'[r] \in Decided => "hard" \notin gates'[r]
    BY <1>22 DEF PostExec, Verdict, TypeOK, Decided
  <2>3. Holders(r) = {} /\ (parent[r] = 0 => phase[r] = "started")
    BY <2>1 DEF OriginalInv
  <2>4. \A q \in Runs \ {r} : phase'[q] = phase[q] /\ pr'[q] = pr[q]
    BY <2>1
  <2>5. \A q \in Runs : parent[q] = 0 =>
          /\ phase'[q] = "started" => pr'[q] = 0
          /\ phase'[q] # "started" => Holders(q) = {} /\ q \notin callbacks'
          /\ status'[q] \in Decided /\ pr'[q] # 0 => "hard" \notin gates'[q]
    BY <2>1, <2>2 DEF OriginalInv, TypeOK
  <2>6. \A s \in Sessions : sess[s].op \in {"approve", "merged"} =>
          /\ pr'[sess[s].run] # 0
          /\ parent[sess[s].run] = 0 => phase'[sess[s].run] # "started"
                                       /\ "hard" \notin gates'[sess[s].run]
    BY <2>1, <2>2 DEF OriginalInv, RequestInv
  <2>7. \A q \in Runs : mergedBy[q] # 0 => status'[mergedBy[q]] # "absent"
    BY <2>2, RunColumns DEF OriginalInv
  <2> QED
    BY <2>1, <2>5, <2>6, <2>7 DEF OriginalInv, Holders
<1>23. ASSUME NEW r \in Runs, CallbackFails(r) PROVE OriginalInv'
  BY <1>23, LiteralTypes, ConstantsAssumption
  DEF CallbackFails, OriginalInv, Holders, runVars, prVars, wVars
<1>24. ASSUME NEW r \in Runs, RunAges(r) PROVE OriginalInv'
  BY <1>24, LiteralTypes, ConstantsAssumption
  DEF RunAges, OriginalInv, Holders, prVars, wVars
<1>25. ASSUME NEW c \in {1, 2}, RescueScan(c) PROVE OriginalInv'
  BY <1>25, LiteralTypes, ConstantsAssumption
  DEF RescueScan, Stuck, OriginalInv, Holders, runVars, prVars, wVars
<1>26. ASSUME RescueCommit PROVE OriginalInv'
  <2>1. /\ phase' = phase /\ pr' = pr /\ gates' = gates
        /\ parent' = parent /\ wrun' = wrun
        /\ sess' = sess /\ mergedBy' = mergedBy /\ callbacks' = callbacks
    BY <1>26 DEF RescueCommit, prVars, wVars
  <2>2. \A q \in Runs : /\ status'[q] \in Decided => status[q] \in Decided
                        /\ status[q] # "absent" => status'[q] # "absent"
    BY <1>26 DEF RescueCommit, Decided
  <2>4. \A q \in Runs : Holders(q)' = Holders(q)
    BY <2>1 DEF Holders
  <2>3. \A q \in Runs : mergedBy[q] # 0 => status'[mergedBy[q]] # "absent"
    BY <2>2, RunColumns DEF OriginalInv
  <2> QED
    <3>1. \A q \in Runs : parent[q] = 0 =>
            /\ phase[q] = "started" => pr[q] = 0
            /\ phase[q] # "started" => Holders(q)' = {} /\ q \notin callbacks
            /\ status'[q] \in Decided /\ pr[q] # 0 => "hard" \notin gates[q]
      BY <2>2, <2>4 DEF OriginalInv
    <3>2. \A q \in callbacks : Holders(q)' = {}
      BY <2>4 DEF OriginalInv, TypeOK
    <3> QED
      BY <2>1, <2>3, <3>1, <3>2 DEF OriginalInv
<1>27. CASE UNCHANGED vars
  BY <1>27 DEF OriginalInv, Holders, vars, runVars, prVars, wVars
<1>28. ASSUME RescueFails \/ RescueLoopEnds \/ RescueRestarts PROVE OriginalInv'
  BY <1>28
  DEF RescueFails, RescueLoopEnds, RescueRestarts, 
      OriginalInv, Holders, runVars, prVars, wVars
<1> QED
  BY <1>1, <1>2, <1>3, <1>4, <1>5, <1>6, <1>7, <1>8, <1>9, <1>10, <1>11, <1>12, <1>13,
         <1>14, <1>15, <1>16, <1>17, <1>18, <1>19, <1>20, <1>21, <1>22, <1>23, <1>24,
         <1>25, <1>26, <1>27, <1>28
  DEF Next, RequestStep, WorkerStep, WorkerProgress, BackendStep

(* A pull request keeps its number, and one that is merged keeps its merger. *)
LEMMA PullRequestStep ==
  ASSUME IInv, [Next]_vars
  PROVE  PullRequestInv'
<1> /\ BaseInv /\ TypeOK /\ RequestInv /\ TakenInv /\ WorkerInv
    /\ OriginalInv /\ PullRequestInv
    /\ OriginalMergedAfterGates /\ PostMergeIsMerged
  BY DEF IInv, BaseInv
<1>1. ASSUME NEW s \in Sessions, LaunchCheck(s) PROVE PullRequestInv'
  BY <1>1, LiteralTypes, ConstantsAssumption, RequestHasRun
  DEF LaunchCheck, Request, PullRequestInv, runVars, prVars
<1>2. ASSUME NEW s \in Sessions, LaunchCommit(s) PROVE PullRequestInv'
  BY <1>2, LiteralTypes, ConstantsAssumption, RequestHasRun
  DEF LaunchCommit, Insert, NoRequest, Unused, PullRequestInv, TakenInv, prVars
<1>3. ASSUME NEW s \in Sessions, NEW r \in Runs, RetryCheck(s, r) PROVE PullRequestInv'
  BY <1>3, LiteralTypes, ConstantsAssumption
  DEF RetryCheck, Request, PullRequestInv, RequestInv, runVars, prVars
<1>4. ASSUME NEW s \in Sessions, RetryCommit(s) PROVE PullRequestInv'
  BY <1>4, LiteralTypes, ConstantsAssumption, RequestHasRun
  DEF RetryCommit, Insert, NoRequest, Unused, PullRequestInv, RequestInv, TakenInv,
      prVars
<1>5. ASSUME NEW s \in Sessions, RequestFails(s) PROVE PullRequestInv'
  BY <1>5, LiteralTypes, ConstantsAssumption, RequestHasRun
  DEF RequestFails, NoRequest, PullRequestInv, runVars, prVars
<1>6. ASSUME NEW s \in Sessions, NEW r \in Runs, CancelLoad(s, r) PROVE PullRequestInv'
  BY <1>6, LiteralTypes, ConstantsAssumption
  DEF CancelLoad, Request, PullRequestInv, runVars, prVars
<1>7. ASSUME NEW s \in Sessions, CancelCommit(s) PROVE PullRequestInv'
  BY <1>7, LiteralTypes, ConstantsAssumption, RequestHasRun
  DEF CancelCommit, NoRequest, PullRequestInv, prVars
<1>8. ASSUME NEW s \in Sessions, NEW r \in Runs, ApproveLoad(s, r) PROVE PullRequestInv'
  BY <1>8, LiteralTypes, ConstantsAssumption
  DEF ApproveLoad, Request, PullRequestInv, runVars, prVars
<1>9. ASSUME NEW s \in Sessions, ApproveMerge(s) PROVE PullRequestInv'
  <2> DEFINE r == sess[s].run
             p == pr[r]
  <2>1. r \in Runs /\ p \in Runs /\ pr[p] = p /\ prState[p] = "open" /\ mergedBy[p] = 0
    <3>1. sess[s].op = "approve" /\ prState[p] = "open" /\ r \in Runs
      BY <1>9, RequestHasRun DEF ApproveMerge
    <3>2. p # 0
      BY <3>1 DEF OriginalInv
    <3> QED
      BY <3>1, <3>2, RunColumns DEF PullRequestInv
  <2>2. /\ prState' = [prState EXCEPT ![p] = "merged"]
        /\ mergedBy' = [mergedBy EXCEPT ![p] = r]
        /\ pr' = pr /\ phase' = phase
    BY <1>9 DEF ApproveMerge, runVars
  <2>3. \A q \in Runs : mergedBy'[q] # 0 => prState'[q] = "merged" /\ pr[q] = q
    BY <2>1, <2>2 DEF PullRequestInv, TypeOK
  <2>4. \A t \in Sessions \ {s} : sess[t].op = "merged" =>
          mergedBy'[pr[sess[t].run]] = sess[t].run
    BY <2>1, <2>2, LiteralTypes DEF PullRequestInv, RequestInv
  <2>5. mergedBy'[p] = r
    BY <2>1, <2>2 DEF TypeOK
  <2>6. \A t \in Sessions : sess'[t].run = sess[t].run /\ (t # s => sess'[t] = sess[t])
    BY <1>9 DEF ApproveMerge
  <2> QED
    BY <2>2, <2>3, <2>4, <2>5, <2>6 DEF PullRequestInv
<1>10. ASSUME NEW s \in Sessions, ApproveCommit(s) PROVE PullRequestInv'
  BY <1>10 DEF ApproveCommit, NoRequest, OriginalInv, PullRequestInv, prVars
<1>11. ASSUME NEW r \in Runs, Reject(r) PROVE PullRequestInv'
  BY <1>11, LiteralTypes, ConstantsAssumption
  DEF Reject, ClosePR, PullRequestInv, TypeOK
<1>12. ASSUME NEW w \in Workers, ClaimSelect(w) PROVE PullRequestInv'
  BY <1>12, LiteralTypes, ConstantsAssumption, WorkerHasRun
  DEF ClaimSelect, Claimable, PullRequestInv, runVars, prVars
<1>13. ASSUME NEW w \in Workers, ClaimCommit(w) PROVE PullRequestInv'
  BY <1>13, LiteralTypes, ConstantsAssumption, WorkerHasRun
  DEF ClaimCommit, PullRequestInv, prVars
<1>14. ASSUME NEW w \in Workers, PrepareFails(w) PROVE PullRequestInv'
  BY <1>14, LiteralTypes, ConstantsAssumption, WorkerHasRun
  DEF PrepareFails, PullRequestInv, runVars, prVars
<1>15. ASSUME NEW w \in Workers, StartContainer(w) PROVE PullRequestInv'
  BY <1>15, LiteralTypes, ConstantsAssumption, WorkerHasRun
  DEF StartContainer, PullRequestInv, prVars
<1>16. ASSUME NEW w \in Workers, ContainerError(w) PROVE PullRequestInv'
  BY <1>16, LiteralTypes, ConstantsAssumption, WorkerHasRun
  DEF ContainerError, PullRequestInv, prVars
<1>17. ASSUME NEW w \in Workers, ContainerExit(w) PROVE PullRequestInv'
  BY <1>17, LiteralTypes, ConstantsAssumption, WorkerHasRun
  DEF ContainerExit, PullRequestInv
<1>18. ASSUME NEW w \in Workers, Notify(w) PROVE PullRequestInv'
  BY <1>18, LiteralTypes, ConstantsAssumption, WorkerHasRun
  DEF Notify, PullRequestInv, runVars, prVars
<1>19. ASSUME NEW w \in Workers, NotifyLost(w) PROVE PullRequestInv'
  BY <1>19, LiteralTypes, ConstantsAssumption, WorkerHasRun
  DEF NotifyLost, PullRequestInv, runVars, prVars
<1>20. ASSUME NEW w \in Workers, WorkerCrash(w) PROVE PullRequestInv'
  BY <1>20, LiteralTypes, ConstantsAssumption, WorkerHasRun
  DEF WorkerCrash, PullRequestInv, runVars, prVars
<1>21. ASSUME NEW w \in Workers, WorkerRestart(w) PROVE PullRequestInv'
  BY <1>21, LiteralTypes, ConstantsAssumption, WorkerHasRun
  DEF WorkerRestart, PullRequestInv, runVars, prVars
<1>22. ASSUME NEW r \in Runs, PostExec(r) PROVE PullRequestInv'
  <2> DEFINE p == IF pr[r] = 0 /\ reportedPR[r] THEN r ELSE pr[r]
  <2>1. /\ phase' = [phase EXCEPT ![r] = "report"] /\ pr' = [pr EXCEPT ![r] = p]
        /\ mergedBy' = mergedBy /\ sess' = sess
    BY <1>22 DEF PostExec
  <2>2. \A q \in Runs : prState[q] = "merged" => prState'[q] = "merged"
    BY <1>22 DEF PostExec, ClosePR, TypeOK
  <2>3. \A q \in Runs : pr[q] # 0 => pr'[q] = pr[q]
    BY <2>1
  <2>4. \A q \in Runs : pr'[q] # 0 => pr'[pr'[q]] = pr'[q]
    BY <2>1 DEF PullRequestInv
  <2>5. \A q \in Runs : mergedBy[q] # 0 => prState'[q] = "merged" /\ pr'[q] = q
    BY <2>2, <2>3, LiteralTypes DEF PullRequestInv
  <2>6. \A t \in Sessions : sess[t].op = "merged" =>
          mergedBy[pr'[sess[t].run]] = sess[t].run
    BY <2>3 DEF PullRequestInv, OriginalInv, RequestInv
  <2>7. \A q \in Runs : phase'[q] = "post_merge" => pr'[q] # 0
    BY <2>1 DEF PullRequestInv
  <2> QED
    BY <2>1, <2>5, <2>6 DEF PullRequestInv
<1>23. ASSUME NEW r \in Runs, CallbackFails(r) PROVE PullRequestInv'
  BY <1>23, LiteralTypes, ConstantsAssumption
  DEF CallbackFails, PullRequestInv, runVars, prVars
<1>24. ASSUME NEW r \in Runs, RunAges(r) PROVE PullRequestInv'
  BY <1>24, LiteralTypes, ConstantsAssumption DEF RunAges, PullRequestInv, prVars
<1>25. ASSUME NEW c \in {1, 2}, RescueScan(c) PROVE PullRequestInv'
  BY <1>25, LiteralTypes, ConstantsAssumption
  DEF RescueScan, PullRequestInv, runVars, prVars
<1>26. ASSUME RescueCommit PROVE PullRequestInv'
  BY <1>26, LiteralTypes, ConstantsAssumption DEF RescueCommit, PullRequestInv, prVars
<1>27. CASE UNCHANGED vars
  BY <1>27 DEF PullRequestInv, vars, runVars, prVars
<1>28. ASSUME RescueFails \/ RescueLoopEnds \/ RescueRestarts PROVE PullRequestInv'
  BY <1>28
  DEF RescueFails, RescueLoopEnds, RescueRestarts, 
      PullRequestInv, runVars, prVars
<1> QED
  BY <1>1, <1>2, <1>3, <1>4, <1>5, <1>6, <1>7, <1>8, <1>9, <1>10, <1>11, <1>12, <1>13,
         <1>14, <1>15, <1>16, <1>17, <1>18, <1>19, <1>20, <1>21, <1>22, <1>23, <1>24,
         <1>25, <1>26, <1>27, <1>28
  DEF Next, RequestStep, WorkerStep, WorkerProgress, BackendStep

(* A merge comes from an approval, and no later step touches the gates of an *)
(* original run.                                                             *)
LEMMA GatesStep ==
  ASSUME IInv, [Next]_vars
  PROVE  OriginalMergedAfterGates'
<1> /\ BaseInv /\ TypeOK /\ RequestInv /\ TakenInv /\ WorkerInv
    /\ OriginalInv /\ PullRequestInv
    /\ OriginalMergedAfterGates /\ PostMergeIsMerged
  BY DEF IInv, BaseInv
<1>1. ASSUME NEW s \in Sessions, LaunchCheck(s) PROVE OriginalMergedAfterGates'
  BY <1>1, LiteralTypes, ConstantsAssumption, RequestHasRun
  DEF LaunchCheck, Request, OriginalMergedAfterGates, runVars, prVars
<1>2. ASSUME NEW s \in Sessions, LaunchCommit(s) PROVE OriginalMergedAfterGates'
  BY <1>2, LiteralTypes, ConstantsAssumption, RequestHasRun
  DEF LaunchCommit, Insert, NoRequest, Unused, OriginalMergedAfterGates, OriginalInv,
      prVars
<1>3. ASSUME NEW s \in Sessions, NEW r \in Runs, RetryCheck(s, r)
      PROVE OriginalMergedAfterGates'
  BY <1>3, LiteralTypes, ConstantsAssumption
  DEF RetryCheck, Request, OriginalMergedAfterGates, runVars, prVars
<1>4. ASSUME NEW s \in Sessions, RetryCommit(s) PROVE OriginalMergedAfterGates'
  BY <1>4, LiteralTypes, ConstantsAssumption, RequestHasRun
  DEF RetryCommit, Insert, NoRequest, Unused, OriginalMergedAfterGates, prVars
<1>5. ASSUME NEW s \in Sessions, RequestFails(s) PROVE OriginalMergedAfterGates'
  BY <1>5, LiteralTypes, ConstantsAssumption, RequestHasRun
  DEF RequestFails, NoRequest, OriginalMergedAfterGates, runVars, prVars
<1>6. ASSUME NEW s \in Sessions, NEW r \in Runs, CancelLoad(s, r)
      PROVE OriginalMergedAfterGates'
  BY <1>6, LiteralTypes, ConstantsAssumption
  DEF CancelLoad, Request, Cancellable, OriginalMergedAfterGates, runVars, prVars
<1>7. ASSUME NEW s \in Sessions, CancelCommit(s) PROVE OriginalMergedAfterGates'
  BY <1>7, LiteralTypes, ConstantsAssumption, RequestHasRun
  DEF CancelCommit, NoRequest, OriginalMergedAfterGates, prVars
<1>8. ASSUME NEW s \in Sessions, NEW r \in Runs, ApproveLoad(s, r)
      PROVE OriginalMergedAfterGates'
  BY <1>8, LiteralTypes, ConstantsAssumption
  DEF ApproveLoad, Request, Approvable, OriginalMergedAfterGates, runVars, prVars
<1>9. ASSUME NEW s \in Sessions, ApproveMerge(s) PROVE OriginalMergedAfterGates'
  BY <1>9, LiteralTypes, ConstantsAssumption, RequestHasRun
  DEF ApproveMerge, OriginalMergedAfterGates, OriginalInv, runVars
<1>10. ASSUME NEW s \in Sessions, ApproveCommit(s) PROVE OriginalMergedAfterGates'
  BY <1>10, LiteralTypes, ConstantsAssumption, RequestHasRun
  DEF ApproveCommit, NoRequest, OriginalMergedAfterGates, prVars
<1>11. ASSUME NEW r \in Runs, Reject(r) PROVE OriginalMergedAfterGates'
  BY <1>11, LiteralTypes, ConstantsAssumption
  DEF Reject, ClosePR, OriginalMergedAfterGates
<1>12. ASSUME NEW w \in Workers, ClaimSelect(w) PROVE OriginalMergedAfterGates'
  BY <1>12, LiteralTypes, ConstantsAssumption, WorkerHasRun
  DEF ClaimSelect, Claimable, Pending, OriginalMergedAfterGates, runVars, prVars
<1>13. ASSUME NEW w \in Workers, ClaimCommit(w) PROVE OriginalMergedAfterGates'
  BY <1>13, LiteralTypes, ConstantsAssumption, WorkerHasRun
  DEF ClaimCommit, OriginalMergedAfterGates, prVars
<1>14. ASSUME NEW w \in Workers, PrepareFails(w) PROVE OriginalMergedAfterGates'
  BY <1>14, LiteralTypes, ConstantsAssumption, WorkerHasRun
  DEF PrepareFails, GoIdle, OriginalMergedAfterGates, runVars, prVars
<1>15. ASSUME NEW w \in Workers, StartContainer(w) PROVE OriginalMergedAfterGates'
  BY <1>15, LiteralTypes, ConstantsAssumption, WorkerHasRun
  DEF StartContainer, OriginalMergedAfterGates, prVars
<1>16. ASSUME NEW w \in Workers, ContainerError(w) PROVE OriginalMergedAfterGates'
  BY <1>16, LiteralTypes, ConstantsAssumption, WorkerHasRun
  DEF ContainerError, GoIdle, OriginalMergedAfterGates, prVars
<1>17. ASSUME NEW w \in Workers, ContainerExit(w) PROVE OriginalMergedAfterGates'
  BY <1>17, LiteralTypes, ConstantsAssumption, WorkerHasRun
  DEF ContainerExit, OriginalMergedAfterGates
<1>18. ASSUME NEW w \in Workers, Notify(w) PROVE OriginalMergedAfterGates'
  BY <1>18, LiteralTypes, ConstantsAssumption, WorkerHasRun
  DEF Notify, GoIdle, OriginalMergedAfterGates, runVars, prVars
<1>19. ASSUME NEW w \in Workers, NotifyLost(w) PROVE OriginalMergedAfterGates'
  BY <1>19, LiteralTypes, ConstantsAssumption, WorkerHasRun
  DEF NotifyLost, GoIdle, OriginalMergedAfterGates, runVars, prVars
<1>20. ASSUME NEW w \in Workers, WorkerCrash(w) PROVE OriginalMergedAfterGates'
  BY <1>20, LiteralTypes, ConstantsAssumption, WorkerHasRun
  DEF WorkerCrash, OriginalMergedAfterGates, runVars, prVars
<1>21. ASSUME NEW w \in Workers, WorkerRestart(w) PROVE OriginalMergedAfterGates'
  BY <1>21, LiteralTypes, ConstantsAssumption, WorkerHasRun
  DEF WorkerRestart, GoIdle, OriginalMergedAfterGates, runVars, prVars
<1>22. ASSUME NEW r \in Runs, PostExec(r) PROVE OriginalMergedAfterGates'
  <2>1. /\ r \in callbacks /\ mergedBy' = mergedBy /\ parent' = parent
        /\ phase' = [phase EXCEPT ![r] = "report"]
    BY <1>22 DEF PostExec
  <2>2. \A q \in Runs \ {r} : phase'[q] = phase[q] /\ gates'[q] = gates[q]
    BY <1>22 DEF PostExec, TypeOK
  <2>3. parent[r] = 0 => phase[r] = "started"
    BY <2>1 DEF OriginalInv
  <2>4. \A p \in Runs : mergedBy[p] # 0 => mergedBy[p] \in Runs
    BY RunColumns
  <2> QED
    BY <2>1, <2>2, <2>3, <2>4 DEF OriginalMergedAfterGates
<1>23. ASSUME NEW r \in Runs, CallbackFails(r) PROVE OriginalMergedAfterGates'
  BY <1>23, LiteralTypes, ConstantsAssumption
  DEF CallbackFails, OriginalMergedAfterGates, runVars, prVars
<1>24. ASSUME NEW r \in Runs, RunAges(r) PROVE OriginalMergedAfterGates'
  BY <1>24, LiteralTypes, ConstantsAssumption
  DEF RunAges, OriginalMergedAfterGates, prVars
<1>25. ASSUME NEW c \in {1, 2}, RescueScan(c) PROVE OriginalMergedAfterGates'
  BY <1>25, LiteralTypes, ConstantsAssumption
  DEF RescueScan, Stuck, OriginalMergedAfterGates, runVars, prVars
<1>26. ASSUME RescueCommit PROVE OriginalMergedAfterGates'
  BY <1>26, LiteralTypes, ConstantsAssumption
  DEF RescueCommit, OriginalMergedAfterGates, prVars
<1>27. CASE UNCHANGED vars
  BY <1>27 DEF OriginalMergedAfterGates, OriginalInv, vars, runVars, prVars
<1>28. ASSUME RescueFails \/ RescueLoopEnds \/ RescueRestarts PROVE OriginalMergedAfterGates'
  BY <1>28
  DEF RescueFails, RescueLoopEnds, RescueRestarts, OriginalMergedAfterGates, OriginalInv,
      runVars, prVars
<1> QED
  BY <1>1, <1>2, <1>3, <1>4, <1>5, <1>6, <1>7, <1>8, <1>9, <1>10, <1>11, <1>12, <1>13,
         <1>14, <1>15, <1>16, <1>17, <1>18, <1>19, <1>20, <1>21, <1>22, <1>23, <1>24,
         <1>25, <1>26, <1>27, <1>28
  DEF Next, RequestStep, WorkerStep, WorkerProgress, BackendStep

(* The phase of a merge is written by the request that merged.               *)
LEMMA PostMergeStep ==
  ASSUME IInv, [Next]_vars
  PROVE  PostMergeIsMerged'
<1> /\ BaseInv /\ TypeOK /\ RequestInv /\ TakenInv /\ WorkerInv
    /\ OriginalInv /\ PullRequestInv
    /\ OriginalMergedAfterGates /\ PostMergeIsMerged
  BY DEF IInv, BaseInv
<1>1. ASSUME NEW s \in Sessions, LaunchCheck(s) PROVE PostMergeIsMerged'
  BY <1>1, LiteralTypes, ConstantsAssumption, RequestHasRun
  DEF LaunchCheck, Request, PostMergeIsMerged, runVars, prVars
<1>2. ASSUME NEW s \in Sessions, LaunchCommit(s) PROVE PostMergeIsMerged'
  <2>1. PICK r \in Unused, n \in 0..MaxRuns : pr' = [pr EXCEPT ![r] = n]
    BY <1>2, LiteralTypes DEF LaunchCommit, Insert
  <2>2. phase[r] = "started" /\ phase' = phase /\ mergedBy' = mergedBy
    BY <1>2 DEF LaunchCommit, Insert, Unused, TakenInv, prVars
  <2> QED
    BY <2>1, <2>2 DEF PostMergeIsMerged
<1>3. ASSUME NEW s \in Sessions, NEW r \in Runs, RetryCheck(s, r)
      PROVE PostMergeIsMerged'
  BY <1>3, LiteralTypes, ConstantsAssumption
  DEF RetryCheck, Request, PostMergeIsMerged, runVars, prVars
<1>4. ASSUME NEW s \in Sessions, RetryCommit(s) PROVE PostMergeIsMerged'
  <2> DEFINE n == pr[sess[s].run]
  <2>1. PICK r \in Unused : pr' = [pr EXCEPT ![r] = n]
    BY <1>4 DEF RetryCommit, Insert
  <2>2. phase[r] = "started" /\ phase' = phase /\ mergedBy' = mergedBy
    BY <1>4 DEF RetryCommit, Insert, Unused, TakenInv, prVars
  <2> QED
    BY <2>1, <2>2 DEF PostMergeIsMerged
<1>5. ASSUME NEW s \in Sessions, RequestFails(s) PROVE PostMergeIsMerged'
  BY <1>5, LiteralTypes, ConstantsAssumption, RequestHasRun
  DEF RequestFails, NoRequest, PostMergeIsMerged, runVars, prVars
<1>6. ASSUME NEW s \in Sessions, NEW r \in Runs, CancelLoad(s, r)
      PROVE PostMergeIsMerged'
  BY <1>6, LiteralTypes, ConstantsAssumption
  DEF CancelLoad, Request, Cancellable, PostMergeIsMerged, runVars, prVars
<1>7. ASSUME NEW s \in Sessions, CancelCommit(s) PROVE PostMergeIsMerged'
  BY <1>7, LiteralTypes, ConstantsAssumption, RequestHasRun
  DEF CancelCommit, NoRequest, PostMergeIsMerged, prVars
<1>8. ASSUME NEW s \in Sessions, NEW r \in Runs, ApproveLoad(s, r)
      PROVE PostMergeIsMerged'
  BY <1>8, LiteralTypes, ConstantsAssumption
  DEF ApproveLoad, Request, Approvable, PostMergeIsMerged, runVars, prVars
<1>9. ASSUME NEW s \in Sessions, ApproveMerge(s) PROVE PostMergeIsMerged'
  BY <1>9, LiteralTypes, ConstantsAssumption, RequestHasRun
  DEF ApproveMerge, PostMergeIsMerged, PullRequestInv, TypeOK, runVars
<1>10. ASSUME NEW s \in Sessions, ApproveCommit(s) PROVE PostMergeIsMerged'
  BY <1>10, LiteralTypes, ConstantsAssumption, RequestHasRun
  DEF ApproveCommit, NoRequest, PostMergeIsMerged, PullRequestInv, prVars
<1>11. ASSUME NEW r \in Runs, Reject(r) PROVE PostMergeIsMerged'
  BY <1>11, LiteralTypes, ConstantsAssumption DEF Reject, ClosePR, PostMergeIsMerged
<1>12. ASSUME NEW w \in Workers, ClaimSelect(w) PROVE PostMergeIsMerged'
  BY <1>12, LiteralTypes, ConstantsAssumption, WorkerHasRun
  DEF ClaimSelect, Claimable, Pending, PostMergeIsMerged, runVars, prVars
<1>13. ASSUME NEW w \in Workers, ClaimCommit(w) PROVE PostMergeIsMerged'
  BY <1>13, LiteralTypes, ConstantsAssumption, WorkerHasRun
  DEF ClaimCommit, PostMergeIsMerged, prVars
<1>14. ASSUME NEW w \in Workers, PrepareFails(w) PROVE PostMergeIsMerged'
  BY <1>14, LiteralTypes, ConstantsAssumption, WorkerHasRun
  DEF PrepareFails, GoIdle, PostMergeIsMerged, runVars, prVars
<1>15. ASSUME NEW w \in Workers, StartContainer(w) PROVE PostMergeIsMerged'
  BY <1>15, LiteralTypes, ConstantsAssumption, WorkerHasRun
  DEF StartContainer, PostMergeIsMerged, prVars
<1>16. ASSUME NEW w \in Workers, ContainerError(w) PROVE PostMergeIsMerged'
  BY <1>16, LiteralTypes, ConstantsAssumption, WorkerHasRun
  DEF ContainerError, GoIdle, PostMergeIsMerged, prVars
<1>17. ASSUME NEW w \in Workers, ContainerExit(w) PROVE PostMergeIsMerged'
  BY <1>17, LiteralTypes, ConstantsAssumption, WorkerHasRun
  DEF ContainerExit, PostMergeIsMerged
<1>18. ASSUME NEW w \in Workers, Notify(w) PROVE PostMergeIsMerged'
  BY <1>18, LiteralTypes, ConstantsAssumption, WorkerHasRun
  DEF Notify, GoIdle, PostMergeIsMerged, runVars, prVars
<1>19. ASSUME NEW w \in Workers, NotifyLost(w) PROVE PostMergeIsMerged'
  BY <1>19, LiteralTypes, ConstantsAssumption, WorkerHasRun
  DEF NotifyLost, GoIdle, PostMergeIsMerged, runVars, prVars
<1>20. ASSUME NEW w \in Workers, WorkerCrash(w) PROVE PostMergeIsMerged'
  BY <1>20, LiteralTypes, ConstantsAssumption, WorkerHasRun
  DEF WorkerCrash, PostMergeIsMerged, runVars, prVars
<1>21. ASSUME NEW w \in Workers, WorkerRestart(w) PROVE PostMergeIsMerged'
  BY <1>21, LiteralTypes, ConstantsAssumption, WorkerHasRun
  DEF WorkerRestart, GoIdle, PostMergeIsMerged, runVars, prVars
<1>22. ASSUME NEW r \in Runs, PostExec(r) PROVE PostMergeIsMerged'
  BY <1>22, LiteralTypes, ConstantsAssumption
  DEF PostExec, ClosePR, Verdict, GateResults, PostMergeIsMerged, PullRequestInv
<1>23. ASSUME NEW r \in Runs, CallbackFails(r) PROVE PostMergeIsMerged'
  BY <1>23, LiteralTypes, ConstantsAssumption
  DEF CallbackFails, PostMergeIsMerged, runVars, prVars
<1>24. ASSUME NEW r \in Runs, RunAges(r) PROVE PostMergeIsMerged'
  BY <1>24, LiteralTypes, ConstantsAssumption DEF RunAges, PostMergeIsMerged, prVars
<1>25. ASSUME NEW c \in {1, 2}, RescueScan(c) PROVE PostMergeIsMerged'
  BY <1>25, LiteralTypes, ConstantsAssumption
  DEF RescueScan, Stuck, PostMergeIsMerged, runVars, prVars
<1>26. ASSUME RescueCommit PROVE PostMergeIsMerged'
  BY <1>26, LiteralTypes, ConstantsAssumption
  DEF RescueCommit, PostMergeIsMerged, prVars
<1>27. CASE UNCHANGED vars
  BY <1>27 DEF PostMergeIsMerged, vars, runVars, prVars
<1>28. ASSUME RescueFails \/ RescueLoopEnds \/ RescueRestarts PROVE PostMergeIsMerged'
  BY <1>28
  DEF RescueFails, RescueLoopEnds, RescueRestarts, 
      PostMergeIsMerged, runVars, prVars
<1> QED
  BY <1>1, <1>2, <1>3, <1>4, <1>5, <1>6, <1>7, <1>8, <1>9, <1>10, <1>11, <1>12, <1>13,
         <1>14, <1>15, <1>16, <1>17, <1>18, <1>19, <1>20, <1>21, <1>22, <1>23, <1>24,
         <1>25, <1>26, <1>27, <1>28
  DEF Next, RequestStep, WorkerStep, WorkerProgress, BackendStep

(* The empty table satisfies the inductive invariant.                        *)
LEMMA InitIInv == Init => IInv
<1> SUFFICES ASSUME Init PROVE IInv
  OBVIOUS
<1>1. TypeOK
  <2>1. rescueOff \in BOOLEAN
    BY DEF Init
  <2> QED
    BY <2>1, LiteralTypes DEF Init, TypeOK, NoRequest, Modes
<1>2. RequestInv /\ TakenInv /\ WorkerInv
  BY DEF Init, RequestInv, TakenInv, WorkerInv, Taken, NoRequest, Decided, Executing
<1>3. OriginalInv /\ PullRequestInv /\ OriginalMergedAfterGates /\ PostMergeIsMerged
  BY DEF Init, OriginalInv, PullRequestInv, OriginalMergedAfterGates, PostMergeIsMerged,
         NoRequest, Decided
<1> QED
  BY <1>1, <1>2, <1>3 DEF IInv, BaseInv

(* The inductive invariant holds throughout.                                 *)
LEMMA IInvInvariant == Spec => []IInv
<1>1. IInv /\ [Next]_vars => IInv'
  BY TypeStep, RequestStepInv, TakenStep, WorkerStepInv, OriginalStep, PullRequestStep,
     GatesStep, PostMergeStep DEF IInv, BaseInv
<1> QED
  BY InitIInv, <1>1, PTL DEF Spec

(* Every column, request and worker keeps its type, whatever happens at      *)
(* once: the statuses written are those of ck_agent_run_status.              *)
THEOREM TypeCorrect == Spec => []TypeOK
<1>1. IInv => TypeOK
  BY DEF IInv, BaseInv
<1> QED
  BY IInvInvariant, <1>1, PTL

(* The pull request of an original run is merged after its callback found no *)
(* hard failure, for any number of requests and workers and any order of     *)
(* their steps (approve_and_merge against apply_post_exec_callback).         *)
THEOREM MergeFollowsGates == Spec => []OriginalMergedAfterGates
<1>1. IInv => OriginalMergedAfterGates
  BY DEF IInv
<1> QED
  BY IInvInvariant, <1>1, PTL

(* A run in phase post_merge is the one whose approval merged its pull       *)
(* request: concurrent approvals of a run, or of a run and its retries,      *)
(* never both reach it.                                                      *)
THEOREM PostMergeOnce == Spec => []PostMergeIsMerged
<1>1. IInv => PostMergeIsMerged
  BY DEF IInv
<1> QED
  BY IInvInvariant, <1>1, PTL

(* worker_id is written once: a run that a worker claimed is never handed to *)
(* another one (claim_next_run, FOR UPDATE SKIP LOCKED).                     *)
THEOREM OneWorkerPerRun == Spec => RunBelongsToOneWorker
<1> DEFINE Kept == \A r \in Runs : worker[r] # NoWorker => worker'[r] = worker[r]
<1>1. IInv /\ [Next]_vars => [Kept]_vars
  <2> SUFFICES ASSUME IInv, Next PROVE Kept
    OBVIOUS
  <2>1. CASE \E w \in Workers : ClaimCommit(w)
    BY <2>1 DEF ClaimCommit, IInv, BaseInv, WorkerInv, TakenInv, Taken
  <2>2. CASE ~ \E w \in Workers : ClaimCommit(w)
    <3>1. worker' = worker
      BY <2>2 DEF Next, RequestStep, WorkerStep, WorkerProgress, BackendStep, runVars,
        LaunchCheck, LaunchCommit, RetryCheck, RetryCommit, Insert, RequestFails,
        CancelLoad, CancelCommit, ApproveLoad, ApproveMerge, ApproveCommit, Reject,
        ClaimSelect, PrepareFails, StartContainer, ContainerError, ContainerExit,
        Notify, NotifyLost, WorkerCrash, WorkerRestart, PostExec, CallbackFails,
        RunAges, RescueScan, RescueCommit, RescueFails,
        RescueLoopEnds, RescueRestarts
    <3> QED
      BY <3>1
  <2> QED
    BY <2>1, <2>2
<1> QED
  BY IInvInvariant, <1>1, PTL DEF Spec, RunBelongsToOneWorker

(* The action of UnheldDeadRunIsFinal.                                       *)
DeadKept ==
  \A r \in Runs : status[r] \in Dead /\ Unheld(r) => status'[r] = status[r] /\ Unheld(r)'

(* No step starts from a dead run that nobody holds: a launch inserts        *)
(* another row, a claim wants a pending one, a rescue one that is active.    *)
LEMMA DeadStep ==
  ASSUME IInv, [Next]_vars
  PROVE  DeadKept
<1> TypeOK /\ RequestInv /\ TakenInv /\ WorkerInv
  BY DEF IInv, BaseInv
<1> BaseInv
  BY DEF IInv
<1>1. ASSUME NEW s \in Sessions, LaunchCheck(s) PROVE DeadKept
  BY <1>1, LiteralTypes, RequestHasRun
  DEF DeadKept, LaunchCheck, Request, Unheld, Holders, runVars, wVars
<1>2. ASSUME NEW s \in Sessions, LaunchCommit(s) PROVE DeadKept
  BY <1>2, LiteralTypes, RequestHasRun
  DEF DeadKept, LaunchCommit, Insert, NoRequest, Unused, Unheld, Holders, Dead, wVars
<1>3. ASSUME NEW s \in Sessions, NEW r \in Runs, RetryCheck(s, r) PROVE DeadKept
  BY <1>3, LiteralTypes
  DEF DeadKept, RetryCheck, Request, Unheld, Holders, runVars, wVars
<1>4. ASSUME NEW s \in Sessions, RetryCommit(s) PROVE DeadKept
  BY <1>4, LiteralTypes, RequestHasRun
  DEF DeadKept, RetryCommit, Insert, NoRequest, Unused, Unheld, Holders, Dead, wVars
<1>5. ASSUME NEW s \in Sessions, RequestFails(s) PROVE DeadKept
  BY <1>5, LiteralTypes, RequestHasRun
  DEF DeadKept, RequestFails, NoRequest, Unheld, Holders, runVars, wVars
<1>6. ASSUME NEW s \in Sessions, NEW r \in Runs, CancelLoad(s, r) PROVE DeadKept
  BY <1>6, LiteralTypes
  DEF DeadKept, CancelLoad, Request, Cancellable, Unheld, Holders, Dead, Active,
      runVars, wVars
<1>7. ASSUME NEW s \in Sessions, CancelCommit(s) PROVE DeadKept
  BY <1>7, LiteralTypes, RequestHasRun
  DEF DeadKept, CancelCommit, NoRequest, Unheld, Holders, wVars
<1>8. ASSUME NEW s \in Sessions, NEW r \in Runs, ApproveLoad(s, r) PROVE DeadKept
  BY <1>8, LiteralTypes
  DEF DeadKept, ApproveLoad, Request, Approvable, Unheld, Holders, Dead, Decided,
      runVars, wVars
<1>9. ASSUME NEW s \in Sessions, ApproveMerge(s) PROVE DeadKept
  BY <1>9, LiteralTypes, RequestHasRun
  DEF DeadKept, ApproveMerge, Unheld, Holders, runVars, wVars
<1>10. ASSUME NEW s \in Sessions, ApproveCommit(s) PROVE DeadKept
  BY <1>10, LiteralTypes, RequestHasRun
  DEF DeadKept, ApproveCommit, NoRequest, Unheld, Holders, wVars
<1>11. ASSUME NEW r \in Runs, Reject(r) PROVE DeadKept
  BY <1>11, LiteralTypes DEF DeadKept, Reject, Unheld, Holders, Dead, Decided, wVars
<1>12. ASSUME NEW w \in Workers, ClaimSelect(w) PROVE DeadKept
  BY <1>12, LiteralTypes, WorkerHasRun
  DEF DeadKept, ClaimSelect, Claimable, Pending, Unheld, Holders, Dead, runVars
<1>13. ASSUME NEW w \in Workers, ClaimCommit(w) PROVE DeadKept
  BY <1>13, LiteralTypes, WorkerHasRun DEF DeadKept, ClaimCommit, Unheld, Holders
<1>14. ASSUME NEW w \in Workers, PrepareFails(w) PROVE DeadKept
  BY <1>14, LiteralTypes, WorkerHasRun
  DEF DeadKept, PrepareFails, GoIdle, Unheld, Holders, runVars
<1>15. ASSUME NEW w \in Workers, StartContainer(w) PROVE DeadKept
  BY <1>15, LiteralTypes, WorkerHasRun DEF DeadKept, StartContainer, Unheld, Holders
<1>16. ASSUME NEW w \in Workers, ContainerError(w) PROVE DeadKept
  BY <1>16, LiteralTypes, WorkerHasRun
  DEF DeadKept, ContainerError, GoIdle, Unheld, Holders
<1>17. ASSUME NEW w \in Workers, ContainerExit(w) PROVE DeadKept
  BY <1>17, LiteralTypes, WorkerHasRun DEF DeadKept, ContainerExit, Unheld, Holders
<1>18. ASSUME NEW w \in Workers, Notify(w) PROVE DeadKept
  BY <1>18, LiteralTypes, WorkerHasRun
  DEF DeadKept, Notify, GoIdle, Unheld, Holders, runVars
<1>19. ASSUME NEW w \in Workers, NotifyLost(w) PROVE DeadKept
  BY <1>19, LiteralTypes, WorkerHasRun
  DEF DeadKept, NotifyLost, GoIdle, Unheld, Holders, runVars
<1>20. ASSUME NEW w \in Workers, WorkerCrash(w) PROVE DeadKept
  BY <1>20, LiteralTypes, WorkerHasRun
  DEF DeadKept, WorkerCrash, Unheld, Holders, runVars
<1>21. ASSUME NEW w \in Workers, WorkerRestart(w) PROVE DeadKept
  BY <1>21, LiteralTypes, WorkerHasRun
  DEF DeadKept, WorkerRestart, GoIdle, Unheld, Holders, runVars
<1>22. ASSUME NEW r \in Runs, PostExec(r) PROVE DeadKept
  BY <1>22, LiteralTypes
  DEF DeadKept, PostExec, ClosePR, Verdict, Unheld, Holders, TypeOK, wVars
<1>23. ASSUME NEW r \in Runs, CallbackFails(r) PROVE DeadKept
  BY <1>23, LiteralTypes DEF DeadKept, CallbackFails, Unheld, Holders, runVars, wVars
<1>24. ASSUME NEW r \in Runs, RunAges(r) PROVE DeadKept
  BY <1>24, LiteralTypes DEF DeadKept, RunAges, Unheld, Holders, wVars
<1>25. ASSUME NEW c \in {1, 2}, RescueScan(c) PROVE DeadKept
  BY <1>25, LiteralTypes
  DEF DeadKept, RescueScan, Stuck, Unheld, Holders, Dead, runVars, wVars
<1>26. ASSUME RescueCommit PROVE DeadKept
  BY <1>26, LiteralTypes DEF DeadKept, RescueCommit, Unheld, Holders, wVars
<1>27. CASE UNCHANGED vars
  BY <1>27 DEF DeadKept, Unheld, Holders, vars, runVars, wVars
<1>28. ASSUME RescueFails \/ RescueLoopEnds \/ RescueRestarts PROVE DeadKept
  BY <1>28
  DEF RescueFails, RescueLoopEnds, RescueRestarts, 
      DeadKept, Unheld, Holders, runVars, wVars
<1> QED
  BY <1>1, <1>2, <1>3, <1>4, <1>5, <1>6, <1>7, <1>8, <1>9, <1>10, <1>11, <1>12, <1>13,
         <1>14, <1>15, <1>16, <1>17, <1>18, <1>19, <1>20, <1>21, <1>22, <1>23, <1>24,
         <1>25, <1>26, <1>27, <1>28
  DEF DeadKept, Next, RequestStep, WorkerStep, WorkerProgress, BackendStep

(* A failed, cancelled or rejected run that no worker, request, callback or  *)
(* rescue pass holds is final: what can revive a dead run was under way      *)
(* before it died.                                                           *)
THEOREM UnheldDeadRunsStay == Spec => UnheldDeadRunIsFinal
<1>1. IInv /\ [Next]_vars => [DeadKept]_vars
  BY DeadStep
<1> QED
  BY IInvInvariant, <1>1, PTL DEF Spec, UnheldDeadRunIsFinal, DeadKept

-----------------------------------------------------------------------------
(* AgentRun implements RunSlots, whose bound on the active runs therefore    *)
(* holds of the detailed model.                                              *)

(* The variables of RunSlots, as AgentRun shows them.                        *)

LaunchingSessions == {s \in Sessions : sess[s].op \in Launching}
Prepared == [w \in Workers |-> IF wpc[w] = "preparing" THEN wrun[w] ELSE 0]
Existing == Runs \ Unused

(* The instance's cardinality is the module's.                               *)
LEMMA SameCardinality == \A S : Slots!Cardinality(S) = Cardinality(S)
BY Zenon DEF Slots!Cardinality, Cardinality

(* There are finitely many active runs.                                      *)
LEMMA ActiveFinite == IsFiniteSet(ActiveRuns) /\ Cardinality(ActiveRuns) \in Nat
<1>1. IsFiniteSet(Runs)
  BY FS_Interval, ConstantsAssumption DEF Runs
<1> QED
  BY <1>1, FS_Subset, FS_CardinalityType DEF ActiveRuns

(* Steps that change none of the mapped variables.                           *)
LEMMA Stutters ==
  ASSUME ActiveRuns' = ActiveRuns, Existing' = Existing,
         LaunchingSessions' = LaunchingSessions, Prepared' = Prepared
  PROVE  UNCHANGED Slots!slots
BY DEF Slots!slots, Existing, LaunchingSessions, Prepared

(* Steps that end or cancel runs.                                            *)
LEMMA Settles ==
  ASSUME NEW R \in SUBSET Runs, ActiveRuns' = ActiveRuns \ R, Existing' = Existing,
         LaunchingSessions' = LaunchingSessions, Prepared' = Prepared
  PROVE  Slots!Next
<1>1. Slots!Settle(R)
  BY DEF Slots!Settle, Existing, LaunchingSessions, Prepared
<1> QED
  BY <1>1 DEF Slots!Next

(* A step that writes the status of one run, which was inserted, to one that *)
(* is not active.                                                            *)
LEMMA RunSettles ==
  ASSUME TypeOK, NEW r \in Runs, status[r] # "absent",
         NEW st, st \notin Active, st # "absent",
         status' = [status EXCEPT ![r] = st]
  PROVE  ActiveRuns' = ActiveRuns \ {r} /\ Existing' = Existing
BY DEF TypeOK, ActiveRuns, Existing, Unused

(* A request that is not a launch, before and after, changes no launch.      *)
LEMMA SameLaunching ==
  ASSUME TypeOK, NEW s \in Sessions, NEW v, sess' = [sess EXCEPT ![s] = v],
         sess[s].op \notin Launching, v.op \notin Launching
  PROVE  LaunchingSessions' = LaunchingSessions
BY DEF TypeOK, LaunchingSessions

(* A worker that is not preparing, before and after, prepares nothing.       *)
LEMMA SamePrepared ==
  ASSUME TypeOK, NEW w \in Workers, NEW pc, NEW n,
         wpc' = [wpc EXCEPT ![w] = pc], wrun' = [wrun EXCEPT ![w] = n],
         wpc[w] # "preparing", pc # "preparing"
  PROVE  Prepared' = Prepared
BY DEF TypeOK, Prepared

(* The statuses determine the active and the inserted runs.                  *)
LEMMA SameStatus ==
  ASSUME status' = status
  PROVE  ActiveRuns' = ActiveRuns /\ Existing' = Existing
BY DEF ActiveRuns, Existing, Unused

(* The rest of the mapping depends on sessions and workers.                  *)
LEMMA SameRest ==
  /\ sess' = sess => LaunchingSessions' = LaunchingSessions
  /\ wpc' = wpc /\ wrun' = wrun => Prepared' = Prepared
BY DEF LaunchingSessions, Prepared

(* The initial states map to initial states.                                 *)
LEMMA InitRefines == Init => Slots!Init
BY DEF Init, Slots!Init, ActiveRuns, Unused, Active, Launching, NoRequest

(* Every step maps to a step of RunSlots or a stutter.                       *)
LEMMA StepRefines ==
  ASSUME IInv, Next
  PROVE  Slots!Next \/ UNCHANGED Slots!slots
<1> TypeOK /\ RequestInv /\ TakenInv /\ WorkerInv /\ BaseInv
  BY DEF IInv, BaseInv
<1>1. ASSUME NEW s \in Sessions, LaunchCheck(s) \/ \E r \in Runs : RetryCheck(s, r)
      PROVE  Slots!Next
  <2>1. /\ s \notin LaunchingSessions /\ LaunchingSessions' = LaunchingSessions \union {s}
        /\ Cardinality(ActiveRuns) < MaxConcurrent
        /\ status' = status /\ wpc' = wpc /\ wrun' = wrun
    BY <1>1 DEF LaunchCheck, RetryCheck, HasCapacity, LaunchingSessions, Launching,
                Request, TypeOK, runVars, wVars
  <2>2. ~ Slots!Full
    BY <2>1, SameCardinality, ActiveFinite, ConstantsAssumption DEF Slots!Full
  <2>3. Slots!Check(s)
    BY <2>1, <2>2, SameStatus, SameRest
    DEF Slots!Check, LaunchingSessions, Prepared, Existing
  <2> QED
    BY <2>3 DEF Slots!Next
<1>2. ASSUME NEW s \in Sessions, LaunchCommit(s) \/ RetryCommit(s)
      PROVE  Slots!Next
  <2>1. PICK r \in Unused : status' = [status EXCEPT ![r] = "pending"]
    BY <1>2 DEF LaunchCommit, RetryCommit, Insert
  <2>2. /\ s \in LaunchingSessions /\ LaunchingSessions' = LaunchingSessions \ {s}
        /\ wpc' = wpc /\ wrun' = wrun
    BY <1>2 DEF LaunchCommit, RetryCommit, LaunchingSessions, Launching, NoRequest,
                TypeOK, wVars
  <2>3. /\ r \in Runs /\ r \notin Existing /\ Existing' = Existing \union {r}
        /\ ActiveRuns' = ActiveRuns \union {r}
    BY <2>1 DEF Existing, Unused, ActiveRuns, Active, TypeOK
  <2>4. Slots!Insert(s, r)
    BY <2>2, <2>3, SameRest DEF Slots!Insert, LaunchingSessions, Prepared, Existing
  <2> QED
    BY <2>3, <2>4 DEF Slots!Next
<1>3. ASSUME NEW s \in Sessions, RequestFails(s)
      PROVE  Slots!Next \/ UNCHANGED Slots!slots
  <2>1. /\ LaunchingSessions' = LaunchingSessions \ {s}
        /\ status' = status /\ wpc' = wpc /\ wrun' = wrun
    BY <1>3 DEF RequestFails, LaunchingSessions, Launching, NoRequest, TypeOK,
                runVars, wVars
  <2>2. CASE s \in LaunchingSessions
    <3>1. Slots!Abandon(s)
      BY <2>1, <2>2, SameStatus, SameRest
      DEF Slots!Abandon, LaunchingSessions, Prepared, Existing
    <3> QED
      BY <3>1 DEF Slots!Next
  <2>3. CASE s \notin LaunchingSessions
    BY <2>1, <2>3, SameStatus, SameRest, Stutters
  <2> QED
    BY <2>2, <2>3
<1>4. ASSUME NEW s \in Sessions,
             (\E r \in Runs : CancelLoad(s, r) \/ ApproveLoad(s, r)) \/ ApproveMerge(s)
      PROVE  UNCHANGED Slots!slots
  <2>1. LaunchingSessions' = LaunchingSessions
    BY <1>4 DEF CancelLoad, ApproveLoad, ApproveMerge, Request, TypeOK,
                LaunchingSessions, Launching
  <2>2. status' = status /\ wpc' = wpc /\ wrun' = wrun
    BY <1>4 DEF CancelLoad, ApproveLoad, ApproveMerge, runVars, wVars
  <2> QED
    BY <2>1, <2>2, SameStatus, SameRest, Stutters
<1>5. ASSUME NEW s \in Sessions, CancelCommit(s) \/ ApproveCommit(s)
      PROVE  Slots!Next \/ UNCHANGED Slots!slots
  <2> DEFINE r == sess[s].run
  <2>1. r \in Runs /\ status[r] # "absent"
    BY <1>5 DEF CancelCommit, ApproveCommit, RequestInv
  <2>2. /\ sess' = [sess EXCEPT ![s] = NoRequest]
        /\ sess[s].op \notin Launching /\ wpc' = wpc /\ wrun' = wrun
    BY <1>5 DEF CancelCommit, ApproveCommit, Launching, wVars
  <2>3. LaunchingSessions' = LaunchingSessions
    BY <2>2, SameLaunching DEF NoRequest, Launching
  <2>4. \/ status' = [status EXCEPT ![r] = "cancelled"]
        \/ status' = [status EXCEPT ![r] = "completed"]
        \/ status' = status
    BY <1>5 DEF CancelCommit, ApproveCommit
  <2>5. CASE status' = status
    BY <2>2, <2>3, <2>5, SameStatus, SameRest, Stutters
  <2>6. CASE status' # status
    <3>1. ActiveRuns' = ActiveRuns \ {r} /\ Existing' = Existing
      BY <2>1, <2>4, <2>6, RunSettles DEF Active
    <3> QED
      BY <2>1, <2>2, <2>3, <3>1, SameRest, Settles
  <2> QED
    BY <2>5, <2>6
<1>6. ASSUME NEW r \in Runs, Reject(r) \/ PostExec(r)
      PROVE  Slots!Next
  <2>1. status[r] # "absent"
    BY <1>6 DEF Reject, PostExec, TakenInv, Taken, Decided
  <2>2. PICK st \in {"rejected", "failed", "awaiting_human", "completed"} :
          status' = [status EXCEPT ![r] = st]
    BY <1>6 DEF Reject, PostExec, Verdict
  <2>3. ActiveRuns' = ActiveRuns \ {r} /\ Existing' = Existing
    BY <2>1, <2>2, RunSettles DEF Active
  <2>4. sess' = sess /\ wpc' = wpc /\ wrun' = wrun
    BY <1>6 DEF Reject, PostExec, wVars
  <2> QED
    BY <2>3, <2>4, SameRest, Settles
<1>7. ASSUME NEW w \in Workers, ClaimCommit(w)
      PROVE  Slots!Next
  <2> PICK r \in Runs : r = wrun[w]
    BY <1>7, WorkerHasRun DEF ClaimCommit
  <2>1. r \in Runs /\ status[r] = "pending" /\ wpc[w] = "claiming"
    BY <1>7 DEF ClaimCommit, WorkerInv
  <2>2. /\ status' = [status EXCEPT ![r] = "preparing"]
        /\ wpc' = [wpc EXCEPT ![w] = "preparing"] /\ wrun' = wrun /\ sess' = sess
    BY <1>7 DEF ClaimCommit
  <2>3. r \in ActiveRuns /\ ActiveRuns' = ActiveRuns /\ Existing' = Existing
    BY <2>1, <2>2 DEF ActiveRuns, Active, Existing, Unused, TypeOK
  <2>4. Prepared[w] = 0 /\ Prepared' = [Prepared EXCEPT ![w] = r]
    BY <2>1, <2>2 DEF Prepared, TypeOK
  <2>5. Slots!Take(w, r)
    BY <2>2, <2>3, <2>4, SameRest DEF Slots!Take, LaunchingSessions, Prepared, Existing
  <2> QED
    BY <2>5 DEF Slots!Next
<1>8. ASSUME NEW w \in Workers, PrepareFails(w) \/ WorkerCrash(w) \/ WorkerRestart(w)
      PROVE  Slots!Next
  <2>1. Prepared' = [Prepared EXCEPT ![w] = 0]
    BY <1>8 DEF PrepareFails, WorkerCrash, WorkerRestart, GoIdle, Prepared, TypeOK
  <2>2. status' = status /\ sess' = sess
    BY <1>8 DEF PrepareFails, WorkerCrash, WorkerRestart, runVars
  <2>3. Slots!Release(w)
    BY <2>1, <2>2, SameStatus, SameRest
    DEF Slots!Release, LaunchingSessions, Prepared, Existing
  <2> QED
    BY <2>3 DEF Slots!Next
<1>9. ASSUME NEW w \in Workers, StartContainer(w)
      PROVE  Slots!Next
  <2> DEFINE r == wrun[w]
  <2>1. r \in Runs /\ status[r] # "absent" /\ wpc[w] = "preparing"
    <3>1. wpc[w] = "preparing" /\ r \in Runs
      BY <1>9, WorkerHasRun DEF StartContainer
    <3>2. worker[r] = w
      BY <3>1 DEF WorkerInv, Executing
    <3> QED
      BY <3>1, <3>2, ConstantsAssumption DEF TakenInv, Taken
  <2>2. /\ status' = [status EXCEPT ![r] = "running"] /\ sess' = sess
        /\ wpc' = [wpc EXCEPT ![w] = "running"] /\ wrun' = wrun
    BY <1>9 DEF StartContainer
  <2>3. /\ r \in Existing /\ Existing' = Existing
        /\ ActiveRuns' = ActiveRuns \union {r}
    BY <2>1, <2>2 DEF ActiveRuns, Active, Existing, Unused, TypeOK
  <2>4. Prepared[w] = r /\ Prepared' = [Prepared EXCEPT ![w] = 0]
    BY <2>1, <2>2 DEF Prepared, TypeOK
  <2>5. Slots!Revive(w)
    BY <2>2, <2>3, <2>4, SameRest
    DEF Slots!Revive, LaunchingSessions, Prepared, Existing
  <2> QED
    BY <2>5 DEF Slots!Next
<1>10. ASSUME NEW w \in Workers, ContainerError(w) \/ ContainerExit(w)
       PROVE  Slots!Next
  <2> DEFINE r == wrun[w]
  <2>1. r \in Runs /\ status[r] # "absent" /\ wpc[w] = "running"
    <3>1. wpc[w] = "running" /\ r \in Runs
      BY <1>10, WorkerHasRun DEF ContainerError, ContainerExit
    <3>2. worker[r] = w
      BY <3>1 DEF WorkerInv, Executing
    <3> QED
      BY <3>1, <3>2, ConstantsAssumption DEF TakenInv, Taken
  <2>2. PICK st \in {"failed", "completed"} : status' = [status EXCEPT ![r] = st]
    BY <1>10 DEF ContainerError, ContainerExit
  <2>3. ActiveRuns' = ActiveRuns \ {r} /\ Existing' = Existing
    BY <2>1, <2>2, RunSettles DEF Active
  <2>4. Prepared' = Prepared /\ sess' = sess
    BY <1>10, <2>1 DEF ContainerError, ContainerExit, GoIdle, Prepared, TypeOK
  <2> QED
    BY <2>1, <2>3, <2>4, SameRest, Settles
<1>11. ASSUME NEW w \in Workers, ClaimSelect(w) \/ Notify(w) \/ NotifyLost(w)
       PROVE  UNCHANGED Slots!slots
  <2>1. Prepared' = Prepared /\ sess' = sess /\ status' = status
    BY <1>11 DEF ClaimSelect, Notify, NotifyLost, GoIdle, Prepared, TypeOK, runVars
  <2> QED
    BY <2>1, SameStatus, SameRest, Stutters
<1>12. ASSUME \/ \E r \in Runs : CallbackFails(r) \/ RunAges(r)
              \/ \E c \in {1, 2} : RescueScan(c)
              \/ RescueFails \/ RescueLoopEnds \/ RescueRestarts
       PROVE  UNCHANGED Slots!slots
  <2>1. status' = status /\ sess' = sess /\ wpc' = wpc /\ wrun' = wrun
    BY <1>12
    DEF CallbackFails, RunAges, RescueScan, RescueFails, RescueLoopEnds, RescueRestarts,
        runVars, wVars
  <2> QED
    BY <2>1, SameStatus, SameRest, Stutters
<1>13. ASSUME RescueCommit PROVE Slots!Next
  <2>1. \A r \in rescue : status[r] # "absent"
    BY DEF TakenInv, Taken, TypeOK
  <2>2. /\ status' = [r \in Runs |-> IF r \in rescue THEN "failed" ELSE status[r]]
        /\ sess' = sess /\ wpc' = wpc /\ wrun' = wrun
    BY <1>13 DEF RescueCommit, wVars
  <2>3. ActiveRuns' = ActiveRuns \ rescue /\ Existing' = Existing
    BY <2>1, <2>2 DEF ActiveRuns, Active, Existing, Unused, TypeOK
  <2>4. rescue \in SUBSET Runs
    BY DEF TypeOK
  <2> QED
    BY <2>2, <2>3, <2>4, SameRest, Settles
<1> QED
  BY <1>1, <1>2, <1>3, <1>4, <1>5, <1>6, <1>7, <1>8, <1>9, <1>10, <1>11, <1>12, <1>13
  DEF Next, RequestStep, WorkerStep, WorkerProgress, BackendStep

(* Every behaviour of the agent runs is one of RunSlots: what a launch, a    *)
(* cancellation, a worker or the rescue does to the set of active runs is    *)
(* what the launch gate was bounded under.                                   *)
THEOREM RunsImplementSlots == Spec => ImplementsSlots
<1>1. IInv /\ [Next]_vars => [Slots!Next]_(Slots!slots)
  <2> SUFFICES ASSUME IInv, [Next]_vars PROVE [Slots!Next]_(Slots!slots)
    OBVIOUS
  <2>1. CASE UNCHANGED vars
    BY <2>1, SameStatus, SameRest, Stutters DEF vars, runVars, wVars
  <2> QED
    BY <2>1, StepRefines
<1> QED
  BY <1>1, InitRefines, IInvInvariant, PTL DEF Spec, ImplementsSlots, Slots!Spec

-----------------------------------------------------------------------------
(* The bound, carried over.                                                  *)

Bound == INSTANCE RunSlots_proofs WITH
  NoRun <- 0,
  active <- ActiveRuns,
  inserted <- Runs \ Unused,
  launching <- {s \in Sessions : sess[s].op \in Launching},
  preparing <- [w \in Workers |-> IF wpc[w] = "preparing" THEN wrun[w] ELSE 0]

(* What the bound asks of the constants.                                     *)
LEMMA BoundAssumption ==
  /\ Bound!IsFiniteSet(Workers) /\ Bound!IsFiniteSet(Sessions) /\ Bound!IsFiniteSet(Runs)
  /\ MaxConcurrent \in Nat \ {0}
  /\ 0 \notin Runs
<1>1. IsFiniteSet(Runs) /\ 0 \notin Runs
  BY FS_Interval, ConstantsAssumption DEF Runs
<1>2. \A S : Bound!IsFiniteSet(S) = IsFiniteSet(S)
  BY Zenon DEF Bound!IsFiniteSet, IsFiniteSet
<1> QED
  BY <1>1, <1>2, ConstantsAssumption

(* Both instances of RunSlots are one specification.                         *)
LEMMA SlotsBound == Slots!Spec => Bound!Spec
<1>1. \A S : Slots!Cardinality(S) = Bound!Cardinality(S)
  BY Zenon DEF Slots!Cardinality, Bound!Cardinality
<1>2. Slots!Next => Bound!Next
  BY <1>1
  DEF Slots!Next, Slots!Check, Slots!Full, Slots!Abandon, Slots!Insert, Slots!Settle,
      Slots!Take, Slots!Revive, Slots!Release,
      Bound!Next, Bound!Check, Bound!Full, Bound!Abandon, Bound!Insert, Bound!Settle,
      Bound!Take, Bound!Revive, Bound!Release
<1>3. Slots!Init => Bound!Init
  BY DEF Slots!Init, Bound!Init
<1>4. UNCHANGED Slots!slots => UNCHANGED Bound!slots
  BY DEF Slots!slots, Bound!slots
<1>5. [Slots!Next]_(Slots!slots) => [Bound!Next]_(Bound!slots)
  BY <1>2, <1>4
<1> QED
  BY <1>3, <1>5, PTL DEF Slots!Spec, Bound!Spec

(* The active runs never exceed max_concurrent_runs by more than the launches *)
(* that may be in progress and the runs that workers may revive, less one.    *)
THEOREM ActiveRunsBounded ==
  Spec => [](Cardinality(ActiveRuns)
               <= MaxConcurrent - 1 + Cardinality(Sessions) + Cardinality(Workers))
<1>1. Bound!Spec => []Bound!ActiveWithinOvershoot
  BY BoundAssumption, Bound!ActiveStaysWithinOvershoot
<1>2. \A S : Bound!Cardinality(S) = Cardinality(S)
  BY Zenon DEF Bound!Cardinality, Cardinality
<1>3. Bound!ActiveWithinOvershoot =>
        Cardinality(ActiveRuns)
          <= MaxConcurrent - 1 + Cardinality(Sessions) + Cardinality(Workers)
  BY <1>2 DEF Bound!ActiveWithinOvershoot, Bound!OvershootBound
<1> QED
  BY <1>1, <1>3, RunsImplementSlots, SlotsBound, PTL DEF ImplementsSlots
=============================================================================
