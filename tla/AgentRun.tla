------------------------------ MODULE AgentRun ------------------------------
(***************************************************************************)
(* The life of the rows of support_agent_runs: the backend requests that   *)
(* launch, retry, cancel, approve and reject a run, the workers that claim *)
(* one and execute its container, the post-exec callback that gives the    *)
(* verdict of the gates, and the orphan-rescue loop.                       *)
(*                                                                         *)
(* A request that awaits GitHub, SMTP or another query between the read of *)
(* a run and its commit is split there: the session record keeps what it   *)
(* read.  A request whose first UPDATE follows its SELECT at once holds    *)
(* the row lock until it commits, and is one step.  The ORM writes only    *)
(* the columns that differ from what it read; the worker writes plain SQL  *)
(* with no condition on the status.                                        *)
(***************************************************************************)
EXTENDS Naturals, FiniteSets

CONSTANTS
  Workers,        \* the replicas of the agent worker
  Sessions,       \* the backend requests that may be in progress at once
  NoWorker,       \* worker_id IS NULL
  MaxRuns,        \* bound: rows the model may insert
  MaxConcurrent,  \* max_concurrent_runs of the entity's configuration
  MaxCrashes      \* bound: workers killed

ASSUME ConstantsAssumption ==
  /\ IsFiniteSet(Workers) /\ IsFiniteSet(Sessions)
  /\ NoWorker \notin Workers
  /\ MaxRuns \in Nat /\ MaxCrashes \in Nat
  /\ MaxConcurrent \in Nat \ {0}

VARIABLES
  status,     \* run -> status, "absent" before the INSERT
  phase,      \* run -> current_phase: before the callback, after it, after the merge
  mode,       \* run -> autonomy_mode
  worker,     \* run -> worker_id
  age,        \* run -> time since updated_at: 0 below 5 min, 1 below 45 min, 2 above
  report,     \* run -> the report_json the worker stored: success or partial is "usable"
  reportedPR, \* run -> the report names a pull request
  gates,      \* run -> failed_gates: the CI, and the gates that close the PR ("hard");
              \*   line_budget has the effect of no failure and is left out
  parent,     \* run -> the run it retries, 0 for an original run
  pr,         \* run -> github_pr_number: the run that opened the PR, 0 when NULL
  prState,    \* PR (named after the run that opened it) -> its state on GitHub
  mergedBy,   \* PR -> the run whose approval merged it, 0 when none did
  sess,       \* session -> the request it serves and what it read
  wpc,        \* worker -> where its main loop is
  wrun,       \* worker -> the run in its hands
  callbacks,  \* runs whose post-exec request reached the backend
  rescue,     \* runs read as stuck by the rescue pass that holds the advisory lock
  rescueOff,  \* the lock is left on a pooled connection, or the loop has ended
  crashes     \* workers killed so far

runVars == <<status, phase, mode, worker, age, report, reportedPR, gates, parent, pr>>
prVars  == <<prState, mergedBy>>
wVars   == <<wpc, wrun, crashes>>
vars    == <<runVars, prVars, sess, wVars, callbacks, rescue, rescueOff>>

-----------------------------------------------------------------------------
Runs     == 1..MaxRuns
Active   == {"pending", "preparing", "running"}
Decided  == {"awaiting_human", "completed"}
Dead     == {"failed", "cancelled", "rejected"}
Status   == Active \union Decided \union Dead \union {"absent"}
Modes    == {"autonomous_with_approval", "recommendation"}
GateKinds == {"ci_status", "hard"}
Executing == {"preparing", "running", "notifying"}
Launching == {"launch", "retry"}

NoRequest == [op |-> "idle", run |-> 0, seen |-> "absent"]
Request(o, r, v) == [op |-> o, run |-> r, seen |-> v]

TypeOK ==
  /\ status \in [Runs -> Status]
  /\ phase \in [Runs -> {"started", "report", "post_merge"}]
  /\ mode \in [Runs -> Modes]
  /\ worker \in [Runs -> Workers \union {NoWorker}]
  /\ age \in [Runs -> 0..2]
  /\ report \in [Runs -> {"none", "usable", "failed"}]
  /\ reportedPR \in [Runs -> BOOLEAN]
  /\ gates \in [Runs -> SUBSET GateKinds]
  /\ parent \in [Runs -> 0..MaxRuns]
  /\ pr \in [Runs -> 0..MaxRuns]
  /\ prState \in [Runs -> {"none", "open", "closed", "merged"}]
  /\ mergedBy \in [Runs -> 0..MaxRuns]
  /\ sess \in [Sessions -> [op : {"idle", "launch", "retry", "cancel", "approve", "merged"},
                            run : 0..MaxRuns, seen : Status]]
  /\ wpc \in [Workers -> {"idle", "claiming", "down"} \union Executing]
  /\ wrun \in [Workers -> 0..MaxRuns]
  /\ callbacks \subseteq Runs
  /\ rescue \subseteq Runs
  /\ rescueOff \in BOOLEAN
  /\ crashes \in Nat

Init ==
  /\ status = [r \in Runs |-> "absent"]
  /\ phase = [r \in Runs |-> "started"]
  /\ mode = [r \in Runs |-> "recommendation"]
  /\ worker = [r \in Runs |-> NoWorker]
  /\ age = [r \in Runs |-> 0]
  /\ report = [r \in Runs |-> "none"]
  /\ reportedPR = [r \in Runs |-> FALSE]
  /\ gates = [r \in Runs |-> {}]
  /\ parent = [r \in Runs |-> 0]
  /\ pr = [r \in Runs |-> 0]
  /\ prState = [r \in Runs |-> "none"]
  /\ mergedBy = [r \in Runs |-> 0]
  /\ sess = [s \in Sessions |-> NoRequest]
  /\ wpc = [w \in Workers |-> "idle"]
  /\ wrun = [w \in Workers |-> 0]
  /\ callbacks = {}
  /\ rescue = {}
  /\ rescueOff = FALSE
  /\ crashes = 0

-----------------------------------------------------------------------------
(* Launching a run.  Feature switch, circuit breaker, budget and connector *)
(* errors refuse a launch: the step is then not taken (RequestFails when   *)
(* the refusal comes after the gates).                                     *)

ActiveRuns == {r \in Runs : status[r] \in Active}
Unused == {r \in Runs : status[r] = "absent"}

\* The plausible slip: "<=" for "<" in the count of active runs.
HasCapacityOffByOne == Cardinality(ActiveRuns) <= MaxConcurrent

HasCapacity == Cardinality(ActiveRuns) < MaxConcurrent

LaunchCheck(s) ==
  /\ sess[s].op = "idle" /\ HasCapacity
  /\ sess' = [sess EXCEPT ![s] = Request("launch", 0, "absent")]
  /\ UNCHANGED <<runVars, prVars, wVars, callbacks, rescue, rescueOff>>

\* launch_ci_retry_run accepts a parent in any status, as long as it has a PR
\* and its recorded gates include a failed ci_status.
RetryCheck(s, r) ==
  /\ sess[s].op = "idle" /\ HasCapacity
  /\ pr[r] # 0 /\ "ci_status" \in gates[r]
  /\ sess' = [sess EXCEPT ![s] = Request("retry", r, "absent")]
  /\ UNCHANGED <<runVars, prVars, wVars, callbacks, rescue, rescueOff>>

\* The row inserted: created_at orders the rows, so the next one is the smallest unused.
Insert(r, m, p, n) ==
  /\ \A q \in Unused : r <= q
  /\ status' = [status EXCEPT ![r] = "pending"]
  /\ mode' = [mode EXCEPT ![r] = m]
  /\ parent' = [parent EXCEPT ![r] = p]
  /\ pr' = [pr EXCEPT ![r] = n]
  /\ UNCHANGED <<phase, worker, age, report, reportedPR, gates>>

LaunchCommit(s) ==
  /\ sess[s].op = "launch"
  /\ \E r \in Unused, m \in Modes : Insert(r, m, 0, 0)
  /\ sess' = [sess EXCEPT ![s] = NoRequest]
  /\ UNCHANGED <<prVars, wVars, callbacks, rescue, rescueOff>>

RetryCommit(s) ==
  /\ sess[s].op = "retry"
  /\ LET p == sess[s].run IN \E r \in Unused : Insert(r, mode[p], p, pr[p])
  /\ sess' = [sess EXCEPT ![s] = NoRequest]
  /\ UNCHANGED <<prVars, wVars, callbacks, rescue, rescueOff>>

\* An exception, a refusal after the gates, or the end of the backend process
\* rolls the request back; what GitHub already did stays done.
RequestFails(s) ==
  /\ sess[s].op # "idle"
  /\ sess' = [sess EXCEPT ![s] = NoRequest]
  /\ UNCHANGED <<runVars, prVars, wVars, callbacks, rescue, rescueOff>>

-----------------------------------------------------------------------------
(* Decisions of an administrator.                                          *)

LockedRows == {wrun[w] : w \in {v \in Workers : wpc[v] = "claiming"}}

\* The plausible slip: the list of terminal statuses forgets "rejected".
CancellableLoose(r) == status[r] \in Active \union {"awaiting_human", "rejected"}

Cancellable(r) == status[r] \in Active \union {"awaiting_human"}

CancelLoad(s, r) ==
  /\ sess[s].op = "idle" /\ Cancellable(r)
  /\ sess' = [sess EXCEPT ![s] = Request("cancel", r, "absent")]
  /\ UNCHANGED <<runVars, prVars, wVars, callbacks, rescue, rescueOff>>

CancelCommit(s) ==
  LET r == sess[s].run IN
  /\ sess[s].op = "cancel" /\ r \notin LockedRows
  /\ status' = [status EXCEPT ![r] = "cancelled"]
  /\ age' = [age EXCEPT ![r] = 0]
  /\ sess' = [sess EXCEPT ![s] = NoRequest]
  /\ UNCHANGED <<phase, mode, worker, report, reportedPR, gates, parent, pr,
                 prVars, wVars, callbacks, rescue, rescueOff>>

Approvable(r) == status[r] \in Decided /\ pr[r] # 0

ApproveLoad(s, r) ==
  /\ sess[s].op = "idle" /\ Approvable(r)
  /\ sess' = [sess EXCEPT ![s] = Request("approve", r, status[r])]
  /\ UNCHANGED <<runVars, prVars, wVars, callbacks, rescue, rescueOff>>

\* The plausible slip: an error of the merge call is logged and ignored.
ApproveMergeLogged(s) ==
  LET r == sess[s].run IN
  /\ sess[s].op = "approve"
  /\ IF prState[pr[r]] = "open"
     THEN /\ prState' = [prState EXCEPT ![pr[r]] = "merged"]
          /\ mergedBy' = [mergedBy EXCEPT ![pr[r]] = r]
     ELSE UNCHANGED prVars
  /\ sess' = [sess EXCEPT ![s].op = "merged"]
  /\ UNCHANGED <<runVars, wVars, callbacks, rescue, rescueOff>>

\* GitHub merges an open pull request only: otherwise the request fails.
ApproveMerge(s) ==
  LET r == sess[s].run IN
  /\ sess[s].op = "approve" /\ prState[pr[r]] = "open"
  /\ prState' = [prState EXCEPT ![pr[r]] = "merged"]
  /\ mergedBy' = [mergedBy EXCEPT ![pr[r]] = r]
  /\ sess' = [sess EXCEPT ![s].op = "merged"]
  /\ UNCHANGED <<runVars, wVars, callbacks, rescue, rescueOff>>

\* The status column is written only when it was read as something else.
ApproveCommit(s) ==
  LET r == sess[s].run IN
  /\ sess[s].op = "merged"
  /\ status' = IF sess[s].seen = "completed" THEN status
               ELSE [status EXCEPT ![r] = "completed"]
  /\ phase' = [phase EXCEPT ![r] = "post_merge"]
  /\ age' = [age EXCEPT ![r] = 0]
  /\ sess' = [sess EXCEPT ![s] = NoRequest]
  /\ UNCHANGED <<mode, worker, report, reportedPR, gates, parent, pr,
                 prVars, wVars, callbacks, rescue, rescueOff>>

\* Closing a pull request is best effort: an error of GitHub leaves it open.
ClosePR(p) ==
  \/ p # 0 /\ prState[p] = "open" /\ prState' = [prState EXCEPT ![p] = "closed"]
  \/ UNCHANGED prState

Reject(r) ==
  /\ status[r] \in Decided
  /\ status' = [status EXCEPT ![r] = "rejected"]
  /\ age' = [age EXCEPT ![r] = 0]
  /\ ClosePR(pr[r])
  /\ UNCHANGED <<phase, mode, worker, report, reportedPR, gates, parent, pr,
                 mergedBy, sess, wVars, callbacks, rescue, rescueOff>>

-----------------------------------------------------------------------------
(* The worker daemon.                                                      *)

Pending == {r \in Runs : status[r] = "pending"}

\* The plausible slip: the SELECT without FOR UPDATE SKIP LOCKED.
ClaimableUnlocked == Pending

Claimable == Pending \ LockedRows

ClaimSelect(w) ==
  /\ wpc[w] = "idle"
  /\ \E r \in Claimable :
       /\ \A q \in Claimable : r <= q
       /\ wrun' = [wrun EXCEPT ![w] = r]
  /\ wpc' = [wpc EXCEPT ![w] = "claiming"]
  /\ UNCHANGED <<runVars, prVars, sess, crashes, callbacks, rescue, rescueOff>>

ClaimCommit(w) ==
  /\ wpc[w] = "claiming"
  /\ status' = [status EXCEPT ![wrun[w]] = "preparing"]
  /\ worker' = [worker EXCEPT ![wrun[w]] = w]
  /\ age' = [age EXCEPT ![wrun[w]] = 0]
  /\ wpc' = [wpc EXCEPT ![w] = "preparing"]
  /\ UNCHANGED <<phase, mode, report, reportedPR, gates, parent, pr,
                 prVars, sess, wrun, crashes, callbacks, rescue, rescueOff>>

GoIdle(w) ==
  /\ wpc' = [wpc EXCEPT ![w] = "idle"]
  /\ wrun' = [wrun EXCEPT ![w] = 0]
  /\ UNCHANGED crashes

\* An exception before the try block: the main loop logs it and goes on.
PrepareFails(w) ==
  /\ wpc[w] = "preparing" /\ GoIdle(w)
  /\ UNCHANGED <<runVars, prVars, sess, callbacks, rescue, rescueOff>>

\* _set_run_status "running", whatever the status has become meanwhile.
StartContainer(w) ==
  /\ wpc[w] = "preparing"
  /\ status' = [status EXCEPT ![wrun[w]] = "running"]
  /\ age' = [age EXCEPT ![wrun[w]] = 0]
  /\ wpc' = [wpc EXCEPT ![w] = "running"]
  /\ UNCHANGED <<phase, mode, worker, report, reportedPR, gates, parent, pr,
                 prVars, sess, wrun, crashes, callbacks, rescue, rescueOff>>

\* An exception inside the try block: no report, no callback.
ContainerError(w) ==
  /\ wpc[w] = "running" /\ GoIdle(w)
  /\ status' = [status EXCEPT ![wrun[w]] = "failed"]
  /\ age' = [age EXCEPT ![wrun[w]] = 0]
  /\ UNCHANGED <<phase, mode, worker, report, reportedPR, gates, parent, pr,
                 prVars, sess, callbacks, rescue, rescueOff>>

\* The container exits, without a usable report or with one, with exit code 0
\* and success in the report or not; the agent in it may have opened a pull request on its
\* own branch, a retry works on the branch and the PR of its parent.
ContainerExit(w) ==
  LET r == wrun[w] IN
  /\ wpc[w] = "running"
  /\ \E rep \in {"usable", "failed"}, opened, succeeded \in BOOLEAN :
       /\ opened => pr[r] = 0
       /\ succeeded => rep = "usable"
       /\ report' = [report EXCEPT ![r] = rep]
       /\ reportedPR' = [reportedPR EXCEPT ![r] = opened]
       /\ prState' = IF opened THEN [prState EXCEPT ![r] = "open"] ELSE prState
       /\ status' = [status EXCEPT ![r] =
                       IF succeeded THEN "completed" ELSE "failed"]
  /\ age' = [age EXCEPT ![r] = 0]
  /\ wpc' = [wpc EXCEPT ![w] = "notifying"]
  /\ UNCHANGED <<phase, mode, worker, gates, parent, pr, mergedBy,
                 sess, wrun, crashes, callbacks, rescue, rescueOff>>

\* The POST of post-exec reaches the backend; an error of it is only logged.
Notify(w) ==
  /\ wpc[w] = "notifying" /\ GoIdle(w)
  /\ callbacks' = callbacks \union {wrun[w]}
  /\ UNCHANGED <<runVars, prVars, sess, rescue, rescueOff>>

NotifyLost(w) ==
  /\ wpc[w] = "notifying" /\ GoIdle(w)
  /\ UNCHANGED <<runVars, prVars, sess, callbacks, rescue, rescueOff>>

WorkerCrash(w) ==
  /\ wpc[w] # "down" /\ crashes < MaxCrashes
  /\ wpc' = [wpc EXCEPT ![w] = "down"]
  /\ wrun' = [wrun EXCEPT ![w] = 0]
  /\ crashes' = crashes + 1
  /\ UNCHANGED <<runVars, prVars, sess, callbacks, rescue, rescueOff>>

\* restart: unless-stopped, then register_worker.
WorkerRestart(w) ==
  /\ wpc[w] = "down" /\ GoIdle(w)
  /\ UNCHANGED <<runVars, prVars, sess, callbacks, rescue, rescueOff>>

-----------------------------------------------------------------------------
(* The post-exec callback and the orphan rescue.                           *)

\* What the suite may record: without a PR the gates that inspect it fail.
GateResults(p) == {g \in SUBSET GateKinds : p = 0 => "hard" \in g}

\* The plausible slip: a status that ck_agent_run_status does not list.
VerdictUnlisted(m, g) == IF "hard" \in g THEN "blocked" ELSE "completed"

\* The plausible slip: every failed gate is treated as a soft one.
VerdictAllSoft(m, g) ==
  IF m = "autonomous_with_approval" THEN "awaiting_human" ELSE "completed"

Verdict(m, g) ==
  IF "hard" \in g THEN "failed"
  ELSE IF m = "autonomous_with_approval" THEN "awaiting_human" ELSE "completed"

PostExec(r) ==
  LET p == IF pr[r] = 0 /\ reportedPR[r] THEN r ELSE pr[r] IN
  /\ r \in callbacks
  /\ callbacks' = callbacks \ {r}
  /\ phase' = [phase EXCEPT ![r] = "report"]
  /\ age' = [age EXCEPT ![r] = 0]
  /\ pr' = [pr EXCEPT ![r] = p]
  /\ \/ /\ report[r] = "usable"
        /\ \E g \in GateResults(p) :
             /\ gates' = [gates EXCEPT ![r] = g]
             /\ status' = [status EXCEPT ![r] = Verdict(mode[r], g)]
             /\ IF "hard" \in g THEN ClosePR(p) ELSE UNCHANGED prState
     \/ /\ report[r] # "usable"
        /\ status' = [status EXCEPT ![r] = "failed"]
        /\ UNCHANGED <<gates, prState>>
  /\ UNCHANGED <<mode, worker, report, reportedPR, parent, mergedBy,
                 sess, wVars, rescue, rescueOff>>

\* The request dies with the backend process or on an exception.
CallbackFails(r) ==
  /\ r \in callbacks
  /\ callbacks' = callbacks \ {r}
  /\ UNCHANGED <<runVars, prVars, sess, wVars, rescue, rescueOff>>

\* Nothing bumps updated_at between two writes of the worker.
RunAges(r) ==
  /\ status[r] \in {"preparing", "running"} /\ age[r] < 2
  /\ age' = [age EXCEPT ![r] = @ + 1]
  /\ UNCHANGED <<status, phase, mode, worker, report, reportedPR, gates, parent, pr,
                 prVars, sess, wVars, callbacks, rescue, rescueOff>>

\* The plausible slip: runs stuck before their container are forgotten.
StuckRunningOnly(cutoff) == {r \in Runs : status[r] = "running" /\ age[r] >= cutoff}

Stuck(cutoff) == {r \in Runs : status[r] \in {"preparing", "running"} /\ age[r] >= cutoff}

\* A pass that got the advisory lock; one that did not returns, and changes
\* nothing.  A lock left on a pooled connection is got again by the pass that
\* is handed this connection.  At a start the cutoff is five minutes.
RescueScan(cutoff) ==
  /\ rescue = {} /\ Stuck(cutoff) # {}
  /\ rescue' = Stuck(cutoff)
  /\ UNCHANGED <<runVars, prVars, sess, wVars, callbacks, rescueOff>>

\* The commit gives the connection back to the pool: the unlock after it may
\* run on another one, and the lock stays where it is.
RescueCommit ==
  /\ rescue # {}
  /\ status' = [r \in Runs |-> IF r \in rescue THEN "failed" ELSE status[r]]
  /\ age' = [r \in Runs |-> IF r \in rescue THEN 0 ELSE age[r]]
  /\ rescue' = {}
  /\ rescueOff' \in BOOLEAN /\ (rescueOff => rescueOff')
  /\ UNCHANGED <<phase, mode, worker, report, reportedPR, gates, parent, pr,
                 prVars, sess, wVars, callbacks>>

\* An error between the read and the commit: the unlock may fail with it.
RescueFails ==
  /\ rescue # {}
  /\ rescue' = {}
  /\ rescueOff' \in BOOLEAN /\ (rescueOff => rescueOff')
  /\ UNCHANGED <<runVars, prVars, sess, wVars, callbacks>>

\* The pass of a start is outside the try of the loop: an error of it is the end.
RescueLoopEnds ==
  /\ ~rescueOff
  /\ rescue' = {}
  /\ rescueOff' = TRUE
  /\ UNCHANGED <<runVars, prVars, sess, wVars, callbacks>>

\* With the backend processes the connections close and the loops start again.
RescueRestarts ==
  /\ rescueOff \/ rescue # {}
  /\ rescue' = {}
  /\ rescueOff' = FALSE
  /\ UNCHANGED <<runVars, prVars, sess, wVars, callbacks>>

-----------------------------------------------------------------------------
RequestStep(s) ==
  \/ LaunchCheck(s) \/ LaunchCommit(s) \/ RetryCommit(s) \/ CancelCommit(s)
  \/ ApproveMerge(s) \/ ApproveCommit(s) \/ RequestFails(s)
  \/ \E r \in Runs : RetryCheck(s, r) \/ CancelLoad(s, r) \/ ApproveLoad(s, r)

WorkerProgress(w) ==
  \/ ClaimSelect(w) \/ ClaimCommit(w) \/ PrepareFails(w) \/ StartContainer(w)
  \/ ContainerError(w) \/ ContainerExit(w) \/ Notify(w) \/ NotifyLost(w)

WorkerStep(w) == WorkerProgress(w) \/ WorkerCrash(w) \/ WorkerRestart(w)

BackendStep ==
  \/ \E r \in Runs : Reject(r) \/ PostExec(r) \/ CallbackFails(r) \/ RunAges(r)
  \/ \E cutoff \in {1, 2} : RescueScan(cutoff)
  \/ RescueCommit \/ RescueFails \/ RescueLoopEnds \/ RescueRestarts

Next ==
  \/ \E s \in Sessions : RequestStep(s)
  \/ \E w \in Workers : WorkerStep(w)
  \/ BackendStep

Spec == Init /\ [][Next]_vars
-----------------------------------------------------------------------------
(* Safety.                                                                 *)

Holders(r) == {w \in Workers : wrun[w] = r}

\* A run is executed by one worker and never handed to another: worker_id,
\* once set by a claim, does not change, whatever is cancelled, crashes or is
\* rescued around it (claim_next_run, FOR UPDATE SKIP LOCKED).
RunBelongsToOneWorker ==
  [][\A r \in Runs : worker[r] # NoWorker => worker'[r] = worker[r]]_vars

\* The pull request of an original run is merged only after the callback has
\* run the gate suite on it and found no hard failure: the approval of a run
\* sits between the callback's verdict and the merge (approve_and_merge).
OriginalMergedAfterGates ==
  \A p \in Runs : mergedBy[p] # 0 /\ parent[mergedBy[p]] = 0 =>
    /\ phase[mergedBy[p]] # "started"
    /\ "hard" \notin gates[mergedBy[p]]

\* The same of every run, the CI retries included: gates.py says of the secret
\* scan "we still catch it before a human approves a merge".
MergedAfterGates ==
  \A p \in Runs : mergedBy[p] # 0 =>
    /\ phase[mergedBy[p]] # "started"
    /\ "hard" \notin gates[mergedBy[p]]

\* A run the backend shows as merged was merged by its own approval: the merge
\* on GitHub comes first, and of two administrators who approve together, or
\* of a parent and its retry on one branch, one at most gets it.
PostMergeIsMerged ==
  \A r \in Runs : phase[r] = "post_merge" => mergedBy[pr[r]] = r

\* Nobody still holds something read about r: no worker, no callback, no
\* rescue pass and no request in progress.
Unheld(r) ==
  /\ Holders(r) = {} /\ r \notin callbacks \union rescue
  /\ \A s \in Sessions : sess[s].run = r => sess[s].op = "retry"

\* A failed, cancelled or rejected run that nobody holds keeps its status for
\* ever: only a request or a worker that was already under way can revive it.
UnheldDeadRunIsFinal ==
  [][\A r \in Runs : status[r] \in Dead /\ Unheld(r) =>
       status'[r] = status[r] /\ Unheld(r)']_vars

\* The terminal statuses as cancel_agent_run ("Run already in terminal status")
\* and the polling of useAgentRuns.ts take them: a cancelled run stays so.
CancelledIsTerminal ==
  [][\A r \in Runs : status[r] = "cancelled" => status'[r] = "cancelled"]_vars

\* The launch gate, seen through the runs that count for max_concurrent_runs:
\* every step of the system is a step of RunSlots, whose bound on the active
\* runs therefore holds here.
Slots == INSTANCE RunSlots WITH
  NoRun <- 0,
  active <- ActiveRuns,
  inserted <- Runs \ Unused,
  launching <- {s \in Sessions : sess[s].op \in Launching},
  preparing <- [w \in Workers |-> IF wpc[w] = "preparing" THEN wrun[w] ELSE 0]

ImplementsSlots == Slots!Spec

-----------------------------------------------------------------------------
(* Liveness.  Each replica of the worker loops, executes its container under *)
(* a wall-time limit and is restarted when it dies (restart: unless-stopped); *)
(* time passes; the rescue loop wakes up every five minutes, and of the passes *)
(* that find the lock free not every one fails; a post-exec request that       *)
(* reached the backend is served or dies with it.  Nothing is assumed of the   *)
(* passes that find the lock taken, nor of a restart of the backend.           *)

Fairness ==
  /\ \A w \in Workers : WF_vars(WorkerProgress(w) \/ WorkerRestart(w))
  /\ WF_vars(\E r \in Runs : RunAges(r))
  /\ SF_vars(~rescueOff /\ RescueScan(2)) /\ SF_vars(RescueCommit)
  /\ WF_vars(\E r \in Runs : PostExec(r) \/ CallbackFails(r))

FairSpec == Spec /\ Fairness

\* A run does not stay active for ever, unless the rescue is off for good: a
\* pending one is taken even if workers die, and one that was taken is ended by
\* its worker, or by the orphan rescue when the worker died or gave up before
\* the container.  The rescue is off for good when its lock stays on a pooled
\* connection, or its loop has ended, and the backend never restarts.
ActiveRunEndsUnlessOff ==
  <>[]rescueOff \/ \A r \in Runs : status[r] \in Active ~> status[r] \notin Active

\* "If the call fails we still keep the run record - the backend has a periodic
\* scan to catch-up" (worker.py): a run whose container has exited gets its
\* verdict in the end.
ExitedRunGetsVerdict ==
  \A r \in Runs : report[r] # "none" ~> phase[r] # "started"
=============================================================================
