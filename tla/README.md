# OPSFLUX: specifications and proofs

OPSFLUX is an ERP for the operations of remote sites: a FastAPI backend over
PostgreSQL and Redis (`app/`), four uvicorn processes of it, a daemon that runs
maintenance agents in containers (`agent-worker/`), and React and mobile
frontends (`apps/`). This directory holds TLA+ models of the parts where several
processes, tabs or callbacks meet on one row, one key or one list, the TLC runs
that check them, and theorems about them that TLAPS proves for every size of the
system.

    tlc -config agent_run.cfg MCAgentRun.tla     # one run
    tlapm AgentRun_proofs.tla                     # one module's proofs

`PROJECT.json` lists the runs, the mutants that show each property can fail, the
lines of the source each definition models, the hazards and the theorems.

## 1. Inventory

### Agent run lifecycle (`app/services/agent/harness.py`, `app/api/routes/core/agent.py`)

*State.* The rows of `support_agent_runs`: `status` (pending, preparing, running,
awaiting_human, completed, failed, cancelled, rejected), `current_phase`,
`autonomy_mode`, `worker_id`, `updated_at`, `report_json`, `failed_gates`,
`parent_run_id`, `github_pr_number`; and, on GitHub, the pull requests.

*Operations.* `launch_run` and `launch_ci_retry_run` count the active runs and
insert one; `cancel_agent_run`; `approve_and_merge`, which merges on GitHub and
then commits; `reject_run`, which closes the pull request; and
`apply_post_exec_callback`, which runs the gates and gives the verdict.

*Who else writes.* The worker daemon, by plain SQL without a condition on the
status, and the orphan rescue. Nothing orders the writers: the status column is
the only thing they share.

*Correct when* a run is executed by one worker, the concurrent runs stay bounded,
nothing is merged before its gates, a run shown as merged was merged, a run that
has ended stays ended, and an active run ends.

### Agent worker (`agent-worker/worker.py`)

Polls for the oldest pending run, claims it under `FOR UPDATE SKIP LOCKED`,
prepares a worktree, sets `running`, waits for the container, writes the report
and the exit status, then calls `POST /runs/{id}/post-exec` once. It may be killed
anywhere and is restarted by Docker. *Hard:* minutes pass between what it read and
what it writes; the notification has no retry.

### Agent loops (`app/services/agent/scheduler.py`)

Auto-trigger, daily and weekly digests, ticket housekeeping, orphan rescue: each
an asyncio task of each backend process, kept to one by a PostgreSQL advisory
lock. The rescue fails runs whose `updated_at` is older than 45 minutes, or five
minutes when the backend has just started. *Hard:* the rescue of a run that is
alive; an advisory lock that stays on a pooled connection, because the unlock after a
commit may run on another one; a startup pass outside the `try` of its loop.

### Circuit breaker and budget

`current_consecutive_failures`, `circuit_breaker_tripped_at`,
`current_month_spent_usd` of `support_agent_config`, read by the launch gate and
written by the callbacks of different runs at once.

### Scheduler leader election (`app/tasks/scheduler.py`)

*State.* One Redis key with a lifetime; in each process the token it set and
whether its APScheduler runs. *Operations.* `start_scheduler` (SET NX EX, then
start), the renewal job (GET, then EXPIRE or stop), `stop_scheduler` (stop, GET,
DEL). *Hard:* two calls where the lock may change hands between them; a renewal
that comes late; the death of the leader. *Correct when* two processes do not run
the jobs at once, and some process runs them.

### Workflow engine (`app/services/core/fsm_service.py`, `app/api/routes/core/workflow.py`)

*State.* `workflow_instances` (state, version) and `workflow_transitions` (the
history). *Operations.* `get_or_create_instance`, `transition`, and the routes
`create_instance` and `execute_transition`; `emit_transition_event` publishes what a
caller passes to it and touches neither. Papyrus, PID, PackLog, PaxLog, TravelWiz, Planner and
projects all move their objects with it. *Hard:* the instance is read, then read
again under a row lock by a session that already holds it. *Correct when* a state
is only left by an edge from it and every transition is on record.

### Mobile offline mutations (`apps/mobile/src/services/offline.ts`)

*State.* One JSON list in AsyncStorage; in memory the flags `isOnline`, `syncing` and
`flushLock`. *Operations.* `mutateWithOfflineQueue` tries the request and appends it to
the list when there is no network or a 5xx; background positions are appended at once;
`flushQueue` sends the list from its head, keeps what may yet succeed, and writes back
what it keeps. The connectivity listener, the return to the foreground
(`useAppLifecycle.ts`) and "force sync" (`SettingsScreen.tsx`) call it, then
`flushUploadQueue`. *Hard:* read, await, write of one value by several callbacks; lost
answers; the system kills the application anywhere. *Correct when* a mutation reported
as queued is sent, once, in order, and the list drains.

### Mobile uploads (`apps/mobile/src/services/uploadQueue.ts`, `attachments.ts`)

*State.* A directory of files and a JSON list about them. *Operations.*
`uploadAttachment` posts a file, or `queueUpload` copies it and appends an entry;
`flushUploadQueue` posts each entry, deletes the files it is done with and writes the
list. *Hard:* file and entry are two writes; uploads use `fetch`, whose token is not
renewed. *Correct when* a photo taken offline is never lost before it is stored or
refused, and no file is left behind.

### Live tracking socket (`apps/mobile/src/services/trackingSocket.ts`)

*State.* One WebSocket, two timers, the application's and the network's last report,
one token refresh. *Operations.* `start`, `stop`, and the callbacks of sockets, timers,
AppState and NetInfo. *Hard:* the callbacks of a socket that was replaced act on the
fields of the one that replaced it. *Correct when* one socket is alive, none after
`stop()`, the status shown is true and the stream comes back.

### Web session (`apps/main/src/lib/api.ts`, `stores/authStore.tsx`)

*State.* Two tokens in localStorage, shared by the tabs; in each page the mutex
`isRefreshing` and the requests that wait; on the server the refresh tokens not
revoked. *Operations.* The interceptors, `login`, `logout`, `fetchUser`; the server's
`/refresh` exchanges a refresh token and revokes it. *Hard:* the mutex is per page and
the storage is not; an answer comes after the user signed out. *Correct when* the stored
token is one the server takes, one refresh is posted per token, a sign-out lasts and no
request hangs.

### The rest

| component | state and operations | properties to aim at |
|---|---|---|
| scheduled jobs (`app/tasks/jobs`) | the e-mail queue and periodic sweeps | an e-mail is sent, and not for ever |
| PaxLog | AdS and AVM, each with a status column *and* a workflow instance | the two agree; one decision per request |
| TravelWiz, PackLog | voyages, manifests, cargo; scans under row locks | a cargo is on one voyage; no scan is lost |
| Planner, projects | activities; the critical-path computation | dates agree with a reference definition |
| MOC | a status machine with signatures | no step without its signatures |
| nomenclature | one counter per document series | numbers are unique |
| support tickets | status, comments, automatic closing | an announced closing happens |
| event bus | events and their handlers | a committed change reaches its handlers |
| Papyrus, PID and tags, compliance, dashboards, imports | documents and queries | mostly data |
| mobile API client | a refresh mutex in one process, retries of 429 | as the web session |
| authentication, RBAC, integrations, MCP, other frontends, runners | access control and I/O | not modelled |

## 2. Modules

| module | models | composed with |
|---|---|---|
| `RunSlots` | what the launch gate promises about `max_concurrent_runs` | abstract specification |
| `AgentRun` | the rows of `support_agent_runs` and everything that writes them | implements `RunSlots` (`Slots`) |
| `SchedulerLeader` | the Redis lock and the processes around it | alone |
| `Workflow` | what the engine promises about an instance: one state, one edge at a time, every move on its trail | abstract specification |
| `FsmService` | the requests on one business object | implements `Workflow` (`Flow`); to be composed with `AdsLifecycle` |
| `MutationQueue` | the list of offline mutations, what fills and flushes it | instance in `OfflineSync` |
| `UploadQueue` | the files and the list of offline uploads | instance in `OfflineSync` |
| `OfflineSync` | the two queues behind the same callers, flag, storage and kills | composes the two, keeps what `MutationQueue` promises |
| `TrackingSocket` | the position stream of one vehicle | alone |
| `WebSession` | the tabs of a browser, their storage, the server's tokens | alone |
| `MCRunSlots`, `MCAgentRun`, `MCFsmService`, `MCOfflineSync` | instances for TLC: symmetry, a workflow, a bound on the calls | |
| `*_proofs` | theorems | extend the module they are about |

### AgentRun

Each column is a function from run numbers to values. A request is a *session*:
its record holds the operation and what it has read. The rule that decides where
a request is split is in the code: SQLAlchemy sends an UPDATE at the next query or
at the commit.

* Launch, CI retry, cancel and approve await other queries, GitHub or SMTP between
  the read and the first write: `LaunchCheck`/`LaunchCommit`,
  `RetryCheck`/`RetryCommit`, `CancelLoad`/`CancelCommit`,
  `ApproveLoad`/`ApproveMerge`/`ApproveCommit`. Any of them may fail in between
  (`RequestFails`), and what GitHub did stays done.
* `Reject` and `PostExec` flush their first UPDATE at the query that follows their
  SELECT, and hold the row lock until they commit: one step each. The moment
  between that SELECT and the UPDATE is abstracted.
* The ORM writes a column only when it differs from the value it loaded:
  `ApproveCommit` leaves the status alone when it was read as completed.
* The rescue reads (`RescueScan`) and commits (`RescueCommit`) separately, or fails between
  the two (`RescueFails`). `RescueScan` is a pass that got the advisory lock; one that did not
  changes nothing. The commit gives the connection back to the pool, so that the unlock may
  run on another one and the lock stay where it is: `rescueOff` may become true at the
  end of a pass. It also does when an error of the startup pass, which no `try` covers, ends
  the loop (`RescueLoopEnds`). A restart of the backend (`RescueRestarts`) frees the lock and
  starts the loop. A pass may still get a leaked lock: from the connection that holds it.
* The worker's steps are its SQL statements. `ClaimSelect` keeps the row locked
  until `ClaimCommit`; `StartContainer`, `ContainerExit` and `ContainerError` write
  whatever the status has become.
* `ContainerExit` chooses the report and whether the agent opened a pull request.
  A report of status success or partial is "usable". A retry works on the pull
  request of its parent.
* `PostExec` chooses what the gates found. Gates that keep the pull request open
  are `ci_status` (recorded, because a CI retry asks for it) and `line_budget` (which
  has the effect of no failure); the others are "hard". Observation mode
  behaves as recommendation mode.

An auto-trigger pass that launches k runs is k sessions. Refusals by the feature
switch, the breaker, the budget or a missing connector are launches that do not
happen. The gate that the rescue adds to `failed_gates` for the user interface is
left out: the one reader of gates, the CI retry, asks for `ci_status`. `age` counts the
two thresholds of the rescue, not minutes, and runs age at any pace, so a live
worker may be rescued, as in the code.

### RunSlots

The active runs, the rows inserted, the launches that passed the gate and the runs
that workers are about to set to running. Its bound is not `max_concurrent_runs`:
every launch in progress may have counted before the others inserted, and every
worker may put one cancelled run back to running. `AgentRun!Slots` maps the detailed
model onto it.

### SchedulerLeader

Time is counted in renewal intervals: the lifetime of 120 s is TTL = 3 of them. A
token is unique to one attempt, so that the key of a dead process is `Orphan`,
which no process recognises. `RenewRead`/`RenewExpire` and
`ReleaseRead`/`ReleaseDelete` are the GET and the call after it. Nothing forces a
renewal: a misfired job or a blocked event loop skips it. `late` records that some
process let TTL pass with the lock in its flag; it is history, which no step
reads. A Redis that loses the key is not modelled.

### FsmService

The requests about one business object. An instance is named after the request
that made it. `Find` or `Create` is the first read, `seen` what it returned; `Lock` is the
`SELECT ... FOR UPDATE`, which waits for the row. The session already holds the
instance, the query has no `populate_existing` and the mapper no `version_id_col`, so
SQLAlchemy returns the object with the attributes of the first read: `Commit`
validates and counts from `seen`. It is one step because the row is locked and the
transaction is seen by nobody before it commits. `Refuse` is a missing edge, role,
permission or comment; `Die` an exception or a lost client or process. The other
`CreateInstance` is `POST /instances`, which inserts without looking, as nothing makes
the object unique; `FindMany` is what follows. Metadata, deadlines and audit
entries are left out, and so are the events: `emit_transition_event` neither reads nor
writes an instance and checks nothing, so that what is published, and when, is a question
about each module that calls it.

### Workflow

The engine as its callers see it. A `Move` starts from the state the instance is in; an
`Overtake` starts from one it has been in, because its request read before another one
wrote, and marks the instance for ever. `FsmService!Flow` maps the engine onto it: the
trail is the history, and the instances overtaken are those whose version is not one more
than the number of their recorded transitions. So a caller that sees the two agree knows
that the trail is a walk along the edges from an initial state to the one the instance is
in (`UnbrokenUnlessOvertaken`), although nothing in the engine keeps such a mark.

### MutationQueue, UploadQueue, OfflineSync

JavaScript runs one callback at a time, so an action is what happens between two awaits:
`EnqueueRead`/`EnqueueWrite` are the two sides of one await of `enqueueMutation`,
`FlushRead`, `FlushSend` and `FlushSave` the awaits of `flushQueue`. `copy` and `flush` are
the locals that survive an await. A request has four outcomes: 2xx, 4xx, 5xx and no
answer; with the last two the server may have performed it or not, and the axios client
repeats a request once when no answer came (`again`). A kill empties what is in memory and
keeps the storage. `overlapped` (`crossed` for uploads) records which calls shared the list with another
user of it, `blind` which mutations the server performed without the phone's record
saying so, `applied` what the server did: history, which no step reads.

`UploadQueue` has the same shape with a file beside each entry, and a token that
expires at any moment. Its fetch sends the token of the store as it is: `TokenRenewed` is a
request of the axios client, elsewhere. `readQueue` answers a failing storage with an empty list
(`PutReadFails`); for a drain such a read passes for an empty list, which ends it as any other
failure before an answer does (`DrainFails`). A file that cannot be deleted stays (`DrainCleanFails`: the
`catch` is empty). Files that the user deletes are left out. A mime type, a description or a category is data.

`Sync` stands for two callers: the return to the foreground, which flushes only for a user who
is signed in (`useAppLifecycle.ts:31-32`), and the forced sync, which does not ask. The
session of the user is not a variable: for the safety properties a `Sync` may always come, and
the fairness of `Drains` says that it does for a user who stays signed in.

In `OfflineSync` a caller awaits the flush and then starts the drain, whatever the first
did; a second caller that finds `flushLock` taken goes on at once. The reports of NetInfo are
one for each branch of `evaluateNetInfo`.

### TrackingSocket

`sock` is every WebSocket object that exists, `ws` the field. A close that this side
starts leaves the object `closing` until its `onclose`, which clears the timers and `ws`
whoever they belong to. The token in the URL may have expired (`stale`); the server accepts the connection to
tell it so (`tracking_ws.py`). Back-off and heartbeat times are abstracted: a timer that runs
may fire. `raced` records that a connection was made while a timer, a refresh or another socket was pending.

### WebSession

Pairs of tokens are numbered in the order of issue: a pair is newer when its number is
greater, and access tokens expire in that order. `post` is the page's refresh request on its way through the
server, where `RefreshSelect` and `RefreshCommit` are the SELECT and the commit of
`/refresh`, between which another tab may pass. `leaving` is a page that has set
`window.location.href` and runs on until the browser loads the next one. `posted`,
`abandoned`, `signedOut` and `crossed` are history. `logout()` removes the tokens before
the interceptor of its own request has run: the request goes without a token, and the
401 that answers it takes the path of any other. Requests of the login page carry no token and are left out.

## 3. Hazards and properties

The hazards are in `PROJECT.json`, each with the line where it bites. The properties
written for them:

* `RunBelongsToOneWorker`: a run once claimed keeps its worker, through
  cancellations, crashes and rescues.
* `ImplementsSlots`, `SlotsBounded`, `ActiveWithinOvershoot`: at most
  `max_concurrent_runs` - 1 + requests + workers runs are active.
* `OriginalMergedAfterGates`: an original run is merged only after the callback
  ran its gates and found no hard failure, even though the worker writes completed
  before the callback.
* `PostMergeIsMerged`: of all the approvals that race for a pull request, the run
  shown as merged is the one that merged it.
* `UnheldDeadRunIsFinal`: a failed, cancelled or rejected run can only be revived by
  something already under way about it: its worker, its callback, a rescue pass, a
  request.
* `ActiveRunEndsUnlessOff`: an active run ends, although workers die, unless the rescue is off for
  good. Without the exception it is false: an advisory lock that leaks, or a startup pass that
  fails, leaves the runs of dead workers active until the backend restarts.
* `OneSchedulerUnlessLate`, `LostLockStopsScheduler`, `OrphanKeyExpires`: two schedulers need
  a whole TTL missed, do not last, and a dead process's key goes.
* `StateReachable`, `VersionTellsLoss`: what a workflow
  instance keeps although reads are stale. A transition may be overwritten, but the state
  is one the workflow leads to, and the version then differs from the number of recorded
  transitions plus one.
* `ImplementsWorkflow`: every step of the engine, however its requests interleave, is a move along
  an edge from the state the instance is in, or one from a state it has been in that the
  version gives away from then on; the version never catches up with the history.

* `KeptUnlessOverlapped`, `OnceUnlessBlind`, `SentInOrder`, `Drains`: what the offline list keeps
  although flushes and enqueues interleave, and exactly what breaks it: an enqueue that shared
  the list, an answer that was lost.
* `PhotoKept`, `NoOrphanFile`, `AnsweredBeforeDrop`: file and entry stay together through drains,
  kills and storage failures, and a photo is dropped only after an answer about it.
* `OneDrain`, `FoundFileIsPosted`: on every path out of `flushUploadQueue`, a failure or a kill
  included, the lock is given back, and it keeps a second drain from deleting the file that the
  first has found and is about to post.
* `OneSocketUnlessRaced`, `ShownAsItIsUnlessRaced`, `ComesBack`: the stream is single and truly shown
  until a connection is made beside a pending one, and comes back, raced or not, unless the object
  stops itself (a second 4001, or a refresh that fails).
* `StoredTokenIsLive`, `PostedOnce`, `SignedOutUnlessCrossed`, `Settles`: what two tabs leave in the
  storage, and what becomes of the requests that wait for a refresh.

A property named *unless* says what holds until the case it names, and nothing of that case:
`UnheldDeadRunIsFinal` exempts a run that somebody still holds, `KeptUnlessOverlapped` and
`OnceUnlessBlind` the calls that shared the list, the two of the socket a connection that was
raced, `SignedOutUnlessCrossed` a sign-out that met an exchange. Where the code has no answer to
such a case its hazard lists no property for it, and the tables below name the claim that fails.

### Disagreements found

Two have a run that TLC refutes:

| run | what the code does | what it says |
|---|---|---|
| `agent_cancelled` | a worker that prepares a cancelled run sets it to running (`worker.py:668`) | cancelled is terminal (`agent.py:310`, `useAgentRuns.ts`) |
| `mobile_photo` | a 401 for an expired token deletes the photo (`uploadQueue.ts:254`) | a 4xx means "the file will never upload successfully" (`uploadQueue.ts:203-205`) |

The others are stated in the modules and named here; put in a cfg beside the constants given,
TLC refutes each within a few seconds.

| property, module, constants | what the code does | what it says |
|---|---|---|
| `MergedAfterGates`, `AgentRun`, those of `agent_cancelled.cfg` with 2 runs | a CI retry can be merged between the worker's `completed` and its own gates (`harness.py:807`) | secrets are caught "before a human approves a merge" (`gates.py:154`) |
| `ExitedRunGetsVerdict` (`FairSpec`), `AgentRun`, `agent_cancelled.cfg` | a lost post-exec call is never made again | "the backend has a periodic scan to catch-up" (`worker.py:731`) |
| `OneLeaderElected` (`FairSpec`), `SchedulerLeader`, 2 processes | a process that did not get the lock never tries again (`scheduler.py:399`) | one elected leader among the processes (`stack.md:145`) |
| `NoLostTransition`, `FsmService`, `fsm.cfg` | a request that waited for the row lock overwrites the transition it waited for (`fsm_service.py:245`) | locks "to prevent races" (`fsm_service.py:9`) |
| `QueuedIsKept`, `MutationQueue`, `mutation_queue.cfg` | an enqueue that overlaps a flush is erased by its last write | `{ sent: false, queueId }`: queued (`offline.ts:362`) |
| `StopReleases`, `TrackingSocket`, `tracking_socket.cfg` | a return to the foreground connects although the reconnection timer runs, which then opens a second socket that `stop()` forgets | "Stop listening and release all resources." (`trackingSocket.ts:101`) |
| `SessionSurvivesOutage`, `WebSession`, `web_session.cfg` | a refresh that gets a 5xx or no answer removes both tokens (`api.ts:98-106`) | "Transient network errors … should not destroy the session" (`api.ts:117-119`) |

Met while reading, without a property: `llm_cost_usd` is never written, so the budget gate of
the agent never trips (`harness.py:687`); `clearUploadQueue` says "used on logout"
(`uploadQueue.ts:38`) and nothing calls it, so the next user's token sends what is left;
an upload queued after a failed direct attempt loses its category (`attachments.ts:191`);
after a kill nothing flushes until the next return to the foreground or loss of the network,
since the store starts online; uploads may start while mutations are still being sent, against
`offline.ts:294-297`; the web `logout()` never revokes its token (`authStore.tsx:196-198`);
`emit_transition_event` "Must be called AFTER db.commit()" (`fsm_service.py:352`), and
transitions are published that the engine never recorded: `complete_ads_operationally`
(`paxlog_service.py:622-633`) and every emit after `_try_ads_workflow_transition` returned
`(None, None)` (`paxlog/__init__.py:711-721`).

## 4. Runs

| run | instance | what it shows |
|---|---|---|
| `run_slots` | 2 workers, 2 sessions, 6 runs, limit 2 | the bound of the abstract specification, which is reached |
| `agent_run` | 2 workers, 1 session, 2 runs, limit 2, 1 crash | types, claims, and ended runs that stay ended, across a crash and the rescue |
| `agent_decision` | 1 worker, 2 sessions, 2 runs, limit 2 | decisions against callbacks, rescues and each other; refinement of `RunSlots` |
| `agent_liveness` | 2 workers, 2 sessions, 1 run, limit 1, 2 crashes, fair | an active run ends unless the rescue is off for good |
| `agent_cancelled` | 1 worker, 1 session, 1 run | disagreement |
| `scheduler_leader` | 3 processes, TTL 3, fair | two schedulers and lost locks |
| `fsm` | 4 requests, a workflow with a cycle, a loop and an unreachable state | the engine's promises; refinement of `Workflow` |
| `mutation_queue` | 2 mutations, 2 callers, 2 tries, 1 fault, fair | the list of mutations |
| `mobile_sync` | 1 mutation, 2 uploads, 2 callers, 2 tries, 1 fault, 2 calls in all | a photo, its file, its entry and the lock of the drains beside the other queue |
| `mobile_photo` | 1 mutation, 1 upload, 1 caller | disagreement |
| `tracking_socket` | 3 WebSocket objects at a time, fair | one socket, true status, return of the stream |
| `web_session` | 2 tabs, 2 requests, 2 pairs of tokens, fair | tokens that tabs leave, requests that wait |

*Bounds.* `MaxRuns` (rows) and `MaxCrashes` are the only counters cut by the model;
`MaxConcurrent`, TTL and the sets are parameters of the system. Two runs are a
parent and its CI retry on one pull request, or two runs for two workers, with one
slot refused when the limit is reached; two sessions are two administrators, or one
against a launch. A crash and a rescue fit beside one of each; two sessions are checked
without the crash (`MaxCrashes` = 0) to keep the run short, and that the merges and the
refinement hold across crashes is what the theorems add. `agent_liveness` follows one run
through two requests, two workers and two crashes: its worker may die, or be rescued and come back to it,
while an approval or a cancellation is under way and the other worker goes on; two runs with a crash are too many states for a liveness
check, and two runs without one (1 worker, 1 session, `MaxCrashes` = 0) were checked apart, in two
minutes. The `VIEW` of the two safety runs, `Seen`, leaves `rescueOff` out: their properties do
not read it, and all it decides is whether the end or the restart of the loop may drop what a
pass has read, as a pass that fails always may. In `run_slots` six runs are more than
the 2 - 1 + 2 + 2 = 5 that may be active. Three processes are the old leader, the new one
and one that starts between the two; two leaders need only two. Four requests are one that
creates and three that race, with the stale one last. Symmetry is used for workers, sessions, runs of `RunSlots`
and requests in the runs without liveness; runs of `AgentRun` are ordered by
`created_at` and are not symmetric.

`MaxFaults` counts kills and storage failures together; `MaxRetries` is 5 in the code and 2
here, so that both a kept and a spent entry occur. Two mutations give an order and an overlap,
two callers a flush and one that finds the lock taken. `TwoCalls` of `mobile_sync` lets two uploads, or an
upload and a mutation, meet; the whole takes about two minutes. Three sockets are the one in `ws`, one that
was replaced and one that closes. Two pairs of tokens are a login and one exchange of it, or two
exchanges that race for one token, of which one is refused; the invariant of the proofs
was also checked with three pairs.

*Deadlock* is checked in every run but those of `FsmService`, where each request is
handled once and the system stops when all are.

*Fairness.* In `AgentRun`: the loop of each worker goes on (its container has a wall-time limit, Docker
restarts it), time passes, a post-exec call that reached the backend is served or dies with it. The
rescue loop wakes up every five minutes; of the passes that find the lock free and something to
rescue, and of those that have read it, not every one fails for ever: strong
fairness, since a pass may fail. Nothing is assumed of a pass that finds the lock
taken, of an unlock that reaches its connection or of a restart of the backend. No
fairness of requests is assumed: administrators need not decide anything. In
`SchedulerLeader`: time passes, and a start, a renewal or a release that has begun
finishes; a leader whose renewal job runs at all looks at the key. No process is
made to start again, none is made to stop or crash. In `MutationQueue`: a flush under way goes
on (each request has a time-out), an offline phone is told again that it is online, and a user whose phone is
online comes back to the application, signed in, again and again: strong fairness, because the flag may be turned off in
between. Networks, servers and storage are not fair. In `TrackingSocket`: timers fire, requests and closing handshakes end, and a
connection tried again and again is answered some day. In `WebSession`: a request to the server ends, with an answer or
without (`RefreshUnanswered`), and a browser told to load a page loads it.

*Mutants.* Next to the definition it changes, each "plausible slip" is a bug the
code could have (a forgotten lock clause, a comparison off by one, a dropped status
in a list). Every property fails under the one `PROJECT.json` names for it.

## 5. Proofs

| theorem | states | needs |
|---|---|---|
| `SlotsTypeCorrect`, `SlotsStayBounded`, `ActiveStaysWithinOvershoot` | `[]TypeOK`, `[]SlotsBounded`, `[]ActiveWithinOvershoot` of `RunSlots` | `SlotsBounded` is the inductive form |
| `TypeCorrect` | `[]TypeOK` of `AgentRun` | `BaseInv` |
| `OneWorkerPerRun` | `RunBelongsToOneWorker` | `WorkerInv`, `TakenInv` |
| `MergeFollowsGates` | `[]OriginalMergedAfterGates` | `OriginalInv` |
| `PostMergeOnce` | `[]PostMergeIsMerged` | `PullRequestInv` |
| `UnheldDeadRunsStay` | `UnheldDeadRunIsFinal` | `IInv` |
| `RunsImplementSlots` | `Spec => ImplementsSlots` | `IInv` |
| `ActiveRunsBounded` | the bound on the active runs, in `AgentRun` | the two above |
| `LeaderTypeCorrect`, `OneScheduler` | `[]TypeOK`, `[]OneSchedulerUnlessLate` of `SchedulerLeader` | `LeaseInv` |
| `FsmTypeCorrect`, `StatesAreReachable`, `VersionBetraysLoss` | the invariants of run `fsm` | `MineInv`, `LossInv` |
| `EngineImplementsWorkflow` | `Spec => ImplementsWorkflow` | `LossInv`, `WalkInv` |
| `TrailsAreWalks` | `[]UnbrokenUnlessOvertaken` of `Workflow`, in `FsmService` | the refinement, `FlowInv` |
| `QueueTypeCorrect`, `QueuedMutationsAreKept`, `PerformedOnceUnlessBlind` | `[]TypeOK`, `[]KeptUnlessOverlapped`, `[]OnceUnlessBlind` of `MutationQueue` | `QueueInv` |
| `EntriesAreSentInOrder` | `SentInOrder` | `QueueInv`, `OneOrder` |
| `SyncTypeCorrect`, `PhotosAreKept`, `NoFileIsOrphaned`, `DropsAreAnswered` | `[]TypeOK`, `[]PhotoKept`, `[]NoOrphanFile`, `[]AnsweredBeforeDrop` of `OfflineSync` | `SyncInv` with `FlushFirst`, `UploadInv` |
| `DrainsExclude`, `FoundFilesArePosted` | `[]OneDrain`, `[]FoundFileIsPosted` | `SyncInv` with `LockInv` |
| `SyncImplementsMutationQueue` | every step of the two queues together is one of `MutationQueue`, or leaves its variables alone | `StepKinds` |
| `MutationsKeptInSync`, `SentInOrderInSync` | `KeptUnlessOverlapped`, `OnceUnlessBlind` and `SentInOrder` beside the uploads | the one above, `QueueInv`, `OneOrder` |
| `SocketTypeCorrect`, `OneSocket`, `ShownAsItIs` | the invariants of run `tracking_socket` | `StreamInv` |
| `SessionTypeCorrect`, `StoredTokenLives`, `SignedOutStaysOut` | the invariants of run `web_session` | `SessionInv` |
| `OneRefreshPerToken` | `PostedOnce` | `SessionInv` |

The assumptions are those of the modules: finite sets of workers and sessions, a
positive limit, a positive TTL, edges between the states of the workflow.

*AgentRun.* `OriginalMergedAfterGates` is not inductive: a step that merges says
nothing of the gates. `IInv` adds what the statuses mean. `RequestInv`: what a request
has read was inserted, and an approval's run was taken by a worker. `TakenInv`:
worker_id is set by the claim, and every run past it has one. `WorkerInv`: no two workers hold one
run, the row a worker claims is still pending (the row lock), the one it executes
carries its name. `OriginalInv`: an original run has no pull request before its callback,
its callback comes once nobody holds the run, and a decided run with a pull request
has no hard failure on record. `PullRequestInv`: a pull request has the number of the run
that opened it for ever, and a merged one stays merged by the same run. The retry escapes
`OriginalInv` at its insertion, where it inherits a pull request, which is why the
theorem is about original runs; of the others `MergedAfterGates` is not true (section 3).

*RunSlots.* A slot is an active run or one a worker can still make active. No step but
a successful check makes slots plus launches grow, and a check succeeds only below
the limit; hence at most limit - 1 + workers + sessions.

*SchedulerLeader.* Until some process is late, the process whose flag is set owns the
key, and the key lives for as long as that process still has to renew.

*FsmService.* `StateReachable` is proved for every set of states that contains the
initial ones and is closed under the edges: a commit moves from a state that was
read, hence in the set. Histories only grow. For `VersionTellsLoss`, a version never exceeds one plus the recorded
transitions; while the two counts agree the chain ends in the current state; and a
request whose read still counts every recorded transition has read that state.

*Workflow.* A commit is a move or it overtakes, by the version it has read. For the first the row
must be what was read: `LossInv` says so of the state and `WalkInv` of the version. For the second
the state that was read must be one the instance has been in; it stays so because an instance
that has moved is where some recorded transition led (`LedInv`), so that a commit never takes the state it
replaces off the record, and one that has not moved cannot have been overtaken. A reader that made its
instance has nothing on record yet (`EmptyInv`). `TrailsAreWalks` is proved of
`Workflow`, whose invariant `FlowInv` needs neither versions nor requests, and carried over.

*MutationQueue.* That a queued mutation stays is not inductive: what matters are the lists in
hand. `QueueInv` says that one caller at most is past the lock (`OneFlush`), that lists hold queued
mutations only (`QueuedOnly`), each once (`EachOnce`), that a mutation which shared the list with nobody is in
every list that may be written back, or settled (`Undisturbed`, `InEveryList`), and that one the server
performed openly is in none of them (`PerformedOnce`). For the order, `OneOrder` says that all the lists, in storage, in the
hand of a flush and in the hand of enqueues, agree on who comes first: only an enqueue adds pairs, those
of a mutation that is in no list yet.

*OfflineSync.* The refinement says what the composition has to show: the two queues share the connectivity flag and the fault
counter, so a step of the uploads may be a step that `MutationQueue` does not have, and it has to leave the variables of the mutations
alone (`StepKinds`). Their invariants then hold as they were proved, by two instances of one module that say the same
(`SameMutationQueue`). The theorem is `[][M!Next]_<<isOnline, mvars>>`, not `M!Spec`: a fault of the uploads counts against the
same bound `MaxFaults`, which is of the model, not of the code. `FlushFirst` says that a caller is in one queue at a time. Of the uploads,
`PhotoKept` speaks of the stored list only; what may
be written back later is in the hands of drains and of enqueues. `UploadInv` says that a drain deletes the file of the entry at its head, which it has dropped (`HeadInHand`), that
lists hold queued uploads only (`QueuedOnly`), that a file is there from its copy until its upload is dropped
(`FilesFollow`), that a call that shares the list with nobody has it as it is stored (`Undisturbed`), and that an upload
exposed to nothing is, while its file exists, in every list that may be written back (`InEveryList`). None of this needs the lock of the
drains, and the proof does not use it: two drains at once would post twice, not lose. `FoundFileIsPosted` does: `LockInv`
says that one caller drains at most, and only a drain deletes files.

*TrackingSocket.* `StreamInv`: until a connection was raced, no object but the one in `ws` is in use, a timer
or a refresh runs only while `ws` is empty, and nothing runs before `start` or after `stop`; so every
callback finds the fields of the socket it belongs to.

*WebSession.* `SessionInv`: whatever is stored, posted or to be revoked was issued (`OnlyIssued`); the
pair that an answer brings is live and nobody but the page that awaits it has it (`GrantedIsNew`); what a
logout revokes is no longer stored (`RevokedIsGone`); and what a page posted last is what it awaits the
answer for, or is no longer stored (`PostedIsGone`). Numbering the pairs by issue makes a new pair
differ from all that exist, which excludes that a page finds its old token again.

*Only model-checked:* the liveness properties (fairness and ENABLED are out of the
prover's reach: `ActiveRunEndsUnlessOff`, `LostLockStopsScheduler`, `OrphanKeyExpires`, `Drains`, `ComesBack`,
`Settles`) and the violation runs. Every invariant, action property and refinement that a passing run checks is proved.

## 6. Plan

Done: `RunSlots`, `AgentRun`, `SchedulerLeader`, `FsmService`, `MutationQueue`, `UploadQueue`,
`OfflineSync`, `TrackingSocket`, `WebSession`, `Workflow`, and the proofs of all their safety properties. Next, in this order:

1. `AdsLifecycle`: an AdS of PaxLog, its status column beside its workflow instance;
   composed with `FsmService`. The handlers (submit, approve at each review, reject,
   request review, cancel, start, complete) read `Ads.status` without a lock, await
   many queries, call `_try_ads_workflow_transition`, which falls back to the status
   column alone when the workflow is not installed, and write the status last; approve
   and reject also move the passengers, and `complete_ads_operationally` leaves the
   instance where it was. Properties: one decision per request, status and instance
   agree when no handler is between the two, the quota of an activity, what is published
   against what is on record. Abstract specification: one state, one edge at a time.
2. `EmailQueue`: the batch, its transaction, crashes and retry counts. Properties: a
   notification marked sent was sent or was given up after the retries; liveness.
3. `AgentBreaker`: the failure counter of several callbacks, the trip, the cooldown,
   the reset by an administrator; composed with `RunSlots`.
4. `TicketHousekeeping`: the warning, the comment it leaves, the closing.
5. The advisory locks of the other agent loops, over a connection pool that says which
   unlock reaches its lock.
6. PackLog scans, MOC signatures and the critical path (`cpm_service.py`), the last as a
   function checked against a reference definition.

Theorems to come: the agreement of `AdsLifecycle`, its refinement of the one-state
specification under a fresh read, the counts of `AgentBreaker`.

## 7. Not modelled, and why

Deploy-and-verify drives external services and gives its result to a human; the
scheduled jobs other than the e-mail queue are idempotent sweeps; Papyrus, PID,
compliance, dashboards and imports are data and queries; authentication, RBAC and
delegations are checks within one request; connectors, MCP, the screens of the frontends and runner
images are I/O. Within the modelled parts: ticket statuses and e-mails of a launch,
heartbeats and worker pool rows, digests, audit entries, metadata and SLA of an
instance, and the handlers of events. Of the mobile services: the read cache, push
notifications, `cancelUpload` and `clearUploadQueue`, which have no caller. Of the web client:
MFA, the acting entity, the other WebSocket of the notifications.
