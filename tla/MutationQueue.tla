--------------------------- MODULE MutationQueue ---------------------------
(***************************************************************************)
(* The offline write queue of the mobile application,                      *)
(* apps/mobile/src/services/offline.ts.                                    *)
(*                                                                         *)
(* A mutation (POST, PATCH, PUT or DELETE) is sent at once when the store  *)
(* says that the phone is online, and appended to a list in AsyncStorage   *)
(* when it is not or when the request fails.  The whole list is one JSON   *)
(* value: enqueueMutation reads it, awaits, and writes it back with one    *)
(* more entry; flushQueue reads it, sends every entry, and writes back     *)
(* those it keeps.  Only flushes exclude each other.                       *)
(*                                                                         *)
(* JavaScript runs one callback at a time, so an action is what happens    *)
(* between two awaits.                                                     *)
(***************************************************************************)
EXTENDS Naturals, Sequences

CONSTANTS
  Mutations,   \* the calls of mutateWithOfflineQueue and enqueueMutation
  Callers,     \* the callbacks that may be awaiting flushQueue at one time
  MaxRetries,  \* MAX_RETRIES, 5 in the code
  MaxFaults    \* bound on the kills of the application and storage failures

ASSUME MaxRetriesAssumption == MaxRetries \in Nat \ {0}
ASSUME MaxFaultsAssumption == MaxFaults \in Nat

VARIABLES
  isOnline,    \* useOfflineStore.isOnline
  fetching,    \* the NetInfo.fetch() made at startup has not answered yet
  queue,       \* AsyncStorage["@opsflux:mutation_queue"]
  op,          \* where the call that issues a mutation stands
  copy,        \* the list enqueueMutation read and will write back
  flushLock,   \* the module variable flushLock (and store.syncing)
  flush,       \* where each caller's flushQueue stands, and its locals
  faults,      \* kills and storage failures so far
  applied,     \* times the server performed a mutation: 0, 1 or Many
  settled,     \* mutations a flush has answered for: sent, refused, given up
  overlapped,  \* mutations whose enqueue overlapped another use of the list
  blind        \* mutations the server performed without the phone's record
               \* of them saying so

vars == <<isOnline, fetching, queue, op, copy, flushLock, flush, faults,
          applied, settled, overlapped, blind>>

Many == 2

Entry == [id : Mutations, retries : 0 .. MaxRetries - 1]

Ids(list) == {list[i].id : i \in DOMAIN list}

OpStates == {"idle", "request", "retry", "read", "write",
             "sent", "refused", "queued", "failed", "killed"}

Flush == [pc : {"idle", "get", "send"}, rest : Seq(Entry), kept : Seq(Entry),
          again : BOOLEAN]

NoFlush == [pc |-> "idle", rest |-> <<>>, kept |-> <<>>, again |-> FALSE]

Outcomes == {"ok", "refused", "error", "silence"}  \* 2xx, 4xx, 5xx, no answer

NetInfoStates == [isConnected : {"true", "false", "null"},
                  isInternetReachable : {"true", "false", "null"}]

TypeOK ==
  /\ isOnline \in BOOLEAN
  /\ fetching \in BOOLEAN
  /\ queue \in Seq(Entry)
  /\ op \in [Mutations -> OpStates]
  /\ copy \in [Mutations -> Seq(Entry)]
  /\ flushLock \in BOOLEAN
  /\ flush \in [Callers -> Flush]
  /\ faults \in 0 .. MaxFaults
  /\ applied \in [Mutations -> 0 .. Many]
  /\ settled \in SUBSET Mutations
  /\ overlapped \in SUBSET Mutations
  /\ blind \in SUBSET Mutations

Init ==
  /\ isOnline = TRUE
  /\ fetching = TRUE
  /\ queue = <<>>
  /\ op = [m \in Mutations |-> "idle"]
  /\ copy = [m \in Mutations |-> <<>>]
  /\ flushLock = FALSE
  /\ flush = [c \in Callers |-> NoFlush]
  /\ faults = 0
  /\ applied = [m \in Mutations |-> 0]
  /\ settled = {}
  /\ overlapped = {}
  /\ blind = {}

-----------------------------------------------------------------------------
(* One HTTP attempt.  The axios client repeats a request once when no      *)
(* answer came (api.ts), so a request is at most two attempts.             *)

Reaches(m, outcome) ==
  \/ /\ outcome # "refused"
     /\ applied' = [applied EXCEPT ![m] = IF @ = Many THEN Many ELSE @ + 1]
     /\ blind' = IF outcome = "ok" THEN blind ELSE blind \cup {m}
  \/ /\ outcome # "ok"
     /\ UNCHANGED <<applied, blind>>

(* Entries still in the list although the server performed them.           *)
Performed(list) == {m \in Ids(list) : applied[m] > 0}

-----------------------------------------------------------------------------
(* Issuing a mutation                                                      *)

MutateWithOfflineQueue(m) ==
  /\ op[m] = "idle"
  /\ op' = [op EXCEPT ![m] = IF isOnline THEN "request" ELSE "read"]
  /\ UNCHANGED <<isOnline, fetching, queue, copy, flushLock, flush, faults,
                 applied, settled, overlapped, blind>>

(* A background location goes to the list without being tried first.       *)
RecordPosition(m) ==
  /\ op[m] = "idle"
  /\ op' = [op EXCEPT ![m] = "read"]
  /\ UNCHANGED <<isOnline, fetching, queue, copy, flushLock, flush, faults,
                 applied, settled, overlapped, blind>>

RequestAnswer(m, outcome) ==
  /\ op[m] \in {"request", "retry"}
  /\ Reaches(m, outcome)
  /\ op' = [op EXCEPT ![m] =
              CASE outcome = "ok" -> "sent"
                [] outcome = "refused" -> "refused"
                [] outcome = "silence" /\ op[m] = "request" -> "retry"
                [] OTHER -> "read"]
  /\ UNCHANGED <<isOnline, fetching, queue, copy, flushLock, flush, faults,
                 settled, overlapped>>

(* enqueueMutation: getQueue answers ...                                   *)
EnqueueRead(m) ==
  LET others == {n \in Mutations \ {m} : op[n] = "write"}
      flushing == \E c \in Callers : flush[c].pc = "send"
  IN  /\ op[m] = "read"
      /\ op' = [op EXCEPT ![m] = "write"]
      /\ copy' = [copy EXCEPT ![m] = queue]
      /\ overlapped' = overlapped \cup others
                         \cup (IF others # {} \/ flushing THEN {m} ELSE {})
      /\ UNCHANGED <<isOnline, fetching, queue, flushLock, flush, faults,
                     applied, settled, blind>>

(* ... and saveQueue writes the list with the new entry.                   *)
EnqueueWrite(m) ==
  /\ op[m] = "write"
  /\ op' = [op EXCEPT ![m] = "queued"]
  /\ copy' = [copy EXCEPT ![m] = <<>>]
  /\ queue' = Append(copy[m], [id |-> m, retries |-> 0])
  /\ blind' = IF m \in overlapped THEN blind \cup Performed(copy[m]) ELSE blind
  /\ UNCHANGED <<isOnline, fetching, flushLock, flush, faults, applied,
                 settled, overlapped>>

(* The storage fails under the caller, which gets the exception.           *)
EnqueueFails(m) ==
  /\ op[m] \in {"read", "write"}
  /\ faults < MaxFaults
  /\ faults' = faults + 1
  /\ op' = [op EXCEPT ![m] = "failed"]
  /\ copy' = [copy EXCEPT ![m] = <<>>]
  /\ UNCHANGED <<isOnline, fetching, queue, flushLock, flush, applied,
                 settled, overlapped, blind>>

-----------------------------------------------------------------------------
(* flushQueue                                                              *)

(* The plausible slip: only the store's flag is looked at.                 *)
FlushQueueUnlocked(c, online) ==
  IF ~online
  THEN UNCHANGED <<flushLock, flush>>
  ELSE /\ flushLock' = TRUE
       /\ flush' = [flush EXCEPT ![c] = [NoFlush EXCEPT !.pc = "get"]]

(* Up to its first await: the lock, then the store's own flags.            *)
FlushQueue(c, online) ==
  IF flushLock \/ ~online
  THEN UNCHANGED <<flushLock, flush>>
  ELSE /\ flushLock' = TRUE
       /\ flush' = [flush EXCEPT ![c] = [NoFlush EXCEPT !.pc = "get"]]

(* The plausible slip: the entries are taken from the end with pop().      *)
FlushReadReversed(c) ==
  /\ flush[c].pc = "get"
  /\ flush' = [flush EXCEPT ![c] =
       [@ EXCEPT !.pc = "send",
                 !.rest = [i \in DOMAIN queue |-> queue[Len(queue) + 1 - i]]]]
  /\ overlapped' = overlapped \cup {m \in Mutations : op[m] = "write"}
  /\ UNCHANGED <<isOnline, fetching, queue, op, copy, flushLock, faults,
                 applied, settled, blind>>

FlushRead(c) ==
  /\ flush[c].pc = "get"
  /\ flush' = [flush EXCEPT ![c] = [@ EXCEPT !.pc = "send", !.rest = queue]]
  /\ overlapped' = overlapped \cup {m \in Mutations : op[m] = "write"}
  /\ UNCHANGED <<isOnline, fetching, queue, op, copy, flushLock, faults,
                 applied, settled, blind>>

(* Plausible slips: one retry too many; a 4xx expected of every failure.   *)
KeepsOnceMore(entry, outcome) ==
  outcome \in {"error", "silence"} /\ entry.retries + 1 <= MaxRetries
KeepsServerErrors(entry, outcome) ==
  outcome = "error" /\ entry.retries + 1 < MaxRetries

(* The catch branch: 5xx and silence are kept until the retries run out.   *)
Keeps(entry, outcome) ==
  outcome \in {"error", "silence"} /\ entry.retries + 1 < MaxRetries

(* What ends the life of an entry: the server's answer, or the last retry. *)
AnswersFor(entry, outcome) ==
  outcome \in {"ok", "refused"} \/ entry.retries + 1 >= MaxRetries

FlushSend(c, outcome) ==
  LET f == flush[c]
      entry == Head(f.rest)
      m == entry.id
      repeats == outcome = "silence" /\ ~f.again
  IN  /\ f.pc = "send"
      /\ f.rest # <<>>
      /\ Reaches(m, outcome)
      /\ flush' = [flush EXCEPT ![c] =
           IF repeats
           THEN [f EXCEPT !.again = TRUE]
           ELSE [f EXCEPT !.again = FALSE, !.rest = Tail(f.rest),
                          !.kept = IF Keeps(entry, outcome)
                                   THEN Append(f.kept,
                                          [entry EXCEPT !.retries = @ + 1])
                                   ELSE f.kept]]
      /\ settled' = IF AnswersFor(entry, outcome) /\ ~repeats
                    THEN settled \cup {m} ELSE settled
      /\ UNCHANGED <<isOnline, fetching, queue, op, copy, flushLock, faults,
                     overlapped>>

FlushSave(c) ==
  /\ flush[c].pc = "send"
  /\ flush[c].rest = <<>>
  /\ queue' = flush[c].kept
  /\ flush' = [flush EXCEPT ![c] = NoFlush]
  /\ flushLock' = FALSE
  /\ UNCHANGED <<isOnline, fetching, op, copy, faults, applied, settled,
                 overlapped, blind>>

(* The plausible slip: the lock is given back by the last line, not by     *)
(* finally.                                                                *)
FlushFailsLocked(c) ==
  /\ flush[c].pc = "get" \/ (flush[c].pc = "send" /\ flush[c].rest = <<>>)
  /\ faults < MaxFaults
  /\ faults' = faults + 1
  /\ flush' = [flush EXCEPT ![c] = NoFlush]
  /\ blind' = blind \cup Performed(queue)
  /\ UNCHANGED <<isOnline, fetching, queue, op, copy, flushLock, applied,
                 settled, overlapped>>

(* getQueue or saveQueue fails: the finally block gives the lock back.     *)
FlushFails(c) ==
  /\ flush[c].pc = "get" \/ (flush[c].pc = "send" /\ flush[c].rest = <<>>)
  /\ faults < MaxFaults
  /\ faults' = faults + 1
  /\ flush' = [flush EXCEPT ![c] = NoFlush]
  /\ flushLock' = FALSE
  /\ blind' = blind \cup Performed(queue)
  /\ UNCHANGED <<isOnline, fetching, queue, op, copy, applied, settled,
                 overlapped>>

-----------------------------------------------------------------------------
(* Connectivity and the callers of flushQueue                              *)

EvaluateNetInfo(state, prior) ==
  CASE state.isConnected = "false" -> FALSE
    [] state.isConnected = "true" -> state.isInternetReachable # "false"
    [] OTHER -> prior

(* The listener: only the passage from offline to online starts a flush.   *)
NetInfoEvent(c, state) ==
  LET isNowOnline == EvaluateNetInfo(state, isOnline)
  IN  /\ isOnline' = isNowOnline
      /\ IF ~isOnline /\ isNowOnline
         THEN FlushQueue(c, TRUE)
         ELSE UNCHANGED <<flushLock, flush>>
      /\ UNCHANGED <<fetching, queue, op, copy, faults, applied, settled,
                     overlapped, blind>>

(* The answer to the fetch at startup sets the flag and flushes nothing.   *)
StartupFetch(state) ==
  /\ fetching
  /\ fetching' = FALSE
  /\ isOnline' = EvaluateNetInfo(state, isOnline)
  /\ UNCHANGED <<queue, op, copy, flushLock, flush, faults, applied, settled,
                 overlapped, blind>>

(* fetchWithOfflineFallback: any failed GET turns the flag off.            *)
ReadFailed ==
  /\ isOnline
  /\ isOnline' = FALSE
  /\ UNCHANGED <<fetching, queue, op, copy, flushLock, flush, faults, applied,
                 settled, overlapped, blind>>

(* The application returns to the foreground with a user signed in, or a   *)
(* user forces a sync, whose button does not ask for one.                  *)
Sync(c) ==
  /\ FlushQueue(c, isOnline)
  /\ UNCHANGED <<isOnline, fetching, queue, op, copy, faults, applied,
                 settled, overlapped, blind>>

(* The system kills the application, which starts again: what was in       *)
(* memory is gone, the list stays.                                         *)
Killed ==
  /\ isOnline' = TRUE
  /\ fetching' = TRUE
  /\ op' = [m \in Mutations |->
              IF op[m] \in {"request", "retry", "read", "write"}
              THEN "killed" ELSE op[m]]
  /\ copy' = [m \in Mutations |-> <<>>]
  /\ flushLock' = FALSE
  /\ flush' = [c \in Callers |-> NoFlush]
  /\ blind' = blind \cup Performed(queue)
  /\ UNCHANGED <<queue, applied, settled, overlapped>>

Kill ==
  /\ faults < MaxFaults
  /\ faults' = faults + 1
  /\ Killed

-----------------------------------------------------------------------------
Issue(m) ==
  \/ MutateWithOfflineQueue(m)
  \/ RecordPosition(m)
  \/ \E outcome \in Outcomes : RequestAnswer(m, outcome)
  \/ EnqueueRead(m)
  \/ EnqueueWrite(m)
  \/ EnqueueFails(m)

FlushStep(c) ==
  \/ FlushRead(c)
  \/ \E outcome \in Outcomes : FlushSend(c, outcome)
  \/ FlushSave(c)

Next ==
  \/ \E m \in Mutations : Issue(m)
  \/ \E c \in Callers :
       \/ FlushStep(c)
       \/ FlushFails(c)
       \/ Sync(c)
       \/ \E state \in NetInfoStates : NetInfoEvent(c, state)
  \/ \E state \in NetInfoStates : StartupFetch(state)
  \/ ReadFailed
  \/ Kill

Spec == Init /\ [][Next]_vars

(* A flush under way goes on; a phone that is offline is told again that   *)
(* it is online; a user whose phone is online comes back to the            *)
(* application from time to time, signed in, or asks for a sync.  No       *)
(* network, server or storage is supposed to be fair.                      *)
Fairness ==
  /\ \A c \in Callers : WF_vars(FlushStep(c))
  /\ WF_vars(\E c \in Callers, state \in NetInfoStates :
               NetInfoEvent(c, state) /\ isOnline')
  /\ SF_vars(\E c \in Callers : Sync(c))

FairSpec == Spec /\ Fairness

-----------------------------------------------------------------------------
(* Properties                                                              *)

(* A mutation that the application reported as queued, and that was        *)
(* queued while nothing else had the list in hand, stays in it until a     *)
(* flush has answered for it: what flushes and other enqueues write back   *)
(* later never drops it.                                                   *)
KeptUnlessOverlapped ==
  \A m \in Mutations :
    op[m] = "queued" /\ m \notin overlapped =>
      m \in Ids(queue) \cup settled

(* The server performs a mutation twice only when the phone could not      *)
(* know of the first time: an answer was lost, a flush ended without       *)
(* saving, or an overlapping enqueue wrote the entry back.  Two flushes    *)
(* never send the same entry.                                              *)
OnceUnlessBlind ==
  \A m \in Mutations : applied[m] = Many => m \in blind

(* When a flush has done with an entry, it has tried every earlier one     *)
(* before: an entry is overtaken only by failing and being kept, or by a   *)
(* lost update of the list.                                                *)
SentInOrder ==
  [][\A i, j \in DOMAIN queue :
       /\ i < j
       /\ queue[j].id \in settled' \ settled
       /\ queue[i].id \notin overlapped
       => \/ queue[i].id \in settled
          \/ \E c \in Callers : queue[i].id \in Ids(flush[c].kept)]_vars

(* With a user who comes back, every entry leaves the list: the lock is    *)
(* always given back and the retries run out, whatever the network does.   *)
Drains ==
  \A m \in Mutations : m \in Ids(queue) ~> m \notin Ids(queue)

(* What mutateWithOfflineQueue reports with { sent: false, queueId }: the  *)
(* mutation is in the list until a flush answers for it.                   *)
QueuedIsKept ==
  \A m \in Mutations : op[m] = "queued" => m \in Ids(queue) \cup settled
=============================================================================
