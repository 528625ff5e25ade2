---------------------------- MODULE OfflineSync ----------------------------
(***************************************************************************)
(* The two offline queues of the mobile application as it runs them: the   *)
(* connectivity listener of offline.ts, the return to the foreground       *)
(* (useAppLifecycle.ts) and "force sync" (SettingsScreen.tsx) each await   *)
(* flushQueue and then call flushUploadQueue, whatever flushQueue did.     *)
(* They share the connectivity flag, the storage and the access token.     *)
(***************************************************************************)
EXTENDS Naturals, Sequences

CONSTANTS Mutations, Uploads, Callers, MaxRetries, MaxFaults

\* What MutationQueue supposes of its constants.
ASSUME ConstantsAssumption == MaxRetries \in Nat \ {0} /\ MaxFaults \in Nat

VARIABLES
  isOnline, fetching, queue, op, copy, flushLock, flush, faults,
  applied, settled, overlapped, blind,
  tokenFresh, uploads, files, put, held, drainLock, drain,
  received, refused, expired, spent, dropped, crossed

M == INSTANCE MutationQueue
U == INSTANCE UploadQueue

mvars == <<fetching, queue, op, copy, flushLock, flush, applied, settled,
           overlapped, blind>>
uvars == <<tokenFresh, uploads, files, put, held, drainLock, drain, received,
           refused, expired, spent, dropped, crossed>>
vars == <<isOnline, faults, mvars, uvars>>

TypeOK == M!TypeOK /\ U!TypeOK

Init == M!Init /\ U!Init

(* A caller is free when neither flush is under way for it.                *)
Free(c) == flush[c].pc = "idle" /\ drain[c].pc = "idle"

(* The rest of the caller once flushQueue has returned.                    *)
ThenUploads(c) ==
  drain' = IF flush'[c].pc = "idle"
           THEN [drain EXCEPT ![c].pc = "due"] ELSE drain

UploadsUnchangedBut(c) ==
  /\ ThenUploads(c)
  /\ UNCHANGED <<tokenFresh, uploads, files, put, held, drainLock, received,
                 refused, expired, spent, dropped, crossed>>

(* The foreground callback checks isOnline first; force sync does not.     *)
Sync(c) == Free(c) /\ M!Sync(c) /\ UploadsUnchangedBut(c)

(* One report for each branch of evaluateNetInfo; MutationQueue has all.   *)
Reports == {state \in M!NetInfoStates : state.isInternetReachable = "true"}

NetInfoEvent(c, state) ==
  LET isNowOnline == M!EvaluateNetInfo(state, isOnline)
  IN  /\ Free(c)
      /\ M!NetInfoEvent(c, state)
      /\ IF ~isOnline /\ isNowOnline
         THEN UploadsUnchangedBut(c) ELSE UNCHANGED uvars

(* An answer of the server to the axios client comes with a fresh token:   *)
(* a 401 was renewed and repeated on the way.                              *)
FlushSend(c, outcome) ==
  /\ M!FlushSend(c, outcome)
  /\ tokenFresh' = (tokenFresh \/ outcome \in {"ok", "error"})
  /\ UNCHANGED <<uploads, files, put, held, drainLock, drain, received,
                 refused, expired, spent, dropped, crossed>>

FlushEnds(c) ==
  /\ M!FlushSave(c) \/ M!FlushFails(c)
  /\ UploadsUnchangedBut(c)

Kill ==
  /\ faults < MaxFaults
  /\ faults' = faults + 1
  /\ M!Killed
  /\ U!Killed

Next ==
  \/ /\ \/ \E m \in Mutations : M!Issue(m)
        \/ \E c \in Callers : M!FlushRead(c)
        \/ \E state \in Reports : M!StartupFetch(state)
        \/ M!ReadFailed
     /\ UNCHANGED uvars
  \/ U!Next /\ UNCHANGED mvars
  \/ \E c \in Callers :
       \/ Sync(c)
       \/ \E state \in Reports : NetInfoEvent(c, state)
       \/ \E outcome \in M!Outcomes : FlushSend(c, outcome)
       \/ FlushEnds(c)
  \/ Kill

Spec == Init /\ [][Next]_vars

-----------------------------------------------------------------------------
(* The properties of UploadQueue, where the two queues run together.       *)
PhotoKept == U!PhotoKept
NoOrphanFile == U!NoOrphanFile
AnsweredBeforeDrop == U!AnsweredBeforeDrop
OneDrain == U!OneDrain
FoundFileIsPosted == U!FoundFileIsPosted
DroppedForGood == U!DroppedForGood
=============================================================================
