---------------------------- MODULE UploadQueue ----------------------------
(***************************************************************************)
(* The queue of photos and files taken offline,                            *)
(* apps/mobile/src/services/uploadQueue.ts, and uploadAttachment of        *)
(* attachments.ts, which fills it.                                         *)
(*                                                                         *)
(* An upload is two things: a file in the application's own directory and  *)
(* an entry of a JSON list in AsyncStorage.  They are written and deleted  *)
(* one after the other.  Uploads use fetch, not the axios client: a token  *)
(* that has expired is answered with 401 and is not renewed.               *)
(***************************************************************************)
EXTENDS Naturals, Sequences

CONSTANTS
  Uploads,     \* the calls of uploadAttachment
  Callers,     \* the callbacks that may be awaiting flushUploadQueue
  MaxRetries,  \* MAX_RETRIES, 5 in the code
  MaxFaults    \* bound on the kills of the application and storage failures

VARIABLES
  isOnline,    \* useOfflineStore.isOnline
  tokenFresh,  \* the server still accepts useAuthStore.accessToken
  faults,      \* kills and storage failures so far
  uploads,     \* AsyncStorage["opsflux_upload_queue"]
  files,       \* files in upload-queue/, named by their upload
  put,         \* where each call of uploadAttachment stands
  held,        \* the list queueUpload read and will write back
  drainLock,   \* the module variable flushLock of uploadQueue.ts
  drain,       \* where each caller's flushUploadQueue stands, its locals
  received,    \* uploads the server has stored
  refused,     \* uploads the server refused while the token was fresh
  expired,     \* uploads answered 401 because the token had run out
  spent,       \* uploads whose retries ran out
  dropped,     \* uploads a drain has taken off the list
  crossed      \* uploads exposed to a lost update of the list (another user
               \* had it in hand, or a read of it failed), or whose file
               \* could not be deleted

Entry == [id : Uploads, retries : 0 .. MaxRetries - 1]

Ids(list) == {list[i].id : i \in DOMAIN list}

PutStates == {"idle", "direct", "copy", "read", "write",
              "sent", "refused", "queued", "failed", "killed"}

DrainStates == {"idle", "due", "count", "get", "check", "send", "clean"}

Drain == [pc : DrainStates, rest : Seq(Entry), kept : Seq(Entry)]

NoDrain == [pc |-> "idle", rest |-> <<>>, kept |-> <<>>]

TypeOK ==
  /\ isOnline \in BOOLEAN
  /\ tokenFresh \in BOOLEAN
  /\ faults \in 0 .. MaxFaults
  /\ uploads \in Seq(Entry)
  /\ files \in SUBSET Uploads
  /\ put \in [Uploads -> PutStates]
  /\ held \in [Uploads -> Seq(Entry)]
  /\ drainLock \in BOOLEAN
  /\ drain \in [Callers -> Drain]
  /\ received \in SUBSET Uploads
  /\ refused \in SUBSET Uploads
  /\ expired \in SUBSET Uploads
  /\ spent \in SUBSET Uploads
  /\ dropped \in SUBSET Uploads
  /\ crossed \in SUBSET Uploads

Init ==
  /\ tokenFresh = TRUE
  /\ uploads = <<>>
  /\ files = {}
  /\ put = [u \in Uploads |-> "idle"]
  /\ held = [u \in Uploads |-> <<>>]
  /\ drainLock = FALSE
  /\ drain = [c \in Callers |-> NoDrain]
  /\ received = {}
  /\ refused = {}
  /\ expired = {}
  /\ spent = {}
  /\ dropped = {}
  /\ crossed = {}

-----------------------------------------------------------------------------
(* One POST of a file.  401 answers a token that has expired, 4xx an       *)
(* upload the server does not want; 5xx and silence leave open whether     *)
(* the server has stored the file.                                         *)
Outcomes == {"ok", "refused", "401", "error", "silence"}

Posted(u, outcome) ==
  /\ outcome \in {"ok", "refused"} => tokenFresh
  /\ outcome = "401" => ~tokenFresh
  /\ refused' = IF outcome = "refused" THEN refused \cup {u} ELSE refused
  /\ expired' = IF outcome = "401" THEN expired \cup {u} ELSE expired
  /\ \/ outcome \in {"ok", "error", "silence"} /\ tokenFresh
        /\ received' = received \cup {u}
     \/ outcome # "ok" /\ UNCHANGED received

(* The access token runs out; a request of the axios client renews it.     *)
TokenExpires ==
  /\ tokenFresh
  /\ tokenFresh' = FALSE
  /\ UNCHANGED <<isOnline, faults, uploads, files, put, held, drainLock,
                 drain, received, refused, expired, spent, dropped, crossed>>

TokenRenewed ==
  /\ ~tokenFresh
  /\ tokenFresh' = TRUE
  /\ UNCHANGED <<isOnline, faults, uploads, files, put, held, drainLock,
                 drain, received, refused, expired, spent, dropped, crossed>>

-----------------------------------------------------------------------------
(* uploadAttachment and queueUpload                                        *)

UploadAttachment(u) ==
  /\ put[u] = "idle"
  /\ put' = [put EXCEPT ![u] = IF isOnline THEN "direct" ELSE "copy"]
  /\ UNCHANGED <<isOnline, tokenFresh, faults, uploads, files, held,
                 drainLock, drain, received, refused, expired, spent, dropped,
                 crossed>>

DirectAnswer(u, outcome) ==
  /\ put[u] = "direct"
  /\ Posted(u, outcome)
  /\ put' = [put EXCEPT ![u] =
               CASE outcome = "ok" -> "sent"
                 [] outcome \in {"refused", "401"} -> "refused"
                 [] OTHER -> "copy"]
  /\ UNCHANGED <<isOnline, tokenFresh, faults, uploads, files, held,
                 drainLock, drain, spent, dropped, crossed>>

(* The plausible slip: copyAsync is not awaited, and fails later.          *)
CopyFileLater(u) ==
  /\ put[u] = "copy"
  /\ put' = [put EXCEPT ![u] = "read"]
  /\ UNCHANGED <<isOnline, tokenFresh, faults, uploads, files, held,
                 drainLock, drain, received, refused, expired, spent, dropped,
                 crossed>>

CopyFile(u) ==
  /\ put[u] = "copy"
  /\ put' = [put EXCEPT ![u] = "read"]
  /\ files' = files \cup {u}
  /\ UNCHANGED <<isOnline, tokenFresh, faults, uploads, held, drainLock,
                 drain, received, refused, expired, spent, dropped, crossed>>

PutRead(u) ==
  LET others == {v \in Uploads \ {u} : put[v] = "write"}
      draining == \E c \in Callers : drain[c].pc \in {"check", "send", "clean"}
  IN  /\ put[u] = "read"
      /\ put' = [put EXCEPT ![u] = "write"]
      /\ held' = [held EXCEPT ![u] = uploads]
      /\ crossed' = crossed \cup others
                      \cup (IF others # {} \/ draining THEN {u} ELSE {})
      /\ UNCHANGED <<isOnline, tokenFresh, faults, uploads, files, drainLock,
                     drain, received, refused, expired, spent, dropped>>

(* readQueue answers a storage failure with an empty list.                 *)
PutReadFails(u) ==
  /\ put[u] = "read"
  /\ faults < MaxFaults
  /\ faults' = faults + 1
  /\ put' = [put EXCEPT ![u] = "write"]
  /\ held' = [held EXCEPT ![u] = <<>>]
  /\ crossed' = crossed \cup {v \in Uploads : put[v] \in {"read", "write", "queued"}}
  /\ UNCHANGED <<isOnline, tokenFresh, uploads, files, drainLock, drain,
                 received, refused, expired, spent, dropped>>

PutWrite(u) ==
  /\ put[u] = "write"
  /\ put' = [put EXCEPT ![u] = "queued"]
  /\ held' = [held EXCEPT ![u] = <<>>]
  /\ uploads' = Append(held[u], [id |-> u, retries |-> 0])
  /\ UNCHANGED <<isOnline, tokenFresh, faults, files, drainLock, drain,
                 received, refused, expired, spent, dropped, crossed>>

(* The copy or the storage fails: the caller gets an error.                *)
PutFails(u) ==
  /\ put[u] \in {"copy", "write"}
  /\ faults < MaxFaults
  /\ faults' = faults + 1
  /\ put' = [put EXCEPT ![u] = "failed"]
  /\ held' = [held EXCEPT ![u] = <<>>]
  /\ UNCHANGED <<isOnline, tokenFresh, uploads, files, drainLock, drain,
                 received, refused, expired, spent, dropped, crossed>>

-----------------------------------------------------------------------------
(* flushUploadQueue, called by c once flushQueue has come back to it       *)

DrainAt(c, pc) == drain' = [drain EXCEPT ![c].pc = pc]

DrainOver(c) ==
  /\ drain' = [drain EXCEPT ![c] = NoDrain]
  /\ drainLock' = FALSE

(* The plausible slip: the lock is set, and not looked at.                 *)
DrainStartUnlocked(c) ==
  /\ drain[c].pc = "due"
  /\ DrainAt(c, IF isOnline THEN "get" ELSE "count")
  /\ drainLock' = TRUE
  /\ UNCHANGED <<isOnline, tokenFresh, faults, uploads, files, put, held,
                 received, refused, expired, spent, dropped, crossed>>

DrainStart(c) ==
  /\ drain[c].pc = "due"
  /\ IF drainLock
     THEN DrainAt(c, "idle") /\ UNCHANGED drainLock
     ELSE DrainAt(c, IF isOnline THEN "get" ELSE "count") /\ drainLock' = TRUE
  /\ UNCHANGED <<isOnline, tokenFresh, faults, uploads, files, put, held,
                 received, refused, expired, spent, dropped, crossed>>

(* The plausible slip: this return is outside the try block.               *)
DrainCountLeaving(c) ==
  /\ drain[c].pc = "count"
  /\ drain' = [drain EXCEPT ![c] = NoDrain]
  /\ UNCHANGED <<isOnline, tokenFresh, faults, uploads, files, put, held,
                 drainLock, received, refused, expired, spent, dropped, crossed>>

(* Offline: the list is read for its length, with the lock held.           *)
DrainCount(c) ==
  /\ drain[c].pc = "count"
  /\ DrainOver(c)
  /\ UNCHANGED <<isOnline, tokenFresh, faults, uploads, files, put, held,
                 received, refused, expired, spent, dropped, crossed>>

DrainRead(c) ==
  /\ drain[c].pc = "get"
  /\ IF uploads = <<>>
     THEN DrainOver(c) /\ UNCHANGED crossed
     ELSE /\ drain' = [drain EXCEPT ![c].pc = "check", ![c].rest = uploads]
          /\ crossed' = crossed \cup {u \in Uploads : put[u] = "write"}
          /\ UNCHANGED drainLock
  /\ UNCHANGED <<isOnline, tokenFresh, faults, uploads, files, put, held,
                 received, refused, expired, spent, dropped>>

(* getInfoAsync: an entry whose file is gone is dropped.                   *)
DrainCheck(c) ==
  LET d == drain[c]
      u == Head(d.rest).id
  IN  /\ d.pc = "check"
      /\ d.rest # <<>>
      /\ IF u \in files
         THEN DrainAt(c, "send") /\ UNCHANGED dropped
         ELSE /\ drain' = [drain EXCEPT ![c].rest = Tail(@)]
              /\ dropped' = dropped \cup {u}
      /\ UNCHANGED <<isOnline, tokenFresh, faults, uploads, files, put, held,
                     drainLock, received, refused, expired, spent, crossed>>

(* The plausible slip: one retry too many.                                 *)
ExhaustedLate(entry) == entry.retries + 1 > MaxRetries

Exhausted(entry) == entry.retries + 1 >= MaxRetries

(* The answer: an upload that may yet succeed is kept, any other one is    *)
(* dropped and its file deleted.                                           *)
DrainSend(c, outcome) ==
  LET d == drain[c]
      entry == Head(d.rest)
      transient == outcome \in {"error", "silence"}
      exhausted == transient /\ Exhausted(entry)
  IN  /\ d.pc = "send"
      /\ Posted(entry.id, outcome)
      /\ drain' = [drain EXCEPT ![c] =
           IF transient /\ ~exhausted
           THEN [pc |-> "check", rest |-> Tail(d.rest),
                 kept |-> Append(d.kept, [entry EXCEPT !.retries = @ + 1])]
           ELSE [d EXCEPT !.pc = "clean"]]
      /\ spent' = IF exhausted THEN spent \cup {entry.id} ELSE spent
      /\ dropped' = IF transient /\ ~exhausted THEN dropped
                    ELSE dropped \cup {entry.id}
      /\ UNCHANGED <<isOnline, tokenFresh, faults, uploads, files, put, held,
                     drainLock, crossed>>

(* The plausible slip: the file of an upload that is over stays.           *)
DrainCleanNothing(c) ==
  /\ drain[c].pc = "clean"
  /\ drain' = [drain EXCEPT ![c].pc = "check", ![c].rest = Tail(@)]
  /\ UNCHANGED <<isOnline, tokenFresh, faults, uploads, files, put, held,
                 drainLock, received, refused, expired, spent, dropped, crossed>>

DrainClean(c) ==
  /\ drain[c].pc = "clean"
  /\ files' = files \ {Head(drain[c].rest).id}
  /\ drain' = [drain EXCEPT ![c].pc = "check", ![c].rest = Tail(@)]
  /\ UNCHANGED <<isOnline, tokenFresh, faults, uploads, put, held, drainLock,
                 received, refused, expired, spent, dropped, crossed>>

(* The file cannot be deleted: the drain goes on, and the file stays.      *)
DrainCleanFails(c) ==
  /\ drain[c].pc = "clean"
  /\ faults < MaxFaults
  /\ faults' = faults + 1
  /\ drain' = [drain EXCEPT ![c].pc = "check", ![c].rest = Tail(@)]
  /\ crossed' = crossed \cup {Head(drain[c].rest).id}
  /\ UNCHANGED <<isOnline, tokenFresh, uploads, files, put, held, drainLock,
                 received, refused, expired, spent, dropped>>

(* The plausible slip: the list is removed once it has been gone through.  *)
DrainSaveNothing(c) ==
  /\ drain[c].pc = "check"
  /\ drain[c].rest = <<>>
  /\ uploads' = <<>>
  /\ DrainOver(c)
  /\ UNCHANGED <<isOnline, tokenFresh, faults, files, put, held, received,
                 refused, expired, spent, dropped, crossed>>

DrainSave(c) ==
  /\ drain[c].pc = "check"
  /\ drain[c].rest = <<>>
  /\ uploads' = drain[c].kept
  /\ DrainOver(c)
  /\ UNCHANGED <<isOnline, tokenFresh, faults, files, put, held, received,
                 refused, expired, spent, dropped, crossed>>

(* getInfoAsync or the last write throws, or the list is not read and      *)
(* passes for empty: the finally block gives the lock back and the list    *)
(* stays as it was.                                                        *)
DrainFails(c) ==
  /\ drain[c].pc \in {"get", "check"}
  /\ faults < MaxFaults
  /\ faults' = faults + 1
  /\ DrainOver(c)
  /\ UNCHANGED <<isOnline, tokenFresh, uploads, files, put, held, received,
                 refused, expired, spent, dropped, crossed>>

-----------------------------------------------------------------------------
Killed ==
  /\ put' = [u \in Uploads |->
               IF put[u] \in {"direct", "copy", "read", "write"}
               THEN "killed" ELSE put[u]]
  /\ held' = [u \in Uploads |-> <<>>]
  /\ drainLock' = FALSE
  /\ drain' = [c \in Callers |-> NoDrain]
  /\ UNCHANGED <<tokenFresh, uploads, files, received, refused, expired, spent,
                 dropped, crossed>>

Put(u) ==
  \/ UploadAttachment(u)
  \/ \E outcome \in Outcomes : DirectAnswer(u, outcome)
  \/ CopyFile(u)
  \/ PutRead(u)
  \/ PutReadFails(u)
  \/ PutWrite(u)
  \/ PutFails(u)

DrainStep(c) ==
  \/ DrainStart(c)
  \/ DrainCount(c)
  \/ DrainRead(c)
  \/ DrainCheck(c)
  \/ \E outcome \in Outcomes : DrainSend(c, outcome)
  \/ DrainClean(c)
  \/ DrainSave(c)

Next ==
  \/ \E u \in Uploads : Put(u)
  \/ \E c \in Callers : DrainStep(c) \/ DrainCleanFails(c) \/ DrainFails(c)
  \/ TokenExpires
  \/ TokenRenewed

-----------------------------------------------------------------------------
(* Properties                                                              *)

(* "The caller can safely discard sourceUri after this": an upload that    *)
(* was queued while nothing else had the list in hand has both its entry   *)
(* and its file until a drain takes it off the list.                       *)
PhotoKept ==
  \A u \in Uploads :
    put[u] = "queued" /\ u \notin crossed =>
      u \in dropped \/ (u \in Ids(uploads) /\ u \in files)

(* A file is left behind only by a call that failed or was killed, by a    *)
(* lost update of the list or by a deletion that failed.                   *)
NoOrphanFile ==
  \A u \in files :
    \/ put[u] \in {"read", "write", "failed", "killed"}
    \/ u \in Ids(uploads)
    \/ u \in crossed

(* A drain takes an upload off the list, and deletes its only copy, after  *)
(* an answer about this upload or when its retries ran out: never because  *)
(* its file was already gone without either.                               *)
AnsweredBeforeDrop ==
  dropped \subseteq received \cup refused \cup expired \cup spent

(* "Atomic lock -- prevent concurrent drains": the lock is held while one  *)
(* caller is between its first and its last line, and never longer.        *)
Locking(c) == drain[c].pc \in DrainStates \ {"idle", "due"}

OneDrain ==
  /\ drainLock <=> \E c \in Callers : Locking(c)
  /\ \A c, d \in Callers : Locking(c) /\ Locking(d) => c = d

(* "Verify the file still exists": the file that a drain has found is      *)
(* still there when it is posted, whatever ran in between.                 *)
FoundFileIsPosted ==
  \A c \in Callers : drain[c].pc = "send" => Head(drain[c].rest).id \in files

(* "permanent failure (HTTP 4xx) -> drop + delete local copy (the file     *)
(* will never upload successfully)": what is dropped has been stored, has  *)
(* been refused for itself, or has used up its retries.                    *)
DroppedForGood == dropped \subseteq received \cup refused \cup spent
=============================================================================
