------------------------- MODULE OfflineSync_proofs -------------------------
(* For any number of uploads, of mutations, of callers, of retries and of    *)
(* faults: the file and the entry of an upload stay together although drains *)
(* and new uploads write back lists they read long before, and what is       *)
(* proved of the mutations alone holds of both queues together.              *)
EXTENDS OfflineSync, TLAPS

-----------------------------------------------------------------------------
(* The inductive invariant of the uploads                                    *)

Writing == {u \in Uploads : put[u] = "write"}
Draining == {c \in Callers : drain[c].pc \in {"check", "send", "clean"}}

InHand(c) == U!Ids(drain[c].rest) \cup U!Ids(drain[c].kept)

(* A drain that sends, or that deletes a file, does so for the first entry   *)
(* it has left, and deletes only what it has dropped; it begins with nothing *)
(* kept.                                                                     *)
HeadInHand ==
  \A c \in Callers :
    /\ drain[c].pc \in {"send", "clean"} => drain[c].rest # <<>>
    /\ drain[c].pc = "clean" => Head(drain[c].rest).id \in dropped
    /\ c \notin Draining => drain[c].kept = <<>>

(* Every list in storage or in hand holds uploads that were queued.          *)
QueuedOnly ==
  /\ \A u \in U!Ids(uploads) : put[u] = "queued"
  /\ \A v \in Writing : \A u \in U!Ids(held[v]) : put[u] = "queued"
  /\ \A c \in Draining : \A u \in InHand(c) : put[u] = "queued"

(* A file is there from its copy on, until its upload is dropped.            *)
FilesFollow ==
  \A u \in Uploads :
    /\ put[u] \in {"read", "write"} => u \in files
    /\ put[u] = "queued" /\ u \notin files => u \in dropped
    /\ u \in files => put[u] \in {"read", "write", "queued", "failed", "killed"}

(* A call that crosses nothing has the list as it is stored.                 *)
Undisturbed ==
  \A v \in Writing \ crossed :
    Writing = {v} /\ Draining = {} /\ held[v] = uploads

(* An upload that crossed nothing is, for as long as its file exists, in     *)
(* every list that may be written back.                                      *)
InEveryList ==
  \A u \in Uploads : put[u] = "queued" /\ u \notin crossed /\ u \in files =>
    /\ u \in U!Ids(uploads)
    /\ \A v \in Writing : u \in U!Ids(held[v])
    /\ \A c \in Draining : u \in InHand(c)

UploadInv ==
  /\ HeadInHand /\ QueuedOnly /\ FilesFollow /\ Undisturbed /\ InEveryList
  /\ AnsweredBeforeDrop

-----------------------------------------------------------------------------
(* Lists of entries                                                          *)

(* A list with one more entry has one more upload in it.                     *)
LEMMA UploadsOfAppend ==
  ASSUME NEW s \in Seq(U!Entry), NEW e \in U!Entry
  PROVE  Append(s, e) \in Seq(U!Entry) /\ U!Ids(Append(s, e)) = U!Ids(s) \cup {e.id}
<1>1. /\ Append(s, e) \in Seq(U!Entry)
      /\ DOMAIN Append(s, e) = 1 .. Len(s) + 1 /\ DOMAIN s = 1 .. Len(s) /\ Len(s) \in Nat
      /\ Append(s, e)[Len(s) + 1] = e
      /\ \A i \in 1 .. Len(s) : Append(s, e)[i] = s[i]
  OBVIOUS
<1>2. \A i \in 1 .. Len(s) + 1 : i \in 1 .. Len(s) \/ i = Len(s) + 1
  BY <1>1
<1>3. Len(s) + 1 \in 1 .. Len(s) + 1 /\ \A i \in 1 .. Len(s) : i \in 1 .. Len(s) + 1
  BY <1>1
<1> QED
  BY <1>1, <1>2, <1>3 DEF U!Ids

(* Taking the first entry takes its upload, and no other one.                *)
LEMMA UploadsOfTail ==
  ASSUME NEW s \in Seq(U!Entry), s # <<>>
  PROVE  /\ Head(s) \in U!Entry /\ Head(s).id \in Uploads /\ Tail(s) \in Seq(U!Entry)
         /\ U!Ids(s) = {Head(s).id} \cup U!Ids(Tail(s))
<1>1. /\ Len(s) \in Nat /\ Len(s) > 0 /\ DOMAIN s = 1 .. Len(s)
      /\ Head(s) = s[1] /\ Head(s) \in U!Entry /\ Tail(s) \in Seq(U!Entry)
      /\ DOMAIN Tail(s) = 1 .. Len(s) - 1
      /\ \A i \in 1 .. Len(s) - 1 : Tail(s)[i] = s[i + 1]
  OBVIOUS
<1>2. ASSUME NEW i \in 1 .. Len(s), i # 1 PROVE i - 1 \in 1 .. Len(s) - 1 /\ Tail(s)[i - 1] = s[i]
  <2>1. i - 1 \in 1 .. Len(s) - 1 /\ (i - 1) + 1 = i
    BY <1>1, <1>2
  <2> QED
    BY <1>1, <2>1
<1>3. 1 \in 1 .. Len(s) /\ \A i \in 1 .. Len(s) - 1 : i + 1 \in 1 .. Len(s)
  BY <1>1
<1>4. Head(s).id \in Uploads
  BY <1>1 DEF U!Entry
<1>5. U!Ids(s) \subseteq {Head(s).id} \cup U!Ids(Tail(s))
  <2>1. ASSUME NEW i \in DOMAIN s, i # 1 PROVE s[i].id \in U!Ids(Tail(s))
    BY <1>1, <1>2, <2>1 DEF U!Ids
  <2> QED
    BY <1>1, <2>1 DEF U!Ids
<1>6. {Head(s).id} \cup U!Ids(Tail(s)) \subseteq U!Ids(s)
  BY <1>1, <1>3 DEF U!Ids
<1> QED
  BY <1>1, <1>4, <1>5, <1>6

(* The empty list is a list of entries and names no upload.                  *)
LEMMA UploadsOfEmpty == U!Ids(<<>>) = {} /\ <<>> \in Seq(U!Entry)
BY DEF U!Ids

(* Only uploads are in a list of entries.                                    *)
LEMMA UploadsOfList ==
  ASSUME NEW s \in Seq(U!Entry)
  PROVE  U!Ids(s) \subseteq Uploads
<1>1. \A i \in DOMAIN s : s[i] \in U!Entry
  OBVIOUS
<1> QED
  BY <1>1 DEF U!Ids, U!Entry

(* The updates of a drain.                                                   *)
LEMMA DrainFields ==
  ASSUME NEW d \in U!Drain
  PROVE  d.pc \in U!DrainStates /\ d.rest \in Seq(U!Entry) /\ d.kept \in Seq(U!Entry)
BY DEF U!Drain

(* The records a drain goes through are records of its locals.               *)
LEMMA DrainUpdates ==
  ASSUME NEW d \in U!Drain, NEW p \in U!DrainStates, NEW s \in Seq(U!Entry)
  PROVE  /\ [d EXCEPT !.pc = p] \in U!Drain
         /\ [d EXCEPT !.rest = s] \in U!Drain
         /\ [d EXCEPT !.pc = p, !.rest = s] \in U!Drain
BY DEF U!Drain

(* What an update of its locals writes, and what it leaves alone.            *)
LEMMA UpdatedFields ==
  ASSUME NEW d \in U!Drain, NEW p, NEW s
  PROVE  /\ [d EXCEPT !.pc = p].pc = p
         /\ [d EXCEPT !.pc = p].rest = d.rest
         /\ [d EXCEPT !.pc = p].kept = d.kept
         /\ [d EXCEPT !.rest = s].pc = d.pc
         /\ [d EXCEPT !.rest = s].rest = s
         /\ [d EXCEPT !.rest = s].kept = d.kept
         /\ [d EXCEPT !.pc = p, !.rest = s].pc = p
         /\ [d EXCEPT !.pc = p, !.rest = s].rest = s
         /\ [d EXCEPT !.pc = p, !.rest = s].kept = d.kept
BY DEF U!Drain

(* The records of a drain that is over, or goes on, are records of locals.   *)
LEMMA DrainRecords ==
  /\ U!NoDrain \in U!Drain /\ U!NoDrain.pc = "idle" /\ U!NoDrain.kept = <<>>
  /\ \A p \in U!DrainStates, s \in Seq(U!Entry), k \in Seq(U!Entry) :
       [pc |-> p, rest |-> s, kept |-> k] \in U!Drain
BY UploadsOfEmpty DEF U!Drain, U!NoDrain, U!DrainStates

(* Every list, stored or in hand, is a list of entries.                      *)
LEMMA ListsTyped ==
  ASSUME U!TypeOK
  PROVE  /\ uploads \in Seq(U!Entry) /\ U!Ids(uploads) \subseteq Uploads
         /\ \A v \in Uploads : held[v] \in Seq(U!Entry) /\ U!Ids(held[v]) \subseteq Uploads
         /\ \A c \in Callers :
              /\ drain[c] \in U!Drain
              /\ drain[c].rest \in Seq(U!Entry) /\ drain[c].kept \in Seq(U!Entry)
              /\ InHand(c) \subseteq Uploads
<1>1. /\ uploads \in Seq(U!Entry)
      /\ \A v \in Uploads : held[v] \in Seq(U!Entry)
      /\ \A c \in Callers : drain[c] \in U!Drain
  BY DEF U!TypeOK
<1>2. \A c \in Callers : drain[c].rest \in Seq(U!Entry) /\ drain[c].kept \in Seq(U!Entry)
  BY <1>1, DrainFields
<1> QED
  BY <1>1, <1>2, UploadsOfList DEF InHand

-----------------------------------------------------------------------------
(* Types                                                                     *)

(* One POST writes down the upload it was about.                             *)
LEMMA PostedTypes ==
  ASSUME U!TypeOK, NEW u \in Uploads, NEW outcome, U!Posted(u, outcome)
  PROVE  received' \in SUBSET Uploads /\ refused' \in SUBSET Uploads /\ expired' \in SUBSET Uploads
BY DEF U!TypeOK, U!Posted

(* A step of uploadAttachment keeps every variable typed.                    *)
LEMMA PutTypes ==
  ASSUME U!TypeOK, NEW u \in Uploads, U!Put(u)
  PROVE  U!TypeOK'
<1> USE DEF U!TypeOK
<1>1. CASE U!UploadAttachment(u)
  BY <1>1 DEF U!UploadAttachment, U!PutStates
<1>2. ASSUME NEW outcome \in U!Outcomes, U!DirectAnswer(u, outcome) PROVE U!TypeOK'
  BY <1>2, PostedTypes DEF U!DirectAnswer, U!PutStates
<1>3. CASE U!CopyFile(u)
  BY <1>3 DEF U!CopyFile, U!PutStates
<1>4. CASE U!PutRead(u)
  BY <1>4 DEF U!PutRead, U!PutStates
<1>5. CASE U!PutReadFails(u)
  BY <1>5, ConstantsAssumption, UploadsOfEmpty DEF U!PutReadFails, U!PutStates
<1>6. CASE U!PutWrite(u)
  <2>1. [id |-> u, retries |-> 0] \in U!Entry
    BY ConstantsAssumption DEF U!Entry
  <2>2. uploads' \in Seq(U!Entry) /\ held' \in [Uploads -> Seq(U!Entry)]
    BY <1>6, <2>1, UploadsOfAppend, UploadsOfEmpty DEF U!PutWrite
  <2> QED
    BY <1>6, <2>2 DEF U!PutWrite, U!PutStates
<1>7. CASE U!PutFails(u)
  BY <1>7, ConstantsAssumption, UploadsOfEmpty DEF U!PutFails, U!PutStates
<1> QED
  BY <1>1, <1>2, <1>3, <1>4, <1>5, <1>6, <1>7 DEF U!Put

(* An upload that is tried again has retries left.                           *)
LEMMA RetriedEntry ==
  ASSUME NEW e \in U!Entry, ~U!Exhausted(e)
  PROVE  [e EXCEPT !.retries = @ + 1] \in U!Entry /\ [e EXCEPT !.retries = @ + 1].id = e.id
<1>1. e.retries + 1 \in 0 .. MaxRetries - 1
  BY ConstantsAssumption DEF U!Entry, U!Exhausted
<1> QED
  BY <1>1 DEF U!Entry

(* What a drain makes of its own locals.                                     *)
LEMMA DrainTypes ==
  ASSUME U!TypeOK, HeadInHand, NEW c \in Callers, U!DrainStep(c) \/ U!DrainCleanFails(c) \/ U!DrainFails(c)
  PROVE  U!TypeOK'
<1> USE DEF U!TypeOK
<1> DEFINE d == drain[c]
<1>1. d \in U!Drain /\ d.rest \in Seq(U!Entry) /\ d.kept \in Seq(U!Entry)
  BY ListsTyped
<1>2. d.rest # <<>> => /\ Head(d.rest) \in U!Entry /\ Head(d.rest).id \in Uploads
                       /\ Tail(d.rest) \in Seq(U!Entry)
  BY <1>1, UploadsOfTail
<1>3. \A e \in U!Drain : [drain EXCEPT ![c] = e] \in [Callers -> U!Drain]
  OBVIOUS
<1>4. /\ U!NoDrain \in U!Drain
      /\ \A p \in U!DrainStates : [d EXCEPT !.pc = p] \in U!Drain
  BY <1>1, DrainRecords, DrainUpdates
<1> HIDE DEF d
<1>5. CASE U!DrainStart(c) \/ U!DrainCount(c)
  <2>1. drain' \in [Callers -> U!Drain]
    BY <1>3, <1>4, <1>5
    DEF U!DrainStart, U!DrainCount, U!DrainAt, U!DrainOver, U!DrainStates, d
  <2> QED
    BY <1>5, <2>1 DEF U!DrainStart, U!DrainCount, U!DrainOver
<1>6. CASE U!DrainRead(c)
  <2>1. [d EXCEPT !.pc = "check", !.rest = uploads] \in U!Drain
    BY <1>1, DrainUpdates DEF U!DrainStates
  <2>2. drain' \in [Callers -> U!Drain]
    BY <1>3, <1>4, <1>6, <2>1 DEF U!DrainRead, U!DrainOver, d
  <2> QED
    BY <1>6, <2>2 DEF U!DrainRead, U!DrainOver
<1>7. CASE U!DrainCheck(c)
  <2>1. d.rest # <<>>
    BY <1>7 DEF U!DrainCheck, d
  <2>2. [d EXCEPT !.rest = Tail(d.rest)] \in U!Drain
    BY <1>1, <1>2, <2>1, DrainUpdates, DrainFields
  <2>3. drain' \in [Callers -> U!Drain]
    BY <1>3, <1>4, <1>7, <2>2 DEF U!DrainCheck, U!DrainAt, U!DrainStates, d
  <2> QED
    BY <1>2, <1>7, <2>1, <2>3 DEF U!DrainCheck, d
<1>8. ASSUME NEW outcome \in U!Outcomes, U!DrainSend(c, outcome) PROVE U!TypeOK'
  <2> DEFINE entry == Head(d.rest)
             again == [entry EXCEPT !.retries = @ + 1]
  <2>1. d.pc = "send" /\ d.rest # <<>>
    BY <1>8 DEF U!DrainSend, HeadInHand, d
  <2>2. entry \in U!Entry /\ entry.id \in Uploads /\ Tail(d.rest) \in Seq(U!Entry)
    BY <1>2, <2>1
  <2>3. ~U!Exhausted(entry) => again \in U!Entry
    BY <2>2, RetriedEntry
  <2>4. ~U!Exhausted(entry) => Append(d.kept, again) \in Seq(U!Entry)
    BY <1>1, <2>3
  <2>5. ~U!Exhausted(entry) =>
          [pc |-> "check", rest |-> Tail(d.rest), kept |-> Append(d.kept, again)] \in U!Drain
    BY <2>2, <2>4, DrainRecords DEF U!DrainStates
  <2>6. [d EXCEPT !.pc = "clean"] \in U!Drain
    BY <1>4 DEF U!DrainStates
  <2>7. drain' \in [Callers -> U!Drain]
    BY <1>3, <1>8, <2>5, <2>6 DEF U!DrainSend, d
  <2>8. received' \in SUBSET Uploads /\ refused' \in SUBSET Uploads /\ expired' \in SUBSET Uploads
    BY <1>8, <2>2, PostedTypes DEF U!DrainSend, d
  <2> QED
    BY <1>8, <2>2, <2>7, <2>8 DEF U!DrainSend, d
<1>9. CASE U!DrainClean(c) \/ U!DrainCleanFails(c)
  <2>1. d.rest # <<>>
    BY <1>9 DEF U!DrainClean, U!DrainCleanFails, HeadInHand, d
  <2>2. [d EXCEPT !.pc = "check", !.rest = Tail(d.rest)] \in U!Drain
    BY <1>1, <1>2, <2>1, DrainUpdates DEF U!DrainStates
  <2>3. drain' \in [Callers -> U!Drain]
    BY <1>3, <1>9, <2>2 DEF U!DrainClean, U!DrainCleanFails, d
  <2>4. faults' \in 0 .. MaxFaults
    BY <1>9, ConstantsAssumption DEF U!DrainClean, U!DrainCleanFails
  <2>5. crossed' \in SUBSET Uploads
    BY <1>2, <1>9, <2>1 DEF U!DrainClean, U!DrainCleanFails, d
  <2> QED
    BY <1>9, <2>3, <2>4, <2>5 DEF U!DrainClean, U!DrainCleanFails
<1>10. CASE U!DrainSave(c)
  BY <1>1, <1>3, <1>4, <1>10 DEF U!DrainSave, U!DrainOver, d
<1>11. CASE U!DrainFails(c)
  <2>1. faults' \in 0 .. MaxFaults
    BY <1>11, ConstantsAssumption DEF U!DrainFails
  <2>2. drain' \in [Callers -> U!Drain]
    BY <1>3, <1>4, <1>11 DEF U!DrainFails, U!DrainOver
  <2> QED
    BY <1>11, <2>1, <2>2 DEF U!DrainFails, U!DrainOver
<1> QED
  BY <1>5, <1>6, <1>7, <1>8, <1>9, <1>10, <1>11 DEF U!DrainStep

(* A step of the upload queue keeps every variable typed.                    *)
LEMMA UploadTypes ==
  ASSUME U!TypeOK, HeadInHand, U!Next
  PROVE  U!TypeOK'
<1>1. CASE U!TokenExpires \/ U!TokenRenewed
  BY <1>1 DEF U!TypeOK, U!TokenExpires, U!TokenRenewed
<1> QED
  BY <1>1, PutTypes, DrainTypes DEF U!Next

-----------------------------------------------------------------------------
(* The invariant is kept                                                     *)

(* Steps that touch no list: a call is sent or copies its file, a drain      *)
(* begins or ends empty-handed, the token comes and goes.                    *)
LEMMA QuietUploads ==
  ASSUME U!TypeOK, UploadInv,
         UNCHANGED <<uploads, held, spent, dropped, crossed>>,
         received \subseteq received', refused \subseteq refused', expired \subseteq expired',
         \A c \in Callers : drain'[c] = drain[c] \/ (c \notin Draining' /\ drain'[c].kept = <<>>),
         files \subseteq files',
         \A u \in Uploads :
           \/ put'[u] = put[u] /\ (u \in files' => u \in files)
           \/ /\ put[u] \notin {"queued", "write"} /\ put'[u] \notin {"queued", "write"}
              /\ put'[u] = "read" => u \in files'
              /\ u \in files' => put'[u] \in {"read", "failed", "killed"}
  PROVE  UploadInv'
<1>1. Writing' = Writing /\ Draining' \subseteq Draining
  BY DEF Writing, Draining
<1>2. \A c \in Draining' : drain'[c] = drain[c] /\ InHand(c)' = InHand(c)
  BY DEF Draining, InHand
<1>3. \A u \in Uploads : (put'[u] = "queued") = (put[u] = "queued")
  OBVIOUS
<1>4. HeadInHand'
  BY <1>2 DEF UploadInv, HeadInHand, Draining
<1>5. QueuedOnly'
  BY <1>1, <1>2, <1>3, ListsTyped DEF UploadInv, QueuedOnly, Writing, Draining
<1>6. FilesFollow'
  BY DEF UploadInv, FilesFollow
<1>7. Undisturbed'
  BY <1>1 DEF UploadInv, Undisturbed
<1>8. InEveryList'
  BY <1>1, <1>2, <1>3 DEF UploadInv, InEveryList
<1>9. AnsweredBeforeDrop'
  BY DEF UploadInv, AnsweredBeforeDrop, U!AnsweredBeforeDrop
<1> QED
  BY <1>4, <1>5, <1>6, <1>7, <1>8, <1>9 DEF UploadInv

(* uploadAttachment up to the moment its file is copied.                     *)
LEMMA CopyStep ==
  ASSUME U!TypeOK, UploadInv, NEW u \in Uploads,
         U!UploadAttachment(u) \/ U!CopyFile(u) \/ \E outcome \in U!Outcomes : U!DirectAnswer(u, outcome)
  PROVE  UploadInv'
<1>1. /\ UNCHANGED <<uploads, held, drain, spent, dropped, crossed>>
      /\ received \subseteq received' /\ refused \subseteq refused' /\ expired \subseteq expired'
      /\ files \subseteq files'
      /\ put[u] \in {"idle", "direct", "copy"}
  BY DEF U!UploadAttachment, U!CopyFile, U!DirectAnswer, U!Posted
<1>2. u \notin files
  BY <1>1 DEF UploadInv, FilesFollow
<1>3. \/ files' = files /\ put'[u] \in {"direct", "copy", "sent", "refused"}
      \/ files' = files \cup {u} /\ put'[u] = "read"
  BY DEF U!UploadAttachment, U!CopyFile, U!DirectAnswer, U!TypeOK
<1>4. \A v \in Uploads : v # u => put'[v] = put[v] /\ (v \in files' => v \in files)
  BY <1>3 DEF U!UploadAttachment, U!CopyFile, U!DirectAnswer, U!TypeOK
<1>5. /\ put[u] \notin {"queued", "write"} /\ put'[u] \notin {"queued", "write"}
      /\ put'[u] = "read" => u \in files'
      /\ u \in files' => put'[u] \in {"read", "failed", "killed"}
  BY <1>1, <1>2, <1>3
<1>6. /\ UNCHANGED <<uploads, held, spent, dropped, crossed>>
      /\ \A c \in Callers : drain'[c] = drain[c] \/ (c \notin Draining' /\ drain'[c].kept = <<>>)
  BY <1>1
<1>7. \A v \in Uploads :
        \/ put'[v] = put[v] /\ (v \in files' => v \in files)
        \/ /\ put[v] \notin {"queued", "write"} /\ put'[v] \notin {"queued", "write"}
           /\ put'[v] = "read" => v \in files'
           /\ v \in files' => put'[v] \in {"read", "failed", "killed"}
  BY <1>4, <1>5
<1> QED
  BY <1>1, <1>6, <1>7, QuietUploads

(* queueUpload has read the list: who else is between a read and a write of  *)
(* it is crossed, and so is the reader if there is anyone.                   *)
LEMMA PutReadStep ==
  ASSUME U!TypeOK, UploadInv, NEW u \in Uploads, U!PutRead(u)
  PROVE  UploadInv'
<1>1. /\ UNCHANGED <<uploads, files, drain, received, refused, expired, spent, dropped>>
      /\ put[u] = "read" /\ put'[u] = "write" /\ held'[u] = uploads
      /\ \A v \in Uploads : v # u => put'[v] = put[v] /\ held'[v] = held[v]
      /\ crossed \subseteq crossed' /\ Writing \subseteq crossed'
  BY DEF U!PutRead, U!TypeOK, Writing
<1>2. /\ Writing' = Writing \cup {u} /\ u \notin Writing
      /\ Draining' = Draining /\ \A c \in Draining : InHand(c)' = InHand(c)
  BY <1>1 DEF Writing, Draining, InHand
<1>3. u \notin crossed' => Writing = {} /\ Draining = {}
  BY <1>1, <1>2 DEF U!PutRead, Writing, Draining
<1>4. \A v \in Uploads : (put'[v] = "queued") = (put[v] = "queued")
  BY <1>1
<1>5. HeadInHand' /\ AnsweredBeforeDrop'
  BY <1>1, <1>2 DEF UploadInv, HeadInHand, AnsweredBeforeDrop, U!AnsweredBeforeDrop
<1>6. QueuedOnly'
  <2>1. \A v \in U!Ids(uploads) : put'[v] = "queued"
    BY <1>4, ListsTyped DEF UploadInv, QueuedOnly
  <2>2. \A v \in Writing : held'[v] = held[v] /\ \A w \in U!Ids(held[v]) : put'[w] = "queued"
    BY <1>1, <1>2, <1>4, ListsTyped DEF UploadInv, QueuedOnly, Writing
  <2>3. \A c \in Draining : \A v \in InHand(c) : put'[v] = "queued"
    BY <1>4, ListsTyped DEF UploadInv, QueuedOnly, Draining
  <2> QED
    BY <1>1, <1>2, <2>1, <2>2, <2>3 DEF QueuedOnly
<1>7. FilesFollow'
  BY <1>1 DEF UploadInv, FilesFollow
<1>8. Undisturbed'
  BY <1>1, <1>2, <1>3 DEF Undisturbed
<1>9. InEveryList'
  BY <1>1, <1>2, <1>4 DEF UploadInv, InEveryList, Writing
<1> QED
  BY <1>5, <1>6, <1>7, <1>8, <1>9 DEF UploadInv

(* ... or the storage failed and it goes on with an empty list: everybody    *)
(* who is in the list or about to be is crossed.                             *)
LEMMA PutReadFailsStep ==
  ASSUME U!TypeOK, UploadInv, NEW u \in Uploads, U!PutReadFails(u)
  PROVE  UploadInv'
<1>1. /\ UNCHANGED <<uploads, files, drain, received, refused, expired, spent, dropped>>
      /\ put[u] = "read" /\ put'[u] = "write" /\ held'[u] = <<>>
      /\ \A v \in Uploads : v # u => put'[v] = put[v] /\ held'[v] = held[v]
      /\ \A v \in Uploads : put[v] \in {"read", "write", "queued"} => v \in crossed'
  BY DEF U!PutReadFails, U!TypeOK
<1>2. /\ Writing' = Writing \cup {u} /\ u \notin Writing
      /\ Draining' = Draining /\ \A c \in Draining : InHand(c)' = InHand(c)
  BY <1>1 DEF Writing, Draining, InHand
<1>3. \A v \in Uploads : (put'[v] = "queued") = (put[v] = "queued")
  BY <1>1
<1>4. HeadInHand' /\ AnsweredBeforeDrop'
  BY <1>1, <1>2 DEF UploadInv, HeadInHand, AnsweredBeforeDrop, U!AnsweredBeforeDrop
<1>5. QueuedOnly'
  <2>1. \A v \in U!Ids(uploads) : put'[v] = "queued"
    BY <1>3, ListsTyped DEF UploadInv, QueuedOnly
  <2>2. \A v \in Writing : held'[v] = held[v] /\ \A w \in U!Ids(held[v]) : put'[w] = "queued"
    BY <1>1, <1>2, <1>3, ListsTyped DEF UploadInv, QueuedOnly, Writing
  <2>3. \A c \in Draining : \A v \in InHand(c) : put'[v] = "queued"
    BY <1>3, ListsTyped DEF UploadInv, QueuedOnly, Draining
  <2> QED
    BY <1>1, <1>2, <2>1, <2>2, <2>3, UploadsOfEmpty DEF QueuedOnly
<1>6. FilesFollow'
  BY <1>1 DEF UploadInv, FilesFollow
<1>7. Undisturbed' /\ InEveryList'
  BY <1>1, <1>2, <1>3 DEF Undisturbed, InEveryList, Writing
<1> QED
  BY <1>4, <1>5, <1>6, <1>7 DEF UploadInv

(* queueUpload writes the list back with one more entry.                     *)
LEMMA PutWriteStep ==
  ASSUME U!TypeOK, UploadInv, NEW u \in Uploads, U!PutWrite(u)
  PROVE  UploadInv'
<1>1. /\ UNCHANGED <<files, drain, received, refused, expired, spent, dropped, crossed>>
      /\ put[u] = "write" /\ put'[u] = "queued"
      /\ \A v \in Uploads : v # u => put'[v] = put[v] /\ held'[v] = held[v]
  BY DEF U!PutWrite, U!TypeOK
<1>2. /\ Writing' = Writing \ {u} /\ u \in Writing
      /\ Draining' = Draining /\ \A c \in Draining : InHand(c)' = InHand(c)
  BY <1>1 DEF Writing, Draining, InHand
<1>3. U!Ids(uploads') = U!Ids(held[u]) \cup {u}
  <2>1. [id |-> u, retries |-> 0] \in U!Entry /\ [id |-> u, retries |-> 0].id = u
    BY ConstantsAssumption DEF U!Entry
  <2> QED
    BY <2>1, ListsTyped, UploadsOfAppend DEF U!PutWrite
<1>4. \A v \in Uploads : put[v] = "queued" => put'[v] = "queued"
  BY <1>1
<1>5. HeadInHand' /\ AnsweredBeforeDrop'
  BY <1>1, <1>2 DEF UploadInv, HeadInHand, AnsweredBeforeDrop, U!AnsweredBeforeDrop
<1>6. QueuedOnly'
  <2>1. \A v \in U!Ids(uploads') : put'[v] = "queued"
    BY <1>1, <1>2, <1>3, <1>4, ListsTyped DEF UploadInv, QueuedOnly
  <2>2. \A v \in Writing' : held'[v] = held[v] /\ \A w \in U!Ids(held[v]) : put'[w] = "queued"
    BY <1>1, <1>2, <1>4, ListsTyped DEF UploadInv, QueuedOnly, Writing
  <2>3. \A c \in Draining : \A v \in InHand(c) : put'[v] = "queued"
    BY <1>4, ListsTyped DEF UploadInv, QueuedOnly, Draining
  <2> QED
    BY <1>1, <1>2, <2>1, <2>2, <2>3 DEF QueuedOnly
<1>7. FilesFollow'
  BY <1>1 DEF UploadInv, FilesFollow
<1>8. Undisturbed'
  BY <1>1, <1>2 DEF UploadInv, Undisturbed
<1>9. InEveryList'
  <2>1. u \notin crossed => Writing' = {} /\ Draining' = {}
    BY <1>2 DEF UploadInv, Undisturbed
  <2> QED
    BY <1>1, <1>2, <1>3, <2>1 DEF UploadInv, InEveryList, Writing
<1> QED
  BY <1>5, <1>6, <1>7, <1>8, <1>9 DEF UploadInv

(* A call that fails leaves its file, if it had one, and no entry.           *)
LEMMA PutFailsStep ==
  ASSUME U!TypeOK, UploadInv, NEW u \in Uploads, U!PutFails(u)
  PROVE  UploadInv'
<1>1. /\ UNCHANGED <<uploads, files, drain, received, refused, expired, spent, dropped, crossed>>
      /\ put[u] \in {"copy", "write"} /\ put'[u] = "failed"
      /\ \A v \in Uploads : v # u => put'[v] = put[v] /\ held'[v] = held[v]
  BY DEF U!PutFails, U!TypeOK
<1>2. /\ Writing' = Writing \ {u} /\ u \notin Writing'
      /\ Draining' = Draining /\ \A c \in Draining : InHand(c)' = InHand(c)
      /\ \A v \in Writing' : held'[v] = held[v]
  BY <1>1 DEF Writing, Draining, InHand
<1>3. \A v \in Uploads : (put'[v] = "queued") = (put[v] = "queued")
  BY <1>1
<1>4. HeadInHand' /\ AnsweredBeforeDrop'
  BY <1>1, <1>2 DEF UploadInv, HeadInHand, AnsweredBeforeDrop, U!AnsweredBeforeDrop
<1>5. QueuedOnly'
  <2>1. \A v \in U!Ids(uploads) : put'[v] = "queued"
    BY <1>3, ListsTyped DEF UploadInv, QueuedOnly
  <2>2. \A v \in Writing' : \A w \in U!Ids(held[v]) : put'[w] = "queued"
    BY <1>2, <1>3, ListsTyped DEF UploadInv, QueuedOnly, Writing
  <2>3. \A c \in Draining : \A v \in InHand(c) : put'[v] = "queued"
    BY <1>3, ListsTyped DEF UploadInv, QueuedOnly, Draining
  <2> QED
    BY <1>1, <1>2, <2>1, <2>2, <2>3 DEF QueuedOnly
<1>6. FilesFollow'
  BY <1>1 DEF UploadInv, FilesFollow
<1>7. Undisturbed'
  BY <1>1, <1>2 DEF UploadInv, Undisturbed
<1>8. InEveryList'
  BY <1>1, <1>2, <1>3 DEF UploadInv, InEveryList
<1> QED
  BY <1>4, <1>5, <1>6, <1>7, <1>8 DEF UploadInv

(* A drain has read the list: the calls between a read and a write of it are *)
(* crossed.                                                                  *)
LEMMA DrainReadStep ==
  ASSUME U!TypeOK, UploadInv, NEW c \in Callers, U!DrainRead(c)
  PROVE  UploadInv'
<1>1. CASE uploads = <<>>
  <2>1. /\ UNCHANGED <<uploads, files, put, held, received, refused, expired, spent, dropped, crossed>>
        /\ \A b \in Callers : drain'[b] = drain[b] \/ (b \notin Draining' /\ drain'[b].kept = <<>>)
    BY <1>1, DrainRecords DEF U!DrainRead, U!DrainOver, U!TypeOK, Draining
  <2> QED
    BY <2>1, QuietUploads
<1>2. CASE uploads # <<>>
  <2>1. /\ UNCHANGED <<uploads, files, put, held, received, refused, expired, spent, dropped>>
        /\ crossed' = crossed \cup Writing
        /\ drain' = [drain EXCEPT ![c] = [@ EXCEPT !.pc = "check", !.rest = uploads]]
    BY <1>2 DEF U!DrainRead, U!TypeOK, Writing
  <2>2. /\ \A b \in Callers : b # c => drain'[b] = drain[b]
        /\ drain'[c].pc = "check" /\ drain'[c].rest = uploads /\ drain'[c].kept = drain[c].kept
    BY <2>1, ListsTyped, UpdatedFields DEF U!TypeOK
  <2>3. drain[c].kept = <<>>
    BY DEF UploadInv, HeadInHand, Draining, U!DrainRead
  <2>4. InHand(c)' = U!Ids(uploads)
    BY <2>1, <2>2, <2>3, UploadsOfEmpty DEF InHand
  <2>5. /\ Writing' = Writing /\ Draining' \subseteq Draining \cup {c}
        /\ \A b \in Draining' : b # c => InHand(b)' = InHand(b)
    BY <2>1, <2>2 DEF Writing, Draining, InHand
  <2>6. HeadInHand' /\ FilesFollow' /\ AnsweredBeforeDrop'
    BY <2>1, <2>2 DEF UploadInv, HeadInHand, FilesFollow, AnsweredBeforeDrop, U!AnsweredBeforeDrop, Draining
  <2>7. QueuedOnly'
    BY <2>1, <2>4, <2>5 DEF UploadInv, QueuedOnly
  <2>8. Undisturbed'
    BY <2>1, <2>5 DEF Undisturbed
  <2>9. InEveryList'
    BY <2>1, <2>4, <2>5 DEF UploadInv, InEveryList
  <2> QED
    BY <2>6, <2>7, <2>8, <2>9 DEF UploadInv
<1> QED
  BY <1>1, <1>2

(* Steps of a drain in which the first upload it has left is dropped, kept   *)
(* for the next time, or has its file deleted.                               *)
LEMMA DrainEntryStep ==
  ASSUME U!TypeOK, UploadInv, NEW c \in Callers, c \in Draining,
         drain[c].rest # <<>>, NEW u, u = Head(drain[c].rest).id,
         UNCHANGED <<uploads, put, held>>,
         crossed' = crossed \/ crossed' = crossed \cup {u},
         files' = files \/ (files' = files \ {u} /\ u \in dropped),
         dropped' = dropped \/ dropped' = dropped \cup {u},
         u \in dropped' => u \in dropped \/ u \in received' \cup refused' \cup expired' \cup spent',
         received \subseteq received', refused \subseteq refused', expired \subseteq expired', spent \subseteq spent',
         c \in Draining',
         \A b \in Callers : b # c => drain'[b] = drain[b],
         drain'[c].pc \in {"send", "clean"} => drain'[c].rest = drain[c].rest,
         drain'[c].pc = "clean" => u \in dropped',
         InHand(c)' \subseteq InHand(c),
         InHand(c) \ {u} \subseteq InHand(c)',
         u \in InHand(c)' \/ u \notin files' \/ u \in crossed'
  PROVE  UploadInv'
<1>1. u \in InHand(c) /\ u \in Uploads
  BY ListsTyped, UploadsOfTail DEF InHand
<1>2. put[u] = "queued"
  BY <1>1 DEF UploadInv, QueuedOnly
<1>3. /\ Writing' = Writing /\ Draining' = Draining
      /\ \A b \in Draining : b # c => InHand(b)' = InHand(b)
  BY DEF Writing, Draining, InHand
<1>4. HeadInHand'
  BY <1>3 DEF UploadInv, HeadInHand, Draining
<1>5. QueuedOnly'
  BY <1>3 DEF UploadInv, QueuedOnly
<1>6. FilesFollow'
  BY <1>2 DEF UploadInv, FilesFollow
<1>7. Undisturbed'
  BY <1>3 DEF UploadInv, Undisturbed
<1>8. InEveryList'
  BY <1>3 DEF UploadInv, InEveryList
<1>9. AnsweredBeforeDrop'
  BY DEF UploadInv, AnsweredBeforeDrop, U!AnsweredBeforeDrop
<1> QED
  BY <1>4, <1>5, <1>6, <1>7, <1>8, <1>9 DEF UploadInv

(* getInfoAsync: a file is missing only when its upload was dropped before.  *)
LEMMA DrainCheckStep ==
  ASSUME U!TypeOK, UploadInv, NEW c \in Callers, U!DrainCheck(c)
  PROVE  UploadInv'
<1> DEFINE d == drain[c]
           u == Head(d.rest).id
<1>1. /\ UNCHANGED <<uploads, files, put, held, received, refused, expired, spent, crossed>>
      /\ d.pc = "check" /\ d.rest # <<>> /\ c \in Draining
      /\ d \in U!Drain /\ d.rest \in Seq(U!Entry)
  BY ListsTyped DEF U!DrainCheck, Draining
<1>2. U!Ids(d.rest) = {u} \cup U!Ids(Tail(d.rest)) /\ u \in Uploads
  BY <1>1, UploadsOfTail
<1>3. CASE u \in files
  <2>1. drain' = [drain EXCEPT ![c] = [d EXCEPT !.pc = "send"]] /\ dropped' = dropped
    BY <1>3 DEF U!DrainCheck, U!DrainAt, U!TypeOK
  <2>2. drain'[c] = [d EXCEPT !.pc = "send"] /\ \A b \in Callers : b # c => drain'[b] = drain[b]
    BY <2>1 DEF U!TypeOK
  <2>3. drain'[c].pc = "send" /\ drain'[c].rest = d.rest /\ drain'[c].kept = d.kept
    BY <1>1, <2>2, UpdatedFields
  <2>4. InHand(c)' = InHand(c) /\ c \in Draining'
    BY <2>3 DEF InHand, Draining
  <2>5. u \in InHand(c)
    BY <1>2 DEF InHand
  <2> HIDE DEF u
  <2> QED
    BY <1>1, <2>1, <2>2, <2>3, <2>4, <2>5, DrainEntryStep DEF u
<1>4. CASE u \notin files
  <2>1. drain' = [drain EXCEPT ![c] = [d EXCEPT !.rest = Tail(d.rest)]] /\ dropped' = dropped \cup {u}
    BY <1>4 DEF U!DrainCheck, U!TypeOK
  <2>2. drain'[c] = [d EXCEPT !.rest = Tail(d.rest)] /\ \A b \in Callers : b # c => drain'[b] = drain[b]
    BY <2>1 DEF U!TypeOK
  <2>3. drain'[c].pc = "check" /\ drain'[c].rest = Tail(d.rest) /\ drain'[c].kept = d.kept
    BY <1>1, <2>2, UpdatedFields
  <2>4. /\ InHand(c)' \subseteq InHand(c) /\ InHand(c) \ {u} \subseteq InHand(c)'
        /\ u \in InHand(c) /\ c \in Draining'
    BY <1>2, <2>3 DEF InHand, Draining
  <2>5. u \in dropped
    BY <1>1, <1>2, <1>4, <2>4 DEF UploadInv, QueuedOnly, FilesFollow
  <2> HIDE DEF u
  <2> QED
    BY <1>1, <1>4, <2>1, <2>2, <2>3, <2>4, <2>5, DrainEntryStep DEF u
<1> QED
  BY <1>3, <1>4

(* The answer: the upload is kept with one more retry, or it is dropped with *)
(* an answer about it or with no retry left.                                 *)
LEMMA DrainSendStep ==
  ASSUME U!TypeOK, UploadInv, NEW c \in Callers, NEW outcome \in U!Outcomes, U!DrainSend(c, outcome)
  PROVE  UploadInv'
<1> DEFINE d == drain[c]
           entry == Head(d.rest)
           u == entry.id
           again == [entry EXCEPT !.retries = @ + 1]
           keeps == outcome \in {"error", "silence"} /\ ~U!Exhausted(entry)
<1>1. /\ UNCHANGED <<uploads, files, put, held, crossed>>
      /\ d.pc = "send" /\ d.rest # <<>> /\ c \in Draining
      /\ d \in U!Drain /\ d.rest \in Seq(U!Entry) /\ d.kept \in Seq(U!Entry)
  BY ListsTyped DEF U!DrainSend, Draining, UploadInv, HeadInHand
<1>2. U!Ids(d.rest) = {u} \cup U!Ids(Tail(d.rest)) /\ u \in Uploads /\ entry \in U!Entry
  BY <1>1, UploadsOfTail
<1>3. /\ received \subseteq received' /\ refused \subseteq refused' /\ expired \subseteq expired'
      /\ spent \subseteq spent'
  BY DEF U!DrainSend, U!Posted
<1>4. u \in InHand(c)
  BY <1>2 DEF InHand
<1>5. CASE keeps
  <2>1. /\ drain' = [drain EXCEPT ![c] = [pc |-> "check", rest |-> Tail(d.rest), kept |-> Append(d.kept, again)]]
        /\ dropped' = dropped
    BY <1>5 DEF U!DrainSend
  <2>2. /\ drain'[c].pc = "check" /\ drain'[c].rest = Tail(d.rest) /\ drain'[c].kept = Append(d.kept, again)
        /\ \A b \in Callers : b # c => drain'[b] = drain[b]
    BY <2>1 DEF U!TypeOK
  <2>3. again \in U!Entry /\ again.id = u
    BY <1>2, <1>5, RetriedEntry
  <2>4. U!Ids(Append(d.kept, again)) = U!Ids(d.kept) \cup {u}
    BY <1>1, <2>3, UploadsOfAppend
  <2>5. InHand(c)' = InHand(c) /\ c \in Draining'
    BY <1>2, <2>2, <2>4 DEF InHand, Draining
  <2> HIDE DEF u, again, keeps
  <2> QED
    BY <1>1, <1>3, <1>4, <2>1, <2>2, <2>5, DrainEntryStep DEF u
<1>6. CASE ~keeps
  <2>1. /\ drain' = [drain EXCEPT ![c] = [d EXCEPT !.pc = "clean"]]
        /\ dropped' = dropped \cup {u}
    BY <1>6 DEF U!DrainSend
  <2>2. drain'[c] = [d EXCEPT !.pc = "clean"] /\ \A b \in Callers : b # c => drain'[b] = drain[b]
    BY <2>1 DEF U!TypeOK
  <2>3. drain'[c].pc = "clean" /\ drain'[c].rest = d.rest /\ drain'[c].kept = d.kept
    BY <1>1, <2>2, UpdatedFields
  <2>4. InHand(c)' = InHand(c) /\ c \in Draining'
    BY <2>3 DEF InHand, Draining
  <2>5. u \in received' \cup refused' \cup expired' \cup spent'
    <3>1. outcome \in {"error", "silence"} => u \in spent'
      BY <1>6 DEF U!DrainSend
    <3>2. outcome \notin {"error", "silence"} => u \in received' \cup refused' \cup expired'
      BY DEF U!DrainSend, U!Posted, U!Outcomes
    <3> QED
      BY <3>1, <3>2
  <2> HIDE DEF u, again, keeps
  <2> QED
    BY <1>1, <1>3, <1>4, <2>1, <2>2, <2>3, <2>4, <2>5, DrainEntryStep DEF u
<1> QED
  BY <1>5, <1>6

(* The file of a dropped upload is deleted, or it stays and is crossed.      *)
LEMMA DrainCleanStep ==
  ASSUME U!TypeOK, UploadInv, NEW c \in Callers, U!DrainClean(c) \/ U!DrainCleanFails(c)
  PROVE  UploadInv'
<1> DEFINE d == drain[c]
           u == Head(d.rest).id
<1>1. /\ UNCHANGED <<uploads, put, held, received, refused, expired, spent, dropped>>
      /\ d.pc = "clean" /\ d.rest # <<>> /\ c \in Draining
      /\ u \in dropped
      /\ \/ files' = files \ {u} /\ crossed' = crossed
         \/ files' = files /\ crossed' = crossed \cup {u}
      /\ d \in U!Drain /\ d.rest \in Seq(U!Entry)
  BY ListsTyped DEF U!DrainClean, U!DrainCleanFails, Draining, UploadInv, HeadInHand
<1>2. U!Ids(d.rest) = {u} \cup U!Ids(Tail(d.rest)) /\ u \in Uploads
  BY <1>1, UploadsOfTail
<1>3. drain' = [drain EXCEPT ![c] = [d EXCEPT !.pc = "check", !.rest = Tail(d.rest)]]
  BY DEF U!DrainClean, U!DrainCleanFails, U!TypeOK
<1>4. /\ drain'[c] = [d EXCEPT !.pc = "check", !.rest = Tail(d.rest)]
      /\ \A b \in Callers : b # c => drain'[b] = drain[b]
  BY <1>3 DEF U!TypeOK
<1>5. drain'[c].pc = "check" /\ drain'[c].rest = Tail(d.rest) /\ drain'[c].kept = d.kept
  BY <1>1, <1>4, UpdatedFields
<1>6. /\ InHand(c)' \subseteq InHand(c) /\ InHand(c) \ {u} \subseteq InHand(c)'
      /\ c \in Draining' /\ (u \notin files' \/ u \in crossed')
  BY <1>1, <1>2, <1>5 DEF InHand, Draining
<1> HIDE DEF u
<1> QED
  BY <1>1, <1>4, <1>5, <1>6, DrainEntryStep DEF u

(* The drain writes back what it kept.                                       *)
LEMMA DrainSaveStep ==
  ASSUME U!TypeOK, UploadInv, NEW c \in Callers, U!DrainSave(c)
  PROVE  UploadInv'
<1>1. /\ UNCHANGED <<files, put, held, received, refused, expired, spent, dropped, crossed>>
      /\ c \in Draining /\ uploads' = drain[c].kept
      /\ drain' = [drain EXCEPT ![c] = U!NoDrain]
  BY DEF U!DrainSave, U!DrainOver, Draining
<1>2. U!Ids(uploads') = InHand(c)
  BY <1>1, UploadsOfEmpty DEF U!DrainSave, InHand
<1>3. /\ \A b \in Callers : b # c => drain'[b] = drain[b]
      /\ drain'[c].pc = "idle" /\ drain'[c].kept = <<>>
  BY <1>1, DrainRecords DEF U!TypeOK
<1>4. /\ Writing' = Writing /\ Draining' = Draining \ {c}
      /\ \A b \in Draining' : InHand(b)' = InHand(b)
  BY <1>1, <1>3 DEF Writing, Draining, InHand
<1>5. HeadInHand'
  BY <1>1, <1>3, <1>4 DEF UploadInv, HeadInHand
<1>6. QueuedOnly'
  BY <1>1, <1>2, <1>4 DEF UploadInv, QueuedOnly
<1>7. FilesFollow' /\ AnsweredBeforeDrop'
  BY <1>1 DEF UploadInv, FilesFollow, AnsweredBeforeDrop, U!AnsweredBeforeDrop
<1>8. Undisturbed'
  BY <1>1, <1>4 DEF UploadInv, Undisturbed
<1>9. InEveryList'
  BY <1>1, <1>2, <1>4 DEF UploadInv, InEveryList
<1> QED
  BY <1>5, <1>6, <1>7, <1>8, <1>9 DEF UploadInv

(* A step of the upload queue keeps the entries and files in step.           *)
LEMMA UploadStep ==
  ASSUME U!TypeOK, UploadInv, U!Next
  PROVE  UploadInv'
<1>1. ASSUME NEW u \in Uploads, U!Put(u) PROVE UploadInv'
  BY <1>1, CopyStep, PutReadStep, PutReadFailsStep, PutWriteStep, PutFailsStep DEF U!Put
<1>2. ASSUME NEW c \in Callers, U!DrainStart(c) \/ U!DrainCount(c) \/ U!DrainFails(c)
      PROVE  UploadInv'
  <2>1. UNCHANGED <<uploads, files, put, held, received, refused, expired, spent, dropped, crossed>>
    BY <1>2 DEF U!DrainStart, U!DrainCount, U!DrainFails
  <2>2. ASSUME U!DrainStart(c)
        PROVE  \A b \in Callers : drain'[b] = drain[b] \/ (b \notin Draining' /\ drain'[b].kept = <<>>)
    <3>1. PICK p \in {"idle", "get", "count"} : drain' = [drain EXCEPT ![c] = [drain[c] EXCEPT !.pc = p]]
      BY <2>2 DEF U!DrainStart, U!DrainAt, U!TypeOK
    <3>2. drain'[c].pc = p /\ drain'[c].kept = drain[c].kept
      BY <3>1, ListsTyped, UpdatedFields DEF U!TypeOK
    <3>3. drain[c].kept = <<>>
      BY <2>2 DEF U!DrainStart, UploadInv, HeadInHand, Draining
    <3> QED
      BY <3>1, <3>2, <3>3 DEF Draining, U!TypeOK
  <2>3. ASSUME U!DrainCount(c) \/ U!DrainFails(c)
        PROVE  \A b \in Callers : drain'[b] = drain[b] \/ (b \notin Draining' /\ drain'[b].kept = <<>>)
    BY <2>3, DrainRecords DEF U!DrainCount, U!DrainFails, U!DrainOver, U!TypeOK, Draining
  <2>4. \A b \in Callers : drain'[b] = drain[b] \/ (b \notin Draining' /\ drain'[b].kept = <<>>)
    BY <1>2, <2>2, <2>3
  <2> QED
    BY <2>1, <2>4, QuietUploads
<1>3. CASE U!TokenExpires \/ U!TokenRenewed
  <2>1. UNCHANGED <<uploads, files, put, held, drain, received, refused, expired, spent, dropped, crossed>>
    BY <1>3 DEF U!TokenExpires, U!TokenRenewed
  <2> QED
    BY <2>1, QuietUploads
<1> QED
  BY <1>1, <1>2, <1>3, DrainReadStep, DrainCheckStep, DrainSendStep, DrainCleanStep, DrainSaveStep
  DEF U!Next, U!DrainStep

(* One drain at a time, which alone deletes files: the one it found is there *)
(* when it sends it.                                                         *)
LockInv == OneDrain /\ FoundFileIsPosted

(* The drain that has the lock goes on with it or gives it back.             *)
LEMMA DrainKeepsLock ==
  ASSUME LockInv, NEW c \in Callers, U!Locking(c),
         \A b \in Callers : b # c => drain'[b] = drain[b],
         \/ U!Locking(c)' /\ drainLock' = drainLock
         \/ ~U!Locking(c)' /\ drainLock' = FALSE,
         drain'[c].pc = "send" => Head(drain'[c].rest).id \in files'
  PROVE  LockInv'
<1>1. \A b \in Callers : b # c => ~U!Locking(b) /\ ~U!Locking(b)'
  BY DEF LockInv, OneDrain, U!OneDrain, U!Locking
<1>2. OneDrain'
  BY <1>1 DEF LockInv, OneDrain, U!OneDrain
<1>3. FoundFileIsPosted'
  BY <1>1 DEF FoundFileIsPosted, U!FoundFileIsPosted, U!Locking, U!DrainStates
<1> QED
  BY <1>2, <1>3 DEF LockInv

(* Nobody else touches the lock, begins to send or deletes a file.           *)
LEMMA DrainAside ==
  ASSUME LockInv, drainLock' = drainLock, files \subseteq files',
         \A c \in Callers : drain'[c] = drain[c] \/ (~U!Locking(c) /\ ~U!Locking(c)')
  PROVE  LockInv'
<1>1. \A c \in Callers : (U!Locking(c))' <=> U!Locking(c)
  BY DEF U!Locking
<1>2. OneDrain'
  BY <1>1 DEF LockInv, OneDrain, U!OneDrain
<1>3. FoundFileIsPosted'
  BY DEF LockInv, FoundFileIsPosted, U!FoundFileIsPosted, U!Locking, U!DrainStates
<1> QED
  BY <1>2, <1>3 DEF LockInv

(* A step of the upload queue keeps the lock with the one that drains.       *)
LEMMA LockStep ==
  ASSUME U!TypeOK, LockInv, U!Next
  PROVE  LockInv'
<1>1. CASE U!TokenExpires \/ U!TokenRenewed \/ \E u \in Uploads : U!Put(u)
  <2>1. UNCHANGED <<drain, drainLock>> /\ files \subseteq files'
    BY <1>1 DEF U!TokenExpires, U!TokenRenewed, U!Put, U!UploadAttachment, U!DirectAnswer, U!CopyFile,
       U!PutRead, U!PutReadFails, U!PutWrite, U!PutFails
  <2> QED
    BY <2>1, DrainAside
<1>2. ASSUME NEW c \in Callers, U!DrainStart(c) PROVE LockInv'
  <2>1. PICK p \in {"idle", "get", "count"} :
          /\ drain' = [drain EXCEPT ![c] = [drain[c] EXCEPT !.pc = p]]
          /\ p = "idle" <=> drainLock
          /\ drainLock' = TRUE
    BY <1>2 DEF U!DrainStart, U!DrainAt, U!TypeOK
  <2>2. drain[c].pc = "due" /\ files' = files
    BY <1>2 DEF U!DrainStart
  <2>3. drain'[c].pc = p /\ \A b \in Callers : b # c => drain'[b] = drain[b]
    BY <2>1, ListsTyped, UpdatedFields DEF U!TypeOK
  <2>4. CASE drainLock
    BY <2>1, <2>2, <2>3, <2>4, DrainAside DEF U!Locking
  <2>5. CASE ~drainLock
    <3>1. \A b \in Callers : ~U!Locking(b)
      BY <2>5 DEF LockInv, OneDrain, U!OneDrain
    <3>2. U!Locking(c)' /\ \A b \in Callers : b # c => ~U!Locking(b)'
      BY <2>1, <2>3, <2>5, <3>1 DEF U!Locking, U!DrainStates
    <3>3. OneDrain'
      BY <2>1, <3>2 DEF OneDrain, U!OneDrain
    <3>4. FoundFileIsPosted'
      BY <2>2, <2>3, <3>1 DEF LockInv, FoundFileIsPosted, U!FoundFileIsPosted
    <3> QED
      BY <3>3, <3>4 DEF LockInv
  <2> QED
    BY <2>4, <2>5
<1>3. ASSUME NEW c \in Callers, U!DrainCount(c) \/ U!DrainSave(c) \/ U!DrainFails(c)
      PROVE  LockInv'
  <2>1. /\ drain[c].pc \in {"count", "get", "check"} /\ drain' = [drain EXCEPT ![c] = U!NoDrain]
        /\ drainLock' = FALSE
    BY <1>3 DEF U!DrainCount, U!DrainSave, U!DrainFails, U!DrainOver
  <2>2. drain'[c].pc = "idle" /\ \A b \in Callers : b # c => drain'[b] = drain[b]
    BY <2>1, DrainRecords DEF U!TypeOK
  <2> QED
    BY <2>1, <2>2, DrainKeepsLock DEF U!Locking, U!DrainStates
<1>4. ASSUME NEW c \in Callers, U!DrainRead(c) PROVE LockInv'
  <2>1. CASE uploads = <<>>
    <3>1. drain' = [drain EXCEPT ![c] = U!NoDrain] /\ drainLock' = FALSE /\ drain[c].pc = "get"
      BY <1>4, <2>1 DEF U!DrainRead, U!DrainOver
    <3>2. drain'[c].pc = "idle" /\ \A b \in Callers : b # c => drain'[b] = drain[b]
      BY <3>1, DrainRecords DEF U!TypeOK
    <3> QED
      BY <3>1, <3>2, DrainKeepsLock DEF U!Locking, U!DrainStates
  <2>2. CASE uploads # <<>>
    <3>1. /\ drain' = [drain EXCEPT ![c] = [drain[c] EXCEPT !.pc = "check", !.rest = uploads]]
          /\ drainLock' = drainLock /\ drain[c].pc = "get"
      BY <1>4, <2>2 DEF U!DrainRead, U!TypeOK
    <3>2. drain'[c].pc = "check" /\ \A b \in Callers : b # c => drain'[b] = drain[b]
      BY <3>1, ListsTyped, UpdatedFields DEF U!TypeOK
    <3> QED
      BY <3>1, <3>2, DrainKeepsLock DEF U!Locking, U!DrainStates
  <2> QED
    BY <2>1, <2>2
<1>5. ASSUME NEW c \in Callers, U!DrainCheck(c) PROVE LockInv'
  <2>1. drainLock' = drainLock /\ files' = files /\ drain[c].pc = "check"
    BY <1>5 DEF U!DrainCheck
  <2>2. \/ /\ drain' = [drain EXCEPT ![c] = [drain[c] EXCEPT !.pc = "send"]]
           /\ Head(drain[c].rest).id \in files
        \/ drain' = [drain EXCEPT ![c] = [drain[c] EXCEPT !.rest = Tail(drain[c].rest)]]
    BY <1>5 DEF U!DrainCheck, U!DrainAt, U!TypeOK
  <2>3. /\ \/ drain'[c].pc = "send" /\ drain'[c].rest = drain[c].rest /\ Head(drain[c].rest).id \in files
           \/ drain'[c].pc = "check"
        /\ \A b \in Callers : b # c => drain'[b] = drain[b]
    <3>1. drain[c] \in U!Drain
      BY ListsTyped
    <3>2. CASE /\ drain' = [drain EXCEPT ![c] = [drain[c] EXCEPT !.pc = "send"]]
               /\ Head(drain[c].rest).id \in files
      BY <3>1, <3>2, UpdatedFields DEF U!TypeOK
    <3>3. CASE drain' = [drain EXCEPT ![c] = [drain[c] EXCEPT !.rest = Tail(drain[c].rest)]]
      <4>1. drain'[c] = [drain[c] EXCEPT !.rest = Tail(drain[c].rest)]
        BY <3>3 DEF U!TypeOK
      <4>2. drain'[c].pc = "check"
        BY <2>1, <3>1, <4>1, UpdatedFields
      <4> QED
        BY <3>3, <4>2 DEF U!TypeOK
    <3> QED
      BY <2>2, <3>2, <3>3
  <2> QED
    BY <2>1, <2>3, DrainKeepsLock DEF U!Locking, U!DrainStates
<1>6. ASSUME NEW c \in Callers, NEW outcome \in U!Outcomes, U!DrainSend(c, outcome) PROVE LockInv'
  <2>1. drainLock' = drainLock /\ drain[c].pc = "send"
    BY <1>6 DEF U!DrainSend
  <2>2. drain'[c].pc \in {"check", "clean"} /\ \A b \in Callers : b # c => drain'[b] = drain[b]
    BY <1>6, ListsTyped, UpdatedFields DEF U!DrainSend, U!TypeOK
  <2> QED
    BY <2>1, <2>2, DrainKeepsLock DEF U!Locking, U!DrainStates
<1>7. ASSUME NEW c \in Callers, U!DrainClean(c) \/ U!DrainCleanFails(c) PROVE LockInv'
  <2>1. /\ drainLock' = drainLock /\ drain[c].pc = "clean"
        /\ drain' = [drain EXCEPT ![c] = [drain[c] EXCEPT !.pc = "check", !.rest = Tail(drain[c].rest)]]
    BY <1>7 DEF U!DrainClean, U!DrainCleanFails, U!TypeOK
  <2>2. drain'[c].pc = "check" /\ \A b \in Callers : b # c => drain'[b] = drain[b]
    BY <2>1, ListsTyped, UpdatedFields DEF U!TypeOK
  <2> QED
    BY <2>1, <2>2, DrainKeepsLock DEF U!Locking, U!DrainStates
<1> QED
  BY <1>1, <1>2, <1>3, <1>4, <1>5, <1>6, <1>7 DEF U!Next, U!DrainStep

(* A drain begins only when flushQueue has come back.                        *)
LEMMA IdleStays ==
  ASSUME U!TypeOK, U!Next, NEW c \in Callers, drain[c].pc = "idle"
  PROVE  drain'[c].pc = "idle"
<1>1. ASSUME NEW b \in Callers, U!DrainStep(b) \/ U!DrainCleanFails(b) \/ U!DrainFails(b) PROVE drain'[c] = drain[c]
  <2>1. drain[b].pc # "idle"
    BY <1>1 DEF U!DrainStep, U!DrainFails, U!DrainStart, U!DrainCount, U!DrainRead, U!DrainCheck,
       U!DrainSend, U!DrainClean, U!DrainCleanFails, U!DrainSave
  <2> QED
    BY <1>1, <2>1 DEF U!TypeOK, U!DrainStep, U!DrainFails, U!DrainStart, U!DrainCount, U!DrainRead,
       U!DrainCheck, U!DrainSend, U!DrainClean, U!DrainCleanFails, U!DrainSave, U!DrainAt, U!DrainOver
<1>2. U!TokenExpires \/ U!TokenRenewed \/ (\E u \in Uploads : U!Put(u)) => drain' = drain
  BY DEF U!TokenExpires, U!TokenRenewed, U!Put, U!UploadAttachment, U!DirectAnswer, U!CopyFile,
     U!PutRead, U!PutReadFails, U!PutWrite, U!PutFails
<1> QED
  BY <1>1, <1>2 DEF U!Next

-----------------------------------------------------------------------------
(* Both queues together                                                      *)

(* The upload queue reads the connectivity flag, and never writes it.        *)
LEMMA UploadsKeepOnline == U!Next => UNCHANGED isOnline
<1> SUFFICES ASSUME U!Next PROVE UNCHANGED isOnline
  OBVIOUS
<1> QED
  BY DEF U!Next, U!Put, U!DrainStep, U!UploadAttachment, U!DirectAnswer, U!CopyFile, U!PutRead,
     U!PutReadFails, U!PutWrite, U!PutFails, U!DrainStart, U!DrainCount, U!DrainRead, U!DrainCheck,
     U!DrainSend, U!DrainClean, U!DrainCleanFails, U!DrainSave, U!DrainFails, U!TokenExpires, U!TokenRenewed

(* A step is one of the mutations or one of the uploads.                     *)
LEMMA StepKinds == Next => M!Next \/ (U!Next /\ UNCHANGED <<isOnline, mvars>>)
<1>1. Reports \subseteq M!NetInfoStates
  BY DEF Reports
<1>2. Kill => M!Next
  BY DEF Kill, M!Kill, M!Next
<1>3. ASSUME NEW c \in Callers, Sync(c) \/ FlushEnds(c) \/ (\E outcome \in M!Outcomes : FlushSend(c, outcome))
      PROVE  M!Next
  BY <1>3 DEF Sync, FlushEnds, FlushSend, M!Next, M!FlushStep
<1>4. ASSUME NEW c \in Callers, NEW state \in Reports, NetInfoEvent(c, state) PROVE M!Next
  BY <1>1, <1>4 DEF NetInfoEvent, M!Next
<1>5. ASSUME \/ \E m \in Mutations : M!Issue(m)
             \/ \E c \in Callers : M!FlushRead(c)
             \/ \E state \in Reports : M!StartupFetch(state)
             \/ M!ReadFailed
      PROVE  M!Next
  BY <1>1, <1>5 DEF M!Next, M!FlushStep
<1> QED
  BY UploadsKeepOnline, <1>2, <1>3, <1>4, <1>5, Zenon DEF Next

(* The uploads leave the mutations alone: what the composition does to them  *)
(* is what MutationQueue does.                                               *)
THEOREM SyncImplementsMutationQueue == Spec => M!Init /\ [][M!Next]_<<isOnline, mvars>>
<1>1. Init => M!Init
  BY DEF Init
<1>2. [Next]_vars => [M!Next]_<<isOnline, mvars>>
  BY StepKinds DEF vars
<1> QED
  BY <1>1, <1>2, PTL DEF Spec

MP == INSTANCE MutationQueue_proofs

(* Both instances of MutationQueue are one specification.                    *)
LEMMA SameTypes ==
  /\ MP!TypeOK = M!TypeOK
  /\ MP!TypeOK' = M!TypeOK'
BY DEF M!TypeOK, MP!TypeOK, M!Flush, MP!Flush, M!Entry, MP!Entry, M!OpStates, MP!OpStates, M!Many, MP!Many

(* The two instances of MutationQueue say the same.                          *)
LEMMA SameMutationQueue ==
  /\ M!Init => MP!Init
  /\ M!Next => MP!Next
  /\ MP!KeptUnlessOverlapped = M!KeptUnlessOverlapped
  /\ MP!OnceUnlessBlind = M!OnceUnlessBlind
<1>1. /\ M!Many = MP!Many /\ M!Outcomes = MP!Outcomes /\ M!NoFlush = MP!NoFlush /\ M!Entry = MP!Entry
      /\ M!NetInfoStates = MP!NetInfoStates /\ M!OpStates = MP!OpStates
      /\ \A list : M!Ids(list) = MP!Ids(list)
  BY DEF M!Many, MP!Many, M!Outcomes, MP!Outcomes, M!NoFlush, MP!NoFlush, M!Entry, MP!Entry,
    M!NetInfoStates, MP!NetInfoStates, M!OpStates, MP!OpStates, M!Ids, MP!Ids
<1>2. /\ M!Flush = MP!Flush
      /\ \A list : M!Performed(list) = MP!Performed(list)
      /\ \A m, outcome : M!Reaches(m, outcome) = MP!Reaches(m, outcome)
  BY <1>1 DEF M!Flush, MP!Flush, M!Performed, MP!Performed, M!Reaches, MP!Reaches
<1>3. \A m \in Mutations : M!Issue(m) => MP!Issue(m)
  BY <1>1, <1>2 DEF M!Issue, MP!Issue, M!MutateWithOfflineQueue, MP!MutateWithOfflineQueue,
    M!RecordPosition, MP!RecordPosition, M!RequestAnswer, MP!RequestAnswer, M!EnqueueRead,
    MP!EnqueueRead, M!EnqueueWrite, MP!EnqueueWrite, M!EnqueueFails, MP!EnqueueFails
<1>4. \A c \in Callers : M!FlushStep(c) \/ M!FlushFails(c) => MP!FlushStep(c) \/ MP!FlushFails(c)
  BY <1>1, <1>2 DEF M!FlushStep, MP!FlushStep, M!FlushRead, MP!FlushRead, M!FlushSend, MP!FlushSend,
    M!FlushSave, MP!FlushSave, M!FlushFails, MP!FlushFails, M!Keeps, MP!Keeps, M!AnswersFor,
    MP!AnswersFor
<1>5. /\ \A c \in Callers : M!Sync(c) => MP!Sync(c)
      /\ \A c \in Callers, state \in M!NetInfoStates : M!NetInfoEvent(c, state) => MP!NetInfoEvent(c, state)
  BY <1>1 DEF M!Sync, MP!Sync, M!NetInfoEvent, MP!NetInfoEvent, M!FlushQueue, MP!FlushQueue,
    M!EvaluateNetInfo, MP!EvaluateNetInfo
<1>6. /\ \A state \in M!NetInfoStates : M!StartupFetch(state) => MP!StartupFetch(state)
      /\ M!ReadFailed => MP!ReadFailed
      /\ M!Kill => MP!Kill
  BY <1>1, <1>2 DEF M!StartupFetch, MP!StartupFetch, M!EvaluateNetInfo, MP!EvaluateNetInfo,
    M!ReadFailed, MP!ReadFailed, M!Kill, MP!Kill, M!Killed, MP!Killed
<1>7. M!Next => MP!Next
  BY <1>1, <1>3, <1>4, <1>5, <1>6 DEF M!Next, MP!Next
<1>8. M!Init => MP!Init
  BY <1>1 DEF M!Init, MP!Init
<1>9. /\ MP!KeptUnlessOverlapped = M!KeptUnlessOverlapped
      /\ MP!OnceUnlessBlind = M!OnceUnlessBlind
  BY <1>1 DEF M!KeptUnlessOverlapped, MP!KeptUnlessOverlapped, M!OnceUnlessBlind, MP!OnceUnlessBlind
<1> QED
  BY <1>7, <1>8, <1>9

(* What MutationQueue supposes, and what keeps its invariants.               *)
LEMMA MutationsHold ==
  ASSUME M!TypeOK, MP!QueueInv, MP!OneOrder, M!Next
  PROVE  M!TypeOK' /\ MP!QueueInv' /\ MP!OneOrder'
<1>1. MaxRetries \in Nat \ {0} /\ MaxFaults \in Nat
  BY ConstantsAssumption
<1>2. MP!TypeOK /\ [MP!Next]_(MP!vars)
  BY SameMutationQueue, SameTypes
<1>3. MP!TypeOK' /\ MP!QueueInv' /\ MP!OneOrder'
  BY <1>1, <1>2, MP!TypeStep, MP!QueueStep, MP!OrderStep
<1> QED
  BY <1>3, SameTypes

(* A step of the uploads changes nothing of what they speak of but the       *)
(* faults that are left.                                                     *)
LEMMA MutationsStay ==
  ASSUME M!TypeOK, MP!QueueInv, MP!OneOrder, UNCHANGED <<isOnline, mvars>>, faults' \in 0 .. MaxFaults
  PROVE  M!TypeOK' /\ MP!QueueInv' /\ MP!OneOrder'
<1>0. MaxRetries \in Nat \ {0} /\ MaxFaults \in Nat
  BY ConstantsAssumption
<1>1. M!TypeOK'
  BY DEF M!TypeOK, mvars
<1>2. MP!Sending' = MP!Sending /\ MP!Writing' = MP!Writing
  BY DEF mvars, MP!Sending, MP!Writing
<1>3. MP!QueueInv'
  BY <1>2 DEF mvars, MP!QueueInv, MP!OneFlush, MP!QueuedOnly, MP!EachOnce, MP!Undisturbed,
     MP!InEveryList, MP!PerformedOnce
<1>4. MP!OneOrder'
  <2>1. /\ queue' = queue
        /\ \A n \in MP!Writing' : n \in MP!Writing /\ copy'[n] = copy[n]
        /\ \A c \in MP!Sending' : c \in MP!Sending /\ flush'[c] = flush[c]
    BY <1>2 DEF mvars
  <2>2. MP!Orders' \subseteq MP!Orders
    BY <1>0, <2>1, MP!OrdersHold, MP!OrdersWithin
  <2> QED
    BY <1>0, <2>2, MP!NoNewOrder
<1> QED
  BY <1>1, <1>3, <1>4

(* A caller awaits its flush before it drains.                               *)
FlushFirst == \A c \in Callers : flush[c].pc # "idle" => drain[c].pc = "idle"

SyncInv == TypeOK /\ FlushFirst /\ UploadInv /\ LockInv /\ MP!QueueInv /\ MP!OneOrder

(* At startup both queues are empty and nothing is under way.                *)
LEMMA SyncAtStart == Init => SyncInv
<1> SUFFICES ASSUME Init PROVE SyncInv
  OBVIOUS
<1>1. M!TypeOK /\ MP!QueueInv /\ MP!OneOrder
  BY ConstantsAssumption, SameMutationQueue, SameTypes, MP!TypesAtStart, MP!QueueAtStart, MP!OrderAtStart DEF Init
<1>2. isOnline \in BOOLEAN /\ faults \in 0 .. MaxFaults
  BY <1>1 DEF M!TypeOK
<1>3. U!TypeOK
  BY <1>2, UploadsOfEmpty, DrainRecords DEF Init, U!Init, U!TypeOK, U!PutStates
<1>4. /\ Writing = {} /\ Draining = {}
      /\ \A c \in Callers : drain[c].pc = "idle" /\ drain[c].kept = <<>>
      /\ \A u \in Uploads : put[u] = "idle" /\ u \notin files
  BY DrainRecords DEF Init, U!Init, Writing, Draining
<1>5. UploadInv
  BY <1>4, UploadsOfEmpty DEF Init, U!Init, UploadInv, HeadInHand, QueuedOnly, FilesFollow, Undisturbed,
     InEveryList, AnsweredBeforeDrop, U!AnsweredBeforeDrop
<1>6. LockInv
  BY <1>4 DEF Init, U!Init, LockInv, OneDrain, U!OneDrain, U!Locking, FoundFileIsPosted, U!FoundFileIsPosted
<1> QED
  BY <1>1, <1>3, <1>4, <1>5, <1>6 DEF SyncInv, TypeOK, FlushFirst

(* A step of the mutations moves a drain only to tell it that it is due.     *)
LEMMA UploadsWait ==
  ASSUME SyncInv, M!TypeOK', tokenFresh' \in BOOLEAN,
         UNCHANGED <<uploads, files, put, held, drainLock, received, refused, expired, spent, dropped, crossed>>,
         \/ drain' = drain
         \/ \E c \in Callers : drain[c].pc = "idle" /\ drain' = [drain EXCEPT ![c].pc = "due"]
  PROVE  U!TypeOK' /\ UploadInv' /\ LockInv'
<1>1. U!TypeOK /\ UploadInv /\ LockInv
  BY DEF SyncInv, TypeOK
<1>2. /\ drain' \in [Callers -> U!Drain]
      /\ \A c \in Callers : drain'[c] = drain[c] \/ (c \notin Draining' /\ drain'[c].kept = <<>>)
  <2>1. CASE drain' = drain
    BY <1>1, <2>1 DEF U!TypeOK
  <2>2. ASSUME NEW c \in Callers, drain[c].pc = "idle", drain' = [drain EXCEPT ![c].pc = "due"]
        PROVE  /\ drain' \in [Callers -> U!Drain]
               /\ \A b \in Callers : drain'[b] = drain[b] \/ (b \notin Draining' /\ drain'[b].kept = <<>>)
    <3>1. drain[c] \in U!Drain /\ drain[c].kept = <<>>
      BY <1>1, <2>2, ListsTyped DEF UploadInv, HeadInHand, Draining
    <3>2. /\ \A b \in Callers : b # c => drain'[b] = drain[b]
          /\ drain'[c] = [drain[c] EXCEPT !.pc = "due"]
      BY <1>1, <2>2 DEF U!TypeOK
    <3>3. drain'[c] \in U!Drain /\ drain'[c].pc = "due" /\ drain'[c].kept = <<>>
      <4>1. [drain[c] EXCEPT !.pc = "due"] \in U!Drain
        BY <3>1, UploadsOfEmpty, DrainUpdates DEF U!DrainStates
      <4> QED
        BY <3>1, <3>2, <4>1, UpdatedFields
    <3>4. drain' \in [Callers -> U!Drain]
      BY <1>1, <2>2, <3>2, <3>3 DEF U!TypeOK
    <3> QED
      BY <3>2, <3>3, <3>4 DEF Draining
  <2> QED
    BY <2>1, <2>2
<1>3. U!TypeOK'
  BY <1>1, <1>2 DEF U!TypeOK, M!TypeOK
<1>4. UploadInv'
  BY <1>1, <1>2, QuietUploads
<1>5. \A c \in Callers : drain'[c] = drain[c] \/ (~U!Locking(c) /\ ~U!Locking(c)')
  <2>1. CASE drain' = drain
    BY <2>1
  <2>2. ASSUME NEW c \in Callers, drain[c].pc = "idle", drain' = [drain EXCEPT ![c] = [drain[c] EXCEPT !.pc = "due"]]
        PROVE  \A b \in Callers : drain'[b] = drain[b] \/ (~U!Locking(b) /\ ~U!Locking(b)')
    <3>1. drain'[c].pc = "due" /\ \A b \in Callers : b # c => drain'[b] = drain[b]
      BY <1>1, <2>2, ListsTyped, UpdatedFields DEF U!TypeOK
    <3> QED
      BY <2>2, <3>1 DEF U!Locking
  <2> QED
    BY <1>1, <2>1, <2>2 DEF U!TypeOK
<1>6. LockInv'
  BY <1>1, <1>5, DrainAside
<1> QED
  BY <1>3, <1>4, <1>6

(* A kill forgets what was in hand; files and lists stay.                    *)
LEMMA UploadsKilled ==
  ASSUME SyncInv, M!TypeOK', U!Killed
  PROVE  U!TypeOK' /\ UploadInv' /\ LockInv'
<1>1. /\ UNCHANGED <<tokenFresh, uploads, files, received, refused, expired, spent, dropped, crossed>>
      /\ drainLock' = FALSE
      /\ \A u \in Uploads : /\ put'[u] = put[u] \/ (put[u] # "queued" /\ put'[u] = "killed")
                            /\ put'[u] \notin {"read", "write"}
                            /\ held'[u] = <<>>
      /\ \A c \in Callers : drain'[c] = U!NoDrain
  BY DEF U!Killed
<1>2. U!TypeOK /\ UploadInv
  BY DEF SyncInv, TypeOK
<1>3. U!TypeOK'
  <2>1. put' \in [Uploads -> U!PutStates] /\ held' \in [Uploads -> Seq(U!Entry)]
    BY <1>2, UploadsOfEmpty DEF U!Killed, U!TypeOK, U!PutStates
  <2>2. drain' \in [Callers -> U!Drain]
    BY DrainRecords DEF U!Killed
  <2> QED
    BY <1>1, <1>2, <2>1, <2>2 DEF U!TypeOK, M!TypeOK
<1>4. Writing' = {} /\ Draining' = {} /\ \A c \in Callers : drain'[c].kept = <<>> /\ drain'[c].pc = "idle"
  BY <1>1, DrainRecords DEF Writing, Draining
<1>5. HeadInHand' /\ Undisturbed' /\ AnsweredBeforeDrop'
  BY <1>1, <1>2, <1>4 DEF UploadInv, HeadInHand, Undisturbed, AnsweredBeforeDrop, U!AnsweredBeforeDrop
<1>6. \A u \in Uploads : (put'[u] = "queued") = (put[u] = "queued")
  BY <1>1
<1>7. QueuedOnly' /\ InEveryList'
  BY <1>1, <1>2, <1>4, <1>6, ListsTyped DEF UploadInv, QueuedOnly, InEveryList
<1>8. FilesFollow'
  BY <1>1, <1>2 DEF UploadInv, FilesFollow
<1>9. LockInv'
  BY <1>1, <1>4 DEF LockInv, OneDrain, U!OneDrain, U!Locking, FoundFileIsPosted, U!FoundFileIsPosted
<1> QED
  BY <1>3, <1>5, <1>7, <1>8, <1>9 DEF UploadInv

(* Only a free caller begins a flush, and only one whose flush is over is    *)
(* told to drain.                                                            *)
LEMMA OneThenTheOther ==
  ASSUME SyncInv, NEW c \in Callers,
         \A d \in Callers \ {c} : flush'[d] = flush[d] /\ drain'[d] = drain[d],
         flush'[c].pc # "idle" => drain'[c].pc = "idle"
  PROVE  FlushFirst'
BY DEF SyncInv, FlushFirst

(* Every step of the two queues together keeps what each one needs.          *)
LEMMA SyncStep ==
  ASSUME SyncInv, Next
  PROVE  SyncInv'
<1>1. M!TypeOK /\ U!TypeOK /\ UploadInv /\ LockInv /\ FlushFirst /\ MP!QueueInv /\ MP!OneOrder
  BY DEF SyncInv, TypeOK
<1>2. flush \in [Callers -> M!Flush] /\ drain \in [Callers -> U!Drain] /\ tokenFresh \in BOOLEAN
  BY <1>1 DEF M!TypeOK, U!TypeOK
<1>3. ASSUME M!Next PROVE M!TypeOK' /\ MP!QueueInv' /\ MP!OneOrder'
  BY <1>1, <1>3, MutationsHold
<1>4. ASSUME UNCHANGED uvars, M!Next, FlushFirst' PROVE SyncInv'
  <2>1. U!TypeOK' /\ UploadInv' /\ LockInv'
    BY <1>2, <1>3, <1>4, UploadsWait DEF uvars
  <2> QED
    BY <1>3, <1>4, <2>1 DEF SyncInv, TypeOK
<1>5. ASSUME NEW c \in Callers, Free(c), UploadsUnchangedBut(c), M!Next,
             \A d \in Callers \ {c} : flush'[d] = flush[d]
      PROVE  SyncInv'
  <2>1. \/ drain' = drain /\ flush'[c].pc # "idle"
        \/ flush'[c].pc = "idle" /\ drain' = [drain EXCEPT ![c].pc = "due"]
    BY <1>5 DEF UploadsUnchangedBut, ThenUploads
  <2>2. U!TypeOK' /\ UploadInv' /\ LockInv'
    BY <1>2, <1>3, <1>5, <2>1, UploadsWait DEF UploadsUnchangedBut, Free
  <2>3. FlushFirst'
    BY <1>2, <1>5, <2>1, OneThenTheOther DEF Free
  <2> QED
    BY <1>3, <1>5, <2>2, <2>3 DEF SyncInv, TypeOK
<1>6. ASSUME NEW m \in Mutations, M!Issue(m), UNCHANGED uvars PROVE SyncInv'
  <2>1. flush' = flush
    BY <1>6 DEF M!Issue, M!MutateWithOfflineQueue, M!RecordPosition, M!RequestAnswer, M!EnqueueRead,
       M!EnqueueWrite, M!EnqueueFails
  <2>2. FlushFirst'
    BY <1>1, <1>6, <2>1 DEF FlushFirst, uvars
  <2> QED
    BY <1>4, <1>6, <2>2 DEF M!Next
<1>7. ASSUME NEW c \in Callers, M!FlushRead(c), UNCHANGED uvars PROVE SyncInv'
  <2>1. \A d \in Callers : flush'[d].pc # "idle" => flush[d].pc # "idle"
    BY <1>2, <1>7 DEF M!FlushRead
  <2>2. FlushFirst'
    BY <1>1, <1>7, <2>1 DEF FlushFirst, uvars
  <2> QED
    BY <1>4, <1>7, <2>2 DEF M!Next, M!FlushStep
<1>8. ASSUME M!ReadFailed \/ \E state \in Reports : M!StartupFetch(state), UNCHANGED uvars PROVE SyncInv'
  <2>1. flush' = flush
    BY <1>8 DEF M!ReadFailed, M!StartupFetch
  <2>2. FlushFirst'
    BY <1>1, <1>8, <2>1 DEF FlushFirst, uvars
  <2> QED
    BY <1>4, <1>8, <2>2 DEF M!Next, Reports
<1>9. ASSUME U!Next, UNCHANGED mvars PROVE SyncInv'
  <2>1. U!TypeOK' /\ UploadInv' /\ LockInv'
    BY <1>1, <1>9, UploadTypes, UploadStep, LockStep DEF UploadInv
  <2>2. UNCHANGED isOnline
    BY <1>9, UploadsKeepOnline
  <2>3. faults' \in 0 .. MaxFaults
    BY <2>1 DEF U!TypeOK
  <2>4. M!TypeOK' /\ MP!QueueInv' /\ MP!OneOrder'
    BY <1>1, <1>9, <2>2, <2>3, MutationsStay
  <2>5. \A c \in Callers : drain[c].pc = "idle" => drain'[c].pc = "idle"
    BY <1>9, IdleStays, <1>1
  <2>6. FlushFirst'
    BY <1>1, <1>9, <2>5 DEF FlushFirst, mvars
  <2> QED
    BY <2>1, <2>4, <2>6 DEF SyncInv, TypeOK
<1>10. ASSUME NEW c \in Callers, Sync(c) PROVE SyncInv'
  <2>1. \A d \in Callers \ {c} : flush'[d] = flush[d]
    BY <1>2, <1>10 DEF Sync, M!Sync, M!FlushQueue
  <2> QED
    BY <1>5, <1>10, <2>1 DEF Sync, M!Next
<1>11. ASSUME NEW c \in Callers, NEW state \in Reports, NetInfoEvent(c, state) PROVE SyncInv'
  <2>1. M!Next /\ \A d \in Callers \ {c} : flush'[d] = flush[d]
    BY <1>2, <1>11 DEF NetInfoEvent, M!NetInfoEvent, M!FlushQueue, M!Next, Reports
  <2>2. CASE UploadsUnchangedBut(c)
    BY <1>5, <1>11, <2>1, <2>2 DEF NetInfoEvent
  <2>3. CASE UNCHANGED uvars /\ flush' = flush
    <3>1. FlushFirst'
      BY <1>1, <2>3 DEF FlushFirst, uvars
    <3> QED
      BY <1>4, <2>1, <2>3, <3>1
  <2> QED
    BY <1>11, <2>2, <2>3 DEF NetInfoEvent, M!NetInfoEvent
<1>12. ASSUME NEW c \in Callers, NEW outcome \in M!Outcomes, FlushSend(c, outcome) PROVE SyncInv'
  <2>1. M!Next
    BY <1>12 DEF FlushSend, M!Next, M!FlushStep
  <2>2. U!TypeOK' /\ UploadInv' /\ LockInv'
    BY <1>2, <1>3, <1>12, <2>1, UploadsWait DEF FlushSend
  <2>3. \A d \in Callers : flush'[d].pc # "idle" => flush[d].pc # "idle"
    BY <1>2, <1>12 DEF FlushSend, M!FlushSend
  <2>4. FlushFirst'
    BY <1>1, <1>12, <2>3 DEF FlushFirst, FlushSend
  <2> QED
    BY <1>3, <2>1, <2>2, <2>4 DEF SyncInv, TypeOK
<1>13. ASSUME NEW c \in Callers, FlushEnds(c) PROVE SyncInv'
  <2>1. /\ M!Next /\ flush[c].pc # "idle" /\ flush'[c].pc = "idle"
        /\ \A d \in Callers \ {c} : flush'[d] = flush[d]
    BY <1>2, <1>13 DEF FlushEnds, M!FlushSave, M!FlushFails, M!NoFlush, M!Next, M!FlushStep
  <2>2. drain[c].pc = "idle"
    BY <1>1, <2>1 DEF FlushFirst
  <2>3. U!TypeOK' /\ UploadInv' /\ LockInv'
    BY <2>2, <1>2, <1>3, <1>13, <2>1, UploadsWait DEF FlushEnds, UploadsUnchangedBut, ThenUploads, FlushFirst
  <2>4. FlushFirst'
    BY <1>2, <1>13, <2>1, OneThenTheOther DEF FlushEnds, UploadsUnchangedBut, ThenUploads
  <2> QED
    BY <1>3, <2>1, <2>3, <2>4 DEF SyncInv, TypeOK
<1>14. CASE Kill
  <2>1. M!Next /\ U!Killed
    BY <1>14 DEF Kill, M!Kill, M!Next
  <2>2. U!TypeOK' /\ UploadInv' /\ LockInv'
    BY <1>3, <2>1, UploadsKilled
  <2>3. FlushFirst'
    BY <1>14, DrainRecords DEF Kill, U!Killed, FlushFirst
  <2> QED
    BY <1>3, <2>1, <2>2, <2>3 DEF SyncInv, TypeOK
<1> QED
  BY <1>6, <1>7, <1>8, <1>9, <1>10, <1>11, <1>12, <1>13, <1>14, Zenon DEF Next

(* The inductive invariant of the two queues together, from which all the    *)
(* promises below follow, holds from the start of the application on.        *)
THEOREM SyncInvariant == Spec => []SyncInv
<1>1. SyncInv /\ UNCHANGED vars => SyncInv'
  <2> SUFFICES ASSUME SyncInv, UNCHANGED vars PROVE SyncInv'
    OBVIOUS
  <2>1. UNCHANGED <<isOnline, mvars>> /\ UNCHANGED uvars /\ faults' = faults
    BY DEF vars
  <2>2. U!TypeOK /\ UploadInv /\ FlushFirst /\ M!TypeOK /\ MP!QueueInv /\ MP!OneOrder
    BY DEF SyncInv, TypeOK
  <2>3. faults' \in 0 .. MaxFaults /\ tokenFresh' \in BOOLEAN
    BY <2>1, <2>2 DEF M!TypeOK, U!TypeOK, uvars
  <2>4. M!TypeOK' /\ MP!QueueInv' /\ MP!OneOrder'
    BY <2>1, <2>2, <2>3, MutationsStay
  <2>5. U!TypeOK' /\ UploadInv' /\ LockInv'
    BY <2>1, <2>3, <2>4, UploadsWait DEF uvars
  <2>6. FlushFirst'
    BY <2>1, <2>2 DEF FlushFirst, uvars, mvars
  <2> QED
    BY <2>4, <2>5, <2>6 DEF SyncInv, TypeOK
<1> QED
  BY <1>1, SyncAtStart, SyncStep, PTL DEF Spec

-----------------------------------------------------------------------------
(* What follows                                                              *)

(* Both lists hold entries with retries left, and calls, flushes and drains  *)
(* stand at one of their places.                                             *)
THEOREM SyncTypeCorrect == Spec => []TypeOK
<1>1. SyncInv => TypeOK
  BY DEF SyncInv
<1> QED
  BY <1>1, SyncInvariant, PTL

(* "The caller can safely discard sourceUri after this": the photo of an     *)
(* upload that crossed nothing has its entry and its file until a drain      *)
(* drops it, whatever other calls, drains, kills and storage failures do.    *)
THEOREM PhotosAreKept == Spec => []PhotoKept
<1>1. SyncInv => PhotoKept
  <2> SUFFICES ASSUME SyncInv, NEW u \in Uploads, put[u] = "queued", u \notin crossed, u \notin dropped
               PROVE  u \in U!Ids(uploads) /\ u \in files
    BY DEF PhotoKept, U!PhotoKept
  <2>1. u \in files
    BY DEF SyncInv, UploadInv, FilesFollow
  <2> QED
    BY <2>1 DEF SyncInv, UploadInv, InEveryList
<1> QED
  BY <1>1, SyncInvariant, PTL

(* A file whose entry no list has belongs to a call that failed, was killed  *)
(* or is under way, or to an upload that crossed another use of the list.    *)
THEOREM NoFileIsOrphaned == Spec => []NoOrphanFile
<1>1. SyncInv => NoOrphanFile
  <2> SUFFICES ASSUME SyncInv, NEW u \in files, u \notin crossed,
                      put[u] \notin {"read", "write", "failed", "killed"}
               PROVE  u \in U!Ids(uploads)
    BY DEF NoOrphanFile, U!NoOrphanFile
  <2>1. u \in Uploads
    BY DEF SyncInv, TypeOK, U!TypeOK
  <2>2. put[u] = "queued"
    BY <2>1 DEF SyncInv, UploadInv, FilesFollow
  <2> QED
    BY <2>1, <2>2 DEF SyncInv, UploadInv, InEveryList
<1> QED
  BY <1>1, SyncInvariant, PTL

(* A drain takes an upload off the list after an answer about this upload or *)
(* with its last retry, also when it finds the file gone.                    *)
THEOREM DropsAreAnswered == Spec => []AnsweredBeforeDrop
<1>1. SyncInv => AnsweredBeforeDrop
  BY DEF SyncInv, UploadInv
<1> QED
  BY <1>1, SyncInvariant, PTL

(* The lock of the drain is held exactly while some caller drains, and no    *)
(* two callers do, also after a return while offline, a failure or a kill.   *)
THEOREM DrainsExclude == Spec => []OneDrain
<1>1. SyncInv => OneDrain
  BY DEF SyncInv, LockInv
<1> QED
  BY <1>1, SyncInvariant, PTL

(* The file a drain found is there when it is posted, although the answer of *)
(* getInfoAsync is an await earlier.                                         *)
THEOREM FoundFilesArePosted == Spec => []FoundFileIsPosted
<1>1. SyncInv => FoundFileIsPosted
  BY DEF SyncInv, LockInv
<1> QED
  BY <1>1, SyncInvariant, PTL

(* What MutationQueue promises its callers holds beside the uploads, which   *)
(* take their share of the kills and of the storage failures.                *)
THEOREM MutationsKeptInSync == Spec => [](M!KeptUnlessOverlapped /\ M!OnceUnlessBlind)
<1>1. SyncInv => M!KeptUnlessOverlapped /\ M!OnceUnlessBlind
  BY ConstantsAssumption, SameMutationQueue, SameTypes, MP!Promises DEF SyncInv, TypeOK
<1> QED
  BY <1>1, SyncInvariant, PTL

(* So does the order in which entries are sent.                              *)
THEOREM SentInOrderInSync == Spec => M!SentInOrder
<1> DEFINE Tried ==
      \A i, j \in DOMAIN queue :
        /\ i < j
        /\ queue[j].id \in settled' \ settled
        /\ queue[i].id \notin overlapped
        => \/ queue[i].id \in settled
           \/ \E c \in Callers : queue[i].id \in M!Ids(flush[c].kept)
<1>1. SyncInv /\ [Next]_vars => [Tried]_(M!vars)
  <2> SUFFICES ASSUME SyncInv, [Next]_vars, UNCHANGED M!vars => FALSE PROVE Tried
    OBVIOUS
  <2>1. CASE M!Next
    <3>1. MP!TypeOK /\ MP!QueueInv /\ MP!OneOrder /\ MP!Next
      BY <2>1, SameTypes, SameMutationQueue DEF SyncInv, TypeOK
    <3>2. \A list : M!Ids(list) = MP!Ids(list)
      BY DEF M!Ids, MP!Ids
    <3> QED
      BY <3>1, <3>2, ConstantsAssumption, MP!SentStep
  <2>2. CASE settled' = settled
    BY <2>2
  <2> QED
    BY <2>1, <2>2, StepKinds DEF vars, mvars
<1> QED
  BY <1>1, SyncInvariant, PTL DEF Spec, M!SentInOrder
=============================================================================
