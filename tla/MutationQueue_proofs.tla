------------------------ MODULE MutationQueue_proofs ------------------------
(* For any number of mutations, of callers, of retries and of faults: what   *)
(* overlaps nothing is never lost, and the phone sends an entry again only   *)
(* when it could not know that the server had performed it.                  *)
EXTENDS MutationQueue, TLAPS

Sending == {c \in Callers : flush[c].pc = "send"}
Writing == {m \in Mutations : op[m] = "write"}

Distinct(list) == \A i, j \in DOMAIN list : list[i].id = list[j].id => i = j

-----------------------------------------------------------------------------
(* Lists of entries                                                          *)

(* A list with one more entry has one more mutation in it.                   *)
LEMMA IdsOfAppend ==
  ASSUME NEW s \in Seq(Entry), NEW e \in Entry
  PROVE  /\ Append(s, e) \in Seq(Entry)
         /\ Ids(Append(s, e)) = Ids(s) \cup {e.id}
         /\ Distinct(s) /\ e.id \notin Ids(s) => Distinct(Append(s, e))
<1>1. /\ Append(s, e) \in Seq(Entry)
      /\ DOMAIN Append(s, e) = 1 .. Len(s) + 1 /\ DOMAIN s = 1 .. Len(s) /\ Len(s) \in Nat
      /\ Append(s, e)[Len(s) + 1] = e
      /\ \A i \in 1 .. Len(s) : Append(s, e)[i] = s[i]
  OBVIOUS
<1>2. \A i \in 1 .. Len(s) + 1 : i \in 1 .. Len(s) \/ i = Len(s) + 1
  BY <1>1
<1>3. Ids(Append(s, e)) \subseteq Ids(s) \cup {e.id}
  BY <1>1, <1>2 DEF Ids
<1>4. Ids(s) \cup {e.id} \subseteq Ids(Append(s, e))
  <2>1. Len(s) + 1 \in DOMAIN Append(s, e) /\ \A i \in DOMAIN s : i \in DOMAIN Append(s, e)
    BY <1>1
  <2> QED
    BY <1>1, <2>1 DEF Ids
<1>5. ASSUME Distinct(s), e.id \notin Ids(s) PROVE Distinct(Append(s, e))
  <2>1. \A i \in 1 .. Len(s) : s[i].id # e.id
    BY <1>1, <1>5 DEF Ids
  <2> QED
    BY <1>1, <1>2, <1>5, <2>1 DEF Distinct
<1> QED
  BY <1>1, <1>3, <1>4, <1>5

(* Taking the first entry takes its mutation, and no other one.              *)
LEMMA IdsOfTail ==
  ASSUME NEW s \in Seq(Entry), s # <<>>
  PROVE  /\ Head(s) \in Entry /\ Tail(s) \in Seq(Entry)
         /\ Ids(s) = {Head(s).id} \cup Ids(Tail(s))
         /\ Distinct(s) => Distinct(Tail(s)) /\ Head(s).id \notin Ids(Tail(s))
<1>1. /\ Len(s) \in Nat /\ Len(s) > 0 /\ DOMAIN s = 1 .. Len(s)
      /\ Head(s) = s[1] /\ Head(s) \in Entry /\ Tail(s) \in Seq(Entry)
      /\ DOMAIN Tail(s) = 1 .. Len(s) - 1
      /\ \A i \in 1 .. Len(s) - 1 : Tail(s)[i] = s[i + 1]
  OBVIOUS
<1>2. ASSUME NEW i \in 1 .. Len(s), i # 1 PROVE i - 1 \in 1 .. Len(s) - 1 /\ Tail(s)[i - 1] = s[i]
  <2>1. i - 1 \in 1 .. Len(s) - 1 /\ (i - 1) + 1 = i
    BY <1>1, <1>2
  <2> QED
    BY <1>1, <2>1
<1>3. \A i \in 1 .. Len(s) - 1 : i + 1 \in 1 .. Len(s) /\ i + 1 # 1
  BY <1>1
<1>4. Ids(s) \subseteq {Head(s).id} \cup Ids(Tail(s))
  <2>1. ASSUME NEW i \in DOMAIN s, i # 1 PROVE s[i].id \in Ids(Tail(s))
    BY <1>1, <1>2, <2>1 DEF Ids
  <2> QED
    BY <1>1, <2>1 DEF Ids
<1>5. {Head(s).id} \cup Ids(Tail(s)) \subseteq Ids(s)
  <2>1. 1 \in DOMAIN s
    BY <1>1
  <2> QED
    BY <1>1, <1>3, <2>1 DEF Ids
<1>6. ASSUME Distinct(s) PROVE Distinct(Tail(s)) /\ Head(s).id \notin Ids(Tail(s))
  <2>1. ASSUME NEW i \in 1 .. Len(s) - 1, NEW j \in 1 .. Len(s) - 1, Tail(s)[i].id = Tail(s)[j].id
        PROVE  i = j
    <3>1. i + 1 = j + 1
      BY <1>1, <1>3, <1>6, <2>1 DEF Distinct
    <3> QED
      BY <3>1
  <2>2. ASSUME NEW i \in 1 .. Len(s) - 1 PROVE Tail(s)[i].id # Head(s).id
    <3>1. 1 \in DOMAIN s /\ i + 1 \in DOMAIN s /\ i + 1 # 1
      BY <1>1, <1>3
    <3> QED
      BY <1>1, <1>6, <3>1 DEF Distinct
  <2> QED
    BY <1>1, <2>1, <2>2 DEF Distinct, Ids
<1> QED
  BY <1>1, <1>4, <1>5, <1>6

(* The empty list is a list of entries and names no mutation.                *)
LEMMA IdsOfEmpty == Ids(<<>>) = {} /\ Distinct(<<>>) /\ <<>> \in Seq(Entry)
BY DEF Ids, Distinct

-----------------------------------------------------------------------------
(* The inductive invariant.  One flush has the lock ...                      *)
OneFlush ==
  \A c, d \in Callers :
    /\ flush[c].pc # "idle" => flushLock
    /\ flush[c].pc # "idle" /\ flush[d].pc # "idle" => c = d
    /\ flush[c].pc = "get" => flush[c].kept = <<>>

(* ... every list in storage or in hand holds mutations that were queued ... *)
QueuedOnly ==
  /\ \A m \in Ids(queue) : op[m] = "queued"
  /\ \A n \in Writing : \A m \in Ids(copy[n]) : op[m] = "queued"
  /\ \A c \in Sending : \A m \in Ids(flush[c].rest) \cup Ids(flush[c].kept) : op[m] = "queued"

(* ... each of them once ...                                                 *)
EachOnce ==
  /\ Distinct(queue)
  /\ \A n \in Writing : Distinct(copy[n])
  /\ \A c \in Sending :
       /\ Distinct(flush[c].rest) /\ Distinct(flush[c].kept)
       /\ Ids(flush[c].rest) \cap Ids(flush[c].kept) = {}

(* ... an enqueue that overlaps nothing has the list as it is stored ...     *)
Undisturbed ==
  \A n \in Writing \ overlapped : Writing = {n} /\ Sending = {} /\ copy[n] = queue

(* ... a mutation that overlapped nothing is in every list that may be       *)
(* written back ...                                                          *)
InEveryList ==
  \A m \in Mutations : op[m] = "queued" /\ m \notin overlapped /\ m \notin settled =>
    /\ m \in Ids(queue)
    /\ \A n \in Writing : m \in Ids(copy[n])
    /\ \A c \in Sending : m \in Ids(flush[c].rest) \cup Ids(flush[c].kept)

(* ... and one that the server performed, with the phone knowing, is in none *)
(* but the stored list of a flush that is about to replace it.               *)
PerformedOnce ==
  \A m \in Mutations : applied[m] > 0 /\ m \notin blind =>
    /\ applied[m] = 1 /\ op[m] \in {"sent", "queued"}
    /\ m \in Ids(queue) => Sending # {}
    /\ \A n \in Writing \ overlapped : m \notin Ids(copy[n])
    /\ \A c \in Sending : m \notin Ids(flush[c].rest) \cup Ids(flush[c].kept)

QueueInv ==
  OneFlush /\ QueuedOnly /\ EachOnce /\ Undisturbed /\ InEveryList /\ PerformedOnce

-----------------------------------------------------------------------------
(* Types                                                                     *)

(* The records a flush goes through are records of its locals.               *)
LEMMA FlushUpdates ==
  /\ NoFlush \in Flush
  /\ \A f \in Flush : f.rest \in Seq(Entry) /\ f.kept \in Seq(Entry)
  /\ [NoFlush EXCEPT !.pc = "get"] \in Flush
  /\ \A f \in Flush, s \in Seq(Entry), k \in Seq(Entry) :
       /\ [f EXCEPT !.pc = "send", !.rest = s] \in Flush
       /\ [f EXCEPT !.again = TRUE] \in Flush
       /\ [f EXCEPT !.again = FALSE, !.rest = s, !.kept = k] \in Flush
BY IdsOfEmpty DEF NoFlush, Flush

(* An entry that is kept has retries left.                                   *)
LEMMA KeptEntry ==
  ASSUME NEW e \in Entry, NEW outcome, Keeps(e, outcome)
  PROVE  [e EXCEPT !.retries = @ + 1] \in Entry /\ [e EXCEPT !.retries = @ + 1].id = e.id
BY MaxRetriesAssumption DEF Entry, Keeps

(* What the server did of a mutation keeps its type.                         *)
LEMMA ReachesTypes ==
  ASSUME TypeOK, NEW m \in Mutations, NEW outcome, Reaches(m, outcome)
  PROVE  applied' \in [Mutations -> 0 .. Many] /\ blind' \in SUBSET Mutations
<1>1. \A k \in 0 .. Many : (IF k = Many THEN Many ELSE k + 1) \in 0 .. Many
  BY DEF Many
<1>2. applied' \in [Mutations -> 0 .. Many]
  BY <1>1 DEF TypeOK, Reaches
<1> QED
  BY <1>2 DEF TypeOK, Reaches

(* Only mutations are in a list of entries.                                  *)
LEMMA IdsAreMutations ==
  ASSUME NEW s \in Seq(Entry)
  PROVE  Ids(s) \subseteq Mutations /\ Performed(s) \subseteq Mutations
<1>1. \A i \in DOMAIN s : s[i] \in Entry
  OBVIOUS
<1> QED
  BY <1>1 DEF Ids, Performed, Entry

(* Every step keeps the types: an entry is kept only with retries left.      *)
LEMMA TypeStep ==
  ASSUME TypeOK, [Next]_vars
  PROVE  TypeOK'
<1> USE MaxFaultsAssumption DEF TypeOK
<1>1. ASSUME NEW m \in Mutations, Issue(m) PROVE TypeOK'
  <2>1. CASE MutateWithOfflineQueue(m) \/ RecordPosition(m)
    BY <2>1 DEF MutateWithOfflineQueue, RecordPosition, OpStates
  <2>2. ASSUME NEW outcome \in Outcomes, RequestAnswer(m, outcome) PROVE TypeOK'
    BY <2>2, ReachesTypes DEF RequestAnswer, OpStates
  <2>3. CASE EnqueueRead(m)
    BY <2>3 DEF EnqueueRead, OpStates
  <2>4. CASE EnqueueWrite(m)
    <3>1. [id |-> m, retries |-> 0] \in Entry
      BY MaxRetriesAssumption DEF Entry
    <3>2. queue' \in Seq(Entry) /\ copy' \in [Mutations -> Seq(Entry)]
      BY <2>4, <3>1, IdsOfAppend, IdsOfEmpty DEF EnqueueWrite
    <3>3. blind' \in SUBSET Mutations
      BY <2>4, IdsAreMutations DEF EnqueueWrite
    <3> QED
      BY <2>4, <3>2, <3>3 DEF EnqueueWrite, OpStates
  <2>5. CASE EnqueueFails(m)
    BY <2>5, IdsOfEmpty DEF EnqueueFails, OpStates
  <2> QED
    BY <1>1, <2>1, <2>2, <2>3, <2>4, <2>5 DEF Issue
<1>2. ASSUME NEW c \in Callers, FlushStep(c) \/ FlushFails(c) PROVE TypeOK'
  <2>1. CASE FlushRead(c)
    BY <2>1, FlushUpdates DEF FlushRead
  <2>2. ASSUME NEW outcome \in Outcomes, FlushSend(c, outcome) PROVE TypeOK'
    <3> DEFINE entry == Head(flush[c].rest)
    <3>1. flush[c].rest \in Seq(Entry) /\ flush[c].kept \in Seq(Entry) /\ flush[c].rest # <<>>
      BY <2>2, FlushUpdates DEF FlushSend
    <3>2. entry \in Entry /\ Tail(flush[c].rest) \in Seq(Entry) /\ entry.id \in Mutations
      BY <3>1, IdsOfTail DEF Entry
    <3>3. Keeps(entry, outcome) =>
            Append(flush[c].kept, [entry EXCEPT !.retries = @ + 1]) \in Seq(Entry)
      BY <3>1, <3>2, KeptEntry, IdsOfAppend
    <3>4. flush' \in [Callers -> Flush]
      BY <2>2, <3>1, <3>2, <3>3, FlushUpdates DEF FlushSend
    <3>5. applied' \in [Mutations -> 0 .. Many] /\ blind' \in SUBSET Mutations
      BY <2>2, <3>2, ReachesTypes DEF FlushSend
    <3>6. settled' \in SUBSET Mutations
      BY <2>2, <3>2 DEF FlushSend
    <3> QED
      BY <2>2, <3>4, <3>5, <3>6 DEF FlushSend
  <2>3. CASE FlushSave(c)
    BY <2>3, FlushUpdates DEF FlushSave
  <2>4. CASE FlushFails(c)
    <3>1. blind' \in SUBSET Mutations /\ faults' \in 0 .. MaxFaults
      BY <2>4, IdsAreMutations DEF FlushFails
    <3> QED
      BY <2>4, <3>1, FlushUpdates DEF FlushFails
  <2> QED
    BY <1>2, <2>1, <2>2, <2>3, <2>4 DEF FlushStep
<1>3. ASSUME NEW c \in Callers, Sync(c) PROVE TypeOK'
  BY <1>3, FlushUpdates DEF Sync, FlushQueue
<1>4. ASSUME NEW c \in Callers, NEW state \in NetInfoStates, NetInfoEvent(c, state) PROVE TypeOK'
  <2>1. EvaluateNetInfo(state, isOnline) \in BOOLEAN
    BY DEF EvaluateNetInfo, NetInfoStates
  <2> QED
    BY <1>4, <2>1, FlushUpdates DEF NetInfoEvent, FlushQueue
<1>5. ASSUME NEW state \in NetInfoStates, StartupFetch(state) PROVE TypeOK'
  BY <1>5 DEF StartupFetch, EvaluateNetInfo, NetInfoStates
<1>6. CASE ReadFailed
  BY <1>6 DEF ReadFailed
<1>7. CASE Kill
  <2>1. blind' \in SUBSET Mutations /\ faults' \in 0 .. MaxFaults
    BY <1>7, IdsAreMutations DEF Kill, Killed
  <2>2. op' \in [Mutations -> OpStates]
    BY <1>7 DEF Kill, Killed, OpStates
  <2> QED
    BY <1>7, <2>1, <2>2, FlushUpdates, IdsOfEmpty DEF Kill, Killed
<1>8. CASE UNCHANGED vars
  BY <1>8 DEF vars
<1> QED
  BY <1>1, <1>2, <1>3, <1>4, <1>5, <1>6, <1>7, <1>8 DEF Next

(* At startup every variable has its type.                                   *)
LEMMA TypesAtStart == Init => TypeOK
<1>1. 0 \in 0 .. Many /\ 0 \in 0 .. MaxFaults
  BY MaxFaultsAssumption DEF Many
<1>2. "idle" \in OpStates
  BY DEF OpStates
<1> QED
  BY <1>1, <1>2, IdsOfEmpty, FlushUpdates DEF Init, TypeOK

(* The lists hold entries with retries left, and calls and flushes stand at  *)
(* one of their places.                                                      *)
THEOREM QueueTypeCorrect == Spec => []TypeOK
BY TypesAtStart, TypeStep, PTL DEF Spec

-----------------------------------------------------------------------------
(* The invariant is kept                                                     *)

(* Every list, stored or in hand, is a list of entries.                      *)
LEMMA ListsInHand ==
  ASSUME TypeOK
  PROVE  /\ queue \in Seq(Entry) /\ Ids(queue) \subseteq Mutations
         /\ \A n \in Mutations : copy[n] \in Seq(Entry) /\ Ids(copy[n]) \subseteq Mutations
         /\ \A c \in Callers : flush[c].rest \in Seq(Entry) /\ flush[c].kept \in Seq(Entry)
BY FlushUpdates, IdsAreMutations DEF TypeOK

(* Steps that touch no list: calls go on or end before they have one.        *)
LEMMA QuietStep ==
  ASSUME TypeOK, QueueInv,
         UNCHANGED <<queue, flush, flushLock, applied, settled, overlapped, blind>>,
         \A n \in Mutations :
           \/ op'[n] = op[n] /\ copy'[n] = copy[n]
           \/ op[n] \notin {"queued", "sent"} /\ op'[n] \notin {"write", "queued"}
  PROVE  QueueInv'
<1>1. Sending' = Sending /\ Writing' \subseteq Writing
  BY DEF Sending, Writing
<1>2. \A n \in Writing' : copy'[n] = copy[n]
  BY DEF Writing
<1>3. \A n \in Mutations : (op'[n] = "queued") = (op[n] = "queued")
  OBVIOUS
<1>4. OneFlush' /\ EachOnce'
  BY <1>1, <1>2 DEF QueueInv, OneFlush, EachOnce
<1>5. QueuedOnly'
  <2>1. \A m \in Ids(queue) : op'[m] = "queued"
    BY <1>3, ListsInHand DEF QueueInv, QueuedOnly
  <2>2. \A n \in Writing' : \A m \in Ids(copy'[n]) : op'[m] = "queued"
    BY <1>1, <1>2, <1>3, ListsInHand DEF QueueInv, QueuedOnly, Writing
  <2>3. \A c \in Sending : \A m \in Ids(flush[c].rest) \cup Ids(flush[c].kept) : op'[m] = "queued"
    BY <1>3, ListsInHand, IdsAreMutations DEF QueueInv, QueuedOnly, Sending
  <2> QED
    BY <1>1, <2>1, <2>2, <2>3 DEF QueuedOnly
<1>6. Undisturbed'
  BY <1>1, <1>2 DEF QueueInv, Undisturbed
<1>7. InEveryList'
  BY <1>1, <1>2, <1>3 DEF QueueInv, InEveryList
<1>8. PerformedOnce'
  BY <1>1, <1>2 DEF QueueInv, PerformedOnce
<1> QED
  BY <1>4, <1>5, <1>6, <1>7, <1>8 DEF QueueInv

(* A flush begins only when there is none.                                   *)
LEMMA FlushQueueStep ==
  ASSUME TypeOK, QueueInv, NEW c \in Callers, NEW online \in BOOLEAN, FlushQueue(c, online),
         UNCHANGED <<queue, op, copy, applied, settled, overlapped, blind>>
  PROVE  QueueInv'
<1>1. CASE UNCHANGED <<flushLock, flush>>
  BY <1>1, QuietStep
<1>2. CASE ~flushLock /\ flushLock' /\ flush' = [flush EXCEPT ![c] = [NoFlush EXCEPT !.pc = "get"]]
  <2>1. \A d \in Callers : flush[d].pc = "idle"
    BY <1>2 DEF QueueInv, OneFlush
  <2>2. /\ \A d \in Callers : d # c => flush'[d] = flush[d]
        /\ flush'[c].pc = "get" /\ flush'[c].kept = <<>>
    BY <1>2 DEF TypeOK, NoFlush
  <2>3. Sending = {} /\ Sending' = {} /\ Writing' = Writing
    BY <2>1, <2>2 DEF Sending, Writing
  <2>4. OneFlush'
    BY <1>2, <2>1, <2>2 DEF OneFlush
  <2>5. QueuedOnly' /\ EachOnce' /\ Undisturbed'
    BY <2>3 DEF QueueInv, QueuedOnly, EachOnce, Undisturbed
  <2>6. InEveryList' /\ PerformedOnce'
    BY <2>3 DEF QueueInv, InEveryList, PerformedOnce
  <2> QED
    BY <2>4, <2>5, <2>6 DEF QueueInv
<1> QED
  BY <1>1, <1>2 DEF FlushQueue

(* What the server has performed for a call was not queued before.           *)
LEMMA RequestAnswerStep ==
  ASSUME TypeOK, QueueInv, NEW m \in Mutations, NEW outcome \in Outcomes, RequestAnswer(m, outcome)
  PROVE  QueueInv'
<1>1. /\ UNCHANGED <<queue, copy, flush, flushLock, settled, overlapped>>
      /\ op[m] \in {"request", "retry"}
      /\ op'[m] \in {"sent", "refused", "retry", "read"} /\ (outcome = "ok" => op'[m] = "sent")
      /\ \A n \in Mutations : n # m => op'[n] = op[n]
  BY DEF RequestAnswer, TypeOK
<1>2. Sending' = Sending /\ Writing' = Writing /\ m \notin Writing
  BY <1>1 DEF Sending, Writing
<1>3. \A n \in Mutations : (op'[n] = "queued") = (op[n] = "queued")
  BY <1>1
<1>4. OneFlush' /\ EachOnce' /\ Undisturbed'
  BY <1>1, <1>2 DEF QueueInv, OneFlush, EachOnce, Undisturbed
<1>5. QueuedOnly'
  <2>1. \A n \in Ids(queue) : op'[n] = "queued"
    BY <1>3, ListsInHand DEF QueueInv, QueuedOnly
  <2>2. \A n \in Writing : \A k \in Ids(copy[n]) : op'[k] = "queued"
    BY <1>3, ListsInHand DEF QueueInv, QueuedOnly, Writing
  <2>3. \A c \in Sending : \A n \in Ids(flush[c].rest) \cup Ids(flush[c].kept) : op'[n] = "queued"
    BY <1>3, ListsInHand, IdsAreMutations DEF QueueInv, QueuedOnly, Sending
  <2> QED
    BY <1>1, <1>2, <2>1, <2>2, <2>3 DEF QueuedOnly
<1>6. InEveryList'
  BY <1>1, <1>2, <1>3 DEF QueueInv, InEveryList
<1>7. PerformedOnce'
  <2>1. \A n \in Mutations : n # m => applied'[n] = applied[n] /\ (n \in blind' <=> n \in blind)
    BY DEF RequestAnswer, Reaches, TypeOK
  <2>2. applied[m] \in {0, 1, 2} /\ (applied[m] > 0 => m \in blind)
    <3>1. applied[m] \in 0 .. 2
      BY DEF TypeOK, Many
    <3>2. applied[m] > 0 => m \in blind
      BY <1>1 DEF QueueInv, PerformedOnce
    <3> QED
      BY <3>1, <3>2
  <2>3. applied'[m] > 0 /\ m \notin blind' => applied'[m] = 1 /\ outcome = "ok"
    BY <2>2 DEF RequestAnswer, Reaches, TypeOK, Many
  <2>4. /\ m \notin Ids(queue)
        /\ \A n \in Writing : m \notin Ids(copy[n])
        /\ \A c \in Sending : m \notin Ids(flush[c].rest) \cup Ids(flush[c].kept)
    BY <1>1 DEF QueueInv, QueuedOnly
  <2> QED
    BY <1>1, <1>2, <2>1, <2>3, <2>4 DEF QueueInv, PerformedOnce
<1> QED
  BY <1>4, <1>5, <1>6, <1>7 DEF QueueInv

(* enqueueMutation has read the list.                                        *)
LEMMA EnqueueReadStep ==
  ASSUME TypeOK, QueueInv, NEW m \in Mutations, EnqueueRead(m)
  PROVE  QueueInv'
<1>1. /\ UNCHANGED <<queue, flush, flushLock, applied, settled, blind>>
      /\ op[m] = "read" /\ op'[m] = "write" /\ copy'[m] = queue
      /\ \A n \in Mutations : n # m => op'[n] = op[n] /\ copy'[n] = copy[n]
      /\ overlapped \subseteq overlapped' /\ Writing \subseteq overlapped'
  BY DEF EnqueueRead, TypeOK, Writing
<1>2. Sending' = Sending /\ Writing' = Writing \cup {m} /\ m \notin Writing
  BY <1>1 DEF Sending, Writing
<1>3. m \notin overlapped' => Writing = {} /\ Sending = {}
  BY <1>2 DEF EnqueueRead, Sending, Writing
<1>4. \A n \in Mutations : (op'[n] = "queued") = (op[n] = "queued")
  BY <1>1
<1>5. OneFlush' /\ EachOnce'
  BY <1>1, <1>2 DEF QueueInv, OneFlush, EachOnce, Writing
<1>6. QueuedOnly'
  <2>1. \A n \in Ids(queue) : op'[n] = "queued"
    BY <1>4, ListsInHand DEF QueueInv, QueuedOnly
  <2>2. \A n \in Writing : n # m /\ \A k \in Ids(copy[n]) : op'[k] = "queued"
    BY <1>2, <1>4, ListsInHand DEF QueueInv, QueuedOnly, Writing
  <2>3. \A c \in Sending : \A n \in Ids(flush[c].rest) \cup Ids(flush[c].kept) : op'[n] = "queued"
    BY <1>4, ListsInHand, IdsAreMutations DEF QueueInv, QueuedOnly, Sending
  <2>4. \A n \in Writing : copy'[n] = copy[n]
    BY <1>1, <2>2 DEF Writing
  <2> QED
    BY <1>1, <1>2, <2>1, <2>2, <2>3, <2>4 DEF QueuedOnly
<1>7. Undisturbed'
  BY <1>1, <1>2, <1>3 DEF Undisturbed
<1>8. InEveryList'
  BY <1>1, <1>2, <1>4 DEF QueueInv, InEveryList, Writing
<1>9. PerformedOnce'
  BY <1>1, <1>2, <1>3, <1>4 DEF QueueInv, PerformedOnce, Writing
<1> QED
  BY <1>5, <1>6, <1>7, <1>8, <1>9 DEF QueueInv

(* ... and writes it back with one more entry.                               *)
LEMMA EnqueueWriteStep ==
  ASSUME TypeOK, QueueInv, NEW m \in Mutations, EnqueueWrite(m)
  PROVE  QueueInv'
<1>1. /\ UNCHANGED <<flush, flushLock, applied, settled, overlapped>>
      /\ op[m] = "write" /\ op'[m] = "queued"
      /\ \A n \in Mutations : n # m => op'[n] = op[n] /\ copy'[n] = copy[n]
      /\ blind' = IF m \in overlapped THEN blind \cup Performed(copy[m]) ELSE blind
  BY DEF EnqueueWrite, TypeOK
<1>2. Sending' = Sending /\ Writing' = Writing \ {m} /\ m \in Writing
  BY <1>1 DEF Sending, Writing
<1>3. m \notin Ids(copy[m]) /\ Distinct(copy[m])
  BY <1>1, <1>2 DEF QueueInv, QueuedOnly, EachOnce
<1>4. Ids(queue') = Ids(copy[m]) \cup {m} /\ Distinct(queue')
  <2>1. [id |-> m, retries |-> 0] \in Entry /\ [id |-> m, retries |-> 0].id = m
    BY MaxRetriesAssumption DEF Entry
  <2>2. copy[m] \in Seq(Entry)
    BY ListsInHand
  <2> QED
    BY <1>3, <2>1, <2>2, IdsOfAppend DEF EnqueueWrite
<1>5. \A n \in Mutations : op[n] = "queued" => op'[n] = "queued"
  BY <1>1
<1>6. OneFlush' /\ EachOnce'
  BY <1>1, <1>2, <1>4 DEF QueueInv, OneFlush, EachOnce, Writing
<1>7. QueuedOnly'
  <2>1. \A n \in Ids(queue') : op'[n] = "queued"
    BY <1>1, <1>2, <1>4, <1>5, ListsInHand DEF QueueInv, QueuedOnly
  <2>2. \A n \in Writing' : copy'[n] = copy[n] /\ \A k \in Ids(copy[n]) : op'[k] = "queued"
    BY <1>1, <1>2, <1>5, ListsInHand DEF QueueInv, QueuedOnly, Writing
  <2>3. \A c \in Sending : \A n \in Ids(flush[c].rest) \cup Ids(flush[c].kept) : op'[n] = "queued"
    BY <1>5, ListsInHand, IdsAreMutations DEF QueueInv, QueuedOnly, Sending
  <2> QED
    BY <1>1, <1>2, <2>1, <2>2, <2>3 DEF QueuedOnly
<1>8. Undisturbed'
  BY <1>1, <1>2 DEF QueueInv, Undisturbed
<1>9. InEveryList'
  <2>1. m \notin overlapped => Writing' = {} /\ Sending' = {}
    BY <1>2 DEF QueueInv, Undisturbed
  <2> QED
    BY <1>1, <1>2, <1>4, <2>1 DEF QueueInv, InEveryList, Writing
<1>10. PerformedOnce'
  <2> SUFFICES ASSUME NEW n \in Mutations, applied[n] > 0, n \notin blind'
               PROVE  /\ applied[n] = 1 /\ op'[n] \in {"sent", "queued"}
                      /\ n \notin Ids(queue')
                      /\ \A k \in Writing' \ overlapped : n \notin Ids(copy'[k])
                      /\ \A c \in Sending : n \notin Ids(flush[c].rest) \cup Ids(flush[c].kept)
    BY <1>1, <1>2 DEF PerformedOnce
  <2>1. n \notin blind
    BY <1>1
  <2>2. /\ applied[n] = 1 /\ op[n] \in {"sent", "queued"}
        /\ \A k \in Writing \ overlapped : n \notin Ids(copy[k])
        /\ \A c \in Sending : n \notin Ids(flush[c].rest) \cup Ids(flush[c].kept)
    BY <2>1 DEF QueueInv, PerformedOnce
  <2>3. n # m /\ op'[n] = op[n]
    BY <1>1, <2>2
  <2>4. n \notin Ids(copy[m])
    BY <1>1, <1>2, <2>2 DEF Performed
  <2>5. \A k \in Writing' : k \in Writing /\ copy'[k] = copy[k]
    BY <1>1, <1>2 DEF Writing
  <2> QED
    BY <1>4, <2>2, <2>3, <2>4, <2>5
<1> QED
  BY <1>6, <1>7, <1>8, <1>9, <1>10 DEF QueueInv

(* flushQueue has read the list: the enqueues under way are overlapped.      *)
LEMMA FlushReadStep ==
  ASSUME TypeOK, QueueInv, NEW c \in Callers, FlushRead(c)
  PROVE  QueueInv'
<1>1. /\ UNCHANGED <<queue, op, copy, flushLock, applied, settled, blind>>
      /\ overlapped' = overlapped \cup Writing
      /\ flush[c].pc = "get"
  BY DEF FlushRead, Writing
<1>2. /\ flush'[c].pc = "send" /\ flush'[c].rest = queue /\ flush'[c].kept = <<>>
      /\ \A d \in Callers : d # c => flush'[d] = flush[d] /\ flush[d].pc = "idle"
  BY <1>1 DEF FlushRead, TypeOK, Flush, QueueInv, OneFlush
<1>3. Sending = {} /\ Sending' = {c} /\ Writing' = Writing
  BY <1>1, <1>2 DEF Sending, Writing
<1>4. OneFlush'
  BY <1>1, <1>2 DEF QueueInv, OneFlush
<1>5. QueuedOnly' /\ EachOnce'
  BY <1>1, <1>2, <1>3, IdsOfEmpty DEF QueueInv, QueuedOnly, EachOnce
<1>6. Undisturbed'
  BY <1>1, <1>3 DEF Undisturbed
<1>7. InEveryList'
  BY <1>1, <1>2, <1>3 DEF QueueInv, InEveryList
<1>8. PerformedOnce'
  BY <1>1, <1>2, <1>3, IdsOfEmpty DEF QueueInv, PerformedOnce
<1> QED
  BY <1>4, <1>5, <1>6, <1>7, <1>8 DEF QueueInv

(* What FlushSend writes into the locals of its flush, and leaves alone.     *)
LEMMA FlushFields ==
  ASSUME NEW f \in Flush, NEW s, NEW k
  PROVE  /\ [f EXCEPT !.again = TRUE].pc = f.pc
         /\ [f EXCEPT !.again = TRUE].rest = f.rest
         /\ [f EXCEPT !.again = TRUE].kept = f.kept
         /\ [f EXCEPT !.again = FALSE, !.rest = s, !.kept = k].pc = f.pc
         /\ [f EXCEPT !.again = FALSE, !.rest = s, !.kept = k].rest = s
         /\ [f EXCEPT !.again = FALSE, !.rest = s, !.kept = k].kept = k
BY DEF Flush

Rest(c) == flush[c].rest
Kept(c) == flush[c].kept
First(c) == Head(Rest(c))

(* One attempt to send the first entry that is left: the entry stays first,  *)
(* or goes to the kept ones, or has been answered.                           *)
LEMMA FlushSendEffect ==
  ASSUME TypeOK, QueueInv, NEW c \in Callers, NEW outcome \in Outcomes, FlushSend(c, outcome)
  PROVE  /\ UNCHANGED <<queue, op, copy, flushLock, overlapped>>
         /\ c \in Sending /\ Rest(c) # <<>> /\ Reaches(First(c).id, outcome)
         /\ Rest(c) \in Seq(Entry) /\ Kept(c) \in Seq(Entry) /\ First(c) \in Entry /\ First(c).id \in Mutations
         /\ Ids(Rest(c)) = {First(c).id} \cup Ids(Tail(Rest(c))) /\ First(c).id \notin Ids(Tail(Rest(c))) /\ Distinct(Tail(Rest(c)))
         /\ First(c).id \notin Ids(Kept(c)) /\ Distinct(Kept(c))
         /\ flush'[c].pc = "send"
         /\ \A d \in Callers : d # c => flush'[d] = flush[d]
         /\ \/ flush'[c].rest = Rest(c) /\ flush'[c].kept = Kept(c) /\ settled' = settled
            \/ /\ flush'[c].rest = Tail(Rest(c))
               /\ flush'[c].kept = Append(Kept(c), [First(c) EXCEPT !.retries = @ + 1])
               /\ Keeps(First(c), outcome) /\ settled \subseteq settled' /\ settled' \subseteq settled \cup {First(c).id}
            \/ flush'[c].rest = Tail(Rest(c)) /\ flush'[c].kept = Kept(c) /\ settled' = settled \cup {First(c).id}
<1>1. /\ UNCHANGED <<queue, op, copy, flushLock, overlapped>>
      /\ c \in Sending /\ Rest(c) # <<>> /\ Reaches(First(c).id, outcome)
  BY DEF FlushSend, Sending, Rest, Kept, First
<1>2. /\ Rest(c) \in Seq(Entry) /\ Kept(c) \in Seq(Entry) /\ First(c) \in Entry /\ First(c).id \in Mutations
      /\ Ids(Rest(c)) = {First(c).id} \cup Ids(Tail(Rest(c))) /\ First(c).id \notin Ids(Tail(Rest(c))) /\ Distinct(Tail(Rest(c)))
      /\ First(c).id \notin Ids(Kept(c)) /\ Distinct(Kept(c))
  <2>1. Rest(c) \in Seq(Entry) /\ Kept(c) \in Seq(Entry)
    BY ListsInHand DEF Rest, Kept
  <2>2. Distinct(Rest(c)) /\ Distinct(Kept(c)) /\ Ids(Rest(c)) \cap Ids(Kept(c)) = {}
    BY <1>1 DEF QueueInv, EachOnce, Rest, Kept, First
  <2>3. /\ First(c) \in Entry /\ Ids(Rest(c)) = {First(c).id} \cup Ids(Tail(Rest(c)))
        /\ Distinct(Tail(Rest(c))) /\ First(c).id \notin Ids(Tail(Rest(c)))
    BY <1>1, <2>1, <2>2, IdsOfTail DEF First
  <2>4. First(c).id \in Mutations
    BY <2>3 DEF Entry
  <2> QED
    BY <2>1, <2>2, <2>3, <2>4
<1>3. /\ flush'[c].pc = "send"
      /\ \A d \in Callers : d # c => flush'[d] = flush[d]
      /\ \/ flush'[c].rest = Rest(c) /\ flush'[c].kept = Kept(c) /\ settled' = settled
         \/ /\ flush'[c].rest = Tail(Rest(c))
            /\ flush'[c].kept = Append(Kept(c), [First(c) EXCEPT !.retries = @ + 1])
            /\ Keeps(First(c), outcome) /\ settled \subseteq settled' /\ settled' \subseteq settled \cup {First(c).id}
         \/ flush'[c].rest = Tail(Rest(c)) /\ flush'[c].kept = Kept(c) /\ settled' = settled \cup {First(c).id}
  <2> DEFINE repeats == outcome = "silence" /\ ~flush[c].again
  <2>1. flush[c] \in Flush /\ flush[c].pc = "send"
    BY DEF FlushSend, TypeOK
  <2>2. Keeps(First(c), outcome) \/ AnswersFor(First(c), outcome)
    <3>1. First(c).retries \in Nat /\ MaxRetries \in Nat
      BY <1>2, MaxRetriesAssumption DEF Entry
    <3> QED
      BY <3>1 DEF Keeps, AnswersFor, Outcomes
  <2>3. /\ flush' = [flush EXCEPT ![c] =
             IF repeats
             THEN [flush[c] EXCEPT !.again = TRUE]
             ELSE [flush[c] EXCEPT !.again = FALSE, !.rest = Tail(Rest(c)),
                            !.kept = IF Keeps(First(c), outcome)
                                     THEN Append(Kept(c), [First(c) EXCEPT !.retries = @ + 1])
                                     ELSE Kept(c)]]
        /\ settled' = IF AnswersFor(First(c), outcome) /\ ~repeats THEN settled \cup {First(c).id} ELSE settled
    BY DEF FlushSend, TypeOK, Rest, Kept, First
  <2>4. \A d \in Callers : d # c => flush'[d] = flush[d]
    BY <2>3 DEF TypeOK
  <2>5. CASE repeats
    <3>1. flush'[c] = [flush[c] EXCEPT !.again = TRUE] /\ settled' = settled
      BY <2>3, <2>5 DEF TypeOK
    <3>2. flush'[c].pc = "send" /\ flush'[c].rest = flush[c].rest /\ flush'[c].kept = flush[c].kept
      BY <2>1, <3>1, FlushFields
    <3> QED
      BY <2>4, <3>1, <3>2 DEF Rest, Kept
  <2>6. CASE ~repeats
    <3>1. /\ flush'[c] = [flush[c] EXCEPT !.again = FALSE, !.rest = Tail(Rest(c)),
                            !.kept = IF Keeps(First(c), outcome)
                                     THEN Append(Kept(c), [First(c) EXCEPT !.retries = @ + 1])
                                     ELSE Kept(c)]
          /\ settled' = IF AnswersFor(First(c), outcome) THEN settled \cup {First(c).id} ELSE settled
      BY <2>3, <2>6 DEF TypeOK
    <3>2. flush'[c].pc = "send" /\ flush'[c].rest = Tail(Rest(c))
          /\ flush'[c].kept = IF Keeps(First(c), outcome)
                              THEN Append(Kept(c), [First(c) EXCEPT !.retries = @ + 1])
                              ELSE Kept(c)
      BY <2>1, <3>1, FlushFields
    <3> QED
      BY <2>2, <2>4, <3>1, <3>2
  <2> QED
    BY <2>5, <2>6
<1> QED
  BY <1>1, <1>2, <1>3

(* An answer moves an entry from rest to kept, or settles its mutation.      *)
LEMMA FlushSendStep ==
  ASSUME TypeOK, QueueInv, NEW c \in Callers, NEW outcome \in Outcomes, FlushSend(c, outcome)
  PROVE  QueueInv'
<1> DEFINE rest == Rest(c)
           kept == Kept(c)
           entry == First(c)
           m == entry.id
<1>1. /\ UNCHANGED <<queue, op, copy, flushLock, overlapped>>
      /\ c \in Sending /\ rest # <<>> /\ Reaches(m, outcome)
  BY FlushSendEffect
<1>2. /\ rest \in Seq(Entry) /\ kept \in Seq(Entry) /\ entry \in Entry /\ m \in Mutations
      /\ Ids(rest) = {m} \cup Ids(Tail(rest)) /\ m \notin Ids(Tail(rest)) /\ Distinct(Tail(rest))
      /\ m \notin Ids(kept) /\ Distinct(kept)
  BY FlushSendEffect
<1>3. /\ flush'[c].pc = "send"
      /\ \A d \in Callers : d # c => flush'[d] = flush[d]
      /\ \/ flush'[c].rest = rest /\ flush'[c].kept = kept /\ settled' = settled
         \/ /\ flush'[c].rest = Tail(rest)
            /\ flush'[c].kept = Append(kept, [entry EXCEPT !.retries = @ + 1])
            /\ Keeps(entry, outcome) /\ settled \subseteq settled'
         \/ flush'[c].rest = Tail(rest) /\ flush'[c].kept = kept /\ settled' = settled \cup {m}
  BY FlushSendEffect
<1>4. /\ Distinct(flush'[c].rest) /\ Distinct(flush'[c].kept)
      /\ Ids(flush'[c].rest) \cap Ids(flush'[c].kept) = {}
      /\ Ids(flush'[c].rest) \cup Ids(flush'[c].kept) \subseteq Ids(rest) \cup Ids(kept)
      /\ Ids(rest) \cup Ids(kept) \subseteq Ids(flush'[c].rest) \cup Ids(flush'[c].kept) \cup settled'
  <2>1. Distinct(rest) /\ Ids(rest) \cap Ids(kept) = {}
    BY <1>1 DEF QueueInv, EachOnce, Rest, Kept, First
  <2>2. CASE flush'[c].rest = rest /\ flush'[c].kept = kept
    BY <1>2, <2>1, <2>2
  <2>3. CASE /\ flush'[c].rest = Tail(rest) /\ Keeps(entry, outcome)
             /\ flush'[c].kept = Append(kept, [entry EXCEPT !.retries = @ + 1])
    <3>1. /\ Ids(flush'[c].kept) = Ids(kept) \cup {m} /\ Distinct(flush'[c].kept)
      BY <1>2, <2>3, KeptEntry, IdsOfAppend
    <3> QED
      BY <1>2, <2>1, <2>3, <3>1
  <2>4. CASE flush'[c].rest = Tail(rest) /\ flush'[c].kept = kept /\ settled' = settled \cup {m}
    BY <1>2, <2>1, <2>4
  <2> QED
    BY <1>3, <2>2, <2>3, <2>4
<1>5. Sending' = Sending /\ Writing' = Writing /\ settled \subseteq settled'
  BY <1>1, <1>3 DEF Sending, Writing
<1> HIDE DEF rest, kept, entry, m
<1>6. \A d \in Sending : d = c
  BY <1>1 DEF QueueInv, OneFlush, Sending
<1>7. OneFlush'
  BY <1>1, <1>3 DEF QueueInv, OneFlush, Sending
<1>8. QueuedOnly'
  BY <1>1, <1>4, <1>5, <1>6 DEF QueueInv, QueuedOnly, rest, kept, Rest, Kept, First
<1>9. EachOnce'
  BY <1>1, <1>4, <1>5, <1>6 DEF QueueInv, EachOnce, Rest, Kept, First
<1>10. Undisturbed'
  BY <1>1, <1>5 DEF QueueInv, Undisturbed
<1>11. InEveryList'
  BY <1>1, <1>4, <1>5, <1>6 DEF QueueInv, InEveryList, rest, kept, Rest, Kept, First
<1>12. PerformedOnce'
  <2>1. \A n \in Mutations : n # m => applied'[n] = applied[n] /\ (n \in blind' <=> n \in blind)
    BY <1>1, <1>2 DEF Reaches, TypeOK
  <2>2. m \in Ids(rest)
    BY <1>2
  <2>3. applied[m] > 0 => m \in blind
    BY <1>1, <1>2, <2>2 DEF QueueInv, PerformedOnce, rest, Rest, Kept, First
  <2>4. applied[m] \in 0 .. 2
    BY <1>2 DEF TypeOK, Many
  <2>5. applied'[m] > 0 /\ m \notin blind' => applied'[m] = 1 /\ outcome = "ok"
    BY <1>1, <1>2, <2>3, <2>4 DEF Reaches, TypeOK, Many
  <2>6. op[m] = "queued"
    BY <1>1, <2>2 DEF QueueInv, QueuedOnly, rest, Rest, Kept, First
  <2>7. Writing \ overlapped = {}
    BY <1>1 DEF QueueInv, Undisturbed
  <2>8. outcome = "ok" => m \notin Ids(flush'[c].rest) \cup Ids(flush'[c].kept)
    <3>1. outcome = "ok" => flush'[c].rest = Tail(rest) /\ flush'[c].kept = kept
      BY DEF FlushSend, TypeOK, Flush, Keeps, rest, kept, entry, Rest, Kept, First
    <3> QED
      BY <1>2, <3>1
  <2>9. ASSUME NEW n \in Mutations, applied'[n] > 0, n \notin blind'
        PROVE  /\ applied'[n] = 1 /\ op[n] \in {"sent", "queued"}
               /\ n \notin Ids(flush'[c].rest) \cup Ids(flush'[c].kept)
    <3>1. CASE n = m
      BY <2>5, <2>6, <2>8, <2>9, <3>1
    <3>2. CASE n # m
      <4>1. applied[n] > 0 /\ n \notin blind /\ applied'[n] = applied[n]
        BY <2>1, <2>9, <3>2
      <4> QED
        BY <1>1, <1>4, <4>1 DEF QueueInv, PerformedOnce, rest, kept, Rest, Kept, First
    <3> QED
      BY <3>1, <3>2
  <2> QED
    BY <1>1, <1>5, <1>6, <2>7, <2>9 DEF PerformedOnce, Rest, Kept, First
<1> QED
  BY <1>7, <1>8, <1>9, <1>10, <1>11, <1>12 DEF QueueInv

(* The flush writes back what it kept and gives up the lock.                 *)
LEMMA FlushSaveStep ==
  ASSUME TypeOK, QueueInv, NEW c \in Callers, FlushSave(c)
  PROVE  QueueInv'
<1>1. /\ UNCHANGED <<op, copy, applied, settled, overlapped, blind>>
      /\ c \in Sending /\ Ids(flush[c].rest) = {} /\ queue' = flush[c].kept
  BY IdsOfEmpty DEF FlushSave, Sending
<1>2. \A d \in Callers : flush'[d].pc = "idle"
  BY <1>1 DEF FlushSave, TypeOK, NoFlush, QueueInv, OneFlush, Sending
<1>3. Sending' = {} /\ Writing' = Writing /\ Writing \subseteq overlapped
  BY <1>1, <1>2 DEF Sending, Writing, QueueInv, Undisturbed
<1>4. OneFlush' /\ Undisturbed'
  BY <1>1, <1>2, <1>3 DEF OneFlush, Undisturbed
<1>5. QueuedOnly' /\ EachOnce'
  BY <1>1, <1>3 DEF QueueInv, QueuedOnly, EachOnce
<1>6. InEveryList' /\ PerformedOnce'
  BY <1>1, <1>3 DEF QueueInv, InEveryList, PerformedOnce
<1> QED
  BY <1>4, <1>5, <1>6 DEF QueueInv

(* A flush that fails, or an application that is killed, leaves the list as  *)
(* it is, and what was sent from it is no longer known to be.                *)
LEMMA AbandonedStep ==
  ASSUME TypeOK, QueueInv,
         UNCHANGED <<queue, applied, settled, overlapped>>,
         blind' = blind \cup Performed(queue),
         \A d \in Callers : flush'[d].pc = "idle",
         \A n \in Mutations :
           \/ op'[n] = op[n] /\ (op[n] = "write" => copy'[n] = copy[n])
           \/ op[n] \notin {"queued", "sent"} /\ op'[n] \notin {"write", "queued"}
  PROVE  QueueInv'
<1>1. Sending' = {} /\ Writing' \subseteq Writing /\ \A n \in Writing' : copy'[n] = copy[n]
  BY DEF Sending, Writing
<1>2. \A n \in Mutations : (op'[n] = "queued") = (op[n] = "queued")
  OBVIOUS
<1>3. OneFlush' /\ Undisturbed'
  BY <1>1 DEF QueueInv, OneFlush, Undisturbed
<1>4. QueuedOnly' /\ EachOnce'
  <2>1. \A m \in Ids(queue) : op'[m] = "queued"
    BY <1>2, ListsInHand DEF QueueInv, QueuedOnly
  <2>2. \A n \in Writing' : \A m \in Ids(copy'[n]) : op'[m] = "queued"
    BY <1>1, <1>2, ListsInHand DEF QueueInv, QueuedOnly, Writing
  <2> QED
    BY <1>1, <2>1, <2>2 DEF QueueInv, QueuedOnly, EachOnce
<1>5. InEveryList'
  BY <1>1, <1>2 DEF QueueInv, InEveryList
<1>6. PerformedOnce'
  BY <1>1 DEF QueueInv, PerformedOnce, Performed
<1> QED
  BY <1>3, <1>4, <1>5, <1>6 DEF QueueInv

(* Every step keeps the lists, and the answers, as QueueInv says.            *)
LEMMA QueueStep ==
  ASSUME TypeOK, QueueInv, [Next]_vars
  PROVE  QueueInv'
<1>1. ASSUME NEW m \in Mutations, Issue(m) PROVE QueueInv'
  <2>1. CASE MutateWithOfflineQueue(m) \/ RecordPosition(m) \/ EnqueueFails(m)
    <3>1. UNCHANGED <<queue, flush, flushLock, applied, settled, overlapped, blind>>
      BY <2>1 DEF MutateWithOfflineQueue, RecordPosition, EnqueueFails
    <3>2. \A n \in Mutations :
            \/ op'[n] = op[n] /\ copy'[n] = copy[n]
            \/ op[n] \notin {"queued", "sent"} /\ op'[n] \notin {"write", "queued"}
      BY <2>1 DEF MutateWithOfflineQueue, RecordPosition, EnqueueFails, TypeOK
    <3> QED
      BY <3>1, <3>2, QuietStep
  <2> QED
    BY <1>1, <2>1, RequestAnswerStep, EnqueueReadStep, EnqueueWriteStep DEF Issue
<1>2. ASSUME NEW c \in Callers, FlushStep(c) PROVE QueueInv'
  BY <1>2, FlushReadStep, FlushSendStep, FlushSaveStep DEF FlushStep
<1>3. ASSUME NEW c \in Callers, FlushFails(c) PROVE QueueInv'
  <2>1. /\ UNCHANGED <<queue, op, copy, applied, settled, overlapped>>
        /\ blind' = blind \cup Performed(queue)
        /\ \A d \in Callers : flush'[d].pc = "idle"
    BY <1>3 DEF FlushFails, TypeOK, NoFlush, QueueInv, OneFlush
  <2> QED
    BY <2>1, AbandonedStep
<1>4. ASSUME NEW c \in Callers, Sync(c) PROVE QueueInv'
  <2>1. isOnline \in BOOLEAN
    BY DEF TypeOK
  <2> QED
    BY <1>4, <2>1, FlushQueueStep DEF Sync
<1>5. ASSUME NEW c \in Callers, NEW state \in NetInfoStates, NetInfoEvent(c, state) PROVE QueueInv'
  <2>1. UNCHANGED <<queue, op, copy, applied, settled, overlapped, blind>>
    BY <1>5 DEF NetInfoEvent
  <2>2. FlushQueue(c, TRUE) \/ UNCHANGED <<flushLock, flush>>
    BY <1>5 DEF NetInfoEvent
  <2> QED
    BY <2>1, <2>2, FlushQueueStep, QuietStep
<1>6. CASE Kill
  <2>1. /\ UNCHANGED <<queue, applied, settled, overlapped>>
        /\ blind' = blind \cup Performed(queue)
        /\ \A d \in Callers : flush'[d].pc = "idle"
    BY <1>6 DEF Kill, Killed, NoFlush
  <2>2. \A n \in Mutations :
          \/ op'[n] = op[n] /\ op[n] # "write"
          \/ op[n] \notin {"queued", "sent"} /\ op'[n] = "killed"
    BY <1>6 DEF Kill, Killed, TypeOK
  <2> QED
    BY <2>1, <2>2, AbandonedStep
<1>7. CASE ReadFailed \/ UNCHANGED vars \/ \E state \in NetInfoStates : StartupFetch(state)
  <2>1. UNCHANGED <<queue, op, copy, flush, flushLock, applied, settled, overlapped, blind>>
    BY <1>7 DEF ReadFailed, StartupFetch, vars
  <2> QED
    BY <2>1, QuietStep
<1> QED
  BY <1>1, <1>2, <1>3, <1>4, <1>5, <1>6, <1>7 DEF Next

(* At startup nothing is in any list.                                        *)
LEMMA QueueAtStart == Init => QueueInv
<1> SUFFICES ASSUME Init PROVE QueueInv
  OBVIOUS
<1>1. /\ Sending = {} /\ Writing = {} /\ Ids(queue) = {} /\ Distinct(queue)
      /\ \A c \in Callers : flush[c].pc = "idle"
      /\ \A m \in Mutations : op[m] = "idle" /\ ~(applied[m] > 0)
  BY IdsOfEmpty DEF Init, Sending, Writing, NoFlush
<1> QED
  BY <1>1 DEF QueueInv, OneFlush, QueuedOnly, EachOnce, Undisturbed, InEveryList, PerformedOnce

(* The invariant is what the two promises of the list rest on.               *)
LEMMA Promises == QueueInv => KeptUnlessOverlapped /\ OnceUnlessBlind
<1>1. QueueInv => KeptUnlessOverlapped
  BY DEF QueueInv, InEveryList, KeptUnlessOverlapped
<1>2. QueueInv => OnceUnlessBlind
  BY DEF QueueInv, PerformedOnce, OnceUnlessBlind, Many
<1> QED
  BY <1>1, <1>2

(* Lists and locks agree in every reachable state.                           *)
THEOREM QueueInvariant == Spec => []QueueInv
BY QueueAtStart, QueueStep, QueueTypeCorrect, PTL DEF Spec

(* A mutation reported as queued, whose enqueue overlapped nothing, stays in *)
(* the list until a flush has answered for it.                               *)
THEOREM QueuedMutationsAreKept == Spec => []KeptUnlessOverlapped
BY Promises, QueueInvariant, PTL

(* A mutation that the server performed twice is one whose first time the    *)
(* phone could not know of.                                                  *)
THEOREM PerformedOnceUnlessBlind == Spec => []OnceUnlessBlind
BY Promises, QueueInvariant, PTL

-----------------------------------------------------------------------------
(* The order of the lists                                                    *)

(* The pairs of mutations of a list, in their order.                         *)
Order(list) ==
  {p \in Ids(list) \X Ids(list) :
     \E i, j \in DOMAIN list : i < j /\ list[i].id = p[1] /\ list[j].id = p[2]}

FlushOrder(c) ==
  Order(flush[c].kept) \cup Order(flush[c].rest)
    \cup Ids(flush[c].kept) \X Ids(flush[c].rest)

Orders == Order(queue) \cup (UNION {Order(copy[n]) : n \in Writing})
                       \cup (UNION {FlushOrder(c) : c \in Sending})

(* Every mutation is appended once, and no list is ever turned round: all    *)
(* the lists in storage and in hand agree on who came first.                 *)
OneOrder == \A a, b \in Mutations : <<a, b>> \in Orders => <<b, a>> \notin Orders

(* Of two entries of a list the earlier one is before the later one.         *)
LEMMA OrderPair ==
  ASSUME NEW s \in Seq(Entry), NEW i \in DOMAIN s, NEW j \in DOMAIN s, i < j
  PROVE  <<s[i].id, s[j].id>> \in Order(s)
BY DEF Order, Ids

(* An appended entry is behind all the others.                               *)
LEMMA OrderOfAppend ==
  ASSUME NEW s \in Seq(Entry), NEW e \in Entry
  PROVE  Order(Append(s, e)) \subseteq Order(s) \cup Ids(s) \X {e.id}
<1> DEFINE t == Append(s, e)
<1>1. /\ t \in Seq(Entry)
      /\ DOMAIN t = 1 .. Len(s) + 1 /\ DOMAIN s = 1 .. Len(s) /\ Len(s) \in Nat
      /\ t[Len(s) + 1] = e
      /\ \A i \in 1 .. Len(s) : t[i] = s[i]
  OBVIOUS
<1>2. \A i, j \in 1 .. Len(s) + 1 : i < j => i \in 1 .. Len(s) /\ (j \in 1 .. Len(s) \/ j = Len(s) + 1)
  BY <1>1
<1> HIDE DEF t
<1>3. ASSUME NEW p \in Order(t) PROVE p \in Order(s) \cup Ids(s) \X {e.id}
  <2>1. PICK i \in DOMAIN t, j \in DOMAIN t : i < j /\ p = <<t[i].id, t[j].id>>
    BY DEF Order
  <2>2. i \in DOMAIN s /\ t[i] = s[i] /\ s[i].id \in Ids(s)
    BY <1>1, <1>2, <2>1 DEF Ids
  <2>3. CASE j \in DOMAIN s
    BY <1>1, <2>1, <2>2, <2>3, OrderPair
  <2>4. CASE j \notin DOMAIN s
    <3>1. t[j] = e
      BY <1>1, <1>2, <2>1, <2>4
    <3> QED
      BY <2>1, <2>2, <3>1
  <2> QED
    BY <2>3, <2>4
<1> QED
  BY <1>3 DEF t

(* Taking the first entry leaves the order of the others.                    *)
LEMMA OrderOfTail ==
  ASSUME NEW s \in Seq(Entry), s # <<>>
  PROVE  Order(Tail(s)) \subseteq Order(s) /\ {Head(s).id} \X Ids(Tail(s)) \subseteq Order(s)
<1> DEFINE t == Tail(s)
<1>1. /\ Len(s) \in Nat /\ Len(s) > 0 /\ DOMAIN s = 1 .. Len(s)
      /\ Head(s) = s[1] /\ t \in Seq(Entry)
      /\ DOMAIN t = 1 .. Len(s) - 1
      /\ \A i \in 1 .. Len(s) - 1 : t[i] = s[i + 1]
  OBVIOUS
<1>2. \A i \in 1 .. Len(s) - 1 : i + 1 \in 1 .. Len(s) /\ 1 < i + 1 /\ 1 \in 1 .. Len(s)
  BY <1>1
<1>3. \A i, j \in 1 .. Len(s) - 1 : i < j => i + 1 < j + 1
  BY <1>1
<1> HIDE DEF t
<1>4. ASSUME NEW p \in Order(t) PROVE p \in Order(s)
  <2>1. PICK i \in DOMAIN t, j \in DOMAIN t : i < j /\ p = <<t[i].id, t[j].id>>
    BY DEF Order
  <2>2. i + 1 \in DOMAIN s /\ j + 1 \in DOMAIN s /\ i + 1 < j + 1 /\ p = <<s[i + 1].id, s[j + 1].id>>
    BY <1>1, <1>2, <1>3, <2>1
  <2> QED
    BY <2>2, OrderPair
<1>5. ASSUME NEW b \in Ids(t) PROVE <<Head(s).id, b>> \in Order(s)
  <2>1. PICK j \in DOMAIN t : t[j].id = b
    BY DEF Ids
  <2>2. 1 \in DOMAIN s /\ j + 1 \in DOMAIN s /\ 1 < j + 1 /\ s[1].id = Head(s).id /\ s[j + 1].id = b
    BY <1>1, <1>2, <2>1
  <2>3. <<s[1].id, s[j + 1].id>> \in Order(s)
    BY <2>2, OrderPair
  <2> QED
    BY <2>2, <2>3
<1> QED
  BY <1>4, <1>5 DEF t

(* The empty list orders nothing.                                            *)
LEMMA OrderOfEmpty == Order(<<>>) = {}
BY DEF Order

(* Where a pair of Orders comes from.                                        *)
LEMMA InOrders ==
  ASSUME NEW p
  PROVE  p \in Orders <=> \/ p \in Order(queue)
                          \/ \E n \in Writing : p \in Order(copy[n])
                          \/ \E c \in Sending : p \in FlushOrder(c)
<1> DEFINE Copies == UNION {Order(copy[n]) : n \in Writing}
           Flushes == UNION {FlushOrder(c) : c \in Sending}
<1>1. p \in Copies <=> \E n \in Writing : p \in Order(copy[n])
  BY Zenon
<1>2. p \in Flushes <=> \E c \in Sending : p \in FlushOrder(c)
  BY Zenon
<1>3. Orders = Order(queue) \cup Copies \cup Flushes
  BY DEF Orders
<1>4. p \in Orders <=> p \in Order(queue) \/ p \in Copies \/ p \in Flushes
  <2> HIDE DEF Copies, Flushes
  <2> QED
    BY <1>3, SMT
<1> HIDE DEF Copies, Flushes
<1> QED
  BY <1>1, <1>2, <1>4

(* Every list agrees with Orders.                                            *)
LEMMA OrdersHold ==
  /\ Order(queue) \subseteq Orders
  /\ \A n \in Writing : Order(copy[n]) \subseteq Orders
  /\ \A c \in Sending :
       /\ Order(flush[c].kept) \subseteq Orders
       /\ Order(flush[c].rest) \subseteq Orders
       /\ Ids(flush[c].kept) \X Ids(flush[c].rest) \subseteq Orders
<1>1. \A c \in Sending : FlushOrder(c) \subseteq Orders
  BY InOrders, Zenon
<1>2. Order(queue) \subseteq Orders /\ \A n \in Writing : Order(copy[n]) \subseteq Orders
  BY InOrders, Zenon
<1> QED
  BY <1>1, <1>2 DEF FlushOrder

(* Orders is within what bounds the order of each list.                      *)
LEMMA OrdersWithin ==
  ASSUME NEW S,
         Order(queue') \subseteq S,
         \A n \in Writing' : Order(copy'[n]) \subseteq S,
         \A c \in Sending' :
           /\ Order(flush'[c].kept) \subseteq S
           /\ Order(flush'[c].rest) \subseteq S
           /\ Ids(flush'[c].kept) \X Ids(flush'[c].rest) \subseteq S
  PROVE  Orders' \subseteq S
<1> DEFINE Copies == UNION {Order(copy'[n]) : n \in Writing'}
           Flushes == UNION {FlushOrder(c)' : c \in Sending'}
<1>1. \A c \in Sending' : FlushOrder(c)' \subseteq S
  BY DEF FlushOrder
<1>2. Copies \subseteq S
  BY Zenon
<1>3. Flushes \subseteq S
  BY <1>1, Zenon
<1>4. Orders' = Order(queue') \cup Copies \cup Flushes
  BY DEF Orders
<1> HIDE DEF Copies, Flushes
<1> QED
  BY <1>2, <1>3, <1>4

(* Only the end of an enqueue adds pairs, those of a mutation that is in no  *)
(* list yet.                                                                 *)
LEMMA NoNewOrder ==
  ASSUME OneOrder, Orders' \subseteq Orders
  PROVE  OneOrder'
BY DEF OneOrder

(* The new entry is in no other list: it can go behind every entry.          *)
LEMMA EnqueueWriteOrder ==
  ASSUME TypeOK, QueueInv, OneOrder, NEW m \in Mutations, EnqueueWrite(m)
  PROVE  OneOrder'
<1>1. /\ flush' = flush /\ m \in Writing /\ op[m] = "write"
      /\ \A n \in Mutations : n # m => op'[n] = op[n] /\ copy'[n] = copy[n]
      /\ op'[m] = "queued"
  BY DEF EnqueueWrite, Writing, TypeOK
<1>2. Sending' = Sending /\ Writing' = Writing \ {m} /\ \A n \in Writing' : copy'[n] = copy[n]
  BY <1>1 DEF Sending, Writing
<1>3. Order(queue') \subseteq Order(copy[m]) \cup Ids(copy[m]) \X {m}
  <2>1. [id |-> m, retries |-> 0] \in Entry /\ [id |-> m, retries |-> 0].id = m
    BY MaxRetriesAssumption DEF Entry
  <2>2. copy[m] \in Seq(Entry)
    BY ListsInHand
  <2> QED
    BY <2>1, <2>2, OrderOfAppend DEF EnqueueWrite
<1>4. m \notin Ids(copy[m])
  BY <1>1 DEF QueueInv, QueuedOnly
<1> DEFINE New == (Mutations \ {m}) \X {m}
<1>5. Orders' \subseteq Orders \cup New
  <2>1. Order(queue') \subseteq Orders \cup New
    <3>1. Ids(copy[m]) \X {m} \subseteq New
      BY <1>4, ListsInHand
    <3>2. Order(copy[m]) \subseteq Orders
      BY <1>1, OrdersHold
    <3> QED
      BY <1>3, <3>1, <3>2
  <2>2. \A n \in Writing' : Order(copy'[n]) \subseteq Orders \cup New
    BY <1>2, OrdersHold
  <2>3. \A c \in Sending' :
           /\ Order(flush'[c].kept) \subseteq Orders \cup New
           /\ Order(flush'[c].rest) \subseteq Orders \cup New
           /\ Ids(flush'[c].kept) \X Ids(flush'[c].rest) \subseteq Orders \cup New
    BY <1>1, <1>2, OrdersHold
  <2> HIDE DEF New
  <2> QED
    BY <2>1, <2>2, <2>3, OrdersWithin
<1>6. \A a \in Mutations : <<m, a>> \notin Orders
  <2>1. m \notin Ids(queue)
    BY <1>1 DEF QueueInv, QueuedOnly
  <2>2. \A n \in Writing : m \notin Ids(copy[n])
    BY <1>1 DEF QueueInv, QueuedOnly
  <2>3. \A c \in Sending : m \notin Ids(flush[c].rest) /\ m \notin Ids(flush[c].kept)
    BY <1>1 DEF QueueInv, QueuedOnly
  <2>4. \A a : <<m, a>> \notin Order(queue)
    BY <2>1 DEF Order
  <2>5. \A n \in Writing : \A a : <<m, a>> \notin Order(copy[n])
    BY <2>2 DEF Order
  <2>6. \A c \in Sending : \A a : <<m, a>> \notin FlushOrder(c)
    BY <2>3 DEF Order, FlushOrder
  <2> QED
    BY <2>4, <2>5, <2>6, InOrders
<1> QED
  BY <1>5, <1>6 DEF OneOrder

(* An entry kept for a retry stays before all those not yet sent.            *)
LEMMA FlushSendOrder ==
  ASSUME TypeOK, QueueInv, NEW c \in Callers, NEW outcome \in Outcomes, FlushSend(c, outcome)
  PROVE  Orders' \subseteq Orders
<1> DEFINE m == First(c).id
<1>1. Sending' = Sending /\ Writing' = Writing /\ queue' = queue /\ copy' = copy /\ c \in Sending
  BY FlushSendEffect DEF Sending, Writing
<1>2. \A d \in Sending : d = c
  BY <1>1 DEF QueueInv, OneFlush, Sending
<1>3. FlushOrder(c) = Order(Kept(c)) \cup Order(Rest(c)) \cup Ids(Kept(c)) \X Ids(Rest(c))
  BY DEF FlushOrder, Kept, Rest
<1>4. /\ Ids(Rest(c)) = {m} \cup Ids(Tail(Rest(c)))
      /\ Order(Tail(Rest(c))) \subseteq Order(Rest(c))
      /\ {m} \X Ids(Tail(Rest(c))) \subseteq Order(Rest(c))
  BY FlushSendEffect, OrderOfTail DEF First
<1>5. FlushOrder(c)' \subseteq FlushOrder(c)
  <2>1. CASE flush'[c].rest = Rest(c) /\ flush'[c].kept = Kept(c)
    BY <1>3, <2>1 DEF FlushOrder
  <2>2. CASE flush'[c].rest = Tail(Rest(c)) /\ flush'[c].kept = Kept(c)
    BY <1>3, <1>4, <2>2 DEF FlushOrder
  <2>3. CASE /\ flush'[c].rest = Tail(Rest(c)) /\ Keeps(First(c), outcome)
             /\ flush'[c].kept = Append(Kept(c), [First(c) EXCEPT !.retries = @ + 1])
    <3>1. /\ Order(flush'[c].kept) \subseteq Order(Kept(c)) \cup Ids(Kept(c)) \X {m}
          /\ Ids(flush'[c].kept) = Ids(Kept(c)) \cup {m}
      <4>1. /\ Kept(c) \in Seq(Entry)
            /\ [First(c) EXCEPT !.retries = @ + 1] \in Entry
            /\ [First(c) EXCEPT !.retries = @ + 1].id = m
        BY <2>3, FlushSendEffect, KeptEntry
      <4> HIDE DEF m
      <4> QED
        BY <2>3, <4>1, OrderOfAppend, IdsOfAppend
    <3>2. FlushOrder(c)' = Order(flush'[c].kept) \cup Order(Tail(Rest(c)))
                             \cup Ids(flush'[c].kept) \X Ids(Tail(Rest(c)))
      BY <2>3 DEF FlushOrder
    <3> HIDE DEF m
    <3> QED
      BY <1>3, <1>4, <3>1, <3>2
  <2> QED
    BY <2>1, <2>2, <2>3, FlushSendEffect
<1>6. \A d \in Sending' : FlushOrder(d)' \subseteq FlushOrder(d)
  BY <1>1, <1>2, <1>5
<1> QED
  BY <1>1, <1>6 DEF Orders

(* Every step keeps one order among the mutations.                           *)
LEMMA OrderStep ==
  ASSUME TypeOK, QueueInv, OneOrder, [Next]_vars
  PROVE  OneOrder'
<1>1. ASSUME UNCHANGED queue,
             \A c \in Sending' : c \in Sending /\ flush'[c] = flush[c],
             \A n \in Writing' : n \in Writing /\ copy'[n] = copy[n]
      PROVE  OneOrder'
  <2>1. Orders' \subseteq Orders
    BY <1>1, OrdersHold, OrdersWithin
  <2> QED
    BY <2>1, NoNewOrder
<1>2. ASSUME NEW m \in Mutations, Issue(m) PROVE OneOrder'
  <2>1. CASE EnqueueRead(m)
    <3>1. /\ flush' = flush /\ queue' = queue
          /\ \A n \in Writing' : n = m \/ (n \in Writing /\ copy'[n] = copy[n])
          /\ copy'[m] = queue
      BY <2>1 DEF EnqueueRead, Writing, TypeOK
    <3>2. Sending' = Sending
      BY <3>1 DEF Sending
    <3>3. \A n \in Writing' : Order(copy'[n]) \subseteq Orders
      BY <3>1, OrdersHold
    <3>4. Orders' \subseteq Orders
      BY <3>1, <3>2, <3>3, OrdersHold, OrdersWithin
    <3> QED
      BY <3>4, NoNewOrder
  <2>2. CASE \/ MutateWithOfflineQueue(m) \/ RecordPosition(m) \/ EnqueueFails(m)
             \/ \E outcome \in Outcomes : RequestAnswer(m, outcome)
    <3>1. /\ flush' = flush /\ queue' = queue
          /\ \A n \in Writing' : n \in Writing /\ copy'[n] = copy[n]
      BY <2>2 DEF MutateWithOfflineQueue, RecordPosition, EnqueueFails, RequestAnswer, Writing, TypeOK
    <3> QED
      BY <1>1, <3>1 DEF Sending
  <2> QED
    BY <1>2, <2>1, <2>2, EnqueueWriteOrder DEF Issue
<1>3. ASSUME NEW c \in Callers, FlushStep(c) PROVE OneOrder'
  <2>1. CASE FlushRead(c)
    <3>1. /\ queue' = queue /\ copy' = copy /\ Writing' = Writing
          /\ flush'[c].rest = queue /\ flush'[c].kept = <<>>
          /\ \A d \in Callers : d # c => flush'[d].pc = "idle"
      BY <2>1 DEF FlushRead, TypeOK, Flush, QueueInv, OneFlush, Writing
    <3>2. \A d \in Sending' : d = c
      BY <3>1 DEF Sending
    <3>3. Ids(<<>>) \X Ids(queue) = {} /\ Order(<<>>) = {}
      BY OrderOfEmpty, IdsOfEmpty
    <3>4. Orders' \subseteq Orders
      BY <3>1, <3>2, <3>3, OrdersHold, OrdersWithin
    <3> QED
      BY <3>4, NoNewOrder
  <2>2. CASE FlushSave(c)
    <3>1. /\ copy' = copy /\ Writing' = Writing /\ c \in Sending /\ queue' = flush[c].kept
          /\ Sending' = {}
      BY <2>2 DEF FlushSave, TypeOK, NoFlush, QueueInv, OneFlush, Writing, Sending
    <3>2. Orders' \subseteq Orders
      BY <3>1, OrdersHold, OrdersWithin
    <3> QED
      BY <3>2, NoNewOrder
  <2> QED
    BY <1>3, <2>1, <2>2, FlushSendOrder, NoNewOrder DEF FlushStep
<1>4. ASSUME NEW c \in Callers, FlushFails(c) \/ Sync(c) \/ \E state \in NetInfoStates : NetInfoEvent(c, state)
      PROVE  OneOrder'
  <2>1. /\ UNCHANGED <<queue, op, copy>>
        /\ \A d \in Callers : flush'[d] = flush[d] \/ flush'[d].pc \in {"idle", "get"}
    <3>1. CASE FlushFails(c)
      BY <3>1 DEF FlushFails, NoFlush, TypeOK
    <3>2. CASE Sync(c) \/ \E state \in NetInfoStates : NetInfoEvent(c, state)
      <4>1. UNCHANGED <<queue, op, copy>> /\ (flush' = flush \/ flush' = [flush EXCEPT ![c] = [NoFlush EXCEPT !.pc = "get"]])
        BY <3>2 DEF Sync, NetInfoEvent, FlushQueue
      <4> QED
        BY <4>1 DEF NoFlush, TypeOK
    <3> QED
      BY <1>4, <3>1, <3>2
  <2> QED
    BY <1>1, <2>1 DEF Writing, Sending
<1>5. CASE Kill
  BY <1>1, <1>5 DEF Kill, Killed, Sending, Writing, NoFlush, TypeOK
<1>6. CASE ReadFailed \/ UNCHANGED vars \/ \E state \in NetInfoStates : StartupFetch(state)
  BY <1>1, <1>6 DEF ReadFailed, StartupFetch, vars, Sending, Writing
<1> QED
  BY <1>2, <1>3, <1>4, <1>5, <1>6 DEF Next

(* At startup there is nothing to order.                                     *)
LEMMA OrderAtStart == Init => OneOrder
<1> SUFFICES ASSUME Init PROVE OneOrder
  OBVIOUS
<1>1. Sending = {} /\ Writing = {} /\ Order(queue) = {}
  BY OrderOfEmpty DEF Init, Sending, Writing, NoFlush
<1> QED
  BY <1>1 DEF OneOrder, Orders

(* The lists agree on their order in every reachable state.                  *)
THEOREM OrderInvariant == Spec => []OneOrder
BY OrderAtStart, OrderStep, QueueTypeCorrect, QueueInvariant, PTL DEF Spec

(* A flush that has done with an entry has tried every earlier one before.   *)
LEMMA SentStep ==
  ASSUME TypeOK, QueueInv, OneOrder, Next,
         NEW i \in DOMAIN queue, NEW j \in DOMAIN queue, i < j,
         queue[j].id \in settled' \ settled, queue[i].id \notin overlapped
  PROVE  \/ queue[i].id \in settled
         \/ \E c \in Callers : queue[i].id \in Ids(flush[c].kept)
<1>1. PICK c \in Callers, outcome \in Outcomes : FlushSend(c, outcome)
  <2>1. UNCHANGED settled => FALSE
    OBVIOUS
  <2> QED
    BY <2>1, Zenon DEF Next, Issue, FlushStep, MutateWithOfflineQueue, RecordPosition, RequestAnswer,
       EnqueueRead, EnqueueWrite, EnqueueFails, FlushRead, FlushSave, FlushFails, Sync, NetInfoEvent,
       StartupFetch, ReadFailed, Kill, Killed
<1> DEFINE a == queue[i].id
           m == First(c).id
<1>2. /\ c \in Sending /\ queue[j].id = m
      /\ Ids(Rest(c)) = {m} \cup Ids(Tail(Rest(c)))
      /\ {m} \X Ids(Tail(Rest(c))) \subseteq Order(Rest(c))
  BY <1>1, FlushSendEffect, OrderOfTail DEF First
<1>3. a \in Mutations /\ m \in Mutations /\ op[a] = "queued" /\ <<a, m>> \in Orders /\ a # m
  <2>1. queue \in Seq(Entry) /\ a \in Ids(queue) /\ m \in Ids(queue)
    BY <1>2, ListsInHand DEF Ids
  <2>2. <<a, m>> \in Order(queue)
    BY <1>2, <2>1, OrderPair
  <2>3. i # j
    BY <2>1
  <2>4. a # m
    BY <1>2, <2>3 DEF QueueInv, EachOnce, Distinct
  <2> QED
    BY <2>1, <2>2, <2>4, IdsAreMutations DEF QueueInv, QueuedOnly, Orders
<1>4. a \notin Ids(Tail(Rest(c)))
  <2>1. Order(Rest(c)) \subseteq Orders
    BY <1>2, OrdersHold DEF Rest
  <2>2. a \in Ids(Tail(Rest(c))) => <<m, a>> \in Orders
    BY <1>2, <2>1
  <2> QED
    BY <1>3, <2>2 DEF OneOrder
<1>5. a \in settled \/ a \in Ids(Rest(c)) \cup Ids(Kept(c))
  BY <1>2, <1>3 DEF QueueInv, InEveryList, Rest, Kept
<1> QED
  BY <1>2, <1>3, <1>4, <1>5 DEF Kept

(* "Drained in order": when a flush has done with an entry, every earlier    *)
(* one has been tried.                                                       *)
THEOREM EntriesAreSentInOrder == Spec => SentInOrder
<1>1. TypeOK /\ QueueInv /\ OneOrder /\ [Next]_vars =>
        [\A i, j \in DOMAIN queue :
           /\ i < j
           /\ queue[j].id \in settled' \ settled
           /\ queue[i].id \notin overlapped
           => \/ queue[i].id \in settled
              \/ \E c \in Callers : queue[i].id \in Ids(flush[c].kept)]_vars
  BY SentStep
<1> QED
  BY <1>1, QueueTypeCorrect, QueueInvariant, OrderInvariant, PTL DEF Spec, SentInOrder
=============================================================================
