-------------------------- MODULE FsmService_proofs --------------------------
(* For any workflow definition and any number of requests: what a workflow   *)
(* instance and its history still promise although transitions are validated *)
(* against a read made before the row was locked.                            *)
EXTENDS FsmService, TLAPS

(* A request that has read works on an instance that is committed, or on the *)
(* one it made itself.                                                       *)
MineInv ==
  \A r \in Requests :
    pc[r] \in {"found", "locked"} => mine[r] \in instances \union {r}

-----------------------------------------------------------------------------
(* Types.                                                                    *)

(* What a commit leaves in an instance has the types of its columns.         *)
LEMMA CommitTypes ==
  ASSUME TypeOK, MineInv, NEW r \in Requests, Commit(r)
  PROVE  TypeOK'
<1>1. mine[r] \in Requests
  BY DEF TypeOK, MineInv, Commit
<1>2. /\ seen[r] \in States \X (Nat \ {0}) /\ seen[r][1] \in States
      /\ seen[r][2] \in Nat \ {0} /\ target[r] \in States
  BY DEF TypeOK
<1>3. state' \in [Requests -> States]
  BY <1>1, <1>2 DEF TypeOK, Commit, SetState
<1>4. version' \in [Requests -> Nat \ {0}]
  BY <1>1, <1>2 DEF TypeOK, Commit, NextVersion
<1>5. history' \in [Requests -> Seq(States \X States)]
  <2>1. history[mine[r]] \in Seq(States \X States)
    BY <1>1 DEF TypeOK
  <2>2. Append(history[mine[r]], <<seen[r][1], target[r]>>) \in Seq(States \X States)
    BY <1>2, <2>1
  <2> QED
    BY <1>1, <2>2 DEF TypeOK, Commit
<1>6. pc' \in [Requests -> PCs] /\ locked' \subseteq Requests /\ instances' \subseteq Requests
  BY <1>1 DEF TypeOK, PCs, Commit, Goto, Unlock
<1> QED
  BY <1>3, <1>4, <1>5, <1>6 DEF TypeOK, Commit

(* Every step keeps the instances, their history and the requests typed.     *)
LEMMA TypeStep ==
  ASSUME TypeOK, MineInv, [Next]_vars
  PROVE  TypeOK'
<1>1. CASE UNCHANGED vars
  BY <1>1 DEF TypeOK, vars
<1>2. ASSUME NEW r \in Requests, NEW i \in instances, Find(r, i) PROVE TypeOK'
  <2>1. i \in Requests /\ <<state[i], version[i]>> \in States \X (Nat \ {0})
    BY DEF TypeOK
  <2> QED
    BY <1>2, <2>1 DEF TypeOK, PCs, Find, Goto
<1>3. ASSUME NEW r \in Requests, Create(r) \/ FindMany(r) \/ CreateInstance(r)
      PROVE  TypeOK'
  <2>1. CASE Create(r)
    BY <2>1 DEF TypeOK, PCs, Create, Goto
  <2>2. CASE FindMany(r) \/ CreateInstance(r)
    BY <2>2 DEF TypeOK, PCs, FindMany, CreateInstance, Goto
  <2> QED
    BY <1>3, <2>1, <2>2
<1>4. ASSUME NEW r \in Requests, Lock(r) PROVE TypeOK'
  <2>1. mine[r] \in Requests
    BY <1>4 DEF TypeOK, MineInv, Lock
  <2> QED
    BY <1>4, <2>1 DEF TypeOK, PCs, Lock, Goto
<1>5. ASSUME NEW r \in Requests, Commit(r) PROVE TypeOK'
  BY <1>5, CommitTypes
<1>6. ASSUME NEW r \in Requests, Refuse(r) \/ Die(r) PROVE TypeOK'
  BY <1>6 DEF TypeOK, PCs, Refuse, Die, Goto, Unlock
<1> QED
  BY <1>1, <1>2, <1>3, <1>4, <1>5, <1>6 DEF Next

(* What a request works on stays committed, or its own.                      *)
LEMMA MineStep ==
  ASSUME TypeOK, MineInv, [Next]_vars
  PROVE  MineInv'
<1>1. CASE UNCHANGED vars
  BY <1>1 DEF MineInv, vars
<1>2. ASSUME NEW r \in Requests, NEW i \in instances, Find(r, i) PROVE MineInv'
  BY <1>2 DEF TypeOK, MineInv, Find, Goto
<1>3. ASSUME NEW r \in Requests, Create(r) PROVE MineInv'
  BY <1>3 DEF TypeOK, MineInv, Create, Goto
<1>4. ASSUME NEW r \in Requests, FindMany(r) \/ CreateInstance(r) PROVE MineInv'
  BY <1>4 DEF TypeOK, MineInv, FindMany, CreateInstance, Goto
<1>5. ASSUME NEW r \in Requests, Lock(r) \/ Refuse(r) \/ Die(r) PROVE MineInv'
  BY <1>5 DEF TypeOK, MineInv, Lock, Refuse, Die, Goto
<1>6. ASSUME NEW r \in Requests, Commit(r) PROVE MineInv'
  BY <1>6 DEF TypeOK, MineInv, Commit, Goto
<1> QED
  BY <1>1, <1>2, <1>3, <1>4, <1>5, <1>6 DEF Next

(* Both, in every state of the engine.                                       *)
LEMMA MineInvariant == Spec => [](TypeOK /\ MineInv)
<1>1. Init => TypeOK /\ MineInv
  <2> SUFFICES ASSUME Init PROVE TypeOK /\ MineInv
    OBVIOUS
  <2>1. state \in [Requests -> States] /\ target \in [Requests -> States]
    BY FsmAssumption DEF Init
  <2>2. version \in [Requests -> Nat \ {0}] /\ pc \in [Requests -> PCs]
    BY DEF Init, PCs
  <2>3. history \in [Requests -> Seq(States \X States)]
    BY DEF Init
  <2>4. seen \in [Requests -> States \X (Nat \ {0})]
    BY <2>1 DEF Init
  <2>5. mine \in [Requests -> Requests \union {None}]
    BY DEF Init
  <2> QED
    BY <2>1, <2>2, <2>3, <2>4, <2>5 DEF Init, TypeOK, MineInv
<1>2. TypeOK /\ MineInv /\ [Next]_vars => (TypeOK /\ MineInv)'
  BY TypeStep, MineStep
<1> QED
  BY <1>1, <1>2, PTL DEF Spec

(* Every column, and every request, keeps to its type: get_or_create_instance *)
(* and transition never write a row they have not found or made.             *)
THEOREM FsmTypeCorrect == Spec => []TypeOK
  BY MineInvariant, PTL

-----------------------------------------------------------------------------
(* States.                                                                   *)

(* The states a set that holds Initial and follows Edges has in common.      *)
Closed(S) == Initial \subseteq S /\ \A e \in Edges : e[1] \in S => e[2] \in S

(* Every row and every read is in such a set, also the rows to be made.      *)
StatesIn(S) == \A r \in Requests : state[r] \in S /\ seen[r][1] \in S

(* A transition follows an edge from a state some read found in the set.     *)
LEMMA StatesInStep ==
  ASSUME TypeOK, MineInv, [Next]_vars, NEW S \in SUBSET States, Closed(S), StatesIn(S)
  PROVE  StatesIn(S)'
<1>1. ASSUME NEW r \in Requests, NEW i \in instances, Find(r, i) PROVE StatesIn(S)'
  <2>1. i \in Requests
    BY DEF TypeOK
  <2>2. seen' = [seen EXCEPT ![r] = <<state[i], version[i]>>] /\ state' = state
    BY <1>1 DEF Find
  <2> QED
    BY <2>1, <2>2 DEF StatesIn, TypeOK
<1>2. ASSUME NEW r \in Requests, Commit(r) PROVE StatesIn(S)'
  <2>1. mine[r] \in Requests
    BY <1>2 DEF TypeOK, MineInv, Commit
  <2>2. <<seen[r][1], target[r]>> \in Edges
    BY <1>2 DEF Commit, FindTransition
  <2>3. target[r] \in S
    BY <2>2 DEF Closed, StatesIn
  <2>4. state' = [state EXCEPT ![mine[r]] = SetState(seen[r][1], target[r], state[mine[r]])]
    BY <1>2 DEF Commit
  <2>5. SetState(seen[r][1], target[r], state[mine[r]]) \in S
    BY <2>1, <2>3 DEF SetState, StatesIn
  <2>6. seen' = seen
    BY <1>2 DEF Commit
  <2> QED
    BY <2>1, <2>4, <2>5, <2>6 DEF StatesIn, TypeOK
<1>3. CASE UNCHANGED <<state, seen>>
  BY <1>3 DEF StatesIn
<1> QED
  BY <1>1, <1>2, <1>3 DEF Next, vars, Create, FindMany, CreateInstance, Lock, Refuse, Die

(* However stale what a transition was validated against, an instance stays  *)
(* in the states its workflow leads to (_find_transition).                   *)
THEOREM StatesAreReachable == Spec => []StateReachable
<1> DEFINE Inv == \A S \in SUBSET States : Closed(S) => StatesIn(S)
<1>1. Init => Inv
  <2> SUFFICES ASSUME Init, NEW S \in SUBSET States, Closed(S) PROVE StatesIn(S)
    OBVIOUS
  <2>1. \A r \in Requests : state[r] \in Initial
    BY DEF Init
  <2>2. \A r \in Requests : seen[r][1] = state[r]
    BY DEF Init
  <2> QED
    BY <2>1, <2>2 DEF Closed, StatesIn
<1>2. TypeOK /\ MineInv /\ Inv /\ [Next]_vars => Inv'
  <2> SUFFICES ASSUME TypeOK, MineInv, Inv, [Next]_vars, NEW S \in SUBSET States, Closed(S)
               PROVE  StatesIn(S)'
    BY DEF Closed
  <2>1. StatesIn(S)
    OBVIOUS
  <2> QED
    BY <2>1, StatesInStep
<1>3. TypeOK /\ Inv => StateReachable
  BY DEF TypeOK, Closed, StatesIn, StateReachable
<1> QED
  BY <1>1, <1>2, <1>3, MineInvariant, PTL DEF Spec

-----------------------------------------------------------------------------
(* Versions.                                                                 *)

(* The history of an instance is only added to, at its end.                  *)
LEMMA HistoryGrows ==
  ASSUME TypeOK, MineInv, NEW r \in Requests, Commit(r)
  PROVE  /\ mine[r] \in Requests
         /\ history'[mine[r]] = Append(history[mine[r]], <<seen[r][1], target[r]>>)
         /\ \A i \in Requests : i # mine[r] => history'[i] = history[i]
         /\ \A i \in Requests :
              \A k \in DOMAIN history[i] :
                k \in DOMAIN history'[i] /\ history'[i][k] = history[i][k]
         /\ mine[r] \in instances' /\ instances \subseteq instances'
<1>1. mine[r] \in Requests
  BY DEF TypeOK, MineInv, Commit
<1>2. history' = [history EXCEPT ![mine[r]] = Append(@, <<seen[r][1], target[r]>>)]
  BY DEF Commit
<1>3. history'[mine[r]] = Append(history[mine[r]], <<seen[r][1], target[r]>>)
  BY <1>1, <1>2 DEF TypeOK
<1>4. \A i \in Requests : i # mine[r] => history'[i] = history[i]
  BY <1>2 DEF TypeOK
<1>5. ASSUME NEW i \in Requests, NEW k \in DOMAIN history[i]
      PROVE  k \in DOMAIN history'[i] /\ history'[i][k] = history[i][k]
  <2>1. CASE i = mine[r]
    <3>1. history[i] \in Seq(States \X States)
      BY DEF TypeOK
    <3> QED
      BY <1>3, <2>1, <3>1
  <2> QED
    BY <1>4, <2>1
<1> QED
  BY <1>1, <1>3, <1>4, <1>5 DEF Commit

(* A history without a gap whose last transition led to st.                  *)
LeadsTo(h, st) == Chained(h) /\ (Len(h) > 0 => h[Len(h)][2] = st)

(* The version never exceeds the recorded transitions by more than the one   *)
(* it starts with.  As long as it keeps up with them the history has led to  *)
(* the current state; a read that keeps up has not been overtaken.           *)
RowInv ==
  \A i \in instances :
    /\ version[i] <= Len(history[i]) + 1
    /\ version[i] = Len(history[i]) + 1 => LeadsTo(history[i], state[i])

ReadInv ==
  \A r \in Requests : pc[r] \in {"found", "locked"} =>
    /\ seen[r][2] <= Len(history[mine[r]]) + 1
    /\ seen[r][2] = Len(history[mine[r]]) + 1 =>
         LeadsTo(history[mine[r]], seen[r][1]) /\ state[mine[r]] = seen[r][1]

(* A request that has not looked yet has left nothing behind.                *)
NewInv ==
  \A r \in Requests : pc[r] = "new" =>
    /\ r \notin instances
    /\ seen[r] = <<state[r], 1>> /\ version[r] = 1 /\ history[r] = <<>>

LossInv == RowInv /\ ReadInv /\ NewInv

(* A transition from where the history led continues it without a gap.       *)
LEMMA ChainAppend ==
  ASSUME NEW h \in Seq(States \X States), NEW s \in States, NEW t \in States, LeadsTo(h, s)
  PROVE  LeadsTo(Append(h, <<s, t>>), t)
<1> DEFINE g == Append(h, <<s, t>>)
<1>1. Len(h) \in Nat /\ Len(g) = Len(h) + 1 /\ g[Len(h) + 1] = <<s, t>>
  OBVIOUS
<1>2. \A k \in 1..Len(h) : g[k] = h[k]
  OBVIOUS
<1>3. ASSUME NEW k \in 1..Len(h) PROVE g[k][2] = g[k + 1][1]
  <2>1. CASE k = Len(h)
    BY <1>1, <1>2, <2>1 DEF LeadsTo
  <2>2. CASE k < Len(h)
    <3>1. k \in 1..Len(h) - 1 /\ k + 1 \in 1..Len(h)
      BY <1>1, <2>2
    <3>2. h[k][2] = h[k + 1][1]
      BY <3>1 DEF LeadsTo, Chained
    <3> QED
      BY <1>2, <3>1, <3>2
  <2> QED
    BY <1>1, <2>1, <2>2
<1>4. Chained(g)
  BY <1>1, <1>3 DEF Chained
<1> HIDE DEF g
<1>5. Len(g) > 0 => g[Len(g)][2] = t
  BY <1>1
<1> QED
  BY <1>4, <1>5 DEF LeadsTo, g

(* A commit that was overtaken falls behind the history; one that was not    *)
(* continues it.                                                             *)
LEMMA LossStepCommit ==
  ASSUME TypeOK, MineInv, LossInv, NEW r \in Requests, Commit(r)
  PROVE  LossInv'
<1> DEFINE i == mine[r]
           h == history[i]
           from == seen[r][1]
           to == target[r]
<1>1. i \in Requests /\ h \in Seq(States \X States) /\ from \in States /\ to \in States
  BY HistoryGrows DEF TypeOK
<1>2. Len(h) \in Nat /\ seen[r][2] \in Nat
  BY <1>1 DEF TypeOK
<1>3. /\ pc[r] = "locked" /\ pc' = [pc EXCEPT ![r] = "done"]
      /\ instances' = instances \union {i}
      /\ state' = [state EXCEPT ![i] = SetState(from, to, state[i])]
      /\ version' = [version EXCEPT ![i] = seen[r][2] + 1]
      /\ UNCHANGED <<mine, seen, target>>
  BY DEF Commit, NextVersion, Goto
<1>4. /\ history'[i] = Append(h, <<from, to>>)
      /\ \A j \in Requests : j # i => history'[j] = history[j]
  BY HistoryGrows
<1>5. Len(history'[i]) = Len(h) + 1
  BY <1>1, <1>4
<1>6. /\ seen[r][2] <= Len(h) + 1
      /\ seen[r][2] = Len(h) + 1 => LeadsTo(h, from) /\ state[i] = from
  BY <1>3 DEF LossInv, ReadInv
<1>7. \A j \in Requests : j # i => state'[j] = state[j] /\ version'[j] = version[j]
  BY <1>3 DEF TypeOK
<1>8. state'[i] = SetState(from, to, state[i]) /\ version'[i] = seen[r][2] + 1
  BY <1>1, <1>3 DEF TypeOK
<1>9. RowInv'
  <2> SUFFICES ASSUME NEW j \in instances'
               PROVE  /\ version'[j] <= Len(history'[j]) + 1
                      /\ version'[j] = Len(history'[j]) + 1 => LeadsTo(history'[j], state'[j])
    BY DEF RowInv, LeadsTo, Chained
  <2>1. CASE j = i
    <3>1. version'[j] <= Len(history'[j]) + 1
      BY <1>2, <1>5, <1>6, <1>8, <2>1
    <3>2. ASSUME version'[j] = Len(history'[j]) + 1 PROVE LeadsTo(history'[j], state'[j])
      <4>1. LeadsTo(h, from) /\ state[i] = from
        BY <1>2, <1>5, <1>6, <1>8, <2>1, <3>2
      <4>2. state'[i] = to
        BY <1>8, <4>1 DEF SetState
      <4>3. LeadsTo(Append(h, <<from, to>>), to)
        BY <1>1, <4>1, ChainAppend
      <4> QED
        BY <1>4, <2>1, <4>2, <4>3
    <3> QED
      BY <3>1, <3>2
  <2>2. CASE j # i
    <3>1. j \in instances /\ j \in Requests
      BY <1>3, <2>2 DEF TypeOK
    <3> QED
      BY <1>4, <1>7, <2>2, <3>1 DEF LossInv, RowInv
  <2> QED
    BY <2>1, <2>2
<1>10. ReadInv'
  <2> SUFFICES ASSUME NEW q \in Requests, pc'[q] \in {"found", "locked"}
               PROVE  /\ seen[q][2] <= Len(history'[mine[q]]) + 1
                      /\ seen[q][2] = Len(history'[mine[q]]) + 1 =>
                           /\ LeadsTo(history'[mine[q]], seen[q][1])
                           /\ state'[mine[q]] = seen[q][1]
    BY <1>3 DEF ReadInv, LeadsTo, Chained
  <2>1. pc[q] \in {"found", "locked"} /\ mine[q] \in Requests
    BY <1>3 DEF TypeOK, MineInv
  <2>2. seen[q][2] \in Nat
    BY DEF TypeOK
  <2>3. CASE mine[q] = i
    <3>1. seen[q][2] <= Len(h) + 1
      BY <2>1, <2>3 DEF LossInv, ReadInv
    <3>2. seen[q][2] < Len(history'[i]) + 1
      BY <1>2, <1>5, <2>2, <3>1
    <3> QED
      BY <1>2, <1>5, <2>2, <2>3, <3>2
  <2>4. CASE mine[q] # i
    BY <1>4, <1>7, <2>1, <2>4 DEF LossInv, ReadInv
  <2> QED
    BY <2>3, <2>4
<1>11. NewInv'
  <2> SUFFICES ASSUME NEW q \in Requests, pc'[q] = "new"
               PROVE  /\ q \notin instances' /\ seen[q] = <<state'[q], 1>>
                      /\ version'[q] = 1 /\ history'[q] = <<>>
    BY <1>3 DEF NewInv
  <2>1. pc[q] = "new" /\ q # r
    BY <1>3 DEF TypeOK
  <2>2. q \notin instances /\ i \in instances \union {r}
    BY <1>3, <2>1 DEF LossInv, NewInv, MineInv
  <2>3. q # i
    BY <2>1, <2>2
  <2> QED
    BY <1>3, <1>4, <1>7, <2>1, <2>2, <2>3 DEF LossInv, NewInv
<1> QED
  BY <1>9, <1>10, <1>11 DEF LossInv

(* Each other step reads what the rows say, or leaves them alone.            *)
LEMMA LossStep ==
  ASSUME TypeOK, MineInv, LossInv, [Next]_vars
  PROVE  LossInv'
<1>1. ASSUME NEW r \in Requests, NEW i \in instances, Find(r, i) PROVE LossInv'
  <2>1. /\ \A q \in Requests :
             q # r => pc'[q] = pc[q] /\ mine'[q] = mine[q] /\ seen'[q] = seen[q]
        /\ pc'[r] = "found" /\ mine'[r] = i /\ seen'[r] = <<state[i], version[i]>>
        /\ UNCHANGED <<instances, state, version, history>>
    BY <1>1 DEF Find, Goto, TypeOK
  <2>2. RowInv'
    BY <2>1 DEF LossInv, RowInv, LeadsTo, Chained
  <2>3. ReadInv'
    <3> SUFFICES ASSUME NEW q \in Requests, pc'[q] \in {"found", "locked"}
                 PROVE  /\ seen'[q][2] <= Len(history[mine'[q]]) + 1
                        /\ seen'[q][2] = Len(history[mine'[q]]) + 1 =>
                             /\ LeadsTo(history[mine'[q]], seen'[q][1])
                             /\ state[mine'[q]] = seen'[q][1]
      BY <2>1 DEF ReadInv, LeadsTo, Chained
    <3>1. CASE q = r
      BY <2>1, <3>1 DEF LossInv, RowInv
    <3>2. CASE q # r
      BY <2>1, <3>2 DEF LossInv, ReadInv
    <3> QED
      BY <3>1, <3>2
  <2>4. NewInv'
    BY <2>1 DEF LossInv, NewInv
  <2> QED
    BY <2>2, <2>3, <2>4 DEF LossInv
<1>2. ASSUME NEW r \in Requests, Create(r) PROVE LossInv'
  <2>1. /\ \A q \in Requests : q # r => pc'[q] = pc[q] /\ mine'[q] = mine[q]
        /\ pc[r] = "new" /\ pc'[r] = "found" /\ mine'[r] = r
        /\ UNCHANGED <<instances, state, version, history, seen>>
    BY <1>2 DEF Create, Goto, TypeOK
  <2>2. RowInv'
    BY <2>1 DEF LossInv, RowInv, LeadsTo, Chained
  <2>3. ReadInv'
    <3> SUFFICES ASSUME NEW q \in Requests, pc'[q] \in {"found", "locked"}
                 PROVE  /\ seen[q][2] <= Len(history[mine'[q]]) + 1
                        /\ seen[q][2] = Len(history[mine'[q]]) + 1 =>
                             /\ LeadsTo(history[mine'[q]], seen[q][1])
                             /\ state[mine'[q]] = seen[q][1]
      BY <2>1 DEF ReadInv, LeadsTo, Chained
    <3>1. CASE q = r
      <4>1. seen[r] = <<state[r], 1>> /\ history[r] = <<>>
        BY <2>1 DEF LossInv, NewInv
      <4>2. LeadsTo(<<>>, state[r])
        BY DEF LeadsTo, Chained
      <4> QED
        BY <2>1, <3>1, <4>1, <4>2
    <3>2. CASE q # r
      BY <2>1, <3>2 DEF LossInv, ReadInv
    <3> QED
      BY <3>1, <3>2
  <2>4. NewInv'
    BY <2>1 DEF LossInv, NewInv
  <2> QED
    BY <2>2, <2>3, <2>4 DEF LossInv
<1>3. ASSUME NEW r \in Requests, CreateInstance(r) PROVE LossInv'
  <2>1. /\ \A q \in Requests : q # r => pc'[q] = pc[q]
        /\ pc[r] = "new" /\ pc'[r] = "done" /\ instances' = instances \union {r}
        /\ UNCHANGED <<state, version, history, seen, mine>>
    BY <1>3 DEF CreateInstance, Goto, TypeOK
  <2>2. version[r] = 1 /\ history[r] = <<>>
    BY <2>1 DEF LossInv, NewInv
  <2>3. LeadsTo(<<>>, state[r])
    BY DEF LeadsTo, Chained
  <2>4. RowInv'
    BY <2>1, <2>2, <2>3 DEF LossInv, RowInv, LeadsTo, Chained
  <2>5. ReadInv'
    BY <2>1 DEF LossInv, ReadInv, LeadsTo, Chained
  <2>6. NewInv'
    BY <2>1 DEF LossInv, NewInv
  <2> QED
    BY <2>4, <2>5, <2>6 DEF LossInv
<1>4. ASSUME NEW r \in Requests, Commit(r) PROVE LossInv'
  BY <1>4, LossStepCommit
<1>5. ASSUME NEW r \in Requests, FindMany(r) \/ Lock(r) \/ Refuse(r) \/ Die(r)
      PROVE  LossInv'
  <2>1. /\ \A q \in Requests : pc'[q] = "new" => pc[q] = "new"
        /\ \A q \in Requests : pc'[q] \in {"found", "locked"} => pc[q] \in {"found", "locked"}
        /\ UNCHANGED <<instances, state, version, history, seen, mine>>
    BY <1>5 DEF FindMany, Lock, Refuse, Die, Goto, TypeOK
  <2>2. RowInv'
    BY <2>1 DEF LossInv, RowInv, LeadsTo, Chained
  <2>3. ReadInv'
    BY <2>1 DEF LossInv, ReadInv, LeadsTo, Chained
  <2>4. NewInv'
    BY <2>1 DEF LossInv, NewInv
  <2> QED
    BY <2>2, <2>3, <2>4 DEF LossInv
<1>6. CASE UNCHANGED vars
  BY <1>6 DEF vars, LossInv, RowInv, ReadInv, NewInv, LeadsTo, Chained
<1> QED
  BY <1>1, <1>2, <1>3, <1>4, <1>5, <1>6 DEF Next

(* The same, in every state of the engine.                                   *)
LEMMA LossInvariant == Spec => []LossInv
<1>1. Init => LossInv
  BY DEF Init, LossInv, RowInv, ReadInv, NewInv
<1>2. TypeOK /\ MineInv /\ LossInv /\ [Next]_vars => LossInv'
  BY LossStep
<1> QED
  BY <1>1, <1>2, MineInvariant, PTL DEF Spec

(* A lost transition can be told from the row: its version stays behind the  *)
(* number of transitions recorded for ever, because transition counts up the *)
(* version it has read and not the one it overwrites.                        *)
THEOREM VersionBetraysLoss == Spec => []VersionTellsLoss
<1>1. LossInv => VersionTellsLoss
  BY DEF LossInv, RowInv, LeadsTo, VersionTellsLoss
<1> QED
  BY <1>1, LossInvariant, PTL

-----------------------------------------------------------------------------
(* The engine as its callers see it.                                         *)

(* A row that was never moved has no history; one that was is where some     *)
(* recorded transition led.  A reader holds a state the instance is or was   *)
(* in, and one that has not been overtaken knows the version of the row.     *)
EmptyInv == \A i \in Requests \ instances : history[i] = <<>>

LedInv ==
  \A i \in Requests :
    history[i] # <<>> => \E k \in DOMAIN history[i] : history[i][k][2] = state[i]

SeenInv ==
  \A r \in Requests : pc[r] \in {"found", "locked"} =>
    /\ seen[r][1] \in Flow!Visited(mine[r])
    /\ seen[r][2] = Len(history[mine[r]]) + 1 =>
         version[mine[r]] = Len(history[mine[r]]) + 1

WalkInv == EmptyInv /\ LedInv /\ SeenInv

(* What a commit of r writes when it moves instance i, whose history is h.   *)
Writes(r, i, from, to, h) ==
  /\ i = mine[r] /\ from = seen[r][1] /\ to = target[r] /\ h = history[i]
  /\ i \in Requests /\ h \in Seq(States \X States)
  /\ <<from, to>> \in Edges /\ <<from, to>> \in States \X States
  /\ history' = [history EXCEPT ![i] = Append(@, <<from, to>>)]
  /\ state' = [state EXCEPT ![i] = IF to = from THEN @ ELSE to]
  /\ version' = [version EXCEPT ![i] = seen[r][2] + 1]
  /\ instances' = instances \union {i}
  /\ pc' = [pc EXCEPT ![r] = "done"]
  /\ UNCHANGED <<mine, seen>>
  /\ from \in Flow!Visited(i)
  /\ seen[r][2] \in 1 .. Len(h) + 1
  /\ seen[r][2] = Len(h) + 1 => version[i] = Len(h) + 1 /\ state[i] = from

(* A commit by an up-to-date reader finds the row as it read it; any other   *)
(* reader is behind the history, and holds a state the instance has been in. *)
LEMMA CommitWrites ==
  ASSUME TypeOK, MineInv, LossInv, WalkInv, NEW r \in Requests, Commit(r)
  PROVE  \E i, from, to, h : Writes(r, i, from, to, h)
<1>0. PICK i, from, to, h :
        i = mine[r] /\ from = seen[r][1] /\ to = target[r] /\ h = history[i]
  OBVIOUS
<1>1. pc[r] = "locked"
  BY DEF Commit
<1>2. i \in Requests /\ h \in Seq(States \X States)
  BY <1>0, HistoryGrows DEF TypeOK
<1>3. /\ seen[r][2] \in Nat \ {0} /\ Len(h) \in Nat
      /\ <<from, to>> \in States \X States
  BY <1>0, <1>2 DEF TypeOK
<1>4. seen[r][2] <= Len(h) + 1 /\ (seen[r][2] = Len(h) + 1 => state[i] = from)
  BY <1>0, <1>1 DEF LossInv, ReadInv
<1>5. from \in Flow!Visited(i) /\ (seen[r][2] = Len(h) + 1 => version[i] = Len(h) + 1)
  BY <1>0, <1>1 DEF WalkInv, SeenInv
<1>6. /\ <<from, to>> \in Edges
      /\ history' = [history EXCEPT ![i] = Append(@, <<from, to>>)]
      /\ state' = [state EXCEPT ![i] = IF to = from THEN @ ELSE to]
      /\ version' = [version EXCEPT ![i] = seen[r][2] + 1]
      /\ instances' = instances \union {i}
      /\ pc' = [pc EXCEPT ![r] = "done"]
      /\ UNCHANGED <<mine, seen>>
  BY <1>0 DEF Commit, FindTransition, SetState, NextVersion, Goto
<1>7. seen[r][2] \in 1 .. Len(h) + 1
  BY <1>3, <1>4
<1>8. Writes(r, i, from, to, h)
  BY <1>0, <1>2, <1>3, <1>4, <1>5, <1>6, <1>7 DEF Writes
<1> QED
  BY <1>8

(* A commit leaves the instance where a transition on record led to, and     *)
(* takes no state it was in away.                                            *)
LEMMA WalkStepCommit ==
  ASSUME TypeOK, MineInv, LossInv, WalkInv, NEW r \in Requests, Commit(r)
  PROVE  WalkInv'
<1>1. PICK i, from, to, h : Writes(r, i, from, to, h)
  BY CommitWrites
<1> USE <1>1 DEF Writes
<1>2. /\ history'[i] = Append(h, <<from, to>>)
      /\ state'[i] = IF to = from THEN state[i] ELSE to
      /\ \A j \in Requests :
           j # i => history'[j] = history[j] /\ state'[j] = state[j] /\ version'[j] = version[j]
  BY <1>1 DEF TypeOK
<1>3. /\ Len(h) \in Nat /\ Len(history'[i]) = Len(h) + 1
      /\ \A k \in DOMAIN h : k \in DOMAIN history'[i] /\ history'[i][k] = h[k]
      /\ Len(h) + 1 \in DOMAIN history'[i]
      /\ history'[i][Len(h) + 1] = <<from, to>>
  BY <1>1, <1>2
<1>4. Len(h) > 0 => \E k \in DOMAIN h : h[k][2] = state[i]
  <2>1. Len(h) > 0 => history[i] # <<>>
    OBVIOUS
  <2>2. \A j \in Requests :
          history[j] # <<>> => \E k \in DOMAIN history[j] : history[j][k][2] = state[j]
    BY DEF WalkInv, LedInv
  <2> HIDE <1>1 DEF Writes
  <2>3. i \in Requests /\ h = history[i]
    BY <1>1 DEF Writes
  <2> QED
    BY <2>1, <2>2, <2>3
<1>5. EmptyInv'
  BY <1>1, <1>2 DEF WalkInv, EmptyInv
<1>6. \E k \in DOMAIN history'[i] : history'[i][k][2] = state'[i]
  <2>1. CASE to # from \/ state[i] = from
    <3>1. state'[i] = to
      BY <1>2, <2>1
    <3> QED
      BY <1>3, <3>1
  <2>2. CASE to = from /\ state[i] # from
    <3>1. seen[r][2] # Len(h) + 1
      BY <1>1, <2>2
    <3>2. Len(h) > 0
      BY <1>1, <1>3, <3>1
    <3>3. PICK k \in DOMAIN h : h[k][2] = state[i]
      BY <1>4, <3>2
    <3> QED
      BY <1>2, <1>3, <2>2, <3>3
  <2> QED
    BY <2>1, <2>2
<1>7. LedInv'
  BY <1>2, <1>6 DEF WalkInv, LedInv
<1>8. state[i] \in Flow!Visited(i)'
  <2>1. CASE to # from /\ state[i] = from
    BY <1>1, <1>3, <2>1 DEF Flow!Visited
  <2>2. CASE to = from
    BY <1>2, <2>2 DEF Flow!Visited
  <2>3. CASE to # from /\ state[i] # from
    <3>1. seen[r][2] # Len(h) + 1
      BY <1>1, <2>3
    <3>2. Len(h) > 0
      BY <1>1, <1>3, <3>1
    <3>3. PICK k \in DOMAIN h : h[k][2] = state[i]
      BY <1>4, <3>2
    <3>4. k \in DOMAIN history'[i] /\ history'[i][k][2] = state[i]
      BY <1>3, <3>3
    <3> QED
      BY <3>4 DEF Flow!Visited
  <2> QED
    BY <2>1, <2>2, <2>3
<1>9. \A s \in Flow!Visited(i) : s \in Flow!Visited(i)'
  <2> SUFFICES ASSUME NEW s \in Flow!Visited(i), s # state[i] PROVE s \in Flow!Visited(i)'
    BY <1>8
  <2>1. PICK k \in DOMAIN h : s \in {h[k][1], h[k][2]}
    BY <1>1 DEF Flow!Visited
  <2>2. k \in DOMAIN history'[i] /\ history'[i][k] = h[k]
    BY <1>3, <2>1
  <2> QED
    BY <2>1, <2>2 DEF Flow!Visited
<1>10. SeenInv'
  <2> SUFFICES ASSUME NEW q \in Requests, pc'[q] \in {"found", "locked"}
               PROVE  /\ seen[q][1] \in Flow!Visited(mine[q])'
                      /\ seen[q][2] = Len(history'[mine[q]]) + 1 =>
                           version'[mine[q]] = Len(history'[mine[q]]) + 1
    BY <1>1 DEF SeenInv, Flow!Visited
  <2>1. pc[q] \in {"found", "locked"} /\ mine[q] \in Requests
    BY <1>1 DEF TypeOK, MineInv
  <2>2. /\ seen[q][1] \in Flow!Visited(mine[q])
        /\ seen[q][2] = Len(history[mine[q]]) + 1 =>
             version[mine[q]] = Len(history[mine[q]]) + 1
        /\ seen[q][2] <= Len(history[mine[q]]) + 1
        /\ seen[q][2] \in Nat
    BY <2>1 DEF WalkInv, SeenInv, LossInv, ReadInv, TypeOK
  <2>3. CASE mine[q] = i
    <3>1. seen[q][2] # Len(history'[i]) + 1
      BY <1>3, <2>2, <2>3
    <3>2. seen[q][1] \in Flow!Visited(i)'
      BY <1>9, <2>2, <2>3
    <3> QED
      BY <1>1, <2>3, <3>1, <3>2 DEF Flow!Visited
  <2>4. CASE mine[q] # i
    BY <1>1, <1>2, <2>1, <2>2, <2>4 DEF Flow!Visited
  <2> QED
    BY <2>3, <2>4
<1> QED
  BY <1>5, <1>7, <1>10 DEF WalkInv

(* Each other step leaves the rows as they are; a reader finds them so.      *)
LEMMA WalkStep ==
  ASSUME TypeOK, MineInv, LossInv, WalkInv, [Next]_vars
  PROVE  WalkInv'
<1>1. ASSUME NEW r \in Requests, NEW i \in instances, Find(r, i) PROVE WalkInv'
  <2>1. /\ \A q \in Requests :
             q # r => pc'[q] = pc[q] /\ mine'[q] = mine[q] /\ seen'[q] = seen[q]
        /\ mine'[r] = i /\ seen'[r] = <<state[i], version[i]>>
        /\ UNCHANGED <<instances, state, version, history>>
    BY <1>1 DEF Find, Goto, TypeOK
  <2>2. \A q \in Requests : Flow!Visited(mine[q])' = Flow!Visited(mine'[q])
    BY <2>1 DEF Flow!Visited
  <2>3. state[i] \in Flow!Visited(i)
    BY DEF Flow!Visited
  <2> QED
    BY <2>1, <2>2, <2>3 DEF WalkInv, EmptyInv, LedInv, SeenInv
<1>2. ASSUME NEW r \in Requests, Create(r) PROVE WalkInv'
  <2>1. /\ \A q \in Requests : q # r => pc'[q] = pc[q] /\ mine'[q] = mine[q]
        /\ pc[r] = "new" /\ mine'[r] = r
        /\ UNCHANGED <<instances, state, version, history, seen>>
    BY <1>2 DEF Create, Goto, TypeOK
  <2>2. seen[r] = <<state[r], 1>> /\ version[r] = 1 /\ history[r] = <<>>
    BY <2>1 DEF LossInv, NewInv
  <2>3. \A q \in Requests : Flow!Visited(mine[q])' = Flow!Visited(mine'[q])
    BY <2>1 DEF Flow!Visited
  <2>4. state[r] \in Flow!Visited(r)
    BY DEF Flow!Visited
  <2> QED
    BY <2>1, <2>2, <2>3, <2>4 DEF WalkInv, EmptyInv, LedInv, SeenInv
<1>3. ASSUME NEW r \in Requests, Commit(r) PROVE WalkInv'
  BY <1>3, WalkStepCommit
<1>4. ASSUME NEW r \in Requests,
             CreateInstance(r) \/ FindMany(r) \/ Lock(r) \/ Refuse(r) \/ Die(r)
      PROVE  WalkInv'
  <2>1. /\ \A q \in Requests : pc'[q] \in {"found", "locked"} => pc[q] \in {"found", "locked"}
        /\ instances \subseteq instances'
        /\ UNCHANGED <<state, version, history, seen, mine>>
    BY <1>4 DEF CreateInstance, FindMany, Lock, Refuse, Die, Goto, TypeOK
  <2> QED
    BY <2>1 DEF WalkInv, EmptyInv, LedInv, SeenInv, Flow!Visited
<1>5. CASE UNCHANGED vars
  BY <1>5 DEF vars, WalkInv, EmptyInv, LedInv, SeenInv, Flow!Visited
<1> QED
  BY <1>1, <1>2, <1>3, <1>4, <1>5 DEF Next

(* A commit is a move when what it read is what the row says, and else it    *)
(* overtakes: the version it writes is behind the history from then on.      *)
LEMMA CommitMoves ==
  ASSUME TypeOK, MineInv, LossInv, WalkInv, NEW r \in Requests, Commit(r)
  PROVE  Flow!Next
<1>1. PICK i, from, to, h : Writes(r, i, from, to, h)
  BY CommitWrites
<1>0. PICK e : e = <<from, to>>
  OBVIOUS
<1> USE <1>1 DEF Writes
<1>2. /\ Len(h) \in Nat /\ Len(history'[i]) = Len(h) + 1
      /\ version'[i] = seen[r][2] + 1
      /\ \A j \in Requests : j # i => history'[j] = history[j] /\ version'[j] = version[j]
  BY <1>0, <1>1 DEF TypeOK
<1>3. instances \subseteq Requests /\ e[1] = from /\ e[2] = to
  BY <1>0 DEF TypeOK
<1>4. Flow!Record(i, e)
  BY <1>0, <1>1 DEF Flow!Record
<1>5. CASE seen[r][2] = Len(h) + 1
  <2>1. i \notin Overtaken /\ i \notin Overtaken'
    BY <1>0, <1>1, <1>2, <1>5 DEF Overtaken
  <2>2. Overtaken' = Overtaken
    BY <1>1, <1>2, <1>3, <2>1 DEF Overtaken
  <2>3. state' = [state EXCEPT ![i] = e[2]] /\ e \in Edges
    BY <1>0, <1>1, <1>3, <1>5
  <2> QED
    BY <1>0, <1>1, <1>3, <1>4, <1>5, <2>1, <2>2, <2>3 DEF Flow!Next, Flow!Move
<1>6. CASE seen[r][2] # Len(h) + 1
  <2>1. i \in instances
    <3>1. Len(h) > 0
      BY <1>1, <1>2, <1>6
    <3> QED
      BY <1>0, <1>1, <3>1 DEF WalkInv, EmptyInv
  <2>2. version'[i] # Len(history'[i]) + 1
    BY <1>1, <1>2, <1>6
  <2>3. instances' = instances
    BY <1>1, <2>1
  <2>4. Overtaken' = Overtaken \union {i}
    BY <1>2, <1>3, <2>1, <2>2, <2>3 DEF Overtaken
  <2>5. state' = [state EXCEPT ![i] = IF e[1] = e[2] THEN @ ELSE e[2]]
    BY <1>0, <1>1, <1>3
  <2> QED
    BY <1>0, <1>1, <1>3, <1>4, <2>1, <2>3, <2>4, <2>5 DEF Flow!Next, Flow!Overtake
<1> QED
  BY <1>5, <1>6

(* Each step of the engine is a step of the abstract one, or none.           *)
LEMMA EngineStep ==
  ASSUME TypeOK, MineInv, LossInv, WalkInv, [Next]_vars
  PROVE  [Flow!Next]_(Flow!vars)
<1>1. ASSUME NEW r \in Requests, Commit(r) PROVE Flow!Next
  BY <1>1, CommitMoves
<1>2. ASSUME NEW r \in Requests, CreateInstance(r) PROVE Flow!Next
  <2>1. /\ pc[r] = "new" /\ instances' = instances \union {r}
        /\ UNCHANGED <<state, version, history>>
    BY <1>2 DEF CreateInstance
  <2>2. r \notin instances /\ version[r] = 1 /\ history[r] = <<>>
    BY <2>1 DEF LossInv, NewInv
  <2>3. Overtaken' = Overtaken
    BY <2>1, <2>2 DEF Overtaken
  <2> QED
    BY <2>1, <2>2, <2>3 DEF Flow!Next, Flow!Create
<1>3. CASE UNCHANGED <<instances, state, version, history>>
  BY <1>3 DEF Flow!vars, Overtaken
<1> QED
  BY <1>1, <1>2, <1>3 DEF Next, vars, Find, Create, FindMany, Lock, Refuse, Die

(* The workflow engine implements the workflow its callers see: a transition *)
(* starts from the state its instance is in, or, when the version gives it   *)
(* away, from one it has been in (get_or_create_instance, transition).       *)
THEOREM EngineImplementsWorkflow == Spec => ImplementsWorkflow
<1>1. Init => Flow!Init /\ WalkInv
  BY DEF Init, Flow!Init, Overtaken, WalkInv, EmptyInv, LedInv, SeenInv
<1>2. TypeOK /\ MineInv /\ LossInv /\ WalkInv /\ [Next]_vars => WalkInv'
  BY WalkStep
<1>3. TypeOK /\ MineInv /\ LossInv /\ WalkInv /\ [Next]_vars => [Flow!Next]_(Flow!vars)
  BY EngineStep
<1> QED
  BY <1>1, <1>2, <1>3, MineInvariant, LossInvariant, PTL DEF Spec, ImplementsWorkflow, Flow!Spec

-----------------------------------------------------------------------------
(* What follows for the callers of the abstract engine.                      *)

(* A trail that starts in an initial state, has no gap and leads to st.      *)
Walk(h, st) ==
  /\ LeadsTo(h, st)
  /\ IF Len(h) > 0 THEN h[1][1] \in Initial ELSE st \in Initial

FlowInv ==
  /\ history \in [Requests -> Seq(States \X States)]
  /\ state \in [Requests -> States]
  /\ \A i \in Requests \ Overtaken : Walk(history[i], state[i])

(* A move goes on from the end of the walk; what was overtaken stays so.     *)
LEMMA FlowStep ==
  ASSUME FlowInv, [Flow!Next]_(Flow!vars)
  PROVE  FlowInv'
<1>1. ASSUME NEW i \in Requests, Flow!Create(i) PROVE FlowInv'
  BY <1>1 DEF Flow!Create, FlowInv, Walk, LeadsTo, Chained
<1>2. ASSUME NEW i \in Requests, NEW e \in Edges, Flow!Record(i, e)
      PROVE  /\ history' \in [Requests -> Seq(States \X States)]
             /\ history[i] \in Seq(States \X States)
             /\ history'[i] = Append(history[i], e)
             /\ \A j \in Requests : j # i => history'[j] = history[j]
             /\ e[1] \in States /\ e[2] \in States /\ e = <<e[1], e[2]>>
  <2>1. e \in States \X States
    BY FsmAssumption
  <2>2. Append(history[i], e) \in Seq(States \X States)
    BY <2>1 DEF FlowInv
  <2> QED
    BY <1>2, <2>1, <2>2 DEF Flow!Record, FlowInv
<1>3. ASSUME NEW i \in Requests, NEW e \in Edges, Flow!Move(i, e) PROVE FlowInv'
  <2> DEFINE h == history[i]
             g == history'[i]
  <2>1. /\ history' \in [Requests -> Seq(States \X States)]
        /\ h \in Seq(States \X States)
        /\ g = Append(h, <<e[1], e[2]>>)
        /\ \A j \in Requests : j # i => history'[j] = history[j]
        /\ e[1] \in States /\ e[2] \in States
    BY <1>2, <1>3 DEF Flow!Move
  <2>2. /\ i \notin Overtaken /\ state[i] = e[1] /\ Overtaken' = Overtaken
        /\ state' = [state EXCEPT ![i] = e[2]]
    BY <1>3 DEF Flow!Move
  <2>3. state' \in [Requests -> States]
    BY <2>1, <2>2 DEF FlowInv
  <2>4. state'[i] = e[2] /\ \A j \in Requests : j # i => state'[j] = state[j]
    BY <2>2 DEF FlowInv
  <2>5. Walk(h, e[1])
    BY <2>2 DEF FlowInv
  <2>6. LeadsTo(g, e[2])
    <3>1. PICK c : c = h
      OBVIOUS
    <3>2. LeadsTo(Append(c, <<e[1], e[2]>>), e[2])
      BY <2>1, <2>5, <3>1, ChainAppend DEF Walk
    <3> QED
      BY <2>1, <3>1, <3>2
  <2>7. Len(g) > 0 /\ g[1][1] \in Initial
    <3>1. CASE Len(h) > 0
      BY <2>1, <2>5, <3>1 DEF Walk
    <3>2. CASE Len(h) = 0
      BY <2>1, <2>5, <3>2 DEF Walk
    <3> QED
      BY <2>1, <3>1, <3>2
  <2> HIDE DEF h, g
  <2>8. Walk(g, e[2])
    BY <2>6, <2>7 DEF Walk
  <2>9. \A j \in Requests \ Overtaken' : Walk(history'[j], state'[j])
    BY <2>1, <2>2, <2>4, <2>8 DEF FlowInv, g
  <2> QED
    BY <2>1, <2>3, <2>9 DEF FlowInv, Walk, LeadsTo, Chained
<1>4. ASSUME NEW i \in Requests, NEW e \in Edges, Flow!Overtake(i, e) PROVE FlowInv'
  <2>1. /\ history' \in [Requests -> Seq(States \X States)]
        /\ \A j \in Requests : j # i => history'[j] = history[j]
        /\ e[2] \in States
    BY <1>2, <1>4 DEF Flow!Overtake
  <2>2. /\ Overtaken' = Overtaken \union {i}
        /\ state' = [state EXCEPT ![i] = IF e[1] = e[2] THEN @ ELSE e[2]]
    BY <1>4 DEF Flow!Overtake
  <2>3. /\ state' \in [Requests -> States]
        /\ \A j \in Requests : j # i => state'[j] = state[j]
    BY <2>1, <2>2 DEF FlowInv
  <2>4. \A j \in Requests \ Overtaken' : Walk(history'[j], state'[j])
    BY <2>1, <2>2, <2>3 DEF FlowInv
  <2> QED
    BY <2>1, <2>3, <2>4 DEF FlowInv, Walk, LeadsTo, Chained
<1>5. CASE UNCHANGED Flow!vars
  BY <1>5 DEF Flow!vars, FlowInv, Walk, LeadsTo, Chained
<1> QED
  BY <1>1, <1>3, <1>4, <1>5 DEF Flow!Next

(* The trail of an instance that no transition overtook is a walk along the  *)
(* edges, from an initial state to the one it is in: this holds of the       *)
(* abstract workflow, and the engine inherits it.                            *)
THEOREM TrailsAreWalks == Spec => []Flow!UnbrokenUnlessOvertaken
<1>1. Flow!Init => FlowInv
  <2> SUFFICES ASSUME Flow!Init PROVE FlowInv
    OBVIOUS
  <2>1. state \in [Requests -> States]
    BY FsmAssumption DEF Flow!Init
  <2>2. \A i \in Requests : history[i] = <<>> /\ state[i] \in Initial
    BY DEF Flow!Init
  <2>3. history \in [Requests -> Seq(States \X States)]
    BY DEF Flow!Init
  <2> QED
    BY <2>1, <2>2, <2>3 DEF FlowInv, Walk, LeadsTo, Chained
<1>2. FlowInv /\ [Flow!Next]_(Flow!vars) => FlowInv'
  BY FlowStep
<1>3. TypeOK /\ FlowInv => Flow!UnbrokenUnlessOvertaken
  BY DEF TypeOK, FlowInv, Walk, LeadsTo, Chained, Flow!UnbrokenUnlessOvertaken
<1>4. Flow!Spec => []FlowInv
  BY <1>1, <1>2, PTL DEF Flow!Spec
<1> QED
  BY <1>3, <1>4, MineInvariant, EngineImplementsWorkflow, PTL DEF ImplementsWorkflow
=============================================================================
