----------------------------- MODULE FsmService -----------------------------
(***************************************************************************)
(* The workflow engine every business module moves its objects with: the   *)
(* requests that concern one business object, its workflow instances, and  *)
(* the history they leave.  (emit_transition_event looks at none of this   *)
(* and changes none of it.)                                                *)
(*                                                                         *)
(* A request reads the instance, or makes one, then selects it again FOR   *)
(* UPDATE and keeps that row lock until it commits.  The second select     *)
(* waits for the lock, but the session already holds the instance: what it *)
(* validates, writes and records is the state and version of the FIRST     *)
(* read.  An instance has the name of the request that made it.            *)
(***************************************************************************)
EXTENDS Sequences, Integers, FiniteSets

CONSTANTS
  Requests,   \* the HTTP requests, each one handled once
  States,
  Initial,    \* states a caller may give a new instance
  Edges,      \* the transitions of the workflow definition
  None

ASSUME FsmAssumption ==
  /\ Initial \subseteq States
  /\ Edges \subseteq States \X States
  /\ None \notin Requests

VARIABLES
  instances,  \* the committed workflow_instances of the object
  state,      \* instance -> current_state
  version,    \* instance -> version
  history,    \* instance -> its workflow_transitions, oldest first
  locked,     \* instances whose row a transaction has locked
  pc,         \* request -> where it is
  mine,       \* request -> the instance it works on
  seen,       \* request -> <<state, version>> as first read
  target      \* request -> to_state

vars == <<instances, state, version, history, locked, pc, mine, seen, target>>

-----------------------------------------------------------------------------
PCs == {"new", "found", "locked", "done", "refused", "dead"}

TypeOK ==
  /\ instances \subseteq Requests
  /\ state \in [Requests -> States]
  /\ version \in [Requests -> Nat \ {0}]
  /\ history \in [Requests -> Seq(States \X States)]
  /\ locked \subseteq Requests
  /\ pc \in [Requests -> PCs]
  /\ mine \in [Requests -> Requests \union {None}]
  /\ seen \in [Requests -> States \X (Nat \ {0})]
  /\ target \in [Requests -> States]

Init ==
  /\ instances = {} /\ locked = {}
  /\ state \in [Requests -> Initial]   \* of the instance the request would make
  /\ version = [r \in Requests |-> 1]
  /\ history = [r \in Requests |-> <<>>]
  /\ pc = [r \in Requests |-> "new"]
  /\ mine = [r \in Requests |-> None]
  /\ seen = [r \in Requests |-> <<state[r], 1>>]
  /\ target \in [Requests -> States]

Goto(r, l) == pc' = [pc EXCEPT ![r] = l]

\* The transaction ends: its row lock goes, if it had one.
Unlock(r) == locked' = IF pc[r] = "locked" THEN locked \ {mine[r]} ELSE locked

-----------------------------------------------------------------------------
(* get_or_create_instance, create_instance                                 *)

Find(r, i) ==
  /\ pc[r] = "new" /\ instances = {i}
  /\ mine' = [mine EXCEPT ![r] = i]
  /\ seen' = [seen EXCEPT ![r] = <<state[i], version[i]>>]
  /\ Goto(r, "found")
  /\ UNCHANGED <<instances, state, version, history, locked, target>>

\* Nothing found: a row that only this transaction sees until it commits.
Create(r) ==
  /\ pc[r] = "new" /\ instances = {}
  /\ mine' = [mine EXCEPT ![r] = r]
  /\ Goto(r, "found")
  /\ UNCHANGED <<instances, state, version, history, locked, seen, target>>

\* Two rows found: scalar_one_or_none raises.
FindMany(r) ==
  /\ pc[r] = "new" /\ Cardinality(instances) > 1
  /\ Goto(r, "dead")
  /\ UNCHANGED <<instances, state, version, history, locked, mine, seen, target>>

\* POST /instances, without a look at what exists.
CreateInstance(r) ==
  /\ pc[r] = "new"
  /\ instances' = instances \union {r}
  /\ Goto(r, "done")
  /\ UNCHANGED <<state, version, history, locked, mine, seen, target>>

-----------------------------------------------------------------------------
(* transition                                                              *)

Lock(r) ==
  /\ pc[r] = "found" /\ mine[r] \notin locked
  /\ locked' = locked \union {mine[r]}
  /\ Goto(r, "locked")
  /\ UNCHANGED <<instances, state, version, history, mine, seen, target>>

\* The plausible slip: any state the definition knows will do.
FindTransitionKnown(from, to) == to \in States

FindTransition(from, to) == <<from, to>> \in Edges

\* The plausible slip: the row's own version counted up in the UPDATE.
NextVersionOfRow(r) == version[mine[r]] + 1

NextVersion(r) == seen[r][2] + 1

\* The plausible slip: the label of the edge, which the simple format leaves
\* out, in place of its target.
SetStateToLabel(from, to, current) == None

\* The session writes a column only when its value changed.
SetState(from, to, current) == IF to = from THEN current ELSE to

Commit(r) ==
  /\ pc[r] = "locked"
  /\ LET i == mine[r]
         from == seen[r][1]
         to == target[r]
     IN /\ FindTransition(from, to)
        /\ instances' = instances \union {i}
        /\ state' = [state EXCEPT ![i] = SetState(from, to, state[i])]
        /\ version' = [version EXCEPT ![i] = NextVersion(r)]
        /\ history' = [history EXCEPT ![i] = Append(@, <<from, to>>)]
  /\ Unlock(r)
  /\ Goto(r, "done")
  /\ UNCHANGED <<mine, seen, target>>

\* No such edge, or the role, the permission or the comment is missing.
Refuse(r) ==
  /\ pc[r] = "locked"
  /\ Unlock(r)
  /\ Goto(r, "refused")
  /\ UNCHANGED <<instances, state, version, history, mine, seen, target>>

\* The client, the process or the database goes away: rollback.
Die(r) ==
  /\ pc[r] \in {"found", "locked"}
  /\ Unlock(r)
  /\ Goto(r, "dead")
  /\ UNCHANGED <<instances, state, version, history, mine, seen, target>>

Next ==
  \E r \in Requests :
    \/ \E i \in instances : Find(r, i)
    \/ Create(r) \/ FindMany(r) \/ CreateInstance(r)
    \/ Lock(r) \/ Commit(r) \/ Refuse(r) \/ Die(r)

Spec == Init /\ [][Next]_vars
-----------------------------------------------------------------------------
(* Safety.                                                                 *)

\* However stale the reads, an instance is only ever in a state its workflow
\* leads to from one it was created in.
StateReachable ==
  \A S \in SUBSET States :
    (Initial \subseteq S /\ \A e \in Edges : e[1] \in S => e[2] \in S)
      => \A i \in instances : state[i] \in S

\* Every transition starts where the one before it ended.
Chained(h) == \A k \in 1..Len(h) - 1 : h[k][2] = h[k + 1][1]

\* The version betrays a lost transition: it counts the recorded ones only
\* while each of them started from the outcome of the one before.
VersionTellsLoss ==
  \A i \in instances :
    version[i] = Len(history[i]) + 1 => Chained(history[i])

-----------------------------------------------------------------------------
(* The engine as its callers see it: a move overtakes when the version it  *)
(* leaves falls behind the transitions on record.                          *)
Overtaken == {i \in instances : version[i] # Len(history[i]) + 1}

Flow == INSTANCE Workflow WITH
  Instances <- Requests, trail <- history, overtaken <- Overtaken

\* A transition starts from a state its instance is in or, when the version
\* gives it away, from one it has been in; the version never catches up.
ImplementsWorkflow == Flow!Spec

\* "Row-level locking (SELECT ... FOR UPDATE) to prevent races": no transition
\* is overwritten by another that never saw it.
NoLostTransition == \A i \in instances : Chained(history[i])
=============================================================================
