------------------------------ MODULE Workflow ------------------------------
(***************************************************************************)
(* What the workflow engine promises its callers about the instances of    *)
(* one object: an instance is in one state, moves along the edges of its   *)
(* definition, and keeps a trail of every move.  A move starts from the    *)
(* state the instance is in; one that starts from a state it has left      *)
(* overtakes it, which shows for ever.                                     *)
(***************************************************************************)
EXTENDS Naturals, Sequences

CONSTANTS Instances, Initial, Edges

VARIABLES
  instances,  \* those that exist
  state,      \* instance -> its state, or the one it will be created in
  trail,      \* instance -> the edges it was moved along, oldest first
  overtaken   \* instances moved once from a state they had left

vars == <<instances, state, trail, overtaken>>

Init ==
  /\ instances = {}
  /\ state \in [Instances -> Initial]
  /\ trail = [i \in Instances |-> <<>>]
  /\ overtaken = {}

\* The states that the instance is in or has been in.
Visited(i) ==
  {state[i]} \union UNION {{trail[i][k][1], trail[i][k][2]} : k \in DOMAIN trail[i]}

Create(i) ==
  /\ i \notin instances
  /\ instances' = instances \union {i}
  /\ UNCHANGED <<state, trail, overtaken>>

Record(i, e) ==
  /\ e \in Edges
  /\ trail' = [trail EXCEPT ![i] = Append(@, e)]

\* An instance that is not there is created by its first move.
Move(i, e) ==
  /\ i \notin overtaken
  /\ state[i] = e[1]
  /\ Record(i, e)
  /\ state' = [state EXCEPT ![i] = e[2]]
  /\ instances' = instances \union {i}
  /\ UNCHANGED overtaken

\* An edge that leads back to its own state leaves the state as it is.
Overtake(i, e) ==
  /\ i \in instances
  /\ e[1] \in Visited(i)
  /\ Record(i, e)
  /\ state' = [state EXCEPT ![i] = IF e[1] = e[2] THEN @ ELSE e[2]]
  /\ overtaken' = overtaken \union {i}
  /\ UNCHANGED instances

Next ==
  \E i \in Instances :
    \/ Create(i)
    \/ \E e \in Edges : Move(i, e) \/ Overtake(i, e)

Spec == Init /\ [][Next]_vars

-----------------------------------------------------------------------------
\* The trail of an instance that was never overtaken is a walk along the
\* edges, from an initial state to the one the instance is in.
UnbrokenUnlessOvertaken ==
  \A i \in instances \ overtaken :
    /\ \A k \in 1 .. Len(trail[i]) - 1 : trail[i][k][2] = trail[i][k + 1][1]
    /\ Len(trail[i]) > 0 =>
         /\ trail[i][1][1] \in Initial
         /\ trail[i][Len(trail[i])][2] = state[i]
=============================================================================
