----------------------------- MODULE MCAgentRun -----------------------------
(* Instances of AgentRun for TLC.                                           *)
EXTENDS AgentRun, TLC

\* Replicas and backend requests are interchangeable.
Symmetry == Permutations(Workers) \union Permutations(Sessions)

\* What a state is to the safety runs.  They do not need rescueOff: beside
\* itself it only decides whether the end or the restart of the loop may empty
\* rescue, as a pass that fails always may.
Seen == <<runVars, prVars, sess, wVars, callbacks, rescue>>
=============================================================================
