---------------------------- MODULE MCFsmService ----------------------------
(* A document: drafted, submitted, approved or sent back; once its reviewer *)
(* may comment without moving it.  No edge leads to "legacy".               *)
EXTENDS FsmService, TLC

MCEdges == {<<"draft", "submitted">>, <<"submitted", "approved">>,
            <<"submitted", "draft">>, <<"submitted", "submitted">>,
            <<"legacy", "draft">>}

Symmetry == Permutations(Requests)
=============================================================================
