------------------------ MODULE MCCommunityDeletion -------------------------
(***************************************************************************)
(* An instance of CommunityDeletion for TLC: two executors, one writer,    *)
(* two objects.                                                            *)
(***************************************************************************)
EXTENDS CommunityDeletion

CONSTANTS e1, e2, w1

TwoExecutors == {e1, e2}
OneWriter == {w1}
TwoObjects == {1, 2}
=============================================================================
