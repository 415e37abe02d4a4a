---------------------------- MODULE MCNodeClaims ----------------------------
(***************************************************************************)
(* Two NodeClaims for TLC whose nodes get the same name, one of which      *)
(* carries the legacy zone label.                                          *)
(***************************************************************************)
EXTENDS NodeClaims, TLC

CONSTANTS c1, c2

Labels  == (c1 :> ("topology" :> "a")) @@ (c2 :> ("legacy" :> "a"))
OneName == [c \in Claim |-> "n1"]
=============================================================================
