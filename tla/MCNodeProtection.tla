-------------------------- MODULE MCNodeProtection --------------------------
(***************************************************************************)
(* A node in each of two zones, for TLC.                                   *)
(***************************************************************************)
EXTENDS NodeProtection, TLC

CONSTANTS h1, h2, h3

TwoZones == ("n1" :> "a") @@ ("n2" :> "b")

\* Handlers are interchangeable.
HandlerSymmetry == Permutations(Handler)
=============================================================================
