----------------------------- MODULE MCNodePools -----------------------------
(***************************************************************************)
(* Small clusters for TLC.                                                 *)
(***************************************************************************)
EXTENDS NodePools, TLC

CONSTANTS h1, h2, h3

NoReq     == [req |-> FALSE, op |-> "In", values |-> ListOf({}), mark |-> {},
              rev |-> 0, intact |-> TRUE]
In(S)     == [NoReq EXCEPT !.req = TRUE, !.values = ListOf(S)]
NotIn(S)  == [In(S) EXCEPT !.op = "NotIn"]

\* Zone IDs the cache knows; the configurations add some it does not.
Mapping1 == "az1" :> "a"
Mapping2 == ("az1" :> "a") @@ ("az2" :> "b")

\* A custom pool with a zone requirement and one without.
CustomPools == ("in" :> In({"a", "b"})) @@ ("free" :> NoReq)
\* One more that excludes a zone.
OddPools    == CustomPools @@ ("not" :> NotIn({"a"}))
\* A pool over three zones.
WidePool    == "in" :> In({"a", "b", "c"})
\* Auto Mode: a built-in pool and the name of its copy.
AutoPools   == ("system" :> NoReq) @@ ("system-kss" :> Absent)
KssOfSystem == "system" :> "system-kss"
NoKss       == [b \in {} |-> b]

OnePod  == [h \in Handler |-> "pod1"]
TwoPods == [h \in Handler |-> IF h = h1 THEN "pod1" ELSE "pod2"]
=============================================================================
