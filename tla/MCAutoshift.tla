----------------------------- MODULE MCAutoshift -----------------------------
(***************************************************************************)
(* Small drills for TLC.                                                   *)
(***************************************************************************)
EXTENDS Autoshift, TLC

CONSTANTS h1, h2, h3, h4, h5

NoReq == [req |-> FALSE, op |-> "In", values |-> ListOf({}), mark |-> {},
          rev |-> 0, intact |-> TRUE]
In(S) == [NoReq EXCEPT !.req = TRUE, !.values = ListOf(S)]

Mapping2 == ("az1" :> "a") @@ ("az2" :> "b")

\* A pool with a zone requirement, one without, and one pinned to one zone.
TwoPools    == ("in" :> In({"a", "b"})) @@ ("free" :> NoReq)
ThreePools  == TwoPools @@ ("one" :> In({"a"}))
OnePool     == "in" :> In({"a", "b"})
OnePool3    == "in" :> In({"a", "b", "c"})
\* Auto Mode: a built-in pool, the name of its copy, and custom pools.
AutoPools   == ("system" :> NoReq) @@ ("system-kss" :> Absent) @@ ThreePools
KssOfSystem == "system" :> "system-kss"
NoKss       == [b \in {} |-> b]

OnePod == [h \in Handler |-> "pod1"]
=============================================================================
