--------------------------- MODULE MCEventIntake ---------------------------
(***************************************************************************)
(* Two pods for TLC, an event that parses and one that does not, and a     *)
(* cluster in Auto Mode whose subnets carry the second kind of tag.        *)
(***************************************************************************)
EXTENDS EventIntake

MCSubnet(z, t, up) == [zone |-> z, tags |-> t, available |-> up]

MCSubnets == {MCSubnet("a", {"eks"}, TRUE), MCSubnet("b", {"karpenter"}, TRUE),
              MCSubnet("c", {}, TRUE)}
=============================================================================
