----------------------------- MODULE RCAEngineMC -----------------------------
(***************************************************************************)
(* All graphs of three devices: every set of links (cycles included),      *)
(* every set of DOWN devices, two device types, with and without a         *)
(* critical device, and a hierarchy of parents or none.                    *)
(***************************************************************************)
EXTENDS RCAEngine, TLC

CONSTANTS core, switch, ap

AllNodes    == {{core, switch, ap}, {core, switch}}
AllLinks    == {l \in {core, switch, ap} \X {core, switch, ap} : l[1] # l[2]}
Hierarchies == {[d \in {core, switch, ap} |-> NoDevice],
                (core :> NoDevice @@ switch :> core @@ ap :> switch)}
=============================================================================
