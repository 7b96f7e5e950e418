------------------------------- MODULE MCPit -------------------------------
EXTENDS Pit

(* Two pumps in one group with alternation; the start levels differ.        *)
One(plays) ==
  [pumps |-> 2, group2 |-> 0, shift |-> FALSE, alternate |-> <<TRUE, TRUE>>,
   min |-> <<1, 1>>, max |-> <<2, 2>>, total |-> <<1, 2>>, together |-> TRUE,
   start |-> <<2, 3>>, stop |-> <<1, 1>>, dry |-> 0, highLevel |-> 3, foamLevel |-> 1,
   switches |-> {"high", "dry"} \cap plays, plays |-> plays]

(* Two groups of one pump.                                                  *)
Two(plays) == [One(plays) EXCEPT !.group2 = 2, !.max = <<1, 1>>, !.shift = TRUE]

(* Three pumps, the second and third in a group that runs as a whole.       *)
Three(plays) ==
  [One(plays) EXCEPT !.pumps = 3, !.group2 = 2, !.shift = TRUE, !.alternate = <<TRUE, FALSE>>,
                     !.min = <<1, 2>>, !.max = <<1, 2>>, !.total = <<1, 2>>,
                     !.start = <<2, 3, 3>>, !.stop = <<1, 1, 1>>]

(* Each pit has the disturbances that can meet in it; a small one may run   *)
(* one pump at a time.                                                      *)
Small(plays) == [One(plays) EXCEPT !.max = <<1, 1>>]

(* One pump.                                                                *)
Single(plays) == [Small(plays) EXCEPT !.pumps = 1, !.total = <<1, 1>>]

Pits ==
  { Single({"sensor", "high", "dry"}), One({"sensor"}), Single({"foam", "sensor"}), One({"daily"}),
    Single({"daily", "sensor", "dry"}),
    One({"tempStop"}), Small({"tempStop"}),
    [One({"ready", "interlock"}) EXCEPT !.alternate = <<FALSE, TRUE>>, !.min = <<2, 1>>],
    [One({"anti"}) EXCEPT !.min = <<2, 1>>],
    [Two({"ready", "hand"}) EXCEPT !.together = FALSE, !.alternate = <<TRUE, FALSE>>],
    [Two({"anti"}) EXCEPT !.together = FALSE],
    Three({}) }
=============================================================================
