----------------------------- MODULE MCSubTasks -----------------------------
EXTENDS SubTasks, TLC
CONSTANTS a, b, x, y, high, inside, low

(* One sub task asks IsUpdated; the other reads all it observes.  What the  *)
(* first one observes is written from above and below the kernel task.      *)
ObserversXY == (x :> {a, b}) @@ (y :> {b})
WritesXY == (high :> {x}) @@ (inside :> {y}) @@ (low :> {x})
=============================================================================
