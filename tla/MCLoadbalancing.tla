---------------------------- MODULE MCLoadbalancing ----------------------------
(* Instances of the load-balanced workflow: two ranks, up to three events. *)
EXTENDS Loadbalancing, TLC

CONSTANTS r1, r2, e1, e2, e3

MCSlice2 == r1 :> {e1} @@ r2 :> {e2}
MCSlice3 == r1 :> {e1, e2} @@ r2 :> {e3}
MCLimits == {Unlimited, 1}
===============================================================================
