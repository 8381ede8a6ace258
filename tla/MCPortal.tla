------------------------------ MODULE MCPortal ------------------------------
(* Small instances of Portal for TLC: one device with one or two views of   *)
(* the workspace, and two devices with a view each.                         *)
EXTENDS Portal

CONSTANTS alice, bob, v1, v2, o1, o2

OneView  == v1 :> alice
TwoViews == v1 :> alice @@ v2 :> alice
OneEach  == v1 :> alice @@ v2 :> bob

BothPosts   == v1 :> {o1, o2}
OnePost     == v1 :> {o1}
EachPosts   == v1 :> {o1} @@ v2 :> {o2}
=============================================================================
