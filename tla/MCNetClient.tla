----------------------------- MODULE MCNetClient -----------------------------
(* Three servers: two share a hash, and the third has both its nodes to      *)
(* itself.                                                                   *)
EXTENDS NetClient

PointsValue == [s \in Servers |-> CASE s = 1 -> {1, 4} [] s = 2 -> {2, 4} [] s = 3 -> {3, 5}]
===============================================================================
