---------------------------- MODULE MCPropertyModule ----------------------------
(* A small instance of PropertyModule: two levels, two causes, MAXHP and one    *)
(* value more, the player's client and another one.                             *)
EXTENDS PropertyModule

MCBaseValues == <<[Attack |-> 0, MAXHP |-> 1], [Attack |-> 1, MAXHP |-> 1]>>
===============================================================================
