---------------------------- MODULE MCWorldServer ----------------------------
(* Small instances of WorldServer. The numbers of sockets and the game servers *)
(* can be exchanged for each other where only safety is checked.               *)
EXTENDS WorldServer, TLC

MCSymmetry == Permutations(Socks) \cup Permutations(Games)
===============================================================================
