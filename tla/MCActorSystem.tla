----------------------------- MODULE MCActorSystem ----------------------------
(***************************************************************************)
(* Small instances of ActorSystem: the jobs have the null id, and actors 2 *)
(* and 4 share worker 0 with them. There is a worker more for a task that  *)
(* strays.                                                                 *)
(***************************************************************************)
EXTENDS ActorSystem
===============================================================================
