---------------------------- MODULE MCSceneGroups ----------------------------
(* Two players, a town, a private room and a room for several, two monsters. *)
EXTENDS SceneGroups

MCSceneType ==
    [s \in Scenes |-> CASE s = "town" -> "NORMAL"
                        [] s = "room" -> "SINGLE_CLONE"
                        [] OTHER -> "MULTI_CLONE"]
===============================================================================
