--------------------------- MODULE MCFileRenderer ---------------------------
(***************************************************************************)
(* Two directories, a delay of two ticks and three changes of the files,   *)
(* of which the second leaves the chart in a state that does not load.     *)
(***************************************************************************)
EXTENDS FileRendererProofs

MCBroken == {2}
============================================================================
