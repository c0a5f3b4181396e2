--------------------------- MODULE MCAdaptiveRun ---------------------------
(***************************************************************************)
(* AdaptiveRun for TLC: a script with one start, a keyframe, two video     *)
(* chunks and a composition.                                               *)
(***************************************************************************)
EXTENDS AdaptiveRun

Artifacts == <<"image", "image", "video", "video", "composition">>
StartLimits == <<1, 2, 2, 2, 1>>
=============================================================================
