--------------------------- MODULE MCPreviewRuns ---------------------------
(***************************************************************************)
(* PreviewRuns for TLC.                                                    *)
(***************************************************************************)
EXTENDS PreviewRuns, TLC

CONSTANTS r1, r2, t1, t2

Symmetric == Permutations({r1, r2}) \cup Permutations({t1, t2})
=============================================================================
