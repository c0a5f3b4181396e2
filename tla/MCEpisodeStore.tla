--------------------------- MODULE MCEpisodeStore ---------------------------
(* A small instance of EpisodeStore: handlers and keys are interchangeable. *)
EXTENDS EpisodeStore, TLC

Alike == Permutations(Handlers) \cup Permutations(Keys)
=============================================================================
