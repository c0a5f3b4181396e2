--------------------------- MODULE EpisodeHistory ---------------------------
(***************************************************************************)
(* What the episode aggregate store promises to its callers, with no file, *)
(* no lock, no version number and no receipt in sight: the facts of one    *)
(* project form one history that only grows at its end, a key contributes  *)
(* to it at most once, and whoever is told that a command with some key    *)
(* succeeded is shown the history as it was right after that command, on   *)
(* the first call and on every retry.  EpisodeStore implements it.         *)
(***************************************************************************)
EXTENDS Naturals, Sequences

CONSTANTS Keys,     \* idempotency keys
          Ops,      \* what a command may do to the project
          Retire    \* the operation that retires the project

VARIABLES history,  \* the facts of the project, in the order they were made
          told      \* the successful answers given so far

Fact == [key : Keys, op : Ops]

Answer == [key : Keys, result : Seq(Fact)]

IsRetired(facts) == \E i \in DOMAIN facts : facts[i].op = Retire

HasKey(facts, k) == \E i \in DOMAIN facts : facts[i].key = k

Init ==
  /\ history = <<>> \/ \E f \in Fact : history = <<f>>
  /\ told = {}

(* A new command extends the history: its key is new, the project is open. *)
Extend(k, op) ==
  /\ ~HasKey(history, k)
  /\ ~IsRetired(history)
  /\ history' = Append(history, [key |-> k, op |-> op])
  /\ UNCHANGED told

(* An answer shows the history up to and including the fact of its key.    *)
Tell(n) ==
  /\ n \in DOMAIN history
  /\ told' = told \cup {[key |-> history[n].key, result |-> SubSeq(history, 1, n)]}
  /\ UNCHANGED history

Next == \/ \E k \in Keys, op \in Ops : Extend(k, op)
        \/ \E n \in DOMAIN history : Tell(n)

Spec == Init /\ [][Next]_<<history, told>>
=============================================================================
