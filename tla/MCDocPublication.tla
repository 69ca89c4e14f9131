-------------------------- MODULE MCDocPublication --------------------------
(***************************************************************************)
(* Symmetry sets and state constraints for the runs of DocPublication.     *)
(***************************************************************************)
EXTENDS DocPublication, TLC

Interchangeable == Permutations(Attempts) \cup Permutations(Requests)
                     \cup Permutations(Contents) \cup Permutations(Secs)

\* For runs in which Empty is one of the Contents.
Callers == Permutations(Attempts) \cup Permutations(Requests)

(***************************************************************************)
(* The timed runs leave out what the untimed runs explore and the clock    *)
(* does not interact with: archiving, and in the reader's run also lost    *)
(* answers, calls that publish nothing, and two uploads at a time.         *)
(***************************************************************************)
StaysActive == active

AnswersArrive == \A a \in Attempts : att[a].pc # "unknown"

NoCallWasted == \A a \in Attempts : att[a].out \in {"none", "published", "integrity"}

OneWriter == Cardinality({a \in Attempts : att[a].pc \notin {"idle", "read", "done"}}) <= 1
=============================================================================
