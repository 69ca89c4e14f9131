----------------------------- MODULE MCTaskTree -----------------------------
\* Instances of TaskTree for TLC: tasks, requests and collections
\* are interchangeable.
EXTENDS TaskTree, TLC

TreeSymmetry ==
    Permutations(Tasks) \union Permutations(Writes) \union Permutations(Collections)

\* Two of two writes and a read are under way at once, not all three.
NotAllAtOnce == reading = Nothing \/ \E r \in Writes : write[r].pc = "idle"
=============================================================================
