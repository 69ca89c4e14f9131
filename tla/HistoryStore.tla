---------------------------- MODULE HistoryStore ----------------------------
(***************************************************************************)
(* What the document store promises its callers, with Git, R2 and D1       *)
(* abstracted away: one document is a compare-and-append log.  A caller    *)
(* submits an edit against the revision it has seen; the edit is appended  *)
(* only while that revision is still the head, at most once per submitted  *)
(* request, and nothing that was appended is ever changed or removed.      *)
(*                                                                         *)
(* A revision is identified by its whole history, as a Git commit hash is, *)
(* so the head revision and the published history are one value.           *)
(***************************************************************************)
EXTENDS Naturals, Sequences

CONSTANTS Requests,   \* request ids (scope and id together)
          Edits       \* what one commit records: content and commit date

VARIABLES history,    \* the published revision: the sequence of its edits
          accepted    \* <<request, base, revision>> of every accepted submission

Init == /\ history = <<>>
        /\ accepted = {}

(***************************************************************************)
(* The submission of request r against `history` is accepted.              *)
(***************************************************************************)
Accept(r, e) ==
  /\ \A x \in accepted : x[1] = r => x[2] # history
  /\ history' = Append(history, e)
  /\ accepted' = accepted \cup {<<r, history, history'>>}

Next == \E r \in Requests, e \in Edits : Accept(r, e)

hvars == <<history, accepted>>

Spec == Init /\ [][Next]_hvars
=============================================================================
