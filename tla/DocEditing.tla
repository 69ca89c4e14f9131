----------------------------- MODULE DocEditing ------------------------------
(***************************************************************************)
(* Editing one task page: page sessions of the web client (the state       *)
(* machine of useDocument with its save scheduler and the conflict review),*)
(* the document service behind them, and other writers.                    *)
(*                                                                         *)
(* The service keeps the published history and at most one draft of the    *)
(* account for the page.  A publication is one step here: DocPublication   *)
(* shows how it comes to be.  A session opens once and closes once; two    *)
(* sessions are two devices, or one device that leaves and comes back.     *)
(* Documents are in canonical form, so no normalization is owed; a page is *)
(* opened without a cached head.                                           *)
(***************************************************************************)
EXTENDS Integers, Sequences, FiniteSets

CONSTANTS
  Editors,       \* page sessions of the account
  Other,         \* whoever else publishes: Simon, an MCP agent, a restore
  None,          \* no draft, no conflict, ...
  MaxTyped,      \* bound of the checked instance: edits per session
  MaxRevisions,  \* bound of the checked instance: revisions
  MaxOther,      \* bound of the checked instance: revisions of other writers, the first one too
  MaxCalls       \* bound of the checked instance: publish calls of all sessions

ASSUME EditingAssumption ==
  /\ {MaxTyped, MaxRevisions, MaxOther, MaxCalls} \subseteq Nat
  /\ Other \notin Editors /\ None \notin Editors \cup {Other}

VARIABLES
  history,    \* texts of the published revisions; a revision is its position
  recorded,   \* requests that published: key -> fingerprint and revision
  stored,     \* the doc_drafts row, or None
  editor,     \* the sessions: state and refs of useDocument, SaveScheduler
  typed,      \* history: edits made in each session so far
  calls,      \* publish calls under way
  puts,       \* draft writes under way
  sent        \* number of publish calls sent; also names idempotency keys

editVars == <<history, recorded, stored, editor, typed, calls, puts, sent>>

(***************************************************************************)
(* A text is told apart by the edits it has taken in.                      *)
(***************************************************************************)
Revisions == 1..MaxRevisions
Keys == 1..MaxCalls
Edits == (Editors \X (1..MaxTyped)) \cup ({Other} \X Revisions)
Texts == SUBSET Edits

Latest == Len(history)

ClosedEditor ==
  [phase |-> "closed", head |-> 0, buffer |-> None, base |-> 0, dirty |-> FALSE,
   save |-> "idle", conflict |-> None, draftSeq |-> 0, key |-> None, inFlight |-> None,
   saving |-> FALSE, queued |-> "none", pending |-> FALSE, draftDue |-> FALSE,
   reads |-> {}, review |-> None, left |-> FALSE]

EditInit ==
  /\ history = <<{<<Other, 1>>}>>
  /\ recorded = [k \in Keys |-> None]
  /\ stored = None
  /\ editor = [e \in Editors |-> ClosedEditor]
  /\ typed = [e \in Editors |-> 0]
  /\ calls = {}
  /\ puts = {}
  /\ sent = 0

----------------------------------------------------------------------------
(***************************************************************************)
(* The draft row.                                                          *)
(***************************************************************************)
Upsert(row) ==
  stored' = IF stored = None \/ row.seq >= stored.seq THEN row ELSE stored

\* The row after "DELETE ... WHERE client_seq <= seq"; a save without a sequence deletes nothing.
Cleared(seq) == IF stored # None /\ seq > 0 /\ stored.seq <= seq THEN None ELSE stored

(***************************************************************************)
(* A response of the document endpoint, shown: the head, unless a draft    *)
(* with another text is stored.                                            *)
(***************************************************************************)
Loaded(st, draft) ==
  LET restored == draft # None /\ draft.text # history[Latest]
  IN [st EXCEPT
        !.phase = "ready", !.head = Latest, !.review = None,
        !.buffer = IF restored THEN draft.text ELSE history[Latest],
        !.base = IF restored THEN draft.base ELSE Latest,
        !.dirty = restored,
        !.save = IF restored THEN "unsaved" ELSE "saved",
        !.draftSeq = IF draft = None THEN 0 ELSE draft.seq,
        !.conflict = IF restored /\ (draft.base # Latest \/ draft.origin = "conflict")
                     THEN [current |-> Latest, base |-> draft.base] ELSE None]

Open(e) ==
  /\ editor[e].phase = "closed" /\ ~ editor[e].left
  /\ editor' = [editor EXCEPT ![e] = Loaded(@, stored)]
  /\ UNCHANGED <<history, recorded, stored, typed, calls, puts, sent>>

\* setBuffer
Type(e) ==
  /\ editor[e].phase = "ready" /\ typed[e] < MaxTyped
  /\ typed' = [typed EXCEPT ![e] = @ + 1]
  /\ editor' = [editor EXCEPT
       ![e].buffer = @ \cup {<<e, typed[e] + 1>>},
       ![e].dirty = TRUE, ![e].save = "unsaved", ![e].pending = TRUE, ![e].draftDue = TRUE,
       ![e].key = IF editor[e].save = "failed" /\ editor[e].inFlight = None THEN None ELSE @]
  /\ UNCHANGED <<history, recorded, stored, calls, puts, sent>>

\* The draft timer: the newest text under the next sequence.
WriteDraft(e) ==
  /\ editor[e].phase = "ready" /\ editor[e].draftDue
  /\ IF editor[e].dirty
     THEN /\ editor' = [editor EXCEPT ![e].draftDue = FALSE, ![e].draftSeq = @ + 1]
          /\ puts' = puts \cup {[base |-> editor[e].base, seq |-> editor[e].draftSeq + 1,
                                 text |-> editor[e].buffer, origin |-> "editor"]}
     ELSE /\ editor' = [editor EXCEPT ![e].draftDue = FALSE]
          /\ UNCHANGED puts
  /\ UNCHANGED <<history, recorded, stored, typed, calls, sent>>

\* A draft write arrives; one that is lost or throttled changes nothing, in silence.
LandPut ==
  /\ \E p \in puts :
       /\ puts' = puts \ {p}
       /\ Upsert(p) \/ UNCHANGED stored
  /\ UNCHANGED <<history, recorded, editor, typed, calls, sent>>

----------------------------------------------------------------------------
(***************************************************************************)
(* runSave: at most one save of a session runs; a trigger that comes       *)
(* meanwhile is remembered.                                                *)
(***************************************************************************)
Retrying(st, trigger) == trigger = "retry" /\ st.inFlight # None

Payload(st, trigger) ==
  IF Retrying(st, trigger) THEN st.inFlight
  ELSE [key |-> IF st.key = None THEN sent + 1 ELSE st.key,
        base |-> st.base, text |-> st.buffer, seq |-> st.draftSeq]

Call(e, kind, payload) ==
  [id |-> sent + 1, by |-> e, kind |-> kind, payload |-> payload, told |-> FALSE,
   at |-> "sent", seq |-> 0, answer |-> None]

\* The save of session e, whose state is already st.
RunSave(e, st, trigger) ==
  IF st.saving
  THEN /\ editor' = [editor EXCEPT ![e] = [st EXCEPT !.queued = trigger]]
       /\ UNCHANGED <<calls, sent>>
  ELSE IF ~ (st.dirty \/ Retrying(st, trigger))
  THEN /\ editor' = [editor EXCEPT ![e] = IF st.save = "failed"
                                         THEN [st EXCEPT !.save = "saved"] ELSE st]
       /\ UNCHANGED <<calls, sent>>
  ELSE LET payload == Payload(st, trigger)
       IN /\ sent < MaxCalls
          /\ sent' = sent + 1
          /\ calls' = calls \cup {Call(e, "save", payload)}
          /\ editor' = [editor EXCEPT ![e] = [st EXCEPT !.saving = TRUE, !.save = "saving",
                          !.key = payload.key, !.inFlight = payload]]

\* The idle or the interval timer.
TimerSave(e) ==
  /\ editor[e].phase = "ready" /\ editor[e].pending
  /\ RunSave(e, [editor[e] EXCEPT !.pending = FALSE], "save")
  /\ UNCHANGED <<history, recorded, stored, typed, puts>>

\* Blur, Mod+S, Retry.
Flush(e) ==
  /\ editor[e].phase = "ready" /\ editor[e].dirty
  /\ \E trigger \in {"save", "retry"} :
       /\ trigger = "retry" => editor[e].save = "failed"
       /\ RunSave(e, [editor[e] EXCEPT !.pending = IF trigger = "retry" THEN @ ELSE FALSE],
                  trigger)
  /\ UNCHANGED <<history, recorded, stored, typed, puts>>

(***************************************************************************)
(* The page is left.  A dirty buffer is written to the draft and published *)
(* on the way out, except where the browser just goes away.                *)
(***************************************************************************)
Gone == [ClosedEditor EXCEPT !.left = TRUE]

Leave(e) ==
  /\ editor[e].phase = "ready"
  /\ \/ ~ editor[e].dirty /\ UNCHANGED <<puts, calls, sent>>
     \/ UNCHANGED <<puts, calls, sent>>
     \/ /\ editor[e].dirty
        /\ puts' = puts \cup {[base |-> editor[e].base, seq |-> editor[e].draftSeq + 1,
                               text |-> editor[e].buffer, origin |-> "editor"]}
        /\ IF editor[e].saving
           THEN UNCHANGED <<calls, sent>>
           ELSE /\ sent < MaxCalls
                /\ sent' = sent + 1
                /\ calls' = calls \cup
                     {[Call(e, "save",
                            Payload([editor[e] EXCEPT !.draftSeq = @ + 1], "save"))
                       EXCEPT !.told = TRUE]}
  /\ editor' = [editor EXCEPT ![e] = Gone]
  /\ UNCHANGED <<history, recorded, stored, typed>>

----------------------------------------------------------------------------
(***************************************************************************)
(* The document service: save.                                             *)
(***************************************************************************)
Update(c, d) == calls' = (calls \ {c}) \cup {d}

Answer(c, answer) == Update(c, [c EXCEPT !.at = "answered", !.answer = answer])

Published(revision) == [kind |-> "published", revision |-> revision]

Fingerprint(p) == [base |-> p.base, text |-> p.text, seq |-> p.seq]

\* Known request, moved head, same text, or a new revision and the covered draft gone.
Publish(c) ==
  LET p == c.payload
  IN /\ c.at = "sent"
     /\ \/ /\ recorded[p.key] # None
           /\ Answer(c, IF recorded[p.key].input = Fingerprint(p)
                        THEN Published(recorded[p.key].revision)
                        ELSE [kind |-> "failed", revision |-> 0])
           /\ UNCHANGED <<history, recorded, stored>>
        \/ /\ recorded[p.key] = None /\ p.base # Latest
           /\ Update(c, [c EXCEPT !.at = "reading", !.answer =
                            [kind |-> "conflict", revision |-> Latest]])
           /\ UNCHANGED <<history, recorded, stored>>
        \/ /\ recorded[p.key] = None /\ p.base = Latest /\ p.text = history[Latest]
           /\ Update(c, [c EXCEPT !.at = "clearing", !.answer = Published(Latest)])
           /\ UNCHANGED <<history, recorded, stored>>
        \/ /\ recorded[p.key] = None /\ p.base = Latest /\ p.text # history[Latest]
           /\ Latest < MaxRevisions
           /\ history' = Append(history, p.text)
           /\ stored' = Cleared(p.seq)
           /\ recorded' = [recorded EXCEPT ![p.key] =
                [input |-> Fingerprint(p), revision |-> Latest + 1]]
           /\ Answer(c, Published(Latest + 1))
  /\ UNCHANGED <<editor, typed, puts, sent>>

\* An unchanged save clears the draft it covers in a statement of its own.
ClearDraft(c) ==
  /\ c.at = "clearing"
  /\ stored' = Cleared(c.payload.seq)
  /\ Update(c, [c EXCEPT !.at = "answered"])
  /\ UNCHANGED <<history, recorded, editor, typed, puts, sent>>

(***************************************************************************)
(* preserveCandidate, in two calls: read the stored sequence, unless the   *)
(* save named its own; then keep the candidate if no newer draft is there. *)
(***************************************************************************)
ReadDraft(c) ==
  /\ c.at = "reading"
  /\ LET seq == IF c.payload.seq > 0 THEN c.payload.seq
                ELSE IF stored = None THEN 0 ELSE stored.seq
     IN Update(c, [c EXCEPT !.seq = seq,
          !.at = IF stored # None /\ stored.seq > seq THEN "answered" ELSE "keeping"])
  /\ UNCHANGED <<history, recorded, stored, editor, typed, puts, sent>>

KeepCandidate(c) ==
  /\ c.at = "keeping"
  /\ Upsert([base |-> c.payload.base, seq |-> c.seq, text |-> c.payload.text,
             origin |-> "conflict"])
  /\ Update(c, [c EXCEPT !.at = "answered"])
  /\ UNCHANGED <<history, recorded, editor, typed, puts, sent>>

----------------------------------------------------------------------------
(***************************************************************************)
(* The client hears of its call.                                           *)
(***************************************************************************)
\* Faulty variant: what was typed meanwhile is taken for saved.
Saved_NotDirty(st, text, revision) ==
  [st EXCEPT !.head = revision, !.base = revision, !.dirty = FALSE, !.conflict = None,
             !.review = None, !.pending = FALSE, !.save = "saved"]

\* Faulty variant: the timers that the save stopped are not started again.
Saved_NotRearmed(st, text, revision) ==
  LET still == st.buffer # text
  IN [st EXCEPT !.head = revision, !.base = revision, !.dirty = still, !.conflict = None,
                !.review = None, !.pending = FALSE,
                !.save = IF still THEN "unsaved" ELSE "saved"]

\* "saved", then published() and, with newer text, changed().
Saved(st, text, revision) ==
  LET still == st.buffer # text
  IN [st EXCEPT !.head = revision, !.base = revision, !.dirty = still, !.conflict = None,
                !.review = None, !.pending = still, !.draftDue = @ \/ still,
                !.save = IF still THEN "unsaved" ELSE "saved"]

\* A conflict shown over an older one with the same base leaves the open review as it is.
Conflicted(st, current, base) ==
  [st EXCEPT !.conflict = [current |-> current, base |-> base], !.save = "failed",
             !.review = IF st.conflict # None /\ st.conflict.base = base THEN @ ELSE None]

\* What the session's state is after an answer, or (answer = None) without one.
Heard(st, c, answer) ==
  IF answer = None
  THEN [st EXCEPT !.save = "failed", !.key = IF c.kind = "merge" THEN None ELSE @]
  ELSE LET free == [st EXCEPT !.key = None, !.inFlight = IF c.kind = "merge" THEN @ ELSE None]
       IN CASE answer.kind = "published" -> Saved(free, c.payload.text, answer.revision)
            [] answer.kind = "conflict"  ->
                 Conflicted(free, answer.revision,
                            IF c.kind = "merge" THEN c.payload.base ELSE st.base)
            [] answer.kind = "failed"    -> [free EXCEPT !.save = "failed"]

\* The end of runSave or of resolveConflict: only the former starts a remembered save.
Finish(e, c, st) ==
  LET idle == [st EXCEPT !.saving = FALSE]
  IN IF c.kind = "merge"
     THEN editor' = [editor EXCEPT ![e] = idle] /\ UNCHANGED sent
     ELSE LET next == [idle EXCEPT !.queued = "none"]
          IN IF st.queued # "none" /\ st.dirty
             THEN /\ sent < MaxCalls
                  /\ sent' = sent + 1
                  /\ editor' = [editor EXCEPT ![e] = [next EXCEPT !.saving = TRUE,
                       !.save = "saving", !.key = Payload(next, st.queued).key,
                       !.inFlight = Payload(next, st.queued)]]
             ELSE editor' = [editor EXCEPT ![e] = next] /\ UNCHANGED sent

\* The call that Finish sends, if it sends one.
Resent(e, c, st) ==
  IF c.kind = "save" /\ st.queued # "none" /\ st.dirty
  THEN {Call(e, "save", Payload([st EXCEPT !.saving = FALSE, !.queued = "none"], st.queued))}
  ELSE {}

Hear(c) ==
  LET e == c.by
      open == editor[e].phase = "ready" /\ ~ c.told
      st == Heard(editor[e], c, c.answer)
  IN /\ c.at = "answered"
     /\ IF open
        THEN /\ Finish(e, c, st)
             /\ calls' = (calls \ {c}) \cup Resent(e, c, st)
        ELSE calls' = calls \ {c} /\ UNCHANGED <<editor, sent>>
     /\ UNCHANGED <<history, recorded, stored, typed, puts>>

\* The call fails for its caller: lost on the way there, or its answer on the way back.
Fail(c) ==
  LET st == Heard(editor[c.by], c, None)
  IN /\ ~ c.told /\ editor[c.by].phase = "ready"
     /\ Finish(c.by, c, st)
     /\ \E left \in {{}, {[c EXCEPT !.told = TRUE]}} :
          calls' = (calls \ {c}) \cup left \cup Resent(c.by, c, st)
     /\ UNCHANGED <<history, recorded, stored, typed, puts>>

----------------------------------------------------------------------------
(***************************************************************************)
(* Other writers, and how a session learns of a new head.  Reads of the    *)
(* head overlap and may be answered in any order.                          *)
(***************************************************************************)
OtherPublishes ==
  /\ Latest < MaxRevisions
  /\ Cardinality({r \in 1..Latest : <<Other, r>> \in history[r]}) < MaxOther
  /\ history' = Append(history, history[Latest] \cup {<<Other, Latest + 1>>})
  /\ UNCHANGED <<recorded, stored, editor, typed, calls, puts, sent>>

ReadHead(e) ==
  /\ editor[e].phase = "ready" /\ editor[e].head # Latest
  /\ editor' = [editor EXCEPT ![e].reads = @ \cup {Latest}]
  /\ UNCHANGED <<history, recorded, stored, typed, calls, puts, sent>>

ShowHead(e) ==
  /\ \E r \in editor[e].reads :
       LET st == [editor[e] EXCEPT !.reads = @ \ {r}, !.head = r]
       IN editor' = [editor EXCEPT ![e] =
            IF st.dirty THEN st
            ELSE [st EXCEPT !.buffer = history[r], !.base = r, !.save = "saved"]]
  /\ UNCHANGED <<history, recorded, stored, typed, calls, puts, sent>>

----------------------------------------------------------------------------
(***************************************************************************)
(* Conflict review: the merge plan is made from the saved page and the     *)
(* buffer when the review opens; applying it publishes the plan's text on  *)
(* the revision the conflict names now.                                    *)
(***************************************************************************)
OpenReview(e) ==
  /\ editor[e].phase = "ready" /\ editor[e].conflict # None /\ editor[e].review = None
  /\ editor' = [editor EXCEPT ![e].review = [saved |-> Latest, text |-> editor[e].buffer]]
  /\ UNCHANGED <<history, recorded, stored, typed, calls, puts, sent>>

\* Both sides, or the saved page throughout.
Merged(plan) == {history[plan.saved] \cup plan.text, history[plan.saved]}

ResolveConflict(e) ==
  LET st == editor[e]
      Sent(text) == [key |-> sent + 1, base |-> st.conflict.current, text |-> text,
                     seq |-> st.draftSeq]
  IN /\ st.phase = "ready" /\ st.conflict # None /\ st.review # None
     /\ sent < MaxCalls
     /\ sent' = sent + 1
     /\ \E text \in Merged(st.review) :
          /\ calls' = calls \cup {Call(e, "merge", Sent(text))}
          /\ editor' = [editor EXCEPT ![e] = [st EXCEPT !.buffer = text, !.dirty = TRUE,
               !.conflict = None, !.review = None, !.save = "saving", !.saving = TRUE,
               !.key = sent + 1, !.inFlight = None]]
     /\ UNCHANGED <<history, recorded, stored, typed, puts>>

KeepDraft(e) ==
  /\ editor[e].phase = "ready" /\ editor[e].conflict # None
  /\ editor' = [editor EXCEPT ![e].conflict = None, ![e].review = None]
  /\ UNCHANGED <<history, recorded, stored, typed, calls, puts, sent>>

\* The dialog waits for the deletion, which may fail, and shows the page again.
DiscardDraft(e) ==
  /\ editor[e].phase = "ready" /\ editor[e].conflict # None
  /\ stored' \in {stored, Cleared(editor[e].draftSeq + 1)}
  /\ editor' = [editor EXCEPT ![e] = Loaded([@ EXCEPT !.key = None, !.inFlight = None,
                                                      !.pending = FALSE], stored')]
  /\ UNCHANGED <<history, recorded, typed, calls, puts, sent>>

----------------------------------------------------------------------------
ServeCall ==
  \E c \in calls : Publish(c) \/ ClearDraft(c) \/ ReadDraft(c) \/ KeepCandidate(c)

EditNext ==
  \/ ServeCall \/ LandPut \/ OtherPublishes
  \/ \E c \in calls : Hear(c) \/ Fail(c)
  \/ \E e \in Editors :
       \/ Open(e) \/ Type(e) \/ WriteDraft(e) \/ TimerSave(e) \/ Flush(e) \/ Leave(e)
       \/ ReadHead(e) \/ ShowHead(e)
       \/ OpenReview(e) \/ ResolveConflict(e) \/ KeepDraft(e) \/ DiscardDraft(e)

EditSpec == EditInit /\ [][EditNext]_editVars

(***************************************************************************)
(* Fairness: timers fire, and every call of an open session ends with an   *)
(* answer or a failure.                                                    *)
(***************************************************************************)
EditFairness ==
  /\ \A e \in Editors : WF_editVars(TimerSave(e))
  /\ WF_editVars(\E c \in calls : Hear(c) \/ Fail(c))

----------------------------------------------------------------------------
(* Properties.                                                             *)

(***************************************************************************)
(* "Saved" is only shown when it is true: the text in the editor is the    *)
(* text of a published revision, the one the session is based on, whatever *)
(* was typed, answered late, retried or published by others meanwhile.     *)
(***************************************************************************)
SavedIsPublished ==
  \A e \in Editors : editor[e].phase = "ready" /\ editor[e].save = "saved" =>
    /\ ~ editor[e].dirty
    /\ editor[e].buffer = history[editor[e].base]

SaveUnderWay(e) == editor[e].phase = "ready" /\ (editor[e].pending \/ editor[e].saving)

SaveSettled(e) ==
  \/ editor[e].phase = "closed"
  \/ editor[e].save \in {"saved", "failed"}
  \/ stored # None /\ stored.text = editor[e].buffer

(***************************************************************************)
(* A save is not forgotten: a session with a running save or timer keeps   *)
(* one, through answers, failures, typing during a save, triggers that     *)
(* come while another save runs and conflict reviews, until it shows that  *)
(* the text is saved or that saving failed, shows the stored draft, or is  *)
(* left.                                                                   *)
(***************************************************************************)
NoSaveIsForgotten ==
  [][\A e \in Editors : SaveUnderWay(e) => (SaveUnderWay(e) \/ SaveSettled(e))']_editVars

(***************************************************************************)
(* A typed text does not stay unsaved in silence: a session with a running *)
(* save or timer settles (or the bound on calls is reached).               *)
(***************************************************************************)
SavesSettle == \A e \in Editors : SaveUnderWay(e) ~> (SaveSettled(e) \/ sent = MaxCalls)

(***************************************************************************)
(* Nobody's revision is overwritten unseen: a revision contains the one    *)
(* before it (nobody in this model deletes text that was in front of them, *)
(* so what is missing was never looked at).                                *)
(***************************************************************************)
NothingOverwritten == \A r \in 2..Latest : history[r - 1] \subseteq history[r]

(***************************************************************************)
(* A save deletes a draft only when it covered it (deleteDraftStatement,   *)
(* "a save covered it"): what the session still shows of the deleted       *)
(* draft's text is in a revision.                                          *)
(***************************************************************************)
CoveredDraftsOnly ==
  [][ServeCall /\ stored # None /\ stored' = None =>
       \A e \in Editors : editor[e].phase = "ready" =>
          stored.text \cap editor[e].buffer \subseteq UNION {history'[r] : r \in 1..Len(history')}]_editVars

=============================================================================
