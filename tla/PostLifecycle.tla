---------------------------- MODULE PostLifecycle ----------------------------
(***************************************************************************)
(* What the pipeline promises about a post, as the user sees it in the two *)
(* states that every POST_STATE_UPDATED message carries: the stages a post  *)
(* goes through; a bulk update takes any number of posts to one stage.     *)
(***************************************************************************)
CONSTANT Posts
VARIABLE stage

Stage == {"unsaved", "waiting", "submitting", "submitted", "publishing", "published",
          "submitFailed", "publishFailed"}

\* A publish task also takes along the posts that an earlier one failed to
\* publish, and a post that is linked to a task after the task's posts were
\* marked goes straight to the task's outcome.
Edges == {<<"unsaved", "waiting">>,
          <<"waiting", "submitting">>,
          <<"submitting", "submitted">>, <<"submitting", "submitFailed">>,
          <<"submitFailed", "waiting">>,
          <<"submitted", "publishing">>,
          <<"submitted", "published">>, <<"submitted", "publishFailed">>,
          <<"publishing", "published">>, <<"publishing", "publishFailed">>,
          <<"publishFailed", "submitted">>,
          <<"publishFailed", "publishing">>, <<"publishFailed", "published">>}

Init == stage = [p \in Posts |-> "unsaved"]

Move(to) ==
    \E moved \in SUBSET Posts :
        /\ \A p \in moved : <<stage[p], to>> \in Edges
        /\ stage' = [p \in Posts |-> IF p \in moved THEN to ELSE stage[p]]

Next == \E to \in Stage : Move(to)

Spec == Init /\ [][Next]_stage
=============================================================================
