------------------------------ MODULE Workflow ------------------------------
(***************************************************************************)
(* The transition tables of apps/web/lib/domain/workflow.ts that the       *)
(* operator services consult before they accept a change.                  *)
(***************************************************************************)

LifecycleStates == {"open", "in_progress", "resolved", "closed", "disputed"}

HandoffStates == {"prepared", "sent", "acknowledged", "closed", "failed"}

SubmissionStates == {"received", "under_review", "changes_requested", "revision_pending",
                     "approved", "rejected", "withdrawn", "expired"}

\* submissionTransitions, the table behind assertSubmissionTransition.
SubmissionTransitions ==
    [ from \in SubmissionStates |->
        CASE from = "received"          -> {"under_review", "withdrawn", "expired"}
          [] from = "under_review"      -> {"changes_requested", "approved", "rejected", "withdrawn"}
          [] from = "changes_requested" -> {"revision_pending", "under_review", "withdrawn", "expired"}
          [] from = "revision_pending"  -> {"under_review", "withdrawn"}
          [] OTHER                      -> {} ]

\* lifecycleTransitions, the table behind assertLifecycleTransition.
LifecycleTransitions ==
    [ from \in LifecycleStates |->
        CASE from = "open"        -> {"in_progress", "disputed", "closed"}
          [] from = "in_progress" -> {"resolved", "disputed", "closed"}
          [] from = "resolved"    -> {"disputed", "closed"}
          [] from = "disputed"    -> {"open", "in_progress", "resolved", "closed"}
          [] from = "closed"      -> {} ]

\* handoffTransitions: "none" stands for an issue without an aggregate row.
HandoffTransitions ==
    [ from \in HandoffStates \cup {"none"} |->
        CASE from = "none"         -> {"prepared"}
          [] from = "prepared"     -> {"sent", "failed"}
          [] from = "sent"         -> {"acknowledged", "failed"}
          [] from = "acknowledged" -> {"closed"}
          [] from \in {"failed", "closed"} -> {} ]
=============================================================================
