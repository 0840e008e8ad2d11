---------------------------- MODULE MCDriveSync ----------------------------
(***************************************************************************)
(* Properties of DriveSync, and its instances for TLC.                     *)
(***************************************************************************)
EXTENDS DriveSync

\* A job is tried at most MAX_ATTEMPTS times by processes that survive; only
\* an attempt whose lease lapsed or whose process died may come on top.
AttemptsBounded == \A j \in Job : job[j].attempts <= MaxAttempts + faults

\* document_sync_status: the newest job of the path is done (and no change is
\* on its way to the queue).
Synced == jobs > 0 /\ job[jobs].status = "done" /\ \A op \in {"upload", "delete"} : queued[op] = 0

\* No late or retried job undoes what has been delivered: while the users
\* change nothing, a mirror that agrees with the file goes on agreeing.
DeliveredStays ==
  [][Synced /\ mirror = local /\ local' = local => mirror' = local]_vars
=============================================================================
