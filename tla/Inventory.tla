----------------------------- MODULE Inventory ------------------------------
(***************************************************************************)
(* The inventory of repositories that the desktop client stores, and what  *)
(* it promises of the private ones.  SyncControl changes it.               *)
(***************************************************************************)

CONSTANT Private     \* the private repositories of the organisation

VARIABLES
    stored,          \* Store.github.Repos
    known,           \* the private ones of the bootstrap or of the last credentialed snapshot
    blank            \* since then a request without token has stored an empty list

\* However syncs with and without a token overlap with each other and with changes of the
\* token, the private repositories in the store are those of the last credentialed
\* snapshot, until a request without a token stores an empty list (syncHandler,
\* background, mergePublicSnapshot).
PrivateInventoryKept == blank \/ stored \intersect Private = known

\* Without a token, private repositories never disappear from the topology
\* (mergePublicSnapshot; github_reconcile.go says "instead of silently disappearing").
PrivateNeverDisappears == known \subseteq stored

=============================================================================
