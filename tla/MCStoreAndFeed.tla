--------------------------- MODULE MCStoreAndFeed ---------------------------
(***************************************************************************)
(* The state files of the desktop client and the feed that the browser's   *)
(* analytics work on, in one run.  They share no state: in each behaviour  *)
(* one of them moves.                                                      *)
(***************************************************************************)
EXTENDS MCStateStore, FeedReports, HashChain

CONSTANTS forge, anna

VARIABLE part

MCEvent(actor, plane, type, branch, action, commits) ==
    [actor |-> actor, kind |-> IF actor = forge THEN "bot" ELSE "human", repo |-> plane,
     plane |-> plane, type |-> type, branch |-> branch, action |-> action,
     commits |-> commits, quota |-> type = "IssueCommentEvent"]

\* Two pushes to one branch and its deletion, a push to main, a merge, whose risk is that
\* of the limit itself, and a comment that a quota is used up.
MCEvents == {MCEvent(forge, "application", "PushEvent", "feat", "push", <<"retry", "retry">>),
             MCEvent(anna, "application", "CreateEvent", "feat", "other", <<>>),
             MCEvent(anna, "application", "DeleteEvent", "feat", "other", <<>>),
             MCEvent(anna, "authority", "PushEvent", "main", "security", <<"token">>),
             MCEvent(anna, "application", "PullRequestEvent", "", "merge", <<>>),
             MCEvent(forge, "application", "IssueCommentEvent", "", "other", <<>>)}

MCPr(repo, number, sha) == [repo |-> repo, number |-> number, sha |-> sha]

MCPrs == {MCPr("application", 1, "a1"), MCPr("application", 2, "a1"), MCPr("application", 3, ""),
          MCPr("authority", 1, "a1")}

Feed == INSTANCE ActivityFeed WITH MaxFeed <- 5, MaxStored <- 3, MaxEdits <- 2

feedVars == <<feed, prs, chain, sealed, edits>>
allVars  == <<part, vars, feedVars>>

MCInit ==
    /\ part \in {"store", "feed"} /\ Init /\ Feed!Init
    /\ part = "feed" => primary = [f \in Files |-> Absent]

MCNext ==
    /\ UNCHANGED part
    /\ \/ part = "store" /\ Next /\ UNCHANGED feedVars
       \/ part = "feed" /\ Feed!Next /\ UNCHANGED vars

MCSpec == MCInit /\ [][MCNext]_allVars

=============================================================================
