---------------------------- MODULE ActivityFeed ----------------------------
(***************************************************************************)
(* The feed of GitHub events and the list of pull requests that browser-   *)
(* side analytics (algorithms.js) work on, and the hash chain over the     *)
(* feed, which is generated, stored, edited and verified later.            *)
(***************************************************************************)
EXTENDS FeedReports, HashChain

CONSTANTS
    MaxFeed,         \* bound on the events of the feed and the pull requests together
    MaxStored,       \* bound on the events a chain is generated from
    MaxEdits         \* bound on the edits of a stored chain

vars == <<feed, prs, chain, sealed, edits>>

-----------------------------------------------------------------------------
\* Bounds: the reports do not read the chain nor the chain the pull requests, so once
\* there is a chain the lists stay, and it is generated while no pull request is listed.
Room == Len(feed) + Len(prs) < MaxFeed /\ chain = <<>>

Sealing == chain = <<>> /\ prs = <<>> /\ Len(feed) \in 1..MaxStored

Arrive(e) ==
    /\ Room
    /\ feed' = Append(feed, e)
    /\ UNCHANGED <<prs, chain, sealed, edits>>

OpenPr(pr) ==
    /\ Room /\ pr \notin ToSet(prs)
    /\ prs' = Append(prs, pr)
    /\ UNCHANGED <<feed, chain, sealed, edits>>

Seal ==
    /\ Sealing
    /\ chain' = GenerateHashChain(feed)
    /\ sealed' = Sealable(feed)
    /\ UNCHANGED <<feed, prs, edits>>

\* The hashes an editor knows or computes: SHA-256 takes no key.
Computable(c) ==
    {Genesis}
        \union {Original[k].hash : k \in DOMAIN Original}
        \union {c[i].hash : i \in DOMAIN c}
        \union {Hash(c[i].payload) : i \in DOMAIN c}
        \union {Hash([c[i].payload EXCEPT !.prev = Expected(c, i)]) : i \in DOMAIN c}

\* What lies in storage may be altered anywhere, cut, put in another order or continued.
Edited(c) ==
    LET Altered(i) ==
            {[c EXCEPT ![i].payload.event = e] : e \in Events}
                \union {[c EXCEPT ![i].payload.index = n] : n \in 1..MaxBlocks}
                \union {[c EXCEPT ![i].payload.prev = h] : h \in Computable(c)}
                \union {[c EXCEPT ![i].prevHash = h] : h \in Computable(c)}
                \union {[c EXCEPT ![i].hash = h] : h \in Computable(c)}
        Moved(i) == {RemoveAt(c, i)} \union {[c EXCEPT ![i] = c[j], ![j] = c[i]] : j \in DOMAIN c}
        Continued == {Append(c, Block(Len(c) + 1, e, c[Len(c)].hash)) : e \in Events}
    IN  (UNION {Altered(i) \union Moved(i) : i \in DOMAIN c}) \union Continued

Edit ==
    /\ chain # <<>> /\ edits < MaxEdits
    /\ edits' = edits + 1
    /\ chain' \in Edited(chain) \ {<<>>}
    /\ UNCHANGED <<feed, prs, sealed>>

Init == feed = <<>> /\ prs = <<>> /\ chain = <<>> /\ sealed = <<>> /\ edits = 0

Next ==
    \/ \E e \in Events : Arrive(e)
    \/ \E pr \in Prs : OpenPr(pr)
    \/ Seal
    \/ Edit

Spec == Init /\ [][Next]_vars

=============================================================================
