--------------------------- MODULE OperatorConsole ---------------------------
(***************************************************************************)
(* The operator cockpit in the browser (app.js) as a client of the Node    *)
(* API: what its panels show of the server's state, while requests are     *)
(* answered late, in another order or not at all.                          *)
(*                                                                         *)
(* A load of the summary, once answered, starts the loads of the panels.   *)
(* Nothing keeps two loads of one panel apart and nothing orders their     *)
(* answers.  The server reads its state when a request reaches it; since   *)
(* the cockpit does nothing with a request before its answer comes, the    *)
(* model sends and reads in one step.                                      *)
(*                                                                         *)
(* The realtime stream reloads nothing.                                    *)
(***************************************************************************)
EXTENDS Integers, Sequences, SequencesExt

CONSTANTS
    Panels,          \* of "radar", "inbox", "diff", "passports", "briefing"
    Decisions,       \* decisions of the inbox
    PollInterval,    \* 30
    MaxInFlight,     \* bound on the loads of one panel under way
    MaxChanges,      \* bound on the changes at the server and the quarantines
    MaxFailures      \* bound on the requests that fail

ASSUME OperatorConsoleAssumption ==
    /\ Panels \subseteq {"radar", "inbox", "diff", "passports", "briefing"}
    /\ PollInterval \in Nat \ {0} /\ MaxInFlight \in Nat \ {0}
    /\ MaxChanges \in Nat /\ MaxFailures \in Nat

VARIABLES
    world,           \* the server: pending decisions, contention, version of the rest
    summary,         \* the version of the summary on the screen
    screen,          \* what each panel shows
    loads,           \* answers to loads of the summary under way
    flight,          \* answers to the loads of each panel under way
    posts,           \* answers to resolveDecision under way
    countdown,       \* state.pollCountdown
    dimmed,          \* btnLiveOrgSync is at half opacity
    syncs,           \* requests for an org sync under way
    changes, failures

shown == <<summary, screen>>
net   == <<loads, flight, posts, syncs>>
vars  == <<world, shown, net, countdown, dimmed, changes, failures>>

-----------------------------------------------------------------------------
(* What the panels show *)

\* Before the first answer: the page as it is written, with a clean radar and nothing in
\* the other panels.
Blank(p) == CASE p = "radar" -> "clean" [] p = "inbox" -> {} [] OTHER -> 0

Quarantined == "quarantine active"

\* The answer of a panel's endpoint.
Answer(p) ==
    CASE p = "radar" -> IF world.contended THEN "alert" ELSE "clean"
      [] p = "inbox" -> world.pending
      [] OTHER       -> world.version

\* After a failed request the radar shows "Clean", the others what they showed.
AfterFailure(p) == IF p = "radar" THEN "clean" ELSE screen[p]

\* The cards of pending decisions have buttons.
Offered == IF "inbox" \in Panels THEN screen["inbox"] ELSE {}

-----------------------------------------------------------------------------
(* Loads *)

\* Within the bound; a reload leaves room for the load a summary starts.
LoadPanel(p) ==
    /\ Len(flight[p]) < MaxInFlight - 1
    /\ flight' = [flight EXCEPT ![p] = Append(@, Answer(p))]

PanelArrives(p, i) ==
    /\ i \in DOMAIN flight[p]
    /\ screen' = [screen EXCEPT ![p] = flight[p][i]]
    /\ flight' = [flight EXCEPT ![p] = RemoveAt(@, i)]
    /\ UNCHANGED <<world, summary, loads, posts, syncs, countdown, dimmed, changes, failures>>

Fails == failures < MaxFailures /\ failures' = failures + 1

PanelFails(p, i) ==
    /\ Fails
    /\ i \in DOMAIN flight[p]
    /\ screen' = [screen EXCEPT ![p] = AfterFailure(p)]
    /\ flight' = [flight EXCEPT ![p] = RemoveAt(@, i)]
    /\ UNCHANGED <<world, summary, loads, posts, syncs, countdown, dimmed, changes>>

\* Room for another press of a button.
CanLoadSummary == Len(loads) + syncs < MaxInFlight

\* forSync: the sync button waits for this load.
LoadSummary(forSync) ==
    loads' = Append(loads, [version |-> world.version, forSync |-> forSync])

\* Of several syncs, the first to come to an end brightens the button.
StillDimmed(load) == dimmed /\ ~load.forSync

SummaryArrives(i) ==
    /\ i \in DOMAIN loads
    /\ \A p \in Panels : Len(flight[p]) < MaxInFlight
    /\ summary' = loads[i].version
    /\ flight' = [p \in Panels |-> Append(flight[p], Answer(p))]
    /\ countdown' = PollInterval
    /\ dimmed' = StillDimmed(loads[i])
    /\ loads' = RemoveAt(loads, i)
    /\ UNCHANGED <<world, screen, posts, syncs, changes, failures>>

\* The screen is left as it was, and no panel is loaded.
SummaryFails(i) ==
    /\ Fails
    /\ i \in DOMAIN loads
    /\ dimmed' = StillDimmed(loads[i])
    /\ loads' = RemoveAt(loads, i)
    /\ UNCHANGED <<world, shown, flight, posts, syncs, countdown, changes>>

-----------------------------------------------------------------------------
(* Polling *)

\* The countdown is set again by a load that succeeds, and polls at zero.
Countdown_ResetByLoad(c) == IF c < 0 THEN c ELSE c - 1

\* A second passes (a sync that is never answered does not stop it); at zero the countdown
\* starts over.
Countdown(c) == IF c - 1 <= 0 THEN PollInterval ELSE c - 1

Due == countdown - 1 = 0

Second ==
    /\ countdown' = Countdown(countdown)
    /\ IF Due THEN Len(loads) < MaxInFlight /\ LoadSummary(FALSE) ELSE UNCHANGED loads
    /\ UNCHANGED <<world, shown, flight, posts, syncs, dimmed, changes, failures>>

\* The refresh button, and an attention item that is authorised.
Refresh ==
    /\ CanLoadSummary
    /\ LoadSummary(FALSE)
    /\ UNCHANGED <<world, shown, flight, posts, syncs, countdown, dimmed, changes, failures>>

\* The buttons of a panel, its tab, and a collision simulated or reset.
ReloadPanel(p) ==
    /\ LoadPanel(p)
    /\ UNCHANGED <<world, shown, loads, posts, syncs, countdown, dimmed, changes, failures>>

-----------------------------------------------------------------------------
(* Commands *)

Changes == changes < MaxChanges /\ changes' = changes + 1

\* A second resolution of a decision is refused, and so answered 400.
Resolve(d) ==
    /\ d \in Offered /\ Len(posts) < MaxInFlight
    /\ posts' = Append(posts, d \in world.pending)
    /\ world' = [world EXCEPT !.pending = @ \ {d}]
    /\ UNCHANGED <<shown, loads, flight, syncs, countdown, dimmed, changes, failures>>

\* The inbox is loaded again after a success only.
ResolveAnswered ==
    /\ posts # <<>>
    /\ IF Head(posts) THEN LoadPanel("inbox") ELSE UNCHANGED flight
    /\ posts' = Tail(posts)
    /\ UNCHANGED <<world, shown, loads, syncs, countdown, dimmed, changes, failures>>

ResolveLost ==
    /\ Fails
    /\ posts # <<>>
    /\ posts' = Tail(posts)
    /\ UNCHANGED <<world, shown, loads, flight, syncs, countdown, dimmed, changes>>

\* The button can be pressed again while a sync is under way.  Nothing limits how long
\* the server takes to answer.
SyncLiveOrg ==
    /\ CanLoadSummary
    /\ syncs' = syncs + 1 /\ dimmed' = TRUE
    /\ UNCHANGED <<world, shown, loads, flight, posts, countdown, changes, failures>>

SyncAnswered ==
    /\ syncs > 0
    /\ syncs' = syncs - 1
    /\ LoadSummary(TRUE)
    /\ UNCHANGED <<world, shown, flight, posts, countdown, dimmed, changes, failures>>

\* The button stays dimmed when the sync fails.
DimmedAfterFailure_Stays == dimmed

\* finally
DimmedAfterFailure == FALSE

SyncFails ==
    /\ Fails
    /\ syncs > 0
    /\ syncs' = syncs - 1
    /\ dimmed' = DimmedAfterFailure
    /\ UNCHANGED <<world, shown, loads, flight, posts, countdown, changes>>

\* The badge of the radar shows the quarantine until the radar is loaded.
DispatchQuarantine ==
    /\ Changes
    /\ "radar" \in Panels
    /\ screen' = [screen EXCEPT !["radar"] = Quarantined]
    /\ UNCHANGED <<world, summary, net, countdown, dimmed, failures>>

-----------------------------------------------------------------------------
(* The server *)

\* Other operators and agents move the server's state.
WorldChanges ==
    /\ Changes
    /\ \/ \E d \in world.pending : world' = [world EXCEPT !.pending = @ \ {d}]
       \/ world' = [world EXCEPT !.contended = ~@]
       \/ world' = [world EXCEPT !.version = @ + 1]
    /\ UNCHANGED <<shown, net, countdown, dimmed, failures>>

-----------------------------------------------------------------------------
Init ==
    /\ world = [pending |-> Decisions, contended |-> FALSE, version |-> 1]
    /\ summary = 0 /\ screen = [p \in Panels |-> Blank(p)]
    /\ loads = <<[version |-> 1, forSync |-> FALSE]>>
    /\ flight = [p \in Panels |-> <<>>] /\ posts = <<>> /\ syncs = 0
    /\ countdown = PollInterval /\ dimmed = FALSE
    /\ changes = 0 /\ failures = 0

Next ==
    \/ Second \/ Refresh \/ \E p \in Panels : ReloadPanel(p)
    \/ \E i \in 1..(2 * MaxInFlight) :
           \/ SummaryArrives(i) \/ SummaryFails(i)
           \/ \E p \in Panels : PanelArrives(p, i) \/ PanelFails(p, i)
    \/ \E d \in Decisions : Resolve(d)
    \/ ResolveAnswered \/ ResolveLost
    \/ SyncLiveOrg \/ SyncAnswered \/ SyncFails \/ DispatchQuarantine
    \/ WorldChanges

\* The timer runs, and the oldest request of each kind that the server answers from its
\* memory is answered some time; a request for a sync may stay open for ever.
Fairness ==
    /\ WF_vars(Second) /\ SF_vars(SummaryArrives(1))
    /\ \A p \in Panels : WF_vars(PanelArrives(p, 1))
    /\ WF_vars(ResolveAnswered)

Spec == Init /\ [][Next]_vars /\ Fairness

-----------------------------------------------------------------------------
(* Properties *)

Current == summary = world.version /\ \A p \in Panels : screen[p] = Answer(p)

\* When the server stops changing and requests stop failing, every panel comes to
\* show the server's state and stays at it, although loads overlapped, failed and
\* were answered in any order before, and nothing but the timer asks again
\* (startPolling, loadWarRoomData).
EventuallyCurrent == <>[]Current

\* The sync button stays dimmed only as long as a request for a sync has no answer:
\* once every sync has been answered or has failed, and whether the loads that follow
\* arrive, fail or overlap other presses, the button is bright again (syncLiveOrg).
SyncButtonReleased == <>[]dimmed => <>[](syncs > 0)

=============================================================================
