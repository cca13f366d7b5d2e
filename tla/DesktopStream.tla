---------------------------- MODULE DesktopStream ----------------------------
(***************************************************************************)
(* The desktop's event stream (app.go broadcast, streamHandler) and the    *)
(* page that follows it (web/app.js refresh, connectStream, boot,          *)
(* teardown).                                                              *)
(*                                                                         *)
(* An event carries nothing the page needs: it makes the page ask for the  *)
(* summary.  A subscriber that is slow loses events, a stream that breaks  *)
(* loses all of them until it is open again, and the page has one request  *)
(* under way at a time.  The store's state is a version number.            *)
(***************************************************************************)
EXTENDS Integers, Sequences, PageAndStream

CONSTANTS
    ChannelSize,     \* 4, events kept for a slow subscriber
    WireSize,        \* bound on the events written and not yet read
    MaxChanges,      \* bound on the changes of the store
    MaxFailures,     \* bound on the requests that fail
    MaxBreaks        \* bound on the breaks of the stream

VARIABLES
    version,         \* the store
    queued,          \* refreshQueued
    changes, failures, breaks

server == <<version, toTell, told>>
page   == <<request, queued, shown, failed>>
bounds == <<changes, failures, breaks>>
vars   == <<server, stream, channel, wire, page, destroyed, bounds>>

Asked == -1
Subscribed == stream \in {"subscribed", "open"}

-----------------------------------------------------------------------------
(* The server *)

\* A sync, a probe, a metric, an agent event is stored; some changes are not broadcast.
Change ==
    /\ changes < MaxChanges /\ changes' = changes + 1
    /\ version' = version + 1
    /\ toTell' \in {toTell, toTell \union {version + 1}}
    /\ UNCHANGED <<told, stream, channel, wire, page, destroyed, failures, breaks>>

\* The event is dropped when the channel is full.
Broadcast(v) ==
    /\ v \in toTell
    /\ toTell' = toTell \ {v}
    /\ told' = IF v > told THEN v ELSE told
    /\ channel' = IF Subscribed /\ channel < ChannelSize THEN channel + 1 ELSE channel
    /\ UNCHANGED <<version, stream, wire, page, destroyed, bounds>>

\* The stream's handler: the channel is registered, then "ready" is written.
Subscribe ==
    /\ stream = "connecting"
    /\ stream' = "subscribed" /\ channel' = 0
    /\ UNCHANGED <<server, wire, page, destroyed, bounds>>

Ready ==
    /\ stream = "subscribed" /\ Len(wire) < WireSize
    /\ stream' = "open" /\ wire' = Append(wire, "ready")
    /\ UNCHANGED <<server, channel, page, destroyed, bounds>>

Update ==
    /\ stream = "open" /\ channel > 0 /\ Len(wire) < WireSize
    /\ channel' = channel - 1 /\ wire' = Append(wire, "update")
    /\ UNCHANGED <<server, stream, page, destroyed, bounds>>

Ping ==
    /\ stream = "open" /\ Len(wire) < WireSize
    /\ wire' = Append(wire, "ping")
    /\ UNCHANGED <<server, stream, channel, page, destroyed, bounds>>

\* The browser connects again by itself; what was on its way is lost.
Break ==
    /\ Subscribed
    /\ breaks < MaxBreaks /\ breaks' = breaks + 1
    /\ stream' = "connecting" /\ channel' = 0 /\ wire' = <<>>
    /\ UNCHANGED <<server, page, destroyed, changes, failures>>

-----------------------------------------------------------------------------
(* The page *)

\* A call during a request is answered by that request.
AskAgain_Never == FALSE

\* A call during a request is remembered: the request may have been answered before it.
AskAgain == TRUE

\* refresh
Refresh ==
    IF request = NoRequest THEN request' = Asked /\ UNCHANGED queued
                      ELSE queued' = AskAgain /\ UNCHANGED request

\* The interval of 30 seconds and the buttons of the page.
Poll ==
    /\ ~destroyed /\ stream # "boot"
    /\ Refresh
    /\ UNCHANGED <<server, stream, channel, wire, shown, failed, destroyed, bounds>>

Receive ==
    /\ wire # <<>>
    /\ wire' = Tail(wire)
    /\ IF destroyed \/ Head(wire) = "ping" THEN UNCHANGED <<request, queued>> ELSE Refresh
    /\ UNCHANGED <<server, stream, channel, shown, failed, destroyed, bounds>>

\* The summary handler reads the store.
Answer ==
    /\ request = Asked
    /\ request' = version
    /\ UNCHANGED <<server, stream, channel, wire, queued, shown, failed, destroyed, bounds>>

\* The request that failed stays in flight, never to be answered.
AfterFailure_InFlight == -2

\* finally: the request is over, and a remembered call asks again.
Over == IF queued /\ ~destroyed THEN Asked ELSE NoRequest
AfterFailure == Over

\* boot awaits its first refresh and connects, even if that failed or the page is gone.
Connected == IF stream = "boot" THEN "connecting" ELSE stream

Arrive ==
    /\ request > 0
    /\ IF destroyed THEN UNCHANGED <<shown, failed>> ELSE shown' = request /\ failed' = FALSE
    /\ request' = Over /\ queued' = (queued /\ destroyed) /\ stream' = Connected
    /\ UNCHANGED <<server, channel, wire, destroyed, bounds>>

Fail ==
    /\ request # NoRequest
    /\ failures < MaxFailures /\ failures' = failures + 1
    /\ failed' = TRUE /\ stream' = Connected
    /\ request' = AfterFailure /\ queued' = (queued /\ destroyed)
    /\ UNCHANGED <<server, channel, wire, shown, destroyed, changes, breaks>>

\* pagehide
Teardown ==
    /\ ~destroyed
    /\ destroyed' = TRUE
    /\ stream' = IF stream = "boot" THEN "boot" ELSE "closed"
    /\ channel' = 0 /\ wire' = <<>>
    /\ UNCHANGED <<server, page, bounds>>

-----------------------------------------------------------------------------
Init ==
    /\ version = 1 /\ toTell = {} /\ told = 1
    /\ stream = "boot" /\ channel = 0 /\ wire = <<>>
    /\ request = Asked /\ queued = FALSE /\ shown = 0 /\ failed = FALSE
    /\ destroyed = FALSE
    /\ changes = 0 /\ failures = 0 /\ breaks = 0

Next ==
    \/ Change \/ \E v \in toTell : Broadcast(v)
    \/ Subscribe \/ Ready \/ Update \/ Ping \/ Break
    \/ Poll \/ Receive \/ Answer \/ Arrive \/ Fail \/ Teardown

\* The interval fires, and a request is answered in the end.
Fairness == WF_vars(Poll) /\ WF_vars(Answer) /\ WF_vars(Arrive)

Spec == Init /\ [][Next]_vars /\ Fairness

-----------------------------------------------------------------------------
(* Properties *)

\* Without any event, the page comes to show the store's state and to stay at it when the
\* store stops changing and requests stop failing (refresh, the interval of boot).
PageCatchesUp == <>[](destroyed \/ shown = version)

=============================================================================
