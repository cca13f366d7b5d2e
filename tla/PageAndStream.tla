--------------------------- MODULE PageAndStream ----------------------------
(***************************************************************************)
(* What the desktop's page shows, the stream that tells it of changes, and *)
(* what the page promises when nothing is on its way.  The steps are in    *)
(* DesktopStream.                                                          *)
(***************************************************************************)
EXTENDS Integers

VARIABLES
    toTell,          \* handlers and loops that changed the store and are to broadcast
    told,            \* the version that the last broadcast was about, or a later one
    stream,          \* "boot", "connecting", "subscribed", "open", "closed"
    channel,         \* events in the subscriber's channel
    wire,            \* events on their way to the page
    request,         \* refreshInFlight: NoRequest, asked, or the version answered
    shown, failed,   \* S.data, and whether S.lastRefreshError is set
    destroyed

NoRequest == 0

\* Nothing is on its way.
Quiet ==
    /\ ~destroyed /\ stream = "open" /\ channel = 0 /\ wire = <<>>
    /\ toTell = {} /\ request = NoRequest /\ ~failed

\* When the stream is open and nothing is on its way, the page shows the store as of
\* the last broadcast or later, whatever events a full channel dropped, a broken stream
\* lost, or came while a request was under way (broadcast, streamHandler, refresh).
QuietMeansCurrent == Quiet => shown >= told

=============================================================================
