------------------------------- MODULE ChatTab -------------------------------
(***************************************************************************)
(* One chat tab in the browser (hooks/use-ws-runtime.ts): its WebSocket,   *)
(* the reconnects and page events that replace it, the deadline on every   *)
(* history request, the one queued message, and what the tab says became   *)
(* of the messages it sent.                                                *)
(*                                                                         *)
(* A step is one event handler: the browser runs them one at a time.  The  *)
(* server, the network and the user are external and free.  How a history  *)
(* frame is merged into the transcript is left out, but for the statuses.  *)
(***************************************************************************)
EXTENDS Naturals, FiniteSets, Sequences

CONSTANTS
    Links, NoLink,      \* bound: WebSocket objects that exist at once
    Msgs,               \* bound: messages the user writes, with distinct texts
    NoMsg,
    MaxReconnects,      \* MAX_RECONNECT_ATTEMPTS
    MaxHeals,           \* MAX_HISTORY_SELF_HEALS
    FrameBufferMax,     \* FRAME_BUFFER_MAX
    MaxDrops            \* bound: open links the network drops or silences

ASSUME ChatTabAssumption ==
    /\ IsFiniteSet(Links) /\ NoLink \notin Links /\ NoMsg \notin Msgs
    /\ MaxReconnects \in Nat /\ MaxHeals \in Nat /\ MaxDrops \in Nat
    /\ FrameBufferMax \in Nat \ {0}

VARIABLES
    link,       \* [Links -> readyState]
    mute,       \* whether the current link is dead without having said so
    asked,      \* whether the server owes a history frame on the current link
    visible,    \* document.visibilityState
    tab,        \* the refs and states of the hook
    status,     \* [Msgs -> delivery status of the message]
    ackTimers,  \* pendingAckTimers
    reached,    \* messages the server has received
    drops       \* how many links were dropped or silenced

tabVars == <<link, mute, asked, visible, tab, status, ackTimers, reached, drops>>

Frame == (Msgs \X {"ack"}) \cup {<<NoMsg, "chunk">>, <<NoMsg, "end">>}

\* ws: wsRef.  timer, watchdog, grace: armed timers.  waiting: pendingHistoryRef.
\* recover: shouldRecoverFromHistoryRef.  The rest has its name in the hook.
Tab == [ws: Links \cup {NoLink}, timer: BOOLEAN, attempts: 0..MaxReconnects,
        exhausted: BOOLEAN, rejected: BOOLEAN, suspended: BOOLEAN, grace: BOOLEAN,
        recover: BOOLEAN, waiting: BOOLEAN, buffer: Seq(Frame), watchdog: BOOLEAN,
        heals: 0..MaxHeals, timedOut: BOOLEAN, loaded: BOOLEAN, running: BOOLEAN,
        queued: Msgs \cup {NoMsg}]

TabTypeOK ==
    /\ link \in [Links -> {"connecting", "open", "closing", "closed"}]
    /\ mute \in BOOLEAN /\ asked \in BOOLEAN
    /\ visible \in BOOLEAN
    /\ tab \in Tab /\ Len(tab.buffer) <= FrameBufferMax
    /\ status \in [Msgs -> {"none", "sending", "sent", "failed", "replaced"}]
    /\ ackTimers \subseteq Msgs /\ reached \subseteq Msgs
    /\ drops \in 0..MaxDrops

\* The hook has just mounted, perhaps in the background: its effect dials the first link.
TabInit ==
    /\ mute = FALSE /\ asked = FALSE
    /\ visible \in BOOLEAN
    /\ \E w \in Links :
         /\ link = [v \in Links |-> IF v = w THEN "connecting" ELSE "closed"]
         /\ tab = [ws |-> w, timer |-> FALSE, attempts |-> 0, exhausted |-> FALSE,
                   rejected |-> FALSE, suspended |-> FALSE, grace |-> FALSE, recover |-> FALSE,
                   waiting |-> FALSE, buffer |-> <<>>, watchdog |-> FALSE, heals |-> 0,
                   timedOut |-> FALSE, loaded |-> FALSE, running |-> FALSE, queued |-> NoMsg]
    /\ status = [m \in Msgs |-> "none"]
    /\ ackTimers = {} /\ reached = {}
    /\ drops = 0

ReadyState == IF tab.ws = NoLink THEN "none" ELSE link[tab.ws]

\* connect(): whatever wsRef held is let go of, not closed.
Dial(t) ==
    \E w \in {v \in Links : link[v] = "closed" /\ v # tab.ws} :
        /\ link' = [link EXCEPT ![w] = "connecting"]
        /\ tab' = [t EXCEPT !.ws = w]
        /\ mute' = FALSE /\ asked' = FALSE

\* sendHistoryRequest
Asking(t) == [t EXCEPT !.waiting = TRUE, !.buffer = <<>>, !.watchdog = TRUE]

\* What the paths that catch up have in common: ask if the link is open, else dial.
AskOrDial(t) ==
    \/ /\ ReadyState = "open"
       /\ tab' = Asking(t)
       /\ asked' = ~mute
       /\ UNCHANGED <<link, mute>>
    \/ ReadyState # "open" /\ Dial(t)

\* ws.close()
Close == IF tab.ws = NoLink \/ ReadyState = "closed" THEN link
         ELSE [link EXCEPT ![tab.ws] = "closing"]

\* forceReconnect; a dead link does not say so, hence the close.
ForceReconnect(t) ==
    LET fresh == [t EXCEPT !.timer = FALSE, !.recover = TRUE] IN
    \/ /\ tab.ws # NoLink
       /\ link' = Close
       /\ tab' = fresh
       /\ UNCHANGED <<mute, asked>>
    \/ tab.ws = NoLink /\ Dial(fresh)

-----------------------------------------------------------------------------
(* The socket. *)

\* onopen: history is asked for, then the queued message goes out.
LinkOpens(w) ==
    /\ link[w] = "connecting"
    /\ link' = [link EXCEPT ![w] = "open"]
    /\ IF w = tab.ws
       THEN /\ tab' = [Asking(tab) EXCEPT !.attempts = 0, !.exhausted = FALSE,
                                          !.rejected = FALSE, !.queued = NoMsg]
            /\ asked' = TRUE
            /\ reached' \in {reached, reached \cup ({tab.queued} \ {NoMsg})}
       ELSE UNCHANGED <<tab, asked, reached>>
    /\ UNCHANGED <<mute, visible, status, ackTimers, drops>>

\* onclose of the current link, by its first lines, and what follows them.
Closed == [tab EXCEPT !.ws = NoLink, !.waiting = FALSE, !.buffer = <<>>, !.watchdog = FALSE,
                      !.loaded = FALSE, !.running = FALSE]

Reconnecting ==
    IF tab.attempts < MaxReconnects
    THEN [Closed EXCEPT !.rejected = FALSE, !.recover = TRUE, !.timer = TRUE, !.attempts = @ + 1]
    ELSE [Closed EXCEPT !.rejected = FALSE, !.exhausted = TRUE]

\* The handlers of a link that wsRef no longer names return at once.
OnClose(w) ==
    /\ link' = [link EXCEPT ![w] = "closed"]
    /\ IF w # tab.ws THEN UNCHANGED <<tab, mute, asked>>
       ELSE /\ tab' = IF tab.suspended THEN Closed ELSE Reconnecting
            /\ mute' = FALSE /\ asked' = FALSE
    /\ UNCHANGED <<visible, status, ackTimers, reached>>

\* A dial fails, a close is completed, a link nobody holds is dropped.
LinkEnds(w) ==
    /\ link[w] \in {"connecting", "closing"} \/ (link[w] = "open" /\ w # tab.ws)
    /\ OnClose(w)
    /\ UNCHANGED drops

\* The network or the server drops the current link.
LinkDrops ==
    /\ ReadyState = "open"
    /\ drops < MaxDrops /\ drops' = drops + 1
    /\ OnClose(tab.ws)

\* Close code 1009: a frame was too large.  There is no reconnect.
LinkRejects ==
    /\ ReadyState = "open" /\ \E m \in Msgs : status[m] = "sending"
    /\ drops < MaxDrops /\ drops' = drops + 1
    /\ link' = [link EXCEPT ![tab.ws] = "closed"]
    /\ mute' = FALSE /\ asked' = FALSE
    /\ tab' = [Closed EXCEPT !.rejected = TRUE]
    /\ ackTimers' = {}
    /\ UNCHANGED <<visible, status, reached>>

\* A link dies without saying so.
LinkFallsSilent ==
    /\ ReadyState = "open" /\ ~mute
    /\ drops < MaxDrops /\ drops' = drops + 1
    /\ mute' = TRUE /\ asked' = FALSE
    /\ UNCHANGED <<link, visible, tab, status, ackTimers, reached>>

\* The backoff is over; a hidden tab drops the attempt.
ReconnectTimer ==
    /\ tab.timer
    /\ \/ visible /\ Dial([tab EXCEPT !.timer = FALSE])
       \/ ~visible /\ tab' = [tab EXCEPT !.timer = FALSE] /\ UNCHANGED <<link, mute, asked>>
    /\ UNCHANGED <<visible, status, ackTimers, reached, drops>>

-----------------------------------------------------------------------------
(* The page. *)

\* suspendForPageLifecycle
Suspended == [tab EXCEPT !.suspended = TRUE, !.watchdog = FALSE, !.timer = FALSE,
                         !.recover = TRUE, !.grace = FALSE]

\* pagehide, freeze and offline, and the end of the grace period of a hidden tab.
PageSuspends ==
    /\ ~tab.suspended
    /\ tab' = [Suspended EXCEPT !.grace = tab.grace]
    /\ link' = Close
    /\ ackTimers' = {}
    /\ UNCHANGED <<mute, asked, visible, status, reached, drops>>

GraceEnds ==
    /\ tab.grace
    /\ tab' = Suspended
    /\ link' = Close
    /\ ackTimers' = {}
    /\ UNCHANGED <<mute, asked, visible, status, reached, drops>>

\* pageshow, resume and online.
PageResumes ==
    /\ tab.suspended
    /\ AskOrDial([tab EXCEPT !.suspended = FALSE, !.recover = TRUE])
    /\ UNCHANGED <<visible, status, ackTimers, reached, drops>>

\* scheduleHiddenGraceClose
TabHides ==
    /\ visible /\ visible' = FALSE
    /\ tab' = [tab EXCEPT !.grace = TRUE, !.watchdog = FALSE]
    /\ UNCHANGED <<link, mute, asked, status, ackTimers, reached, drops>>

Shown == [tab EXCEPT !.grace = FALSE, !.attempts = 0, !.exhausted = FALSE]

\* Mutant: a link that survived is not asked again.
TabShowsQuietly ==
    /\ ~visible /\ visible' = TRUE
    /\ \/ /\ tab.suspended
          /\ AskOrDial([Shown EXCEPT !.suspended = FALSE, !.recover = TRUE])
       \/ /\ ~tab.suspended /\ ReadyState \in {"open", "connecting"}
          /\ tab' = Shown
          /\ UNCHANGED <<link, mute, asked>>
       \/ /\ ~tab.suspended /\ ReadyState \notin {"open", "connecting"}
          /\ Dial([Shown EXCEPT !.timer = FALSE, !.recover = TRUE])
    /\ UNCHANGED <<status, ackTimers, reached, drops>>

\* Mutant: only a suspended tab or an open link is looked after.
TabShowsIdle ==
    /\ ~visible /\ visible' = TRUE
    /\ \/ /\ tab.suspended \/ ReadyState = "open"
          /\ AskOrDial([Shown EXCEPT !.suspended = FALSE, !.recover = TRUE])
       \/ /\ ~tab.suspended /\ ReadyState # "open"
          /\ tab' = Shown
          /\ UNCHANGED <<link, mute, asked>>
    /\ UNCHANGED <<status, ackTimers, reached, drops>>

\* handleTabVisible: a dial under way is left to itself, an attempt that was
\* dropped or is still due is made at once.
TabShows ==
    /\ ~visible /\ visible' = TRUE
    /\ \/ /\ tab.suspended \/ ReadyState = "open"
          /\ AskOrDial([Shown EXCEPT !.suspended = FALSE, !.recover = TRUE])
       \/ /\ ~tab.suspended /\ ReadyState = "connecting"
          /\ tab' = Shown
          /\ UNCHANGED <<link, mute, asked>>
       \/ /\ ~tab.suspended /\ ReadyState \in {"none", "closing"}
          /\ Dial([Shown EXCEPT !.timer = FALSE, !.recover = TRUE])
    /\ UNCHANGED <<status, ackTimers, reached, drops>>

\* requestHistoryCatchup, on focus or a poke.
CatchUp ==
    /\ ~tab.waiting /\ ~tab.running
    /\ AskOrDial([tab EXCEPT !.recover = TRUE])
    /\ UNCHANGED <<visible, status, ackTimers, reached, drops>>

-----------------------------------------------------------------------------
(* The history deadline. *)

\* Mutant: the deadline heals, and says nothing until that has failed.
WatchdogFiresQuietly ==
    /\ tab.watchdog
    /\ tab.heals < MaxHeals
    /\ ForceReconnect([tab EXCEPT !.watchdog = FALSE, !.heals = @ + 1])
    /\ UNCHANGED <<visible, status, ackTimers, reached, drops>>

\* armHistoryWatchdog's timer: the stall is shown, and a few times healed.
WatchdogFires ==
    /\ tab.watchdog
    /\ LET stalled == [tab EXCEPT !.watchdog = FALSE, !.timedOut = TRUE] IN
       \/ /\ tab.heals >= MaxHeals
          /\ tab' = stalled
          /\ UNCHANGED <<link, mute, asked>>
       \/ /\ tab.heals < MaxHeals
          /\ ForceReconnect([stalled EXCEPT !.heals = @ + 1])
    /\ UNCHANGED <<visible, status, ackTimers, reached, drops>>

\* retryHistory, the button shown with a stall or after the last reconnect.
RetryHistory ==
    /\ tab.timedOut \/ tab.exhausted
    /\ ForceReconnect([tab EXCEPT !.timedOut = FALSE, !.heals = 0, !.attempts = 0,
                                  !.exhausted = FALSE])
    /\ UNCHANGED <<visible, status, ackTimers, reached, drops>>

\* OpenClaw is reachable again: a request nothing waits for.
RisingEdge ==
    /\ tab.loaded /\ ReadyState = "open"
    /\ asked' = ~mute
    /\ UNCHANGED <<link, mute, visible, tab, status, ackTimers, reached, drops>>

-----------------------------------------------------------------------------
(* Frames. *)

Hears == ReadyState = "open" /\ ~mute

\* processFrame of everything but history: an acknowledgement settles its message, a
\* sign of life stops every ack timer.
Acked(frames, s) == [m \in Msgs |-> IF <<m, "ack">> \in frames /\ s[m] = "sending" THEN "sent" ELSE s[m]]

Unacked(frames) == IF <<NoMsg, "chunk">> \in frames THEN {}
                   ELSE {m \in ackTimers : <<m, "ack">> \notin frames}

RunningAfter(frames) ==
    IF frames = <<>> THEN tab.running
    ELSE CASE frames[Len(frames)][2] = "chunk" -> TRUE
           [] frames[Len(frames)][2] = "end" -> FALSE
           [] OTHER -> tab.running

\* Mutant: the frames held back for history are not limited.
FrameHoarded(f) ==
    /\ Hears /\ tab.waiting
    /\ f[2] = "ack" => f[1] \in reached
    /\ tab' = [tab EXCEPT !.buffer = Append(@, f)]
    /\ UNCHANGED <<link, mute, asked, visible, status, ackTimers, reached, drops>>

\* A frame that comes while history is awaited is held back.
FrameArrives(f) ==
    /\ Hears
    /\ f[2] = "ack" => f[1] \in reached
    /\ IF tab.waiting
       THEN /\ tab' = [tab EXCEPT !.buffer = Append(IF Len(@) >= FrameBufferMax THEN Tail(@) ELSE @, f)]
            /\ UNCHANGED <<status, ackTimers>>
       ELSE /\ status' = Acked({f}, status)
            /\ ackTimers' = Unacked({f})
            /\ tab' = [tab EXCEPT !.running = RunningAfter(<<f>>)]
    /\ UNCHANGED <<link, mute, asked, visible, reached, drops>>

\* Mutant: the reconcile trusts that what was sent has arrived.
StatusesTrusted(persisted) == [m \in Msgs |-> IF status[m] = "sending" THEN "sent" ELSE status[m]]

\* history-reconcile: a message still `sending` is in the history, or it failed.
StatusesAfter(persisted) ==
    [m \in Msgs |-> IF status[m] # "sending" THEN status[m]
                    ELSE IF m \in persisted THEN "sent" ELSE "failed"]

\* A history frame; a recovering tab may adopt it in place of its transcript, which
\* leaves no statuses.  The frames held back follow, unless the reply they
\* belong to is in the history already.
HistoryArrives ==
    /\ Hears /\ asked /\ asked' = FALSE
    /\ \E persisted \in SUBSET reached, activeRun \in BOOLEAN, stale \in BOOLEAN, adopt \in BOOLEAN :
         /\ stale => ~activeRun
         /\ adopt => tab.recover
         /\ LET frames == IF stale THEN <<>> ELSE tab.buffer
                set == {frames[i] : i \in 1..Len(frames)}
                kept == IF adopt THEN [m \in Msgs |-> IF status[m] = "none" THEN "none" ELSE "replaced"]
                        ELSE StatusesAfter(persisted)
            IN /\ status' = Acked(set, kept)
               /\ ackTimers' = Unacked(set)
               /\ tab' = [tab EXCEPT !.watchdog = FALSE, !.heals = 0, !.timedOut = FALSE,
                                     !.recover = FALSE, !.loaded = TRUE, !.waiting = FALSE,
                                     !.buffer = <<>>,
                                     !.running = IF frames = <<>> THEN @ \/ activeRun
                                                 ELSE RunningAfter(frames)]
    /\ UNCHANGED <<link, mute, visible, reached, drops>>

-----------------------------------------------------------------------------
(* Sending. *)

\* sendOrQueue: an open link takes the message, and nothing waits for history any
\* more; otherwise it replaces whatever is queued, and a link is dialled unless
\* one is on its way.
SendOrQueue(m, t) ==
    \/ /\ ReadyState = "open"
       /\ tab' = IF t.waiting /\ t.buffer = <<>> THEN [t EXCEPT !.waiting = FALSE, !.watchdog = FALSE]
                 ELSE t
       /\ reached' \in {reached} \cup (IF Hears THEN {reached \cup {m}} ELSE {})
       /\ UNCHANGED <<link, mute, asked>>
    \/ /\ ReadyState # "open"
       /\ IF ReadyState \in {"connecting", "closing"} \/ t.timer
          THEN tab' = [t EXCEPT !.queued = m] /\ UNCHANGED <<link, mute, asked>>
          ELSE Dial([t EXCEPT !.queued = m])
       /\ UNCHANGED reached

\* onNew: the composer is there once history is.
SendMessage(m) ==
    /\ status[m] = "none" /\ tab.loaded
    /\ status' = [status EXCEPT ![m] = "sending"]
    /\ ackTimers' = ackTimers \cup {m}
    /\ SendOrQueue(m, [tab EXCEPT !.rejected = FALSE, !.running = TRUE])
    /\ UNCHANGED <<visible, drops>>

\* onRetryResend of a failed message.
RetryResend(m) ==
    /\ status[m] = "failed"
    /\ status' = [status EXCEPT ![m] = "sending"]
    /\ ackTimers' = ackTimers \cup {m}
    /\ SendOrQueue(m, [tab EXCEPT !.running = TRUE])
    /\ UNCHANGED <<visible, drops>>

\* onRetryContinue from an error bubble: no ack timer goes with it.
RetryContinue(m) ==
    /\ status[m] \in {"sending", "sent", "failed", "replaced"}
    /\ ~tab.running
    /\ status' = [status EXCEPT ![m] = IF @ = "failed" THEN "sending" ELSE @]
    /\ SendOrQueue(m, [tab EXCEPT !.running = TRUE])
    /\ UNCHANGED <<visible, ackTimers, drops>>

AckTimeout(m) ==
    /\ m \in ackTimers
    /\ ackTimers' = ackTimers \ {m}
    /\ status' = [status EXCEPT ![m] = IF @ = "sending" THEN "failed" ELSE @]
    /\ UNCHANGED <<link, mute, asked, visible, tab, reached, drops>>

\* onCancel
StopReply ==
    /\ tab.running
    /\ tab' = [tab EXCEPT !.running = FALSE]
    /\ UNCHANGED <<link, mute, asked, visible, status, ackTimers, reached, drops>>

-----------------------------------------------------------------------------
TabGoesOn(w) == LinkOpens(w) \/ LinkEnds(w)

TabNext ==
    \/ \E w \in Links : TabGoesOn(w)
    \/ LinkDrops \/ LinkRejects \/ LinkFallsSilent
    \/ ReconnectTimer \/ WatchdogFires \/ RetryHistory \/ RisingEdge
    \/ PageSuspends \/ GraceEnds \/ PageResumes \/ TabHides \/ TabShows \/ CatchUp
    \/ \E f \in Frame : FrameArrives(f)
    \/ HistoryArrives
    \/ \E m \in Msgs : SendMessage(m) \/ RetryResend(m) \/ RetryContinue(m) \/ AckTimeout(m)
    \/ StopReply

TabSpec == TabInit /\ [][TabNext]_tabVars

-----------------------------------------------------------------------------
(* What the tab promises. *)

Watched == visible /\ ~tab.suspended

\* "No request can wait without a deadline" (armHistoryWatchdog): while somebody
\* looks, a request an open link has not answered has its clock or is shown stalled.
HistoryWaitTimed ==
    Watched /\ tab.waiting /\ ReadyState = "open" => tab.watchdog \/ tab.timedOut

\* A tab somebody looks at has a link or one coming, or says that it has not,
\* whatever it missed while it was hidden or suspended.
NeverStranded ==
    Watched => \/ ReadyState \in {"connecting", "open", "closing"} \/ tab.timer
               \/ tab.exhausted \/ tab.rejected

\* A message shown as sent has reached the server.
SentReached == \A m \in Msgs : status[m] = "sent" => m \in reached

\* "A lost history frame parked the chat on the loading indicator" (#956): a load
\* somebody watches ends, if only with the stall or the end of the reconnects shown,
\* even when the server never answers; a send meanwhile takes the wait over.  Focus
\* may not come back for ever, since each time it replaces a dial under way.
LoadEnds ==
    <>[][~CatchUp]_tabVars =>
        (Watched /\ ~tab.loaded ~>
            \/ tab.loaded \/ tab.timedOut \/ tab.exhausted \/ tab.rejected \/ ~Watched
            \/ \E m \in Msgs : status[m] # "none")

=============================================================================
