---------------------------- MODULE ChatTabProofs ----------------------------
(***************************************************************************)
(* Theorems about one chat tab, for any number of links and messages, any  *)
(* budget of reconnects and heals and any number of links that drop or     *)
(* fall silent.                                                            *)
(***************************************************************************)
EXTENDS ChatTab, TLAPS

\* A link is let go of before it is closed: what wsRef holds is not closed.
LinkHeld == tab.ws # NoLink => link[tab.ws] # "closed"

\* A frame held back for history acknowledges only what the server has.
HeldAcksTrue ==
    \A i \in 1..Len(tab.buffer) : tab.buffer[i][2] = "ack" => tab.buffer[i][1] \in reached

IInv == TabTypeOK /\ LinkHeld /\ HistoryWaitTimed /\ NeverStranded /\ HeldAcksTrue /\ SentReached

ReadyStates == {"connecting", "open", "closing", "closed"}

-----------------------------------------------------------------------------
(* What the helpers return. *)

\* A tab with an empty buffer, whatever its flags are, is one.
LEMMA AskingType ==
  ASSUME NEW t \in Tab
  PROVE  /\ Asking(t) \in Tab /\ Asking(t).buffer = <<>>
         /\ Asking(t).waiting /\ Asking(t).watchdog
         /\ Asking(t).ws = t.ws
<1>1. <<>> \in Seq(Frame)
  OBVIOUS
<1> QED BY <1>1 DEF Asking, Tab

LEMMA ClosedType ==
  ASSUME TabTypeOK
  PROVE  Closed \in Tab /\ Closed.buffer = <<>> /\ Closed.ws = NoLink /\ ~Closed.waiting
<1>1. <<>> \in Seq(Frame)
  OBVIOUS
<1> QED BY <1>1 DEF Closed, Tab, TabTypeOK

\* The one place a reconnect is scheduled, or given up and said so.
LEMMA ReconnectingType ==
  ASSUME TabTypeOK
  PROVE  /\ Reconnecting \in Tab /\ Reconnecting.buffer = <<>> /\ Reconnecting.ws = NoLink
         /\ ~Reconnecting.waiting
         /\ Reconnecting.timer \/ Reconnecting.exhausted
<1>1. Closed \in Tab /\ Closed.buffer = <<>> /\ Closed.ws = NoLink /\ ~Closed.waiting
  BY ClosedType
<1>2. Closed.attempts = tab.attempts
  BY DEF Closed, TabTypeOK, Tab
<1>3. CASE tab.attempts < MaxReconnects
  <2>1. tab.attempts + 1 \in 0..MaxReconnects
    BY <1>3, ChatTabAssumption DEF TabTypeOK, Tab
  <2> QED BY <1>1, <1>2, <1>3, <2>1 DEF Reconnecting, Tab
<1>4. CASE ~(tab.attempts < MaxReconnects)
  BY <1>1, <1>4 DEF Reconnecting, Tab
<1> QED BY <1>3, <1>4

LEMMA ShownType == ASSUME TabTypeOK PROVE Shown \in Tab /\ Shown.ws = tab.ws /\ Shown.buffer = tab.buffer
<1>1. tab \in Tab /\ 0 \in 0..MaxReconnects
  BY ChatTabAssumption DEF TabTypeOK
<1> QED BY <1>1 DEF Shown, Tab

\* A dial takes a closed link that is not the current one, and the tab as given.
LEMMA DialEffect ==
  ASSUME TabTypeOK, NEW t \in Tab, Dial(t)
  PROVE  /\ link' \in [Links -> ReadyStates]
         /\ tab' \in Tab /\ tab'.ws \in Links
         /\ tab' = [t EXCEPT !.ws = tab'.ws] 
         /\ tab'.buffer = t.buffer /\ tab'.suspended = t.suspended
         /\ link'[tab'.ws] = "connecting"
         /\ mute' = FALSE /\ asked' = FALSE
<1>1. PICK w \in Links : link' = [link EXCEPT ![w] = "connecting"] /\ tab' = [t EXCEPT !.ws = w]
  BY DEF Dial
<1>2. tab' \in Tab /\ tab'.ws = w /\ tab'.buffer = t.buffer /\ tab'.suspended = t.suspended
  BY <1>1 DEF Tab
<1> QED BY <1>1, <1>2 DEF Dial, TabTypeOK, ReadyStates

LEMMA CloseEffect ==
  ASSUME TabTypeOK, LinkHeld
  PROVE  /\ Close \in [Links -> ReadyStates]
         /\ tab.ws # NoLink => Close[tab.ws] = "closing"
<1>1. tab.ws \in Links \cup {NoLink}
  BY DEF TabTypeOK, Tab
<1> QED BY <1>1 DEF Close, ReadyState, TabTypeOK, LinkHeld, ReadyStates

\* Asking needs an open link, anything else replaces the link.
LEMMA AskOrDialEffect ==
  ASSUME TabTypeOK, NEW t \in Tab, t.ws = tab.ws, AskOrDial(t)
  PROVE  /\ link' \in [Links -> ReadyStates] /\ mute' \in BOOLEAN /\ asked' \in BOOLEAN
         /\ tab' \in Tab /\ tab'.buffer \in {<<>>, t.buffer}
         /\ tab'.ws \in Links /\ link'[tab'.ws] \in {"connecting", "open"}
         /\ link'[tab'.ws] = "open" => tab'.watchdog
<1>1. CASE ReadyState = "open" /\ tab' = Asking(t) /\ asked' = ~mute /\ UNCHANGED <<link, mute>>
  <2>1. tab.ws \in Links /\ link[tab.ws] = "open"
    BY <1>1 DEF ReadyState, TabTypeOK, Tab
  <2> QED BY <1>1, <2>1, AskingType DEF TabTypeOK, ReadyStates
<1>2. CASE Dial(t)
  BY <1>2, DialEffect
<1> QED BY <1>1, <1>2 DEF AskOrDial

\* A forced reconnect ends with a link that is on its way out or in.
LEMMA ForceReconnectEffect ==
  ASSUME TabTypeOK, LinkHeld, NEW t \in Tab, t.ws = tab.ws, ForceReconnect(t)
  PROVE  /\ link' \in [Links -> ReadyStates] /\ mute' \in BOOLEAN /\ asked' \in BOOLEAN
         /\ tab' \in Tab /\ tab'.buffer = t.buffer
         /\ tab'.ws \in Links /\ link'[tab'.ws] \in {"connecting", "closing"}
<1> DEFINE fresh == [t EXCEPT !.timer = FALSE, !.recover = TRUE]
<1>1. fresh \in Tab /\ fresh.buffer = t.buffer /\ fresh.ws = t.ws
  BY DEF Tab
<1>2. CASE tab.ws # NoLink /\ link' = Close /\ tab' = fresh /\ UNCHANGED <<mute, asked>>
  <2>1. tab.ws \in Links
    BY <1>2 DEF TabTypeOK, Tab
  <2>2. mute \in BOOLEAN /\ asked \in BOOLEAN
    BY DEF TabTypeOK
  <2>3. Close \in [Links -> ReadyStates] /\ Close[tab.ws] = "closing"
    BY <1>2, CloseEffect
  <2>4. tab' = fresh /\ link' = Close /\ mute' = mute /\ asked' = asked
    BY <1>2
  <2> HIDE DEF fresh
  <2> QED BY <1>1, <2>1, <2>2, <2>3, <2>4
<1>3. CASE Dial(fresh)
  <2> HIDE DEF fresh
  <2> QED BY <1>1, <1>3, DialEffect
<1> QED BY <1>2, <1>3 DEF ForceReconnect

\* A message goes out on an open link, or is left for one that comes.
LEMMA SendOrQueueEffect ==
  ASSUME TabTypeOK, NEW m \in Msgs, NEW t \in Tab, t.ws = tab.ws, t.buffer = tab.buffer,
         SendOrQueue(m, t)
  PROVE  /\ link' \in [Links -> ReadyStates] /\ mute' \in BOOLEAN /\ asked' \in BOOLEAN
         /\ tab' \in Tab /\ tab'.buffer = tab.buffer
         /\ reached \subseteq reached' /\ reached' \subseteq Msgs
         /\ tab'.suspended = t.suspended
         /\ \/ /\ link' = link /\ tab'.ws = tab.ws
               /\ ReadyState = "open"
               /\ ~tab'.waiting \/ (tab'.waiting = t.waiting /\ tab'.watchdog = t.watchdog)
               /\ tab'.timedOut = t.timedOut
            \/ /\ link' = link /\ tab'.ws = tab.ws /\ tab'.timer = t.timer
               /\ ReadyState # "open"
               /\ ReadyState \in {"connecting", "closing"} \/ t.timer
            \/ tab'.ws \in Links /\ link'[tab'.ws] = "connecting"
<1>1. link \in [Links -> ReadyStates] /\ mute \in BOOLEAN /\ asked \in BOOLEAN /\ reached \subseteq Msgs
  BY DEF TabTypeOK, ReadyStates
<1> DEFINE queueing == [t EXCEPT !.queued = m]
<1>2. /\ queueing \in Tab /\ queueing.buffer = tab.buffer /\ queueing.ws = tab.ws
      /\ queueing.timer = t.timer /\ queueing.suspended = t.suspended
  BY DEF Tab
<1>3. CASE /\ ReadyState = "open"
           /\ tab' = IF t.waiting /\ t.buffer = <<>> THEN [t EXCEPT !.waiting = FALSE, !.watchdog = FALSE]
                     ELSE t
           /\ reached' \in {reached} \cup (IF Hears THEN {reached \cup {m}} ELSE {})
           /\ UNCHANGED <<link, mute, asked>>
  <2>1. /\ tab' \in Tab /\ tab'.buffer = tab.buffer /\ tab'.ws = tab.ws
        /\ tab'.timedOut = t.timedOut /\ tab'.suspended = t.suspended
        /\ ~tab'.waiting \/ (tab'.waiting = t.waiting /\ tab'.watchdog = t.watchdog)
    BY <1>3 DEF Tab
  <2>2. reached \subseteq reached' /\ reached' \subseteq Msgs
    BY <1>1, <1>3
  <2> QED BY <1>1, <1>3, <2>1, <2>2
<1>4. CASE /\ ReadyState # "open"
           /\ ReadyState \in {"connecting", "closing"} \/ t.timer
           /\ tab' = queueing /\ UNCHANGED <<link, mute, asked>>
           /\ UNCHANGED reached
  <2> HIDE DEF queueing
  <2> QED BY <1>1, <1>2, <1>4
<1>5. CASE Dial(queueing) /\ UNCHANGED reached
  <2> HIDE DEF queueing
  <2> QED BY <1>1, <1>2, <1>5, DialEffect
<1> QED BY <1>3, <1>4, <1>5 DEF SendOrQueue

-----------------------------------------------------------------------------
(* What keeps the clauses about the link. *)

\* The clauses that only look at the link and the flags of the hook.
Looked == LinkHeld /\ HistoryWaitTimed /\ NeverStranded

\* Nothing they look at changed.
LEMMA LookedSame ==
  ASSUME Looked, UNCHANGED <<link, visible>>, tab'.ws = tab.ws, tab'.suspended = tab.suspended,
         tab'.waiting => tab.waiting, tab.watchdog => tab'.watchdog, tab.timedOut => tab'.timedOut,
         tab.timer => tab'.timer, tab.exhausted => tab'.exhausted, tab.rejected => tab'.rejected
  PROVE  Looked'
BY DEF Looked, LinkHeld, HistoryWaitTimed, NeverStranded, Watched, ReadyState

\* There is a link that lives, and an open one's wait is timed.
LEMMA LookedLinked ==
  ASSUME NoLink \notin Links, tab'.ws \in Links, link'[tab'.ws] \in {"connecting", "open", "closing"},
         link'[tab'.ws] = "open" => tab'.watchdog \/ ~tab'.waiting
  PROVE  Looked'
BY DEF Looked, LinkHeld, HistoryWaitTimed, NeverStranded, Watched, ReadyState

\* There is none, and the tab knows.
LEMMA LookedUnlinked ==
  ASSUME tab'.ws = NoLink, tab'.suspended \/ tab'.timer \/ tab'.exhausted \/ tab'.rejected
  PROVE  Looked'
BY DEF Looked, LinkHeld, HistoryWaitTimed, NeverStranded, Watched, ReadyState

\* Nobody looks.
LEMMA LookedUnwatched ==
  ASSUME ~visible' \/ tab'.suspended, tab'.ws # NoLink => link'[tab'.ws] # "closed"
  PROVE  Looked'
BY DEF Looked, LinkHeld, HistoryWaitTimed, NeverStranded, Watched


-----------------------------------------------------------------------------
(* The link stays held, the wait timed and the tab unstranded. *)

LEMMA OnCloseLooked == ASSUME TabTypeOK, Looked, NEW w \in Links, OnClose(w) PROVE Looked'
<1>1. CASE w # tab.ws
  <2>1. tab' = tab /\ visible' = visible
    BY <1>1 DEF OnClose
  <2>2. tab.ws # NoLink => tab.ws \in Links /\ link'[tab.ws] = link[tab.ws]
    BY <1>1 DEF OnClose, TabTypeOK, Tab
  <2> QED BY <2>1, <2>2 DEF Looked, LinkHeld, HistoryWaitTimed, NeverStranded, Watched, ReadyState
<1>2. CASE w = tab.ws /\ tab.suspended
  <2>1. tab' = Closed
    BY <1>2 DEF OnClose
  <2>2. tab'.ws = NoLink /\ tab'.suspended
    BY <1>2, <2>1 DEF Closed, TabTypeOK, Tab
  <2> QED BY <2>2, LookedUnlinked
<1>3. CASE w = tab.ws /\ ~tab.suspended
  <2>1. tab' = Reconnecting
    BY <1>3 DEF OnClose
  <2> QED BY <2>1, ReconnectingType, LookedUnlinked
<1> QED BY <1>1, <1>2, <1>3

LEMMA LinkLooked ==
  ASSUME TabTypeOK, Looked,
         \/ \E w \in Links : TabGoesOn(w)
         \/ LinkDrops \/ LinkRejects \/ LinkFallsSilent \/ ReconnectTimer
  PROVE  Looked'
<1>1. ASSUME NEW w \in Links, LinkOpens(w) PROVE Looked'
  <2>1. CASE w = tab.ws
    <3>1. tab'.ws = w /\ tab'.watchdog
      BY <1>1, <2>1 DEF LinkOpens, Asking, TabTypeOK, Tab
    <3>2. link'[w] = "open"
      BY <1>1 DEF LinkOpens, TabTypeOK
    <3> QED BY <3>1, <3>2, LookedLinked, ChatTabAssumption
  <2>2. CASE w # tab.ws
    <3>1. tab' = tab /\ visible' = visible
      BY <1>1, <2>2 DEF LinkOpens
    <3>2. tab.ws # NoLink => tab.ws \in Links /\ link'[tab.ws] = link[tab.ws]
      BY <1>1, <2>2 DEF LinkOpens, TabTypeOK, Tab
    <3> QED BY <3>1, <3>2 DEF Looked, LinkHeld, HistoryWaitTimed, NeverStranded, Watched, ReadyState
  <2> QED BY <2>1, <2>2
<1>2. ASSUME NEW w \in Links, LinkEnds(w) PROVE Looked'
  BY <1>2, OnCloseLooked DEF LinkEnds
<1>3. CASE LinkDrops
  <2>1. tab.ws \in Links
    BY <1>3 DEF LinkDrops, ReadyState, TabTypeOK, Tab
  <2> QED BY <1>3, <2>1, OnCloseLooked DEF LinkDrops
<1>4. CASE LinkRejects
  <2>1. tab' = [Closed EXCEPT !.rejected = TRUE]
    BY <1>4 DEF LinkRejects
  <2>2. tab'.ws = NoLink /\ tab'.rejected
    BY <2>1, ClosedType DEF Tab
  <2> QED BY <2>2, LookedUnlinked
<1>5. CASE LinkFallsSilent
  BY <1>5, LookedSame DEF LinkFallsSilent
<1>6. CASE ReconnectTimer
  <2>1. [tab EXCEPT !.timer = FALSE] \in Tab
    BY DEF TabTypeOK, Tab
  <2>2. CASE Dial([tab EXCEPT !.timer = FALSE])
    <3>1. tab'.ws \in Links /\ link'[tab'.ws] = "connecting"
      BY <2>1, <2>2, DialEffect
    <3> QED BY <3>1, LookedLinked, ChatTabAssumption
  <2>3. CASE ~visible /\ tab' = [tab EXCEPT !.timer = FALSE] /\ UNCHANGED <<link, mute, asked>>
    <3>1. tab'.ws = tab.ws /\ link' = link /\ ~visible'
      BY <1>6, <2>3 DEF ReconnectTimer, TabTypeOK, Tab
    <3> QED BY <3>1, LookedUnwatched DEF Looked, LinkHeld
  <2> QED BY <1>6, <2>2, <2>3 DEF ReconnectTimer
<1> QED BY <1>1, <1>2, <1>3, <1>4, <1>5, <1>6 DEF TabGoesOn

LEMMA PageLooked ==
  ASSUME TabTypeOK, Looked,
         PageSuspends \/ GraceEnds \/ PageResumes \/ TabHides \/ TabShows \/ CatchUp
  PROVE  Looked'
<1>1. ASSUME link' = Close, tab' = Suspended \/ tab' = [Suspended EXCEPT !.grace = tab.grace]
      PROVE  Looked'
  <2>1. tab'.suspended /\ tab'.ws = tab.ws
    BY <1>1 DEF Suspended, TabTypeOK, Tab
  <2>2. tab.ws # NoLink => link'[tab.ws] = "closing"
    BY <1>1, CloseEffect DEF Looked
  <2> QED BY <2>1, <2>2, LookedUnwatched
<1>2. ASSUME NEW t \in Tab, t.ws = tab.ws, AskOrDial(t) PROVE Looked'
  BY <1>2, AskOrDialEffect, LookedLinked, ChatTabAssumption
<1>3. ASSUME NEW t \in Tab, Dial(t) PROVE Looked'
  BY <1>3, DialEffect, LookedLinked, ChatTabAssumption
<1>4. CASE PageSuspends
  BY <1>1, <1>4 DEF PageSuspends
<1>5. CASE GraceEnds
  BY <1>1, <1>5 DEF GraceEnds
<1>6. CASE PageResumes
  <2> DEFINE t == [tab EXCEPT !.suspended = FALSE, !.recover = TRUE]
  <2>1. t \in Tab /\ t.ws = tab.ws
    BY DEF TabTypeOK, Tab
  <2>2. AskOrDial(t)
    BY <1>6 DEF PageResumes
  <2> HIDE DEF t
  <2> QED BY <1>2, <2>1, <2>2
<1>7. CASE TabHides
  <2>1. ~visible' /\ link' = link /\ tab'.ws = tab.ws
    BY <1>7 DEF TabHides, TabTypeOK, Tab
  <2> QED BY <2>1, LookedUnwatched DEF Looked, LinkHeld
<1>8. CASE TabShows
  <2> DEFINE t == [Shown EXCEPT !.suspended = FALSE, !.recover = TRUE]
             d == [Shown EXCEPT !.timer = FALSE, !.recover = TRUE]
  <2>0. Shown \in Tab /\ Shown.ws = tab.ws
    BY ShownType
  <2>1. t \in Tab /\ d \in Tab /\ t.ws = tab.ws
    BY <2>0 DEF Tab
  <2>2. \/ AskOrDial(t)
        \/ ReadyState = "connecting" /\ tab' = Shown /\ link' = link
        \/ Dial(d)
    BY <1>8 DEF TabShows
  <2>3. CASE ReadyState = "connecting" /\ tab' = Shown /\ link' = link
    <3>1. tab.ws \in Links /\ link[tab.ws] = "connecting"
      BY <2>3 DEF ReadyState, TabTypeOK, Tab
    <3> QED BY <2>0, <2>3, <3>1, LookedLinked, ChatTabAssumption
  <2> HIDE DEF t, d
  <2> QED BY <1>2, <1>3, <2>1, <2>2, <2>3
<1>9. CASE CatchUp
  <2> DEFINE t == [tab EXCEPT !.recover = TRUE]
  <2>1. t \in Tab /\ t.ws = tab.ws
    BY DEF TabTypeOK, Tab
  <2>2. AskOrDial(t)
    BY <1>9 DEF CatchUp
  <2> HIDE DEF t
  <2> QED BY <1>2, <2>1, <2>2
<1> QED BY <1>4, <1>5, <1>6, <1>7, <1>8, <1>9

LEMMA DeadlineLooked ==
  ASSUME TabTypeOK, Looked, WatchdogFires \/ RetryHistory \/ RisingEdge
  PROVE  Looked'
<1>1. ASSUME NEW t \in Tab, t.ws = tab.ws, ForceReconnect(t) PROVE Looked'
  BY <1>1, ForceReconnectEffect, LookedLinked, ChatTabAssumption DEF Looked
<1>2. CASE WatchdogFires
  <2> DEFINE stalled == [tab EXCEPT !.watchdog = FALSE, !.timedOut = TRUE]
             healed == [stalled EXCEPT !.heals = @ + 1]
  <2>1. stalled \in Tab /\ stalled.ws = tab.ws /\ stalled.heals = tab.heals
    BY DEF TabTypeOK, Tab
  <2>2. CASE tab.heals >= MaxHeals /\ tab' = stalled /\ link' = link
    <3>1. visible' = visible /\ tab'.timedOut /\ tab'.ws = tab.ws
      BY <1>2, <2>2 DEF WatchdogFires, TabTypeOK, Tab
    <3>2. /\ tab'.suspended = tab.suspended /\ tab'.timer = tab.timer
          /\ tab'.exhausted = tab.exhausted /\ tab'.rejected = tab.rejected
      BY <2>2 DEF TabTypeOK, Tab
    <3> QED BY <2>2, <3>1, <3>2 DEF Looked, LinkHeld, HistoryWaitTimed, NeverStranded, Watched, ReadyState
  <2>3. CASE tab.heals < MaxHeals /\ ForceReconnect(healed)
    <3>1. tab.heals \in 0..MaxHeals /\ tab.heals + 1 \in 0..MaxHeals
      BY <2>3, ChatTabAssumption DEF TabTypeOK, Tab
    <3>2. healed \in Tab /\ healed.ws = tab.ws
      BY <2>1, <3>1 DEF Tab
    <3> HIDE DEF healed
    <3> QED BY <1>1, <2>3, <3>2
  <2> QED BY <1>2, <2>2, <2>3 DEF WatchdogFires
<1>3. CASE RetryHistory
  <2> DEFINE t == [tab EXCEPT !.timedOut = FALSE, !.heals = 0, !.attempts = 0, !.exhausted = FALSE]
  <2>1. t \in Tab /\ t.ws = tab.ws
    <3>1. tab \in Tab /\ 0 \in 0..MaxReconnects /\ 0 \in 0..MaxHeals
      BY ChatTabAssumption DEF TabTypeOK
    <3> QED BY <3>1 DEF Tab
  <2>2. ForceReconnect(t)
    BY <1>3 DEF RetryHistory
  <2> HIDE DEF t
  <2> QED BY <1>1, <2>1, <2>2
<1>4. CASE RisingEdge
  BY <1>4, LookedSame DEF RisingEdge
<1> QED BY <1>2, <1>3, <1>4

LEMMA FrameLooked ==
  ASSUME TabTypeOK, Looked, HistoryArrives \/ \E f \in Frame : FrameArrives(f)
  PROVE  Looked'
<1>1. CASE HistoryArrives
  <2>1. tab.ws \in Links /\ link[tab.ws] = "open" /\ link' = link
    BY <1>1 DEF HistoryArrives, Hears, ReadyState, TabTypeOK, Tab
  <2>2. tab'.ws = tab.ws /\ ~tab'.waiting
    BY <1>1 DEF HistoryArrives, TabTypeOK, Tab
  <2> QED BY <2>1, <2>2, LookedLinked, ChatTabAssumption
<1>2. ASSUME NEW f \in Frame, FrameArrives(f) PROVE Looked'
  <2>1. \/ \E b : tab' = [tab EXCEPT !.buffer = b]
        \/ \E r : tab' = [tab EXCEPT !.running = r]
    BY <1>2 DEF FrameArrives
  <2>2. link' = link /\ visible' = visible
    BY <1>2 DEF FrameArrives
  <2>3. /\ tab'.ws = tab.ws /\ tab'.suspended = tab.suspended /\ tab'.waiting = tab.waiting
        /\ tab'.watchdog = tab.watchdog /\ tab'.timedOut = tab.timedOut /\ tab'.timer = tab.timer
        /\ tab'.exhausted = tab.exhausted /\ tab'.rejected = tab.rejected
    BY <2>1 DEF TabTypeOK, Tab
  <2> QED BY <2>2, <2>3, LookedSame
<1> QED BY <1>1, <1>2

LEMMA SendLooked ==
  ASSUME TabTypeOK, Looked, NEW m \in Msgs, NEW t \in Tab, visible' = visible,
         t.ws = tab.ws, t.buffer = tab.buffer, t.suspended = tab.suspended,
         t.waiting = tab.waiting, t.watchdog = tab.watchdog, t.timedOut = tab.timedOut,
         t.timer = tab.timer, SendOrQueue(m, t)
  PROVE  Looked'
<1>1. tab'.suspended = tab.suspended /\ tab.ws \in Links \cup {NoLink}
  BY SendOrQueueEffect DEF TabTypeOK, Tab
<1>2. CASE /\ link' = link /\ tab'.ws = tab.ws
           /\ ReadyState = "open"
           /\ ~tab'.waiting \/ (tab'.waiting = t.waiting /\ tab'.watchdog = t.watchdog)
           /\ tab'.timedOut = t.timedOut
  <2>1. LinkHeld' /\ HistoryWaitTimed'
    BY <1>1, <1>2 DEF Looked, LinkHeld, HistoryWaitTimed, Watched, ReadyState
  <2>2. NeverStranded'
    BY <1>1, <1>2 DEF NeverStranded, ReadyState
  <2> QED BY <2>1, <2>2 DEF Looked
<1>3. CASE /\ link' = link /\ tab'.ws = tab.ws /\ tab'.timer = t.timer
           /\ ReadyState # "open"
           /\ ReadyState \in {"connecting", "closing"} \/ t.timer
  <2>1. LinkHeld' /\ HistoryWaitTimed'
    BY <1>1, <1>3 DEF Looked, LinkHeld, HistoryWaitTimed, Watched, ReadyState
  <2>2. NeverStranded'
    BY <1>1, <1>3 DEF NeverStranded, ReadyState
  <2> QED BY <2>1, <2>2 DEF Looked
<1>4. CASE tab'.ws \in Links /\ link'[tab'.ws] = "connecting"
  BY <1>4, LookedLinked, ChatTabAssumption
<1> QED BY <1>2, <1>3, <1>4, SendOrQueueEffect

LEMMA UserLooked ==
  ASSUME TabTypeOK, Looked,
         \/ \E m \in Msgs : SendMessage(m) \/ RetryResend(m) \/ RetryContinue(m) \/ AckTimeout(m)
         \/ StopReply
  PROVE  Looked'
<1> DEFINE sent == [tab EXCEPT !.rejected = FALSE, !.running = TRUE]
           again == [tab EXCEPT !.running = TRUE]
<1>1. /\ sent \in Tab /\ sent.ws = tab.ws /\ sent.buffer = tab.buffer /\ sent.suspended = tab.suspended
      /\ sent.waiting = tab.waiting /\ sent.watchdog = tab.watchdog /\ sent.timedOut = tab.timedOut
      /\ sent.timer = tab.timer
  BY DEF TabTypeOK, Tab
<1>2. /\ again \in Tab /\ again.ws = tab.ws /\ again.buffer = tab.buffer
      /\ again.suspended = tab.suspended /\ again.waiting = tab.waiting
      /\ again.watchdog = tab.watchdog /\ again.timedOut = tab.timedOut /\ again.timer = tab.timer
  BY DEF TabTypeOK, Tab
<1>3. ASSUME NEW m \in Msgs, SendMessage(m) PROVE SendOrQueue(m, sent) /\ visible' = visible
  BY <1>3 DEF SendMessage
<1>4. ASSUME NEW m \in Msgs, RetryResend(m) \/ RetryContinue(m)
      PROVE  SendOrQueue(m, again) /\ visible' = visible
  BY <1>4 DEF RetryResend, RetryContinue
<1>5. ASSUME NEW m \in Msgs, AckTimeout(m) PROVE Looked'
  BY <1>5, LookedSame DEF AckTimeout
<1>6. CASE StopReply
  <2>1. /\ tab'.ws = tab.ws /\ tab'.suspended = tab.suspended /\ tab'.waiting = tab.waiting
        /\ tab'.watchdog = tab.watchdog /\ tab'.timedOut = tab.timedOut /\ tab'.timer = tab.timer
        /\ tab'.exhausted = tab.exhausted /\ tab'.rejected = tab.rejected
    BY <1>6 DEF StopReply, TabTypeOK, Tab
  <2> QED BY <1>6, <2>1, LookedSame DEF StopReply
<1> HIDE DEF sent, again
<1>7. ASSUME NEW m \in Msgs, SendMessage(m) PROVE Looked'
  BY <1>1, <1>3, <1>7, SendLooked
<1>8. ASSUME NEW m \in Msgs, RetryResend(m) \/ RetryContinue(m) PROVE Looked'
  BY <1>2, <1>4, <1>8, SendLooked
<1> QED BY <1>5, <1>6, <1>7, <1>8

-----------------------------------------------------------------------------
(* Types. *)

\* The types of the tab and its link, which most handlers change together.
LinkTypes ==
    /\ link \in [Links -> ReadyStates] /\ mute \in BOOLEAN /\ asked \in BOOLEAN
    /\ tab \in Tab /\ Len(tab.buffer) <= FrameBufferMax

LEMMA TypesSplit ==
  TabTypeOK <=> /\ LinkTypes /\ visible \in BOOLEAN
                /\ status \in [Msgs -> {"none", "sending", "sent", "failed", "replaced"}]
                /\ ackTimers \subseteq Msgs /\ reached \subseteq Msgs
                /\ drops \in 0..MaxDrops
BY DEF TabTypeOK, LinkTypes, ReadyStates

LEMMA EmptyFits == Len(<<>>) <= FrameBufferMax
BY ChatTabAssumption

\* Frames held back are kept or dropped together, but for new ones.
BufferKept == tab'.buffer \in {<<>>, tab.buffer}

LEMMA SocketTypes ==
  ASSUME TabTypeOK, Looked,
         \/ \E w \in Links : TabGoesOn(w)
         \/ LinkDrops \/ LinkRejects \/ LinkFallsSilent \/ ReconnectTimer
  PROVE  LinkTypes' /\ BufferKept
<1>0. LinkTypes
  BY TypesSplit
<1>1. ASSUME NEW w \in Links, OnClose(w) PROVE LinkTypes' /\ BufferKept
  <2>1. link' \in [Links -> ReadyStates]
    BY <1>0, <1>1 DEF OnClose, LinkTypes, ReadyStates
  <2>2. \/ UNCHANGED <<tab, mute, asked>>
        \/ tab' \in {Closed, Reconnecting} /\ mute' = FALSE /\ asked' = FALSE
    BY <1>1 DEF OnClose
  <2> QED BY <1>0, <2>1, <2>2, ClosedType, ReconnectingType, EmptyFits DEF LinkTypes, BufferKept
<1>2. ASSUME NEW w \in Links, LinkOpens(w) PROVE LinkTypes' /\ BufferKept
  <2>1. link' \in [Links -> ReadyStates] /\ mute' \in BOOLEAN
    BY <1>0, <1>2 DEF LinkOpens, LinkTypes, ReadyStates
  <2>2. CASE w = tab.ws
    <3>1. Asking(tab) \in Tab /\ Asking(tab).buffer = <<>> /\ 0 \in 0..MaxReconnects
      BY <1>0, AskingType, ChatTabAssumption DEF LinkTypes
    <3>2. tab' \in Tab /\ tab'.buffer = <<>> /\ asked' = TRUE
      BY <1>2, <2>2, <3>1 DEF LinkOpens, Tab
    <3> QED BY <2>1, <3>2, EmptyFits DEF LinkTypes, BufferKept
  <2>3. CASE w # tab.ws
    BY <1>0, <1>2, <2>1, <2>3 DEF LinkOpens, LinkTypes, BufferKept
  <2> QED BY <2>2, <2>3
<1>3. ASSUME NEW w \in Links, LinkEnds(w) PROVE LinkTypes' /\ BufferKept
  BY <1>1, <1>3 DEF LinkEnds
<1>4. CASE LinkDrops
  <2>1. tab.ws \in Links
    BY <1>0, <1>4 DEF LinkDrops, ReadyState, LinkTypes, Tab
  <2> QED BY <1>1, <1>4, <2>1 DEF LinkDrops
<1>5. CASE LinkRejects
  <2>1. link' \in [Links -> ReadyStates] /\ mute' = FALSE /\ asked' = FALSE
    BY <1>0, <1>5 DEF LinkRejects, LinkTypes, ReadyStates
  <2>2. tab' = [Closed EXCEPT !.rejected = TRUE]
    BY <1>5 DEF LinkRejects
  <2>3. tab' \in Tab /\ tab'.buffer = <<>>
    BY <2>2, ClosedType DEF Tab
  <2> QED BY <2>1, <2>3, EmptyFits DEF LinkTypes, BufferKept
<1>6. CASE LinkFallsSilent
  BY <1>0, <1>6 DEF LinkFallsSilent, LinkTypes, BufferKept
<1>7. CASE ReconnectTimer
  <2> DEFINE t == [tab EXCEPT !.timer = FALSE]
  <2>1. t \in Tab /\ t.buffer = tab.buffer
    BY <1>0 DEF LinkTypes, Tab
  <2>2. Dial(t) \/ (tab' = t /\ UNCHANGED <<link, mute, asked>>)
    BY <1>7 DEF ReconnectTimer
  <2> HIDE DEF t
  <2> QED BY <1>0, <2>1, <2>2, DialEffect DEF LinkTypes, BufferKept
<1> QED BY <1>2, <1>3, <1>4, <1>5, <1>6, <1>7 DEF TabGoesOn

LEMMA PageTypes ==
  ASSUME TabTypeOK, Looked,
         PageSuspends \/ GraceEnds \/ PageResumes \/ TabHides \/ TabShows \/ CatchUp
  PROVE  LinkTypes' /\ BufferKept
<1>0. LinkTypes
  BY TypesSplit
<1>1. ASSUME NEW t \in Tab, t.buffer = tab.buffer, tab' = t, link' \in {link, Close},
             UNCHANGED <<mute, asked>>
      PROVE  LinkTypes' /\ BufferKept
  BY <1>0, <1>1, CloseEffect DEF LinkTypes, Looked, BufferKept
<1>2. ASSUME NEW t \in Tab, t.ws = tab.ws, t.buffer = tab.buffer, AskOrDial(t) PROVE LinkTypes' /\ BufferKept
  BY <1>0, <1>2, AskOrDialEffect, EmptyFits DEF LinkTypes, BufferKept
<1>3. ASSUME NEW t \in Tab, t.buffer = tab.buffer, Dial(t) PROVE LinkTypes' /\ BufferKept
  BY <1>0, <1>3, DialEffect DEF LinkTypes, BufferKept
<1>4. Suspended \in Tab /\ Suspended.buffer = tab.buffer
  BY <1>0 DEF Suspended, LinkTypes, Tab
<1>5. CASE PageSuspends
  <2> DEFINE t == [Suspended EXCEPT !.grace = tab.grace]
  <2>1. tab.grace \in BOOLEAN
    BY <1>0 DEF LinkTypes, Tab
  <2>2. t \in Tab /\ t.buffer = tab.buffer
    BY <1>4, <2>1 DEF Tab
  <2>3. tab' = t /\ link' = Close /\ UNCHANGED <<mute, asked>>
    BY <1>5 DEF PageSuspends
  <2> HIDE DEF t
  <2> QED BY <1>1, <2>2, <2>3
<1>6. CASE GraceEnds
  BY <1>1, <1>4, <1>6 DEF GraceEnds
<1>7. CASE PageResumes
  <2> DEFINE t == [tab EXCEPT !.suspended = FALSE, !.recover = TRUE]
  <2>1. t \in Tab /\ t.ws = tab.ws /\ t.buffer = tab.buffer
    BY <1>0 DEF LinkTypes, Tab
  <2>2. AskOrDial(t)
    BY <1>7 DEF PageResumes
  <2> HIDE DEF t
  <2> QED BY <1>2, <2>1, <2>2
<1>8. CASE TabHides
  <2>1. /\ [tab EXCEPT !.grace = TRUE, !.watchdog = FALSE] \in Tab
        /\ [tab EXCEPT !.grace = TRUE, !.watchdog = FALSE].buffer = tab.buffer
    BY <1>0 DEF LinkTypes, Tab
  <2> QED BY <1>1, <1>8, <2>1 DEF TabHides
<1>9. CASE TabShows
  <2> DEFINE t == [Shown EXCEPT !.suspended = FALSE, !.recover = TRUE]
             d == [Shown EXCEPT !.timer = FALSE, !.recover = TRUE]
  <2>0. Shown \in Tab /\ Shown.ws = tab.ws /\ Shown.buffer = tab.buffer
    BY ShownType
  <2>1. t \in Tab /\ d \in Tab /\ t.ws = tab.ws /\ t.buffer = tab.buffer /\ d.buffer = tab.buffer
    BY <2>0 DEF Tab
  <2>2. \/ AskOrDial(t)
        \/ tab' = Shown /\ UNCHANGED <<link, mute, asked>>
        \/ Dial(d)
    BY <1>9 DEF TabShows
  <2> HIDE DEF t, d
  <2> QED BY <1>1, <1>2, <1>3, <2>0, <2>1, <2>2
<1>10. CASE CatchUp
  <2> DEFINE t == [tab EXCEPT !.recover = TRUE]
  <2>1. t \in Tab /\ t.ws = tab.ws /\ t.buffer = tab.buffer
    BY <1>0 DEF LinkTypes, Tab
  <2>2. AskOrDial(t)
    BY <1>10 DEF CatchUp
  <2> HIDE DEF t
  <2> QED BY <1>2, <2>1, <2>2
<1> QED BY <1>5, <1>6, <1>7, <1>8, <1>9, <1>10

LEMMA DeadlineTypes ==
  ASSUME TabTypeOK, Looked, WatchdogFires \/ RetryHistory \/ RisingEdge
  PROVE  LinkTypes' /\ BufferKept
<1>0. LinkTypes
  BY TypesSplit
<1>1. ASSUME NEW t \in Tab, t.ws = tab.ws, t.buffer = tab.buffer, ForceReconnect(t)
      PROVE  LinkTypes' /\ BufferKept
  BY <1>0, <1>1, ForceReconnectEffect DEF LinkTypes, Looked, BufferKept
<1>2. CASE WatchdogFires
  <2> DEFINE stalled == [tab EXCEPT !.watchdog = FALSE, !.timedOut = TRUE]
             healed == [stalled EXCEPT !.heals = @ + 1]
  <2>1. stalled \in Tab /\ stalled.ws = tab.ws /\ stalled.heals = tab.heals /\ stalled.buffer = tab.buffer
    BY <1>0 DEF LinkTypes, Tab
  <2>2. CASE tab' = stalled /\ UNCHANGED <<link, mute, asked>>
    <3> HIDE DEF stalled
    <3> QED BY <1>0, <2>1, <2>2 DEF LinkTypes, BufferKept
  <2>3. CASE tab.heals < MaxHeals /\ ForceReconnect(healed)
    <3>1. tab.heals \in 0..MaxHeals /\ tab.heals + 1 \in 0..MaxHeals
      BY <1>0, <2>3, ChatTabAssumption DEF LinkTypes, Tab
    <3>2. healed \in Tab /\ healed.ws = tab.ws /\ healed.buffer = tab.buffer
      BY <2>1, <3>1 DEF Tab
    <3> HIDE DEF healed
    <3> QED BY <1>1, <2>3, <3>2
  <2> QED BY <1>2, <2>2, <2>3 DEF WatchdogFires
<1>3. CASE RetryHistory
  <2> DEFINE t == [tab EXCEPT !.timedOut = FALSE, !.heals = 0, !.attempts = 0, !.exhausted = FALSE]
  <2>1. t \in Tab /\ t.ws = tab.ws /\ t.buffer = tab.buffer
    <3>1. tab \in Tab /\ 0 \in 0..MaxReconnects /\ 0 \in 0..MaxHeals
      BY <1>0, ChatTabAssumption DEF LinkTypes
    <3> QED BY <3>1 DEF Tab
  <2>2. ForceReconnect(t)
    BY <1>3 DEF RetryHistory
  <2> HIDE DEF t
  <2> QED BY <1>1, <2>1, <2>2
<1>4. CASE RisingEdge
  BY <1>0, <1>4 DEF RisingEdge, LinkTypes, BufferKept
<1> QED BY <1>2, <1>3, <1>4

\* What is held back when one more frame comes: the newest FrameBufferMax of them.
Held(b, f) == Append(IF Len(b) >= FrameBufferMax THEN Tail(b) ELSE b, f)

LEMMA OneMore ==
  ASSUME NEW b \in Seq(Frame), NEW f \in Frame
  PROVE  /\ Append(b, f) \in Seq(Frame) /\ Len(Append(b, f)) = Len(b) + 1
         /\ \A i \in 1..Len(Append(b, f)) :
              Append(b, f)[i] = f \/ \E j \in 1..Len(b) : Append(b, f)[i] = b[j]
<1>1. /\ Append(b, f) \in Seq(Frame) /\ Len(Append(b, f)) = Len(b) + 1
      /\ \A i \in 1..Len(b) : Append(b, f)[i] = b[i]
      /\ Append(b, f)[Len(b) + 1] = f
  OBVIOUS
<1>2. \A i \in 1..(Len(b) + 1) : i \in 1..Len(b) \/ i = Len(b) + 1
  OBVIOUS
<1> QED BY <1>1, <1>2

LEMMA HeldFits ==
  ASSUME NEW b \in Seq(Frame), Len(b) <= FrameBufferMax, NEW f \in Frame
  PROVE  /\ Held(b, f) \in Seq(Frame) /\ Len(Held(b, f)) <= FrameBufferMax
         /\ \A i \in 1..Len(Held(b, f)) :
              Held(b, f)[i] = f \/ \E j \in 1..Len(b) : Held(b, f)[i] = b[j]
<1>1. CASE Len(b) >= FrameBufferMax
  <2>1. Len(b) \in Nat /\ Len(b) >= 1
    BY <1>1, ChatTabAssumption
  <2>2. /\ Tail(b) \in Seq(Frame) /\ Len(Tail(b)) = Len(b) - 1
        /\ \A i \in 1..Len(Tail(b)) : i + 1 \in 1..Len(b) /\ Tail(b)[i] = b[i + 1]
    BY <2>1
  <2>3. Held(b, f) = Append(Tail(b), f)
    BY <1>1 DEF Held
  <2>4. \A j \in 1..Len(Tail(b)) : \E k \in 1..Len(b) : Tail(b)[j] = b[k]
    BY <2>2
  <2>5. Len(Tail(b)) + 1 <= FrameBufferMax
    BY <2>1, <2>2
  <2> DEFINE c == Tail(b)
  <2>6. c \in Seq(Frame) /\ Held(b, f) = Append(c, f) /\ Len(c) + 1 <= FrameBufferMax
    BY <2>2, <2>3, <2>5
  <2>7. \A j \in 1..Len(c) : \E k \in 1..Len(b) : c[j] = b[k]
    BY <2>4
  <2> HIDE DEF c
  <2>8. /\ Append(c, f) \in Seq(Frame) /\ Len(Append(c, f)) = Len(c) + 1
        /\ \A i \in 1..Len(Append(c, f)) :
             Append(c, f)[i] = f \/ \E j \in 1..Len(c) : Append(c, f)[i] = c[j]
    BY <2>6, OneMore
  <2>9. \A i \in 1..Len(Append(c, f)) :
          Append(c, f)[i] = f \/ \E k \in 1..Len(b) : Append(c, f)[i] = b[k]
    BY <2>7, <2>8
  <2> QED BY <2>6, <2>8, <2>9
<1>2. CASE Len(b) < FrameBufferMax
  <2>1. Held(b, f) = Append(b, f)
    BY <1>2, ChatTabAssumption DEF Held
  <2>2. Len(b) + 1 <= FrameBufferMax
    BY <1>2, ChatTabAssumption
  <2> QED BY <2>1, <2>2, OneMore
<1> QED BY <1>1, <1>2, ChatTabAssumption

\* Whether a reply runs is a matter of the last frame heard.
LEMMA RunningType ==
  ASSUME TabTypeOK, NEW frames \in Seq(Frame)
  PROVE  RunningAfter(frames) \in BOOLEAN
<1>1. tab.running \in BOOLEAN
  BY DEF TabTypeOK, Tab
<1> QED BY <1>1 DEF RunningAfter

LEMMA FrameTypes ==
  ASSUME TabTypeOK, HistoryArrives \/ \E f \in Frame : FrameArrives(f)
  PROVE  LinkTypes'
<1>0. LinkTypes
  BY TypesSplit
<1>1. ASSUME NEW f \in Frame, FrameArrives(f) PROVE LinkTypes'
  <2>1. tab \in Tab /\ tab.buffer \in Seq(Frame) /\ Len(tab.buffer) <= FrameBufferMax
    BY <1>0 DEF LinkTypes, Tab
  <2>2. CASE tab' = [tab EXCEPT !.buffer = Held(tab.buffer, f)]
    <3>1. tab' \in Tab /\ tab'.buffer = Held(tab.buffer, f)
      BY <2>1, <2>2, HeldFits DEF Tab
    <3>2. UNCHANGED <<link, mute, asked>>
      BY <1>1 DEF FrameArrives
    <3> QED BY <1>0, <2>1, <3>1, <3>2, HeldFits DEF LinkTypes
  <2>3. CASE tab' = [tab EXCEPT !.running = RunningAfter(<<f>>)]
    <3>1. <<f>> \in Seq(Frame)
      OBVIOUS
    <3>2. tab' \in Tab /\ tab'.buffer = tab.buffer
      BY <2>1, <2>3, <3>1, RunningType DEF Tab
    <3> QED BY <1>0, <1>1, <3>2 DEF LinkTypes, FrameArrives
  <2> QED BY <1>1, <2>2, <2>3 DEF FrameArrives, Held
<1>2. CASE HistoryArrives
  <2>1. PICK activeRun \in BOOLEAN, stale \in BOOLEAN :
          tab' = [tab EXCEPT !.watchdog = FALSE, !.heals = 0, !.timedOut = FALSE,
                             !.recover = FALSE, !.loaded = TRUE, !.waiting = FALSE, !.buffer = <<>>,
                             !.running = IF (IF stale THEN <<>> ELSE tab.buffer) = <<>>
                                         THEN @ \/ activeRun
                                         ELSE RunningAfter(IF stale THEN <<>> ELSE tab.buffer)]
    BY <1>2 DEF HistoryArrives
  <2> DEFINE run == IF (IF stale THEN <<>> ELSE tab.buffer) = <<>> THEN tab.running \/ activeRun
                    ELSE RunningAfter(IF stale THEN <<>> ELSE tab.buffer)
  <2>2. tab \in Tab /\ tab.buffer \in Seq(Frame) /\ tab.running \in BOOLEAN /\ <<>> \in Seq(Frame)
    BY <1>0 DEF LinkTypes, Tab
  <2>3. run \in BOOLEAN
    BY <2>2, RunningType
  <2>4. tab' = [tab EXCEPT !.watchdog = FALSE, !.heals = 0, !.timedOut = FALSE,
                           !.recover = FALSE, !.loaded = TRUE, !.waiting = FALSE, !.buffer = <<>>,
                           !.running = run]
    BY <2>1
  <2>5. 0 \in 0..MaxHeals
    BY ChatTabAssumption
  <2> HIDE DEF run
  <2>6. tab' \in Tab /\ tab'.buffer = <<>>
    BY <2>2, <2>3, <2>4, <2>5 DEF Tab
  <2>7. UNCHANGED <<link, mute>> /\ asked' = FALSE
    BY <1>2 DEF HistoryArrives
  <2> QED BY <1>0, <2>6, <2>7, EmptyFits DEF LinkTypes
<1> QED BY <1>1, <1>2

LEMMA UserTypes ==
  ASSUME TabTypeOK,
         \/ \E m \in Msgs : SendMessage(m) \/ RetryResend(m) \/ RetryContinue(m) \/ AckTimeout(m)
         \/ StopReply
  PROVE  LinkTypes' /\ BufferKept
<1>0. LinkTypes
  BY TypesSplit
<1> DEFINE sent == [tab EXCEPT !.rejected = FALSE, !.running = TRUE]
           again == [tab EXCEPT !.running = TRUE]
           stopped == [tab EXCEPT !.running = FALSE]
<1>1. /\ sent \in Tab /\ sent.ws = tab.ws /\ sent.buffer = tab.buffer
      /\ again \in Tab /\ again.ws = tab.ws /\ again.buffer = tab.buffer
      /\ stopped \in Tab /\ stopped.buffer = tab.buffer
  BY <1>0 DEF LinkTypes, Tab
<1>2. /\ \A m \in Msgs : SendMessage(m) => SendOrQueue(m, sent)
      /\ \A m \in Msgs : RetryResend(m) \/ RetryContinue(m) => SendOrQueue(m, again)
      /\ \A m \in Msgs : AckTimeout(m) => UNCHANGED <<link, mute, asked, tab>>
      /\ StopReply => tab' = stopped /\ UNCHANGED <<link, mute, asked>>
  BY DEF SendMessage, RetryResend, RetryContinue, AckTimeout, StopReply
<1> HIDE DEF sent, again, stopped
<1>3. ASSUME NEW m \in Msgs, NEW t \in Tab, t.ws = tab.ws, t.buffer = tab.buffer, SendOrQueue(m, t)
      PROVE  LinkTypes' /\ BufferKept
  BY <1>0, <1>3, SendOrQueueEffect DEF LinkTypes, BufferKept
<1>4. ASSUME UNCHANGED <<link, mute, asked>>, tab' \in {tab, stopped} PROVE LinkTypes' /\ BufferKept
  BY <1>0, <1>1, <1>4 DEF LinkTypes, BufferKept
<1> QED BY <1>1, <1>2, <1>3, <1>4

-----------------------------------------------------------------------------
(* What is said of the messages. *)

\* What a message is said to be, and what holds it to that.
MsgTypes ==
    /\ visible \in BOOLEAN
    /\ status \in [Msgs -> {"none", "sending", "sent", "failed", "replaced"}]
    /\ ackTimers \subseteq Msgs /\ reached \subseteq Msgs
    /\ drops \in 0..MaxDrops

Kept == MsgTypes /\ HeldAcksTrue /\ SentReached

\* Nothing is newly said to be sent, and at most a frame is forgotten.
LEMMA KeptQuiet ==
  ASSUME TabTypeOK, Kept, MsgTypes', reached \subseteq reached', tab'.buffer \in {<<>>, tab.buffer},
         \A m \in Msgs : status'[m] = "sent" => status[m] = "sent"
  PROVE  Kept'
<1>1. HeldAcksTrue'
  BY DEF Kept, HeldAcksTrue
<1>2. SentReached'
  BY DEF Kept, SentReached
<1> QED BY <1>1, <1>2 DEF Kept

LEMMA QuietMoves ==
  ASSUME TabTypeOK, BufferKept, Kept,
         \/ \E w \in Links : TabGoesOn(w)
         \/ LinkDrops \/ LinkRejects \/ LinkFallsSilent \/ ReconnectTimer
         \/ PageSuspends \/ GraceEnds \/ PageResumes \/ TabHides \/ TabShows \/ CatchUp
         \/ WatchdogFires \/ RetryHistory \/ RisingEdge
  PROVE  Kept'
<1>1. UNCHANGED status
  BY DEF TabGoesOn, LinkOpens, LinkEnds, OnClose, LinkDrops, LinkRejects, LinkFallsSilent, ReconnectTimer,
         PageSuspends, GraceEnds, PageResumes, TabHides, TabShows, CatchUp, WatchdogFires,
         RetryHistory, RisingEdge
<1>2. ackTimers' \in {{}, ackTimers}
  BY DEF TabGoesOn, LinkOpens, LinkEnds, OnClose, LinkDrops, LinkRejects, LinkFallsSilent, ReconnectTimer,
         PageSuspends, GraceEnds, PageResumes, TabHides, TabShows, CatchUp, WatchdogFires,
         RetryHistory, RisingEdge
<1>3. visible' \in {TRUE, FALSE, visible}
  BY DEF TabGoesOn, LinkOpens, LinkEnds, OnClose, LinkDrops, LinkRejects, LinkFallsSilent, ReconnectTimer,
         PageSuspends, GraceEnds, PageResumes, TabHides, TabShows, CatchUp, WatchdogFires,
         RetryHistory, RisingEdge
<1>4. reached' \in {reached, reached \cup ({tab.queued} \ {NoMsg})}
  BY DEF TabGoesOn, LinkOpens, LinkEnds, OnClose, LinkDrops, LinkRejects, LinkFallsSilent, ReconnectTimer,
         PageSuspends, GraceEnds, PageResumes, TabHides, TabShows, CatchUp, WatchdogFires,
         RetryHistory, RisingEdge
<1>5. drops' = drops \/ (drops < MaxDrops /\ drops' = drops + 1)
  BY DEF TabGoesOn, LinkOpens, LinkEnds, OnClose, LinkDrops, LinkRejects, LinkFallsSilent, ReconnectTimer,
         PageSuspends, GraceEnds, PageResumes, TabHides, TabShows, CatchUp, WatchdogFires,
         RetryHistory, RisingEdge
<1>6. tab.queued \in Msgs \cup {NoMsg}
  BY DEF TabTypeOK, Tab
<1>7. drops' \in 0..MaxDrops
  BY <1>5, ChatTabAssumption DEF Kept, MsgTypes
<1>8. reached \subseteq reached' /\ reached' \subseteq Msgs
  BY <1>4, <1>6 DEF Kept, MsgTypes
<1>9. MsgTypes'
  BY <1>1, <1>2, <1>3, <1>7, <1>8 DEF Kept, MsgTypes
<1> QED BY <1>1, <1>8, <1>9, KeptQuiet DEF BufferKept

\* An acknowledgement that was heard is of a message the server has.
LEMMA AckedTrue ==
  ASSUME NEW frames, NEW s \in [Msgs -> {"none", "sending", "sent", "failed", "replaced"}],
         \A m \in Msgs : s[m] = "sent" => m \in reached,
         \A f \in frames : f[2] = "ack" => f[1] \in reached
  PROVE  /\ Acked(frames, s) \in [Msgs -> {"none", "sending", "sent", "failed", "replaced"}]
         /\ \A m \in Msgs : Acked(frames, s)[m] = "sent" => m \in reached
<1>1. ASSUME NEW m \in Msgs, <<m, "ack">> \in frames PROVE m \in reached
  <2>1. <<m, "ack">>[2] = "ack" /\ <<m, "ack">>[1] = m
    OBVIOUS
  <2> QED BY <1>1, <2>1
<1> QED BY <1>1 DEF Acked

LEMMA FrameKept ==
  ASSUME TabTypeOK, Kept, HistoryArrives \/ \E f \in Frame : FrameArrives(f)
  PROVE  Kept'
<1>0. tab \in Tab /\ tab.buffer \in Seq(Frame) /\ Len(tab.buffer) <= FrameBufferMax
  BY DEF TabTypeOK, Tab
<1>1. \A frames : Unacked(frames) \subseteq Msgs
  BY DEF Unacked, Kept, MsgTypes
<1>2. ASSUME NEW f \in Frame, FrameArrives(f) PROVE Kept'
  <2>1. f[2] = "ack" => f[1] \in reached
    BY <1>2 DEF FrameArrives
  <2>2. CASE tab.waiting
    <3>1. UNCHANGED <<visible, status, ackTimers, reached, drops>> /\ tab'.buffer = Held(tab.buffer, f)
      BY <1>0, <1>2, <2>2 DEF FrameArrives, Held, Tab
    <3>2. \A i \in 1..Len(tab'.buffer) :
            tab'.buffer[i] = f \/ \E j \in 1..Len(tab.buffer) : tab'.buffer[i] = tab.buffer[j]
      <4> DEFINE h == Held(tab.buffer, f)
      <4>1. \A i \in 1..Len(h) : h[i] = f \/ \E j \in 1..Len(tab.buffer) : h[i] = tab.buffer[j]
        BY <1>0, HeldFits
      <4>2. tab'.buffer = h
        BY <3>1
      <4> HIDE DEF h
      <4> QED BY <4>1, <4>2
    <3>3. HeldAcksTrue'
      BY <2>1, <3>1, <3>2 DEF Kept, HeldAcksTrue
    <3> QED BY <3>1, <3>3 DEF Kept, MsgTypes, SentReached
  <2>3. CASE ~tab.waiting
    <3>1. /\ status' = Acked({f}, status) /\ ackTimers' = Unacked({f})
          /\ UNCHANGED <<visible, reached, drops>>
          /\ tab'.buffer = tab.buffer
      BY <1>0, <1>2, <2>3 DEF FrameArrives, Tab
    <3>2. /\ status' \in [Msgs -> {"none", "sending", "sent", "failed", "replaced"}]
          /\ \A m \in Msgs : status'[m] = "sent" => m \in reached
      BY <2>1, <3>1, AckedTrue DEF Kept, MsgTypes, SentReached
    <3> QED BY <1>1, <3>1, <3>2 DEF Kept, MsgTypes, SentReached, HeldAcksTrue
  <2> QED BY <2>2, <2>3
<1>3. CASE HistoryArrives
  <2>1. PICK persisted \in SUBSET reached, stale \in BOOLEAN, adopt \in BOOLEAN :
          LET frames == IF stale THEN <<>> ELSE tab.buffer
              set == {frames[i] : i \in 1..Len(frames)}
              kept == IF adopt THEN [m \in Msgs |-> IF status[m] = "none" THEN "none" ELSE "replaced"]
                      ELSE StatusesAfter(persisted)
          IN status' = Acked(set, kept) /\ ackTimers' = Unacked(set) /\ tab'.buffer = <<>>
    BY <1>0, <1>3 DEF HistoryArrives, Tab
  <2> DEFINE frames == IF stale THEN <<>> ELSE tab.buffer
             set == {frames[i] : i \in 1..Len(frames)}
             kept == IF adopt THEN [m \in Msgs |-> IF status[m] = "none" THEN "none" ELSE "replaced"]
                     ELSE StatusesAfter(persisted)
  <2>2. status' = Acked(set, kept) /\ ackTimers' = Unacked(set) /\ tab'.buffer = <<>>
    BY <2>1
  <2>3. UNCHANGED <<visible, reached, drops>>
    BY <1>3 DEF HistoryArrives
  <2>4. \A f \in set : f[2] = "ack" => f[1] \in reached
    <3>1. CASE stale
      BY <3>1
    <3>2. CASE ~stale
      BY <3>2 DEF Kept, HeldAcksTrue
    <3> QED BY <3>1, <3>2
  <2>5. /\ kept \in [Msgs -> {"none", "sending", "sent", "failed", "replaced"}]
        /\ \A m \in Msgs : kept[m] = "sent" => m \in reached
    BY DEF StatusesAfter, Kept, MsgTypes, SentReached
  <2> HIDE DEF frames, set, kept
  <2>6. /\ status' \in [Msgs -> {"none", "sending", "sent", "failed", "replaced"}]
        /\ \A m \in Msgs : status'[m] = "sent" => m \in reached
    BY <2>2, <2>4, <2>5, AckedTrue
  <2>7. HeldAcksTrue'
    BY <2>2 DEF HeldAcksTrue
  <2> QED BY <1>1, <2>2, <2>3, <2>6, <2>7 DEF Kept, MsgTypes, SentReached
<1> QED BY <1>2, <1>3

LEMMA UserKept ==
  ASSUME TabTypeOK, BufferKept, Kept,
         \/ \E m \in Msgs : SendMessage(m) \/ RetryResend(m) \/ RetryContinue(m) \/ AckTimeout(m)
         \/ StopReply
  PROVE  Kept'
<1>1. reached \subseteq reached' /\ reached' \subseteq Msgs
  <2>1. \A m \in Msgs : \A t : SendOrQueue(m, t) => reached' \in {reached, reached \cup {m}}
    BY DEF SendOrQueue
  <2>2. \/ UNCHANGED reached
        \/ \E m \in Msgs : reached' \in {reached, reached \cup {m}}
    BY <2>1 DEF SendMessage, RetryResend, RetryContinue, AckTimeout, StopReply
  <2> QED BY <2>2 DEF Kept, MsgTypes
<1>2. /\ status' \in [Msgs -> {"none", "sending", "sent", "failed", "replaced"}]
      /\ \A m \in Msgs : status'[m] = "sent" => status[m] = "sent"
  BY DEF SendMessage, RetryResend, RetryContinue, AckTimeout, StopReply, Kept, MsgTypes
<1>3. ackTimers' \subseteq Msgs /\ UNCHANGED <<visible, drops>>
  BY DEF SendMessage, RetryResend, RetryContinue, AckTimeout, StopReply, Kept, MsgTypes
<1>4. MsgTypes'
  BY <1>1, <1>2, <1>3 DEF Kept, MsgTypes
<1> QED BY <1>1, <1>2, <1>4, KeptQuiet DEF BufferKept

-----------------------------------------------------------------------------
(* The theorems. *)

LEMMA InvParts == IInv <=> LinkTypes /\ Looked /\ Kept
BY TypesSplit DEF IInv, Looked, Kept, MsgTypes

LEMMA InvInit == TabInit => IInv
<1> SUFFICES ASSUME TabInit PROVE IInv
  OBVIOUS
<1>1. PICK w \in Links :
        /\ link = [v \in Links |-> IF v = w THEN "connecting" ELSE "closed"]
        /\ tab = [ws |-> w, timer |-> FALSE, attempts |-> 0, exhausted |-> FALSE,
                  rejected |-> FALSE, suspended |-> FALSE, grace |-> FALSE, recover |-> FALSE,
                  waiting |-> FALSE, buffer |-> <<>>, watchdog |-> FALSE, heals |-> 0,
                  timedOut |-> FALSE, loaded |-> FALSE, running |-> FALSE, queued |-> NoMsg]
  BY DEF TabInit
<1>2. <<>> \in Seq(Frame) /\ 0 \in 0..MaxReconnects /\ 0 \in 0..MaxHeals /\ 0 \in 0..MaxDrops
  BY ChatTabAssumption
<1>3. tab \in Tab
  BY <1>1, <1>2 DEF Tab
<1>4. LinkTypes
  BY <1>1, <1>3, EmptyFits DEF LinkTypes, TabInit, ReadyStates
<1>5. Looked
  BY <1>1, ChatTabAssumption DEF Looked, LinkHeld, HistoryWaitTimed, NeverStranded, Watched, ReadyState
<1>6. HeldAcksTrue
  BY <1>1 DEF HeldAcksTrue
<1>7. MsgTypes /\ SentReached
  BY <1>2 DEF TabInit, MsgTypes, SentReached
<1> QED BY <1>4, <1>5, <1>6, <1>7, InvParts DEF Kept

LEMMA InvNext == IInv /\ [TabNext]_tabVars => IInv'
<1> SUFFICES ASSUME IInv, [TabNext]_tabVars PROVE LinkTypes' /\ Looked' /\ Kept'
  BY DEF IInv, TabTypeOK, LinkTypes, Looked, Kept, MsgTypes, ReadyStates
<1>0. TabTypeOK /\ Looked /\ Kept /\ LinkTypes
  BY InvParts DEF IInv
<1>1. CASE \/ \E w \in Links : TabGoesOn(w)
           \/ LinkDrops \/ LinkRejects \/ LinkFallsSilent \/ ReconnectTimer
  BY <1>0, <1>1, SocketTypes, LinkLooked, QuietMoves
<1>2. CASE PageSuspends \/ GraceEnds \/ PageResumes \/ TabHides \/ TabShows \/ CatchUp
  BY <1>0, <1>2, PageTypes, PageLooked, QuietMoves
<1>3. CASE WatchdogFires \/ RetryHistory \/ RisingEdge
  BY <1>0, <1>3, DeadlineTypes, DeadlineLooked, QuietMoves
<1>4. CASE HistoryArrives \/ \E f \in Frame : FrameArrives(f)
  BY <1>0, <1>4, FrameTypes, FrameLooked, FrameKept
<1>5. CASE \/ \E m \in Msgs : SendMessage(m) \/ RetryResend(m) \/ RetryContinue(m) \/ AckTimeout(m)
           \/ StopReply
  BY <1>0, <1>5, UserTypes, UserLooked, UserKept
<1>6. CASE UNCHANGED tabVars
  BY <1>0, <1>6 DEF tabVars, LinkTypes, Looked, LinkHeld, HistoryWaitTimed, NeverStranded, Watched,
                    ReadyState, Kept, MsgTypes, HeldAcksTrue, SentReached
<1> QED BY <1>1, <1>2, <1>3, <1>4, <1>5, <1>6 DEF TabNext

LEMMA InvAlways == TabSpec => []IInv
BY InvInit, InvNext, PTL DEF TabSpec

\* Every variable of the tab has its type, with never more than FRAME_BUFFER_MAX
\* frames held back and the two retry budgets kept.
THEOREM TypeCorrect == TabSpec => []TabTypeOK
<1>1. IInv => TabTypeOK
  BY DEF IInv
<1> QED BY <1>1, InvAlways, PTL

\* No history request waits without a deadline while somebody looks: the clock is
\* taken away only along with the wait, the link or the viewer, and a viewer who
\* comes back to a link that is open asks again.
THEOREM WaitTimed == TabSpec => []HistoryWaitTimed
<1>1. IInv => HistoryWaitTimed
  BY DEF IInv
<1> QED BY <1>1, InvAlways, PTL

\* A tab somebody looks at has a link, has one coming or says that it has none: it
\* never holds on to a link that is closed, and whatever takes the reconnect timer
\* away leaves a link, a dial or nobody looking.
THEOREM Unstranded == TabSpec => []NeverStranded
<1>1. IInv => NeverStranded
  BY DEF IInv
<1> QED BY <1>1, InvAlways, PTL

\* A message shown as sent is one the server has, also when what says so was held
\* back behind a history frame, or is that frame.
THEOREM SentIsTrue == TabSpec => []SentReached
<1>1. IInv => SentReached
  BY DEF IInv
<1> QED BY <1>1, InvAlways, PTL

=============================================================================
