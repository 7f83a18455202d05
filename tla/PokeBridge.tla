------------------------------ MODULE PokeBridge ------------------------------
(***************************************************************************)
(* The session poke bridge: which browser sockets view which session, and  *)
(* the one upstream subscription a viewed session holds at the OpenClaw    *)
(* gateway (SessionPokeBridge, SessionSubscribers, the history handler     *)
(* that calls view, the socket's close handler that calls disconnect).     *)
(*                                                                         *)
(* JavaScript runs one task at a time up to its next await, so a step is   *)
(* the code between two awaits.  The reverse index of SessionSubscribers   *)
(* is written together with the buckets and is their converse: KeysOf.     *)
(* A handle is named by the view call whose subscribe produced it.         *)
(***************************************************************************)
EXTENDS Naturals, FiniteSets

CONSTANTS
    Sockets,    \* browser sockets; a closed one never comes back
    Keys,       \* session keys
    Views,      \* bound: the history requests ever made, each a call of view()
    Faults,     \* "drop": sockets close; "subscribe": the RPC is refused
    NoHandle, NoSocket, NoKey

ASSUME PokeBridgeAssumption ==
    /\ NoHandle \notin Views
    /\ NoSocket \notin Sockets
    /\ NoKey \notin Keys
    /\ Faults \subseteq {"drop", "subscribe"}

VARIABLES
    bucket,     \* [Keys -> sockets subscribed to the session]
    upstream,   \* [Keys -> handle stored for the session]
    opening,    \* keys whose subscribe call is under way
    live,       \* handles the gateway still serves
    view,       \* [Views -> where the view call is]
    teardown,   \* [Sockets -> the disconnect call of the socket]
    closed      \* sockets that closed

vars == <<bucket, upstream, opening, live, view, teardown, closed>>

\* Where a view call is: not made, behind the access check of the frame, between
\* two sessions to leave, awaiting an unsubscribe, awaiting its subscribe,
\* awaiting the unsubscribe of a handle nobody wants any more, returned.
Stages == {"idle", "access", "leaving", "closing", "subscribing", "discarding", "served"}

Handles == Views \cup {NoHandle}

View == [at: Stages, ws: Sockets \cup {NoSocket}, key: Keys \cup {NoKey},
         priors: SUBSET Keys, handle: Handles]

\* The keys a disconnect has left to close, and the handle it is closing.
Teardown == [rest: SUBSET Keys, handle: Handles]

TypeOK ==
    /\ bucket \in [Keys -> SUBSET Sockets]
    /\ upstream \in [Keys -> Handles]
    /\ opening \subseteq Keys
    /\ live \subseteq Views
    /\ view \in [Views -> View]
    /\ teardown \in [Sockets -> Teardown]
    /\ closed \subseteq Sockets

Init ==
    /\ bucket = [k \in Keys |-> {}]
    /\ upstream = [k \in Keys |-> NoHandle]
    /\ opening = {}
    /\ live = {}
    /\ view = [q \in Views |->
                 [at |-> "idle", ws |-> NoSocket, key |-> NoKey, priors |-> {}, handle |-> NoHandle]]
    /\ teardown = [s \in Sockets |-> [rest |-> {}, handle |-> NoHandle]]
    /\ closed = {}

KeysOf(ws) == {k \in Keys : ws \in bucket[k]}

-----------------------------------------------------------------------------
(* view(key, ws): leave every other session, then join this one. *)

\* removeFromSession(p, ws); the last one out closes the upstream and waits.
Leave(q, priors) ==
    \E p \in priors :
        LET ws == view[q].ws
            last == bucket[p] = {ws}
        IN /\ bucket' = [bucket EXCEPT ![p] = @ \ {ws}]
           /\ \/ /\ last /\ upstream[p] # NoHandle
                 /\ upstream' = [upstream EXCEPT ![p] = NoHandle]
                 /\ view' = [view EXCEPT ![q].at = "closing", ![q].priors = priors \ {p},
                                         ![q].handle = upstream[p]]
              \/ /\ ~(last /\ upstream[p] # NoHandle)
                 /\ view' = [view EXCEPT ![q].at = "leaving", ![q].priors = priors \ {p}]
                 /\ UNCHANGED upstream
    /\ UNCHANGED opening

\* Mutant: a first join opens an upstream even while one is being opened.
JoinTwice(q) ==
    LET k == view[q].key
        first == bucket[k] = {}
    IN /\ bucket' = [bucket EXCEPT ![k] = @ \cup {view[q].ws}]
       /\ \/ /\ first /\ upstream[k] = NoHandle
             /\ opening' = opening \cup {k}
             /\ view' = [view EXCEPT ![q].at = "subscribing"]
          \/ /\ ~(first /\ upstream[k] = NoHandle)
             /\ view' = [view EXCEPT ![q].at = "served"]
             /\ UNCHANGED opening
       /\ UNCHANGED upstream

\* add(key, ws); the first one in opens the upstream, unless one is stored or
\* being opened.
Join(q) ==
    LET k == view[q].key
        opens == bucket[k] = {} /\ upstream[k] = NoHandle /\ k \notin opening
    IN /\ bucket' = [bucket EXCEPT ![k] = @ \cup {view[q].ws}]
       /\ \/ /\ opens
             /\ opening' = opening \cup {k}
             /\ view' = [view EXCEPT ![q].at = "subscribing"]
          \/ /\ ~opens
             /\ view' = [view EXCEPT ![q].at = "served"]
             /\ UNCHANGED opening
       /\ UNCHANGED upstream

Proceed(q, priors) ==
    /\ IF priors = {} THEN Join(q) ELSE Leave(q, priors)
    /\ UNCHANGED <<live, teardown, closed>>

\* A history frame arrives; the access check it must pass awaits the database.
FrameArrives(q, ws, k) ==
    /\ view[q].at = "idle"
    /\ ws \notin closed
    /\ view' = [view EXCEPT ![q].at = "access", ![q].ws = ws, ![q].key = k]
    /\ UNCHANGED <<bucket, upstream, opening, live, teardown, closed>>

\* The check passes, whether or not the socket is still there; the sessions to
\* leave are read once.
ViewStarts(q) ==
    /\ view[q].at = "access"
    /\ Proceed(q, KeysOf(view[q].ws) \ {view[q].key})

ViewGoesOn(q) ==
    /\ view[q].at = "leaving"
    /\ Proceed(q, view[q].priors)

\* The unsubscribe of a session this call left is done.
LeftUpstream(q) ==
    /\ view[q].at = "closing"
    /\ live' = live \ {view[q].handle}
    /\ view' = [view EXCEPT ![q].at = "leaving", ![q].handle = NoHandle]
    /\ UNCHANGED <<bucket, upstream, opening, teardown, closed>>

-----------------------------------------------------------------------------
(* openUpstream(key), past its await. *)

\* Mutant: nobody looks whether the session still has viewers.
SubscribeAnswersBlindly(q) ==
    LET k == view[q].key IN
    /\ view[q].at = "subscribing"
    /\ live' = live \cup {q}
    /\ upstream' = [upstream EXCEPT ![k] = q]
    /\ opening' = opening \ {k}
    /\ view' = [view EXCEPT ![q].at = "served"]
    /\ UNCHANGED <<bucket, teardown, closed>>

\* Mutant: the answer to an abandoned subscribe is dropped, handle and all.
SubscribeAnswersCarelessly(q) ==
    LET k == view[q].key IN
    /\ view[q].at = "subscribing"
    /\ live' = live \cup {q}
    /\ upstream' = IF bucket[k] = {} THEN upstream ELSE [upstream EXCEPT ![k] = q]
    /\ opening' = opening \ {k}
    /\ view' = [view EXCEPT ![q].at = "served"]
    /\ UNCHANGED <<bucket, teardown, closed>>

\* Mutant: the key is stored where the handle belongs.
SubscribeAnswersByKey(q) ==
    LET k == view[q].key IN
    /\ view[q].at = "subscribing"
    /\ live' = live \cup {q}
    /\ upstream' = [upstream EXCEPT ![k] = k]
    /\ opening' = opening \ {k}
    /\ view' = [view EXCEPT ![q].at = "served"]
    /\ UNCHANGED <<bucket, teardown, closed>>

\* The handle is stored, or given back when everyone left meanwhile.
SubscribeAnswers(q) ==
    LET k == view[q].key IN
    /\ view[q].at = "subscribing"
    /\ live' = live \cup {q}
    /\ \/ /\ bucket[k] # {}
          /\ upstream' = [upstream EXCEPT ![k] = q]
          /\ opening' = opening \ {k}
          /\ view' = [view EXCEPT ![q].at = "served"]
       \/ /\ bucket[k] = {}
          /\ view' = [view EXCEPT ![q].at = "discarding"]
          /\ UNCHANGED <<upstream, opening>>
    /\ UNCHANGED <<bucket, teardown, closed>>

\* Only now is the key free to be opened again.
Discarded(q) ==
    /\ view[q].at = "discarding"
    /\ live' = live \ {q}
    /\ opening' = opening \ {view[q].key}
    /\ view' = [view EXCEPT ![q].at = "served"]
    /\ UNCHANGED <<bucket, upstream, teardown, closed>>

\* The RPC is refused: the caller logs it and serves the history all the same.
SubscribeFails(q) ==
    /\ "subscribe" \in Faults
    /\ view[q].at = "subscribing"
    /\ opening' = opening \ {view[q].key}
    /\ view' = [view EXCEPT ![q].at = "served"]
    /\ UNCHANGED <<bucket, upstream, live, teardown, closed>>

-----------------------------------------------------------------------------
(* disconnect(ws): removeSocket, then close the emptied sessions one by one. *)

\* closeUpstream of one of the keys left; nothing looks at the bucket again.
CloseNext(ws, keys) ==
    \/ /\ keys = {}
       /\ teardown' = [teardown EXCEPT ![ws] = [rest |-> {}, handle |-> NoHandle]]
       /\ UNCHANGED upstream
    \/ \E k \in keys :
         /\ upstream' = [upstream EXCEPT ![k] = NoHandle]
         /\ teardown' = [teardown EXCEPT ![ws] = [rest |-> keys \ {k}, handle |-> upstream[k]]]

SocketCloses(ws) ==
    /\ "drop" \in Faults
    /\ ws \notin closed
    /\ closed' = closed \cup {ws}
    /\ bucket' = [k \in Keys |-> bucket[k] \ {ws}]
    /\ CloseNext(ws, {k \in Keys : bucket[k] = {ws}})
    /\ UNCHANGED <<opening, live, view>>

\* Mutant: the disconnect stops after its first session.
TeardownStops(ws) ==
    /\ teardown[ws].handle # NoHandle \/ teardown[ws].rest # {}
    /\ live' = live \ {teardown[ws].handle}
    /\ teardown' = [teardown EXCEPT ![ws] = [rest |-> {}, handle |-> NoHandle]]
    /\ UNCHANGED <<bucket, opening, view, closed, upstream>>

\* The unsubscribe it waited for is done; on to the next key.
TeardownGoesOn(ws) ==
    /\ teardown[ws].handle # NoHandle \/ teardown[ws].rest # {}
    /\ live' = live \ {teardown[ws].handle}
    /\ CloseNext(ws, teardown[ws].rest)
    /\ UNCHANGED <<bucket, opening, view, closed>>

-----------------------------------------------------------------------------
ViewStep(q) ==
    \/ ViewStarts(q) \/ ViewGoesOn(q) \/ LeftUpstream(q)
    \/ SubscribeAnswers(q) \/ SubscribeFails(q) \/ Discarded(q)

Next ==
    \/ \E q \in Views :
         \/ ViewStep(q)
         \/ \E ws \in Sockets, k \in Keys : FrameArrives(q, ws, k)
    \/ \E ws \in Sockets : SocketCloses(ws) \/ TeardownGoesOn(ws)

Spec == Init /\ [][Next]_vars

-----------------------------------------------------------------------------
(* What the bridge promises. *)

\* "Opens exactly one upstream subscription per session and reuses it": a stored
\* handle and a subscribe under way exclude each other, and neither comes twice.
OneUpstreamPerSession ==
    \A k \in Keys :
        LET opens == {q \in Views : view[q].key = k /\ view[q].at \in {"subscribing", "discarding"}}
        IN /\ Cardinality(opens) <= 1
           /\ upstream[k] # NoHandle => opens = {}

\* No handle is lost: whatever the gateway still serves is stored under its key,
\* being discarded, or being closed by the one call that took it out.
Owners(h) ==
    {<<"stored", k>> : k \in {j \in Keys : upstream[j] = h}}
    \cup {<<"discarding", q>> : q \in {r \in Views : r = h /\ view[r].at = "discarding"}}
    \cup {<<"closing", q>> : q \in {r \in Views : view[r].handle = h}}
    \cup {<<"teardown", s>> : s \in {t \in Sockets : teardown[t].handle = h}}

HandlesOwned == \A h \in Views : Cardinality(Owners(h)) = IF h \in live THEN 1 ELSE 0

\* An upstream nobody views is on the list of a disconnect that is closing it.
IdleUpstreamCloses ==
    \A k \in Keys : upstream[k] # NoHandle /\ bucket[k] = {} =>
        \E ws \in Sockets : k \in teardown[ws].rest

\* The same as a promise: a subscription nobody needs is given back.
Unneeded == {h \in live : bucket[view[h].key] = {}}

UnusedHandleReturned == Unneeded # {} ~> Unneeded = {}

=============================================================================
