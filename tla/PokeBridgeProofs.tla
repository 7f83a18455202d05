--------------------------- MODULE PokeBridgeProofs ---------------------------
(* Theorems about the poke bridge, for every value of the constants. *)
EXTENDS PokeBridge, FiniteSetTheorems, TLAPS

\* A subscribe that has the key, until its handle is stored or given back.
Opens(q, k) == view[q].key = k /\ view[q].at \in {"subscribing", "discarding"}

\* A view past the access check has a session and a socket.
Addressed ==
    \A q \in Views : view[q].at # "idle" => view[q].key \in Keys /\ view[q].ws \in Sockets

\* `opening` is exactly the keys of those subscribes, one each, and excludes a stored handle.
KeyTaken ==
    /\ \A k \in opening : \E q \in Views : Opens(q, k)
    /\ \A k \in Keys, q \in Views : Opens(q, k) => k \in opening
    /\ \A k \in Keys, q, r \in Views : Opens(q, k) /\ Opens(r, k) => q = r
    /\ \A k \in opening : upstream[k] = NoHandle

\* Only a closed socket has anything to tear down.
OpenSocketIdle ==
    \A ws \in Sockets \ closed : teardown[ws].rest = {} /\ teardown[ws].handle = NoHandle

BridgeInv ==
    /\ TypeOK
    /\ Addressed
    /\ KeyTaken
    /\ OpenSocketIdle
    /\ IdleUpstreamCloses

-----------------------------------------------------------------------------
(* Types. *)

\* Where a view may be.
LEMMA ViewStageNames ==
  /\ "idle" \in Stages /\ "access" \in Stages /\ "leaving" \in Stages /\ "closing" \in Stages
  /\ "subscribing" \in Stages /\ "discarding" \in Stages /\ "served" \in Stages
  BY DEF Stages

\* View q has come to stage a; the others are as they were.
ViewMoved(q, a) ==
    /\ view' \in [Views -> View] /\ view'[q].at = a
    /\ \A r \in Views \ {q} : view'[r] = view[r]

\* It is about the session and the socket it was about.
SameRequest(q) == view'[q].key = view[q].key /\ view'[q].ws = view[q].ws

\* A view that only changes its stage,
LEMMA ViewStageUpdate ==
  ASSUME view \in [Views -> View], NEW q \in Views, NEW a \in Stages, view' = [view EXCEPT ![q].at = a]
  PROVE  ViewMoved(q, a) /\ SameRequest(q)
  BY DEF View, ViewMoved, SameRequest

\* and one that changes its handle too.
LEMMA HandleUpdate ==
  ASSUME view \in [Views -> View], NEW q \in Views, NEW a \in Stages, NEW h \in Handles,
         view' = [view EXCEPT ![q].at = a, ![q].handle = h]
  PROVE  ViewMoved(q, a) /\ SameRequest(q)
  BY DEF View, ViewMoved, SameRequest

-----------------------------------------------------------------------------
(* What a step of a view does to the sessions. *)

Open == {"subscribing", "discarding"}

\* Nothing, but that an upstream may be given up;
Quiet(q) ==
    /\ view[q].at \notin Open /\ view'[q].at \notin Open
    /\ opening' = opening
    /\ \A k \in Keys : upstream'[k] \in {upstream[k], NoHandle}

\* it takes a free key,
Takes(q) ==
    /\ view[q].at \notin Open /\ view'[q].at \in Open
    /\ view[q].key \notin opening /\ upstream[view[q].key] = NoHandle
    /\ opening' = opening \cup {view[q].key} /\ upstream' = upstream

\* keeps the one it has,
Keeps(q) ==
    /\ view[q].at \in Open /\ view'[q].at \in Open
    /\ opening' = opening /\ upstream' = upstream

\* or frees it, perhaps with its handle stored.
Frees(q) ==
    /\ view[q].at \in Open /\ view'[q].at \notin Open
    /\ opening' = opening \ {view[q].key}
    /\ \A k \in Keys \ {view[q].key} : upstream'[k] = upstream[k]

\* No upstream is left alone by it.
NoneAbandoned ==
    \A k \in Keys : upstream'[k] # NoHandle /\ bucket'[k] = {} =>
        upstream[k] # NoHandle /\ bucket[k] = {}

ViewEffect(q) ==
    /\ \E a \in Stages \ {"idle"} : ViewMoved(q, a)
    /\ SameRequest(q) /\ view[q].at # "idle"
    /\ Quiet(q) \/ Takes(q) \/ Keeps(q) \/ Frees(q)
    /\ NoneAbandoned

SessionTypes ==
    /\ bucket' \in [Keys -> SUBSET Sockets] /\ upstream' \in [Keys -> Handles]
    /\ opening' \subseteq Keys /\ live' \subseteq Views

\* No handle is the handle of no subscribe.
LEMMA HandleNames == NoHandle \in Handles /\ \A q \in Views : q \in Handles /\ q # NoHandle
  BY PokeBridgeAssumption DEF Handles

\* What leaving one session does: one viewer less, and its upstream out if none is left.
LEMMA LeaveEffect ==
  ASSUME BridgeInv, NEW q \in Views, view[q].at \in {"access", "leaving"}, NEW P \in SUBSET Keys,
         Leave(q, P), live' = live
  PROVE  ViewEffect(q) /\ SessionTypes
<1>0. /\ view \in [Views -> View] /\ bucket \in [Keys -> SUBSET Sockets]
      /\ upstream \in [Keys -> Handles] /\ opening \subseteq Keys /\ live \subseteq Views
      /\ view[q].ws \in Sockets
  BY DEF BridgeInv, TypeOK, Addressed
<1>1. PICK p \in P :
        /\ bucket' = [bucket EXCEPT ![p] = @ \ {view[q].ws}]
        /\ \/ /\ bucket[p] = {view[q].ws} /\ upstream[p] # NoHandle
              /\ upstream' = [upstream EXCEPT ![p] = NoHandle]
              /\ view' = [view EXCEPT ![q].at = "closing", ![q].priors = P \ {p}, ![q].handle = upstream[p]]
           \/ /\ ~(bucket[p] = {view[q].ws} /\ upstream[p] # NoHandle)
              /\ view' = [view EXCEPT ![q].at = "leaving", ![q].priors = P \ {p}]
              /\ upstream' = upstream
  BY DEF Leave
<1>2. p \in Keys /\ opening' = opening
  BY DEF Leave
<1>3. \E b \in {"closing", "leaving"} : ViewMoved(q, b) /\ SameRequest(q)
  <2>1. PICK R \in SUBSET Keys, h \in Handles : R = P \ {p} /\ h = upstream[p]
    BY <1>0, <1>2
  <2>2. ASSUME NEW a \in Stages,
               \/ view' = [view EXCEPT ![q].at = a, ![q].priors = R]
               \/ view' = [view EXCEPT ![q].at = a, ![q].priors = R, ![q].handle = h]
        PROVE  ViewMoved(q, a) /\ SameRequest(q)
    BY <1>0, <2>2 DEF View, ViewMoved, SameRequest
  <2>3. CASE view' = [view EXCEPT ![q].at = "closing", ![q].priors = R, ![q].handle = h]
    BY <2>2, <2>3, ViewStageNames
  <2>4. CASE view' = [view EXCEPT ![q].at = "leaving", ![q].priors = R]
    BY <2>2, <2>4, ViewStageNames
  <2> QED BY <1>1, <2>1, <2>3, <2>4
<1>4. /\ bucket' \in [Keys -> SUBSET Sockets] /\ upstream' \in [Keys -> Handles]
      /\ \A k \in Keys : upstream'[k] \in {upstream[k], NoHandle}
  BY <1>0, <1>1, <1>2, HandleNames
<1>5. NoneAbandoned
  <2>1. \A k \in Keys \ {p} : upstream'[k] = upstream[k] /\ bucket'[k] = bucket[k]
    BY <1>0, <1>1
  <2>2. bucket'[p] = bucket[p] \ {view[q].ws}
    BY <1>0, <1>1, <1>2
  <2>3. upstream'[p] # NoHandle => upstream[p] # NoHandle /\ bucket[p] # {view[q].ws}
    BY <1>0, <1>1, <1>2
  <2>4. bucket[p] \ {view[q].ws} = {} /\ bucket[p] # {view[q].ws} => bucket[p] = {}
    OBVIOUS
  <2> QED BY <2>1, <2>2, <2>3, <2>4 DEF NoneAbandoned
<1>6. view[q].at \notin Open /\ \A a \in {"closing", "leaving"} : a \notin Open /\ a \in Stages \ {"idle"}
  BY ViewStageNames DEF Open
<1>7. Quiet(q)
  BY <1>2, <1>3, <1>4, <1>6 DEF Quiet, ViewMoved
<1> QED BY <1>0, <1>2, <1>3, <1>4, <1>5, <1>6, <1>7 DEF ViewEffect, SessionTypes

\* What joining does: one viewer more, and a subscribe only where none exists or is under way.
LEMMA JoinEffect ==
  ASSUME BridgeInv, NEW q \in Views, view[q].at \in {"access", "leaving"}, Join(q), live' = live
  PROVE  ViewEffect(q) /\ SessionTypes
<1> DEFINE k == view[q].key
<1>0. /\ view \in [Views -> View] /\ bucket \in [Keys -> SUBSET Sockets]
      /\ upstream \in [Keys -> Handles] /\ opening \subseteq Keys /\ live \subseteq Views
      /\ view[q].ws \in Sockets /\ k \in Keys
  BY DEF BridgeInv, TypeOK, Addressed
<1>1. /\ bucket' = [bucket EXCEPT ![k] = @ \cup {view[q].ws}] /\ upstream' = upstream
      /\ \/ /\ upstream[k] = NoHandle /\ k \notin opening /\ opening' = opening \cup {k}
            /\ view' = [view EXCEPT ![q].at = "subscribing"]
         \/ view' = [view EXCEPT ![q].at = "served"] /\ opening' = opening
  BY DEF Join
<1>2. bucket' \in [Keys -> SUBSET Sockets] /\ \A j \in Keys : bucket[j] \subseteq bucket'[j]
  BY <1>0, <1>1
<1>3. NoneAbandoned
  BY <1>1, <1>2 DEF NoneAbandoned
<1>4. view[q].at \notin Open /\ "served" \notin Open /\ "subscribing" \in Open
  BY DEF Open
<1>5. CASE /\ upstream[k] = NoHandle /\ k \notin opening /\ opening' = opening \cup {k}
           /\ view' = [view EXCEPT ![q].at = "subscribing"]
  <2>1. ViewMoved(q, "subscribing") /\ SameRequest(q)
    BY <1>0, <1>5, ViewStageUpdate, ViewStageNames
  <2>2. Takes(q)
    BY <1>1, <1>4, <1>5, <2>1 DEF Takes, ViewMoved
  <2> QED BY <1>0, <1>1, <1>2, <1>3, <1>5, <2>1, <2>2, ViewStageNames DEF ViewEffect, SessionTypes
<1>6. CASE view' = [view EXCEPT ![q].at = "served"] /\ opening' = opening
  <2>1. ViewMoved(q, "served") /\ SameRequest(q)
    BY <1>0, <1>6, ViewStageUpdate, ViewStageNames
  <2>2. Quiet(q)
    BY <1>1, <1>4, <1>6, <2>1 DEF Quiet, ViewMoved
  <2> QED BY <1>0, <1>1, <1>2, <1>3, <1>6, <2>1, <2>2, ViewStageNames DEF ViewEffect, SessionTypes
<1> QED BY <1>1, <1>5, <1>6

\* A step of a view, in the parts the invariant speaks of.
LEMMA ViewStepEffect ==
  ASSUME BridgeInv, NEW q \in Views, ViewStep(q)
  PROVE  ViewEffect(q) /\ SessionTypes /\ teardown' = teardown /\ closed' = closed
<1> DEFINE k == view[q].key
<1>0. /\ view \in [Views -> View] /\ bucket \in [Keys -> SUBSET Sockets]
      /\ upstream \in [Keys -> Handles] /\ opening \subseteq Keys /\ live \subseteq Views
      /\ view[q].at # "idle" => k \in Keys
      /\ view[q].priors \in SUBSET Keys
  BY DEF BridgeInv, TypeOK, Addressed, View
<1>1. CASE ViewStarts(q) \/ ViewGoesOn(q)
  <2>1. PICK P \in SUBSET Keys : Proceed(q, P)
    BY <1>0, <1>1 DEF ViewStarts, ViewGoesOn, KeysOf
  <2>2. view[q].at \in {"access", "leaving"} /\ live' = live /\ teardown' = teardown /\ closed' = closed
    BY <1>1, <2>1 DEF ViewStarts, ViewGoesOn, Proceed
  <2>3. Join(q) \/ Leave(q, P)
    BY <2>1 DEF Proceed
  <2> QED BY <2>2, <2>3, JoinEffect, LeaveEffect
<1>2. CASE LeftUpstream(q)
  <2>1. ViewMoved(q, "leaving") /\ SameRequest(q)
    BY <1>0, <1>2, HandleUpdate, ViewStageNames, HandleNames DEF LeftUpstream
  <2>2. Quiet(q)
    BY <1>2, <2>1 DEF LeftUpstream, Quiet, ViewMoved, Open
  <2>3. NoneAbandoned
    BY <1>2 DEF LeftUpstream, NoneAbandoned
  <2> QED BY <1>0, <1>2, <2>1, <2>2, <2>3, ViewStageNames DEF LeftUpstream, ViewEffect, SessionTypes
<1>3. CASE SubscribeAnswers(q)
  <2>0. view[q].at = "subscribing" /\ k \in Keys /\ live' = live \cup {q}
    BY <1>0, <1>3 DEF SubscribeAnswers
  <2>1. CASE /\ bucket[k] # {} /\ upstream' = [upstream EXCEPT ![k] = q]
             /\ opening' = opening \ {k} /\ view' = [view EXCEPT ![q].at = "served"]
    <3>1. ViewMoved(q, "served") /\ SameRequest(q)
      BY <1>0, <2>1, ViewStageUpdate, ViewStageNames
    <3>2. upstream' \in [Keys -> Handles] /\ \A j \in Keys \ {k} : upstream'[j] = upstream[j]
      BY <1>0, <2>0, <2>1, HandleNames
    <3>3. Frees(q)
      BY <2>0, <2>1, <3>1, <3>2 DEF Frees, ViewMoved, Open
    <3>4. NoneAbandoned
      BY <1>3, <2>1, <3>2 DEF SubscribeAnswers, NoneAbandoned
    <3> QED BY <1>0, <1>3, <2>0, <2>1, <3>1, <3>2, <3>3, <3>4, ViewStageNames
            DEF SubscribeAnswers, ViewEffect, SessionTypes
  <2>2. CASE view' = [view EXCEPT ![q].at = "discarding"] /\ upstream' = upstream /\ opening' = opening
    <3>1. ViewMoved(q, "discarding") /\ SameRequest(q)
      BY <1>0, <2>2, ViewStageUpdate, ViewStageNames
    <3>2. Keeps(q)
      BY <2>0, <2>2, <3>1 DEF Keeps, ViewMoved, Open
    <3>3. NoneAbandoned
      BY <1>3, <2>2 DEF SubscribeAnswers, NoneAbandoned
    <3> QED BY <1>0, <1>3, <2>0, <2>2, <3>1, <3>2, <3>3, ViewStageNames
            DEF SubscribeAnswers, ViewEffect, SessionTypes
  <2> QED BY <1>3, <2>1, <2>2 DEF SubscribeAnswers
<1>4. CASE SubscribeFails(q) \/ Discarded(q)
  <2>0. /\ view[q].at \in Open /\ opening' = opening \ {k} /\ view' = [view EXCEPT ![q].at = "served"]
        /\ upstream' = upstream /\ bucket' = bucket /\ live' \subseteq live
        /\ teardown' = teardown /\ closed' = closed
    BY <1>4 DEF SubscribeFails, Discarded, Open
  <2>1. ViewMoved(q, "served") /\ SameRequest(q)
    BY <1>0, <2>0, ViewStageUpdate, ViewStageNames
  <2>2. Frees(q) /\ NoneAbandoned
    BY <2>0, <2>1 DEF Frees, NoneAbandoned, ViewMoved, Open
  <2> QED BY <1>0, <2>0, <2>1, <2>2, ViewStageNames DEF ViewEffect, SessionTypes, Open
<1> QED BY <1>1, <1>2, <1>3, <1>4 DEF ViewStep

-----------------------------------------------------------------------------
(* The invariant. *)

\* Requests and disconnects: neither touches a subscribe.
LEMMA FrameEffect ==
  ASSUME BridgeInv, NEW q \in Views, NEW ws \in Sockets, NEW k \in Keys, FrameArrives(q, ws, k)
  PROVE  /\ view' \in [Views -> View]
         /\ view[q].at = "idle" /\ view'[q].at = "access" /\ view'[q].ws = ws /\ view'[q].key = k
         /\ \A r \in Views \ {q} : view'[r] = view[r]
<1>1. view \in [Views -> View]
  BY DEF BridgeInv, TypeOK
<1>2. PICK a \in Stages : a = "access"
  BY ViewStageNames
<1>3. view' = [view EXCEPT ![q].at = a, ![q].ws = ws, ![q].key = k] /\ view[q].at = "idle"
  BY <1>2 DEF FrameArrives
<1>4. /\ view' \in [Views -> View]
      /\ view'[q].at = a /\ view'[q].ws = ws /\ view'[q].key = k
      /\ \A r \in Views \ {q} : view'[r] = view[r]
  BY <1>1, <1>3 DEF View
<1> QED BY <1>2, <1>3, <1>4

\* A disconnect takes the next key off its list, and its upstream out.
LEMMA CloseEffect ==
  ASSUME BridgeInv, NEW ws \in Sockets, NEW K \in SUBSET Keys, CloseNext(ws, K)
  PROVE  /\ teardown' \in [Sockets -> Teardown] /\ upstream' \in [Keys -> Handles]
         /\ \A s \in Sockets \ {ws} : teardown'[s] = teardown[s]
         /\ \A k \in Keys : upstream'[k] \in {upstream[k], NoHandle}
         /\ \A k \in K : k \in teardown'[ws].rest \/ upstream'[k] = NoHandle
         /\ teardown'[ws].rest \subseteq K
<1>0. teardown \in [Sockets -> Teardown] /\ upstream \in [Keys -> Handles]
  BY DEF BridgeInv, TypeOK
<1>1. CASE K = {} /\ teardown' = [teardown EXCEPT ![ws] = [rest |-> {}, handle |-> NoHandle]]
           /\ upstream' = upstream
  <2>1. [rest |-> {}, handle |-> NoHandle] \in Teardown
    BY HandleNames DEF Teardown
  <2> QED BY <1>0, <1>1, <2>1
<1>2. ASSUME NEW k \in K, upstream' = [upstream EXCEPT ![k] = NoHandle],
             teardown' = [teardown EXCEPT ![ws] = [rest |-> K \ {k}, handle |-> upstream[k]]]
      PROVE  /\ teardown' \in [Sockets -> Teardown] /\ upstream' \in [Keys -> Handles]
             /\ \A s \in Sockets \ {ws} : teardown'[s] = teardown[s]
             /\ \A j \in Keys : upstream'[j] \in {upstream[j], NoHandle}
             /\ \A j \in K : j \in teardown'[ws].rest \/ upstream'[j] = NoHandle
             /\ teardown'[ws].rest \subseteq K
  <2>1. [rest |-> K \ {k}, handle |-> upstream[k]] \in Teardown
    BY <1>0 DEF Teardown
  <2>2. teardown'[ws].rest = K \ {k} /\ upstream'[k] = NoHandle
    BY <1>0, <1>2
  <2> QED BY <1>0, <1>2, <2>1, <2>2, HandleNames
<1> QED BY <1>1, <1>2 DEF CloseNext

\* A socket that closes leaves every bucket it is in; the rest is for its disconnect.
LEMMA SocketEffect ==
  ASSUME BridgeInv, NEW ws \in Sockets, SocketCloses(ws) \/ TeardownGoesOn(ws)
  PROVE  /\ view' = view /\ opening' = opening
         /\ TypeOK' /\ OpenSocketIdle' /\ IdleUpstreamCloses'
         /\ \A k \in Keys : upstream'[k] \in {upstream[k], NoHandle}
<1>0. /\ bucket \in [Keys -> SUBSET Sockets] /\ teardown \in [Sockets -> Teardown]
      /\ closed \subseteq Sockets /\ live \subseteq Views
      /\ \A s \in Sockets : teardown[s].rest \in SUBSET Keys
  BY DEF BridgeInv, TypeOK, Teardown
<1>1. CASE SocketCloses(ws)
  <2> DEFINE K == {k \in Keys : bucket[k] = {ws}}
  <2>1. /\ CloseNext(ws, K) /\ closed' = closed \cup {ws} /\ ws \notin closed
        /\ bucket' = [k \in Keys |-> bucket[k] \ {ws}]
        /\ view' = view /\ opening' = opening /\ live' = live
    BY <1>1 DEF SocketCloses
  <2>2. /\ teardown' \in [Sockets -> Teardown] /\ upstream' \in [Keys -> Handles]
        /\ \A s \in Sockets \ {ws} : teardown'[s] = teardown[s]
        /\ \A k \in Keys : upstream'[k] \in {upstream[k], NoHandle}
        /\ \A k \in K : k \in teardown'[ws].rest \/ upstream'[k] = NoHandle
    BY <2>1, CloseEffect
  <2>3. teardown[ws].rest = {}
    BY <2>1 DEF BridgeInv, OpenSocketIdle
  <2>4. ASSUME NEW k \in Keys, upstream'[k] # NoHandle, bucket'[k] = {}
        PROVE  \E s \in Sockets : k \in teardown'[s].rest
    <3>1. upstream[k] # NoHandle /\ bucket[k] \ {ws} = {}
      BY <2>1, <2>2, <2>4
    <3>2. bucket[k] = {} \/ k \in K
      BY <3>1
    <3>3. CASE bucket[k] = {}
      <4>1. PICK s \in Sockets : k \in teardown[s].rest
        BY <3>1, <3>3 DEF BridgeInv, IdleUpstreamCloses
      <4>2. s # ws
        BY <2>3, <4>1
      <4> QED BY <2>2, <4>1, <4>2
    <3> QED BY <2>2, <2>4, <3>2, <3>3
  <2>5. bucket' \in [Keys -> SUBSET Sockets] /\ closed' \subseteq Sockets
    BY <1>0, <2>1
  <2> HIDE DEF K
  <2>6. TypeOK'
    BY <1>0, <2>1, <2>2, <2>5 DEF BridgeInv, TypeOK
  <2>7. OpenSocketIdle'
    BY <2>1, <2>2 DEF BridgeInv, OpenSocketIdle
  <2> QED BY <2>1, <2>2, <2>4, <2>6, <2>7 DEF IdleUpstreamCloses
<1>2. CASE TeardownGoesOn(ws)
  <2>1. /\ CloseNext(ws, teardown[ws].rest) /\ closed' = closed /\ bucket' = bucket
        /\ view' = view /\ opening' = opening /\ live' \subseteq live
    BY <1>2 DEF TeardownGoesOn
  <2>2. /\ teardown' \in [Sockets -> Teardown] /\ upstream' \in [Keys -> Handles]
        /\ \A s \in Sockets \ {ws} : teardown'[s] = teardown[s]
        /\ \A k \in Keys : upstream'[k] \in {upstream[k], NoHandle}
        /\ \A k \in teardown[ws].rest : k \in teardown'[ws].rest \/ upstream'[k] = NoHandle
        /\ teardown'[ws].rest \subseteq teardown[ws].rest
    BY <1>0, <2>1, CloseEffect
  <2>3. ASSUME NEW k \in Keys, upstream'[k] # NoHandle, bucket'[k] = {}
        PROVE  \E s \in Sockets : k \in teardown'[s].rest
    <3>1. PICK s \in Sockets : k \in teardown[s].rest
      BY <2>1, <2>2, <2>3 DEF BridgeInv, IdleUpstreamCloses
    <3> QED BY <2>2, <2>3, <3>1
  <2>4. TypeOK'
    BY <1>0, <2>1, <2>2 DEF BridgeInv, TypeOK
  <2>5. OpenSocketIdle'
    BY <1>2, <2>1, <2>2 DEF BridgeInv, OpenSocketIdle, TeardownGoesOn
  <2> QED BY <2>1, <2>2, <2>3, <2>4, <2>5 DEF IdleUpstreamCloses
<1> QED BY <1>1, <1>2

\* The key of a subscribe is its own, whichever view moves.
LEMMA KeyKept ==
  ASSUME BridgeInv, Next
  PROVE  KeyTaken'
<1>0. /\ KeyTaken /\ opening \subseteq Keys
      /\ \A q \in Views : view[q].at # "idle" => view[q].key \in Keys
  BY DEF BridgeInv, TypeOK, Addressed
<1>1. ASSUME NEW q \in Views, ViewEffect(q) PROVE KeyTaken'
  <2> DEFINE k == view[q].key
  <2>0. /\ k \in Keys /\ view'[q].key = k
        /\ \A r \in Views \ {q} : view'[r] = view[r]
        /\ \A j \in Keys, r \in Views \ {q} : Opens(r, j)' <=> Opens(r, j)
    BY <1>0, <1>1 DEF ViewEffect, ViewMoved, SameRequest, Opens
  <2>1. /\ \A j \in Keys : Opens(q, j) <=> (j = k /\ view[q].at \in Open)
        /\ \A j \in Keys : Opens(q, j)' <=> (j = k /\ view'[q].at \in Open)
    BY <2>0 DEF Opens, Open
  <2> HIDE DEF k
  <2>2. CASE Quiet(q)
    BY <1>0, <2>0, <2>1, <2>2 DEF KeyTaken, Quiet
  <2>3. CASE Takes(q)
    <3>1. opening' = opening \cup {k} /\ upstream' = upstream /\ k \notin opening /\ upstream[k] = NoHandle
      BY <2>3 DEF Takes, k
    <3>2. view[q].at \notin Open /\ view'[q].at \in Open
      BY <2>3 DEF Takes
    <3> QED BY <1>0, <2>0, <2>1, <3>1, <3>2 DEF KeyTaken
  <2>4. CASE Keeps(q)
    BY <1>0, <2>0, <2>1, <2>4 DEF KeyTaken, Keeps
  <2>5. CASE Frees(q)
    <3>1. opening' = opening \ {k} /\ \A j \in Keys \ {k} : upstream'[j] = upstream[j]
      BY <2>5 DEF Frees, k
    <3>2. view[q].at \in Open /\ view'[q].at \notin Open
      BY <2>5 DEF Frees
    <3> QED BY <1>0, <2>0, <2>1, <3>1, <3>2 DEF KeyTaken
  <2> QED BY <1>1, <2>2, <2>3, <2>4, <2>5 DEF ViewEffect
<1>2. ASSUME NEW q \in Views, NEW ws \in Sockets, NEW k \in Keys, FrameArrives(q, ws, k) PROVE KeyTaken'
  <2>1. \A j \in Keys, r \in Views : Opens(r, j)' <=> Opens(r, j)
    BY <1>2, FrameEffect DEF Opens
  <2>2. opening' = opening /\ upstream' = upstream
    BY <1>2 DEF FrameArrives
  <2> QED BY <1>0, <2>1, <2>2 DEF KeyTaken
<1>3. ASSUME NEW ws \in Sockets, SocketCloses(ws) \/ TeardownGoesOn(ws) PROVE KeyTaken'
  <2>1. /\ view' = view /\ opening' = opening
        /\ \A k \in Keys : upstream'[k] \in {upstream[k], NoHandle}
    BY <1>3, SocketEffect
  <2> QED BY <1>0, <2>1 DEF KeyTaken, Opens
<1> QED BY <1>1, <1>2, <1>3, ViewStepEffect DEF Next

\* The invariant holds at the start,
LEMMA BridgeInvInit == Init => BridgeInv
<1> SUFFICES ASSUME Init PROVE BridgeInv
  OBVIOUS
<1>1. TypeOK
  <2>1. [at |-> "idle", ws |-> NoSocket, key |-> NoKey, priors |-> {}, handle |-> NoHandle] \in View
    BY ViewStageNames, HandleNames DEF View
  <2>2. [rest |-> {}, handle |-> NoHandle] \in Teardown
    BY HandleNames DEF Teardown
  <2> QED BY <2>1, <2>2, HandleNames DEF Init, TypeOK
<1>2. /\ \A q \in Views : view[q].at = "idle"
      /\ \A s \in Sockets : teardown[s].rest = {} /\ teardown[s].handle = NoHandle
      /\ \A k \in Keys : upstream[k] = NoHandle
      /\ opening = {}
  BY DEF Init
<1> QED BY <1>1, <1>2 DEF BridgeInv, Addressed, KeyTaken, Opens, OpenSocketIdle, IdleUpstreamCloses

\* is kept by every step,
LEMMA BridgeInvNext == BridgeInv /\ [Next]_vars => BridgeInv'
<1>1. ASSUME BridgeInv, NEW q \in Views, ViewStep(q) PROVE TypeOK' /\ Addressed' /\ OpenSocketIdle' /\ IdleUpstreamCloses'
  <2>1. ViewEffect(q) /\ SessionTypes /\ teardown' = teardown /\ closed' = closed
    BY <1>1, ViewStepEffect
  <2>2. TypeOK'
    BY <1>1, <2>1 DEF BridgeInv, TypeOK, SessionTypes, ViewEffect, ViewMoved
  <2>3. Addressed'
    BY <1>1, <2>1 DEF BridgeInv, Addressed, ViewEffect, ViewMoved, SameRequest
  <2>4. OpenSocketIdle'
    BY <1>1, <2>1 DEF BridgeInv, OpenSocketIdle
  <2>5. IdleUpstreamCloses'
    BY <1>1, <2>1 DEF BridgeInv, IdleUpstreamCloses, ViewEffect, NoneAbandoned
  <2> QED BY <2>2, <2>3, <2>4, <2>5
<1>2. ASSUME BridgeInv, NEW q \in Views, NEW ws \in Sockets, NEW k \in Keys, FrameArrives(q, ws, k)
      PROVE  TypeOK' /\ Addressed' /\ OpenSocketIdle' /\ IdleUpstreamCloses'
  <2>1. UNCHANGED <<bucket, upstream, opening, live, teardown, closed>>
    BY <1>2 DEF FrameArrives
  <2>2. TypeOK'
    BY <1>2, <2>1, FrameEffect DEF BridgeInv, TypeOK
  <2>3. Addressed'
    BY <1>2, FrameEffect DEF BridgeInv, Addressed
  <2> QED BY <1>2, <2>1, <2>2, <2>3 DEF BridgeInv, OpenSocketIdle, IdleUpstreamCloses
<1>3. ASSUME BridgeInv, NEW ws \in Sockets, SocketCloses(ws) \/ TeardownGoesOn(ws)
      PROVE  TypeOK' /\ Addressed' /\ OpenSocketIdle' /\ IdleUpstreamCloses'
  BY <1>3, SocketEffect DEF BridgeInv, Addressed
<1>4. ASSUME BridgeInv, Next PROVE BridgeInv'
  BY <1>1, <1>2, <1>3, <1>4, KeyKept DEF Next, BridgeInv
<1>5. ASSUME BridgeInv, UNCHANGED vars PROVE BridgeInv'
  BY <1>5 DEF BridgeInv, vars, TypeOK, Addressed, KeyTaken, Opens, OpenSocketIdle, IdleUpstreamCloses
<1> QED BY <1>4, <1>5

\* and so holds always.
LEMMA BridgeInvAlways == Spec => []BridgeInv
  BY BridgeInvInit, BridgeInvNext, PTL DEF Spec

-----------------------------------------------------------------------------
(* The handles. *)

\* Who may hold a handle: a session, the view that got it, one that leaves, a disconnect.
Stored(h, k) == upstream[k] = h
Returning(h) == view[h].at = "discarding"
Leaving(h, q) == view[q].handle = h
Closing(h, s) == teardown[s].handle = h

Held(h) ==
    \/ \E k \in Keys : Stored(h, k)
    \/ Returning(h)
    \/ \E q \in Views : Leaving(h, q)
    \/ \E s \in Sockets : Closing(h, s)

HeldOnce(h) ==
    /\ \A j, k \in Keys : Stored(h, j) /\ Stored(h, k) => j = k
    /\ \A q, r \in Views : Leaving(h, q) /\ Leaving(h, r) => q = r
    /\ \A s, t \in Sockets : Closing(h, s) /\ Closing(h, t) => s = t
    /\ \A k \in Keys : Stored(h, k) => /\ ~Returning(h)
                                       /\ \A q \in Views : ~Leaving(h, q)
                                       /\ \A s \in Sockets : ~Closing(h, s)
    /\ Returning(h) => /\ \A q \in Views : ~Leaving(h, q)
                       /\ \A s \in Sockets : ~Closing(h, s)
    /\ \A q \in Views, s \in Sockets : ~(Leaving(h, q) /\ Closing(h, s))

Owned == \A h \in Views : HeldOnce(h) /\ (h \in live <=> Held(h))

\* A view has no handle of its own before the gateway has answered, and another's only
\* while it gives it up.
HandleStages ==
    \A q \in Views :
        /\ view[q].handle # NoHandle => view[q].at = "closing"
        /\ view[q].at \in {"idle", "access", "leaving", "closing", "subscribing"} => q \notin live

HInv == BridgeInv /\ HandleStages /\ Owned

\* What holds them after a step that changes neither places nor handles served.
LEMMA OwnedAsBefore ==
  ASSUME HInv, live' = live,
         \A k \in Keys : upstream'[k] = upstream[k],
         \A q \in Views : view'[q].handle = view[q].handle /\ (Returning(q)' <=> Returning(q)),
         \A s \in Sockets : teardown'[s].handle = teardown[s].handle
  PROVE  Owned'
  BY DEF HInv, Owned, HeldOnce, Held, Stored, Returning, Leaving, Closing

\* A view that only changes its stage keeps its handle.
LEMMA StageHandle ==
  ASSUME view \in [Views -> View], NEW q \in Views, NEW a \in Stages, view' = [view EXCEPT ![q].at = a]
  PROVE  /\ view'[q].at = a
         /\ \A r \in Views : view'[r].handle = view[r].handle
         /\ \A r \in Views \ {q} : view'[r] = view[r]
  BY DEF View

\* Leaving a session,
LEMMA LeaveOwned ==
  ASSUME HInv, NEW q \in Views, view[q].at \in {"access", "leaving"}, NEW P \in SUBSET Keys,
         Leave(q, P), UNCHANGED <<live, teardown, closed>>
  PROVE  HandleStages' /\ Owned'
<1>0. /\ view \in [Views -> View] /\ upstream \in [Keys -> Handles]
      /\ view[q].handle = NoHandle /\ NoHandle \notin Views
  BY PokeBridgeAssumption DEF HInv, BridgeInv, TypeOK, HandleStages
<1>1. PICK p \in P :
        \/ /\ upstream[p] # NoHandle /\ upstream' = [upstream EXCEPT ![p] = NoHandle]
           /\ view' = [view EXCEPT ![q].at = "closing", ![q].priors = P \ {p}, ![q].handle = upstream[p]]
        \/ /\ view' = [view EXCEPT ![q].at = "leaving", ![q].priors = P \ {p}]
           /\ upstream' = upstream
  BY DEF Leave
<1>2. CASE /\ upstream[p] # NoHandle /\ upstream' = [upstream EXCEPT ![p] = NoHandle]
           /\ view' = [view EXCEPT ![q].at = "closing", ![q].priors = P \ {p}, ![q].handle = upstream[p]]
  <2>1. PICK a \in Stages, R \in SUBSET Keys, h \in Handles : a = "closing" /\ R = P \ {p} /\ h = upstream[p]
    BY <1>0, ViewStageNames
  <2>2. view' = [view EXCEPT ![q].at = a, ![q].priors = R, ![q].handle = h]
    BY <1>2, <2>1
  <2>3. /\ view'[q].at = a /\ view'[q].handle = h
        /\ \A r \in Views \ {q} : view'[r] = view[r]
    BY <1>0, <2>2 DEF View
  <2>4. upstream'[p] = NoHandle /\ \A k \in Keys \ {p} : upstream'[k] = upstream[k]
    BY <1>0, <1>2
  <2>5. HandleStages'
    BY <2>1, <2>3 DEF HInv, HandleStages
  <2>6. \A r \in Views : Returning(r)' <=> Returning(r)
    BY <2>1, <2>3 DEF Returning
  <2>7. Owned'
    BY <1>0, <1>2, <2>1, <2>3, <2>4, <2>6 DEF HInv, Owned, HeldOnce, Held, Stored, Leaving, Closing
  <2> QED BY <2>5, <2>7
<1>3. CASE view' = [view EXCEPT ![q].at = "leaving", ![q].priors = P \ {p}] /\ upstream' = upstream
  <2>1. PICK a \in Stages, R \in SUBSET Keys : a = "leaving" /\ R = P \ {p}
    BY ViewStageNames
  <2>2. view' = [view EXCEPT ![q].at = a, ![q].priors = R]
    BY <1>3, <2>1
  <2>3. /\ view'[q].at = a /\ view'[q].handle = view[q].handle
        /\ \A r \in Views \ {q} : view'[r] = view[r]
    BY <1>0, <2>2 DEF View
  <2>4. HandleStages'
    BY <1>0, <2>1, <2>3 DEF HInv, HandleStages
  <2>5. Owned'
    BY <1>3, <2>1, <2>3, OwnedAsBefore DEF Returning
  <2> QED BY <2>4, <2>5
<1> QED BY <1>1, <1>2, <1>3

\* every other step of a view,
LEMMA ViewOwned ==
  ASSUME HInv, NEW q \in Views, ViewStep(q)
  PROVE  HandleStages' /\ Owned'
<1> DEFINE k == view[q].key
<1>0. /\ view \in [Views -> View] /\ upstream \in [Keys -> Handles]
      /\ NoHandle \notin Views /\ BridgeInv
      /\ view[q].at # "idle" => k \in Keys
      /\ view[q].priors \in SUBSET Keys
  BY PokeBridgeAssumption DEF HInv, BridgeInv, TypeOK, Addressed, View
<1>1. CASE ViewStarts(q) \/ ViewGoesOn(q)
  <2>1. PICK P \in SUBSET Keys : Proceed(q, P)
    BY <1>0, <1>1 DEF ViewStarts, ViewGoesOn, KeysOf
  <2>2. view[q].at \in {"access", "leaving"} /\ UNCHANGED <<live, teardown, closed>>
    BY <1>1, <2>1 DEF ViewStarts, ViewGoesOn, Proceed
  <2>3. CASE Join(q)
    <3>1. upstream' = upstream
      BY <2>3 DEF Join
    <3>2. PICK a \in {"subscribing", "served"} : view' = [view EXCEPT ![q].at = a]
      BY <2>3 DEF Join
    <3>3. a \in Stages
      BY ViewStageNames
    <3>4. /\ view'[q].at = a /\ \A r \in Views : view'[r].handle = view[r].handle
          /\ \A r \in Views \ {q} : view'[r] = view[r]
      BY <1>0, <3>2, <3>3, StageHandle
    <3>5. HandleStages'
      BY <2>2, <3>4 DEF HInv, HandleStages
    <3>6. \A r \in Views : Returning(r)' <=> Returning(r)
      BY <2>2, <3>4 DEF Returning
    <3> QED BY <2>2, <3>1, <3>4, <3>5, <3>6, OwnedAsBefore
  <2> QED BY <2>1, <2>2, <2>3, LeaveOwned DEF Proceed
<1>2. CASE LeftUpstream(q)
  <2>1. PICK a \in Stages, h \in Handles : a = "leaving" /\ h = NoHandle
    BY ViewStageNames, HandleNames
  <2>2. view' = [view EXCEPT ![q].at = a, ![q].handle = h] /\ view[q].at = "closing"
        /\ live' = live \ {view[q].handle} /\ upstream' = upstream /\ teardown' = teardown
    BY <1>2, <2>1 DEF LeftUpstream
  <2>3. /\ view'[q].at = a /\ view'[q].handle = h
        /\ \A r \in Views \ {q} : view'[r] = view[r]
    BY <1>0, <2>2 DEF View
  <2>4. HandleStages'
    BY <2>1, <2>2, <2>3 DEF HInv, HandleStages
  <2>5. \A r \in Views : Returning(r)' <=> Returning(r)
    BY <2>1, <2>2, <2>3 DEF Returning
  <2>6. Owned'
    BY <1>0, <2>1, <2>2, <2>3, <2>5 DEF HInv, Owned, HeldOnce, Held, Stored, Leaving, Closing
  <2> QED BY <2>4, <2>6
<1>3. CASE SubscribeAnswers(q)
  <2>0. /\ view[q].at = "subscribing" /\ k \in Keys /\ live' = live \cup {q} /\ q \notin live
        /\ teardown' = teardown /\ upstream[k] = NoHandle
    BY <1>0, <1>3 DEF SubscribeAnswers, HInv, HandleStages, BridgeInv, KeyTaken, Opens
  <2>1. CASE upstream' = [upstream EXCEPT ![k] = q] /\ view' = [view EXCEPT ![q].at = "served"]
    <3>1. /\ view'[q].at = "served" /\ \A r \in Views : view'[r].handle = view[r].handle
          /\ \A r \in Views \ {q} : view'[r] = view[r]
      BY <1>0, <2>1, StageHandle, ViewStageNames
    <3>2. upstream'[k] = q /\ \A j \in Keys \ {k} : upstream'[j] = upstream[j]
      BY <1>0, <2>0, <2>1
    <3>3. HandleStages'
      BY <2>0, <3>1 DEF HInv, HandleStages
    <3>4. \A r \in Views : Returning(r)' <=> Returning(r)
      BY <2>0, <3>1 DEF Returning
    <3>5. Owned'
      <4> HIDE DEF k
      <4> QED BY <1>0, <2>0, <3>1, <3>2, <3>4 DEF HInv, Owned, HeldOnce, Held, Stored, Leaving, Closing
    <3> QED BY <3>3, <3>5
  <2>2. CASE view' = [view EXCEPT ![q].at = "discarding"] /\ upstream' = upstream
    <3>1. /\ view'[q].at = "discarding" /\ \A r \in Views : view'[r].handle = view[r].handle
          /\ \A r \in Views \ {q} : view'[r] = view[r]
      BY <1>0, <2>2, StageHandle, ViewStageNames
    <3>2. HandleStages'
      BY <2>0, <3>1 DEF HInv, HandleStages
    <3>3. Returning(q)' /\ ~Returning(q) /\ \A r \in Views \ {q} : Returning(r)' <=> Returning(r)
      BY <2>0, <3>1 DEF Returning
    <3>4. Owned'
      BY <1>0, <2>0, <2>2, <3>1, <3>3 DEF HInv, Owned, HeldOnce, Held, Stored, Leaving, Closing
    <3> QED BY <3>2, <3>4
  <2> QED BY <1>3, <2>1, <2>2 DEF SubscribeAnswers
<1>4. CASE SubscribeFails(q)
  <2>1. /\ view[q].at = "subscribing" /\ view' = [view EXCEPT ![q].at = "served"]
        /\ upstream' = upstream /\ live' = live /\ teardown' = teardown
    BY <1>4 DEF SubscribeFails
  <2>2. /\ view'[q].at = "served" /\ \A r \in Views : view'[r].handle = view[r].handle
        /\ \A r \in Views \ {q} : view'[r] = view[r]
    BY <1>0, <2>1, StageHandle, ViewStageNames
  <2>3. HandleStages'
    BY <2>1, <2>2 DEF HInv, HandleStages
  <2>4. \A r \in Views : Returning(r)' <=> Returning(r)
    BY <2>1, <2>2 DEF Returning
  <2> QED BY <2>1, <2>2, <2>3, <2>4, OwnedAsBefore
<1>5. CASE Discarded(q)
  <2>1. /\ view[q].at = "discarding" /\ view' = [view EXCEPT ![q].at = "served"]
        /\ upstream' = upstream /\ live' = live \ {q} /\ teardown' = teardown
    BY <1>5 DEF Discarded
  <2>2. /\ view'[q].at = "served" /\ \A r \in Views : view'[r].handle = view[r].handle
        /\ \A r \in Views \ {q} : view'[r] = view[r]
    BY <1>0, <2>1, StageHandle, ViewStageNames
  <2>3. HandleStages'
    BY <2>1, <2>2 DEF HInv, HandleStages
  <2>4. Returning(q) /\ ~Returning(q)' /\ \A r \in Views \ {q} : Returning(r)' <=> Returning(r)
    BY <2>1, <2>2 DEF Returning
  <2>5. Owned'
    BY <1>0, <2>1, <2>2, <2>4 DEF HInv, Owned, HeldOnce, Held, Stored, Leaving, Closing
  <2> QED BY <2>3, <2>5
<1> QED BY <1>1, <1>2, <1>3, <1>4, <1>5 DEF ViewStep

\* and a disconnect, which gives back what it holds before it takes the next one.
LEMMA SocketOwned ==
  ASSUME HInv, NEW ws \in Sockets, SocketCloses(ws) \/ TeardownGoesOn(ws)
  PROVE  HandleStages' /\ Owned'
<1>0. /\ teardown \in [Sockets -> Teardown] /\ upstream \in [Keys -> Handles] /\ NoHandle \notin Views
      /\ teardown[ws].rest \in SUBSET Keys
  BY PokeBridgeAssumption DEF HInv, BridgeInv, TypeOK, Teardown
<1>1. PICK K \in SUBSET Keys : CloseNext(ws, K)
  BY <1>0 DEF SocketCloses, TeardownGoesOn
<1>2. view' = view /\ live' = live \ {teardown[ws].handle}
  <2>1. CASE SocketCloses(ws)
    <3>1. view' = view /\ live' = live /\ ws \notin closed
      BY <2>1 DEF SocketCloses
    <3>2. teardown[ws].handle = NoHandle /\ live \subseteq Views
      BY <3>1 DEF HInv, BridgeInv, OpenSocketIdle, TypeOK
    <3> QED BY <1>0, <3>1, <3>2
  <2>2. CASE TeardownGoesOn(ws)
    BY <2>2 DEF TeardownGoesOn
  <2> QED BY <2>1, <2>2
<1>3. HandleStages'
  BY <1>2 DEF HInv, HandleStages
<1>4. \A r \in Views : Returning(r)' <=> Returning(r)
  BY <1>2 DEF Returning
<1>5. CASE teardown' = [teardown EXCEPT ![ws] = [rest |-> {}, handle |-> NoHandle]] /\ upstream' = upstream
  <2>1. teardown'[ws].handle = NoHandle /\ \A s \in Sockets \ {ws} : teardown'[s] = teardown[s]
    BY <1>0, <1>5
  <2>2. Owned'
    BY <1>0, <1>2, <1>4, <1>5, <2>1 DEF HInv, Owned, HeldOnce, Held, Stored, Leaving, Closing
  <2> QED BY <1>3, <2>2
<1>6. ASSUME NEW k \in K, upstream' = [upstream EXCEPT ![k] = NoHandle],
             teardown' = [teardown EXCEPT ![ws] = [rest |-> K \ {k}, handle |-> upstream[k]]]
      PROVE  Owned'
  <2>1. teardown'[ws].handle = upstream[k] /\ \A s \in Sockets \ {ws} : teardown'[s] = teardown[s]
    BY <1>0, <1>6
  <2>2. upstream'[k] = NoHandle /\ \A j \in Keys \ {k} : upstream'[j] = upstream[j]
    BY <1>0, <1>6
  <2> QED BY <1>0, <1>2, <1>4, <2>1, <2>2 DEF HInv, Owned, HeldOnce, Held, Stored, Leaving, Closing
<1> QED BY <1>1, <1>3, <1>5, <1>6 DEF CloseNext

\* The invariant with the handles holds always.
LEMMA SpecHInv == Spec => []HInv
<1>1. Init => HInv
  <2> SUFFICES ASSUME Init PROVE HInv
    OBVIOUS
  <2>1. /\ \A q \in Views : view[q].at = "idle" /\ view[q].handle = NoHandle
        /\ \A s \in Sockets : teardown[s].handle = NoHandle
        /\ \A k \in Keys : upstream[k] = NoHandle
        /\ live = {} /\ NoHandle \notin Views
    BY PokeBridgeAssumption DEF Init
  <2> QED BY <2>1, BridgeInvInit DEF HInv, HandleStages, Owned, HeldOnce, Held, Stored, Returning, Leaving, Closing
<1>2. ASSUME HInv, NEW q \in Views, NEW ws \in Sockets, NEW k \in Keys, FrameArrives(q, ws, k)
      PROVE  HandleStages' /\ Owned'
  <2>1. view \in [Views -> View] /\ BridgeInv
    BY <1>2 DEF HInv, BridgeInv, TypeOK
  <2>2. PICK a \in Stages : a = "access"
    BY ViewStageNames
  <2>3. view' = [view EXCEPT ![q].at = a, ![q].ws = ws, ![q].key = k] /\ view[q].at = "idle"
    BY <1>2, <2>2 DEF FrameArrives
  <2>4. view'[q].at = a /\ view'[q].handle = view[q].handle /\ \A r \in Views \ {q} : view'[r] = view[r]
    BY <2>1, <2>3 DEF View
  <2>5. live' = live /\ upstream' = upstream /\ teardown' = teardown
    BY <1>2 DEF FrameArrives
  <2>6. HandleStages'
    BY <1>2, <2>2, <2>3, <2>4, <2>5 DEF HInv, HandleStages
  <2>7. \A r \in Views : Returning(r)' <=> Returning(r)
    BY <2>2, <2>3, <2>4 DEF Returning
  <2> QED BY <1>2, <2>4, <2>5, <2>6, <2>7, OwnedAsBefore
<1>3. ASSUME HInv, Next PROVE HandleStages' /\ Owned'
  BY <1>2, <1>3, ViewOwned, SocketOwned DEF Next
<1>4. ASSUME HInv, UNCHANGED vars PROVE HandleStages' /\ Owned'
  BY <1>4, OwnedAsBefore DEF HInv, HandleStages, vars, Returning
<1>5. HInv /\ [Next]_vars => HInv'
  BY <1>3, <1>4, BridgeInvNext DEF HInv
<1> QED BY <1>1, <1>5, PTL DEF Spec

\* Sets with at most one member.
LEMMA AtMostOne ==
  ASSUME NEW S, \A a, b \in S : a = b
  PROVE  Cardinality(S) <= 1
<1>1. CASE S = {}
  BY <1>1, FS_EmptySet
<1>2. CASE S # {}
  <2>1. PICK a : S = {a}
    BY <1>2
  <2> QED BY <2>1, FS_Singleton
<1> QED BY <1>1, <1>2

\* The bridge keeps its types, for any sockets, sessions and requests.
THEOREM BridgeTypeCorrect == Spec => []TypeOK
<1>1. BridgeInv => TypeOK
  BY DEF BridgeInv
<1> QED BY <1>1, BridgeInvAlways, PTL

\* However many requests overlap, a session never has two upstreams, nor one stored and
\* another being opened.
THEOREM OneUpstream == Spec => []OneUpstreamPerSession
<1>1. ASSUME BridgeInv PROVE OneUpstreamPerSession
  <2>1. ASSUME NEW k \in Keys
        PROVE  LET opens == {q \in Views : view[q].key = k /\ view[q].at \in {"subscribing", "discarding"}}
               IN  Cardinality(opens) <= 1 /\ (upstream[k] # NoHandle => opens = {})
    <3> DEFINE opens == {q \in Views : view[q].key = k /\ view[q].at \in {"subscribing", "discarding"}}
    <3>1. /\ \A a, b \in opens : a = b
          /\ upstream[k] # NoHandle => opens = {}
      BY <1>1 DEF BridgeInv, KeyTaken, Opens
    <3>2. Cardinality(opens) <= 1
      BY <3>1, AtMostOne
    <3> QED BY <3>1, <3>2
  <2> QED BY <2>1 DEF OneUpstreamPerSession
<1> QED BY <1>1, BridgeInvAlways, PTL

\* Whatever comes and goes, an upstream that nobody views is on the list of a disconnect.
THEOREM IdleUpstreamListed == Spec => []IdleUpstreamCloses
<1>1. BridgeInv => IdleUpstreamCloses
  BY DEF BridgeInv
<1> QED BY <1>1, BridgeInvAlways, PTL

\* Every handle the gateway serves has exactly one owner who will give it back, and one
\* that was given back has none.
THEOREM HandlesNotLost == Spec => []HandlesOwned
<1>1. ASSUME HInv, NEW h \in Views
      PROVE  Cardinality(Owners(h)) = IF h \in live THEN 1 ELSE 0
  <2>1. HeldOnce(h) /\ (h \in live <=> Held(h))
    BY <1>1 DEF HInv, Owned
  <2>2. \A o : o \in Owners(h) <=>
          \/ \E k \in Keys : Stored(h, k) /\ o = <<"stored", k>>
          \/ Returning(h) /\ o = <<"discarding", h>>
          \/ \E q \in Views : Leaving(h, q) /\ o = <<"closing", q>>
          \/ \E s \in Sockets : Closing(h, s) /\ o = <<"teardown", s>>
    BY DEF Owners, Stored, Returning, Leaving, Closing
  <2>3. \A o, u \in Owners(h) : o = u
    BY <2>1, <2>2 DEF HeldOnce
  <2>4. Owners(h) = {} <=> ~Held(h)
    BY <2>2 DEF Held
  <2>5. CASE h \in live
    <3>1. PICK o : Owners(h) = {o}
      BY <2>1, <2>3, <2>4, <2>5
    <3> QED BY <2>5, <3>1, FS_Singleton
  <2>6. CASE h \notin live
    BY <2>1, <2>4, <2>6, FS_EmptySet
  <2> QED BY <2>5, <2>6
<1>2. HInv => HandlesOwned
  BY <1>1 DEF HandlesOwned
<1> QED BY <1>2, SpecHInv, PTL

=============================================================================
