------------------------------ MODULE ConfigPush ------------------------------
(***************************************************************************)
(* Delivering a generated OpenClaw configuration: background pushes that   *)
(* supersede each other, their retry budgets and the file they fall back   *)
(* to (openclaw-config/write.ts, push-state.ts).                           *)
(*                                                                         *)
(* The gateway is external.  It is taken to have one configuration at work *)
(* and one file, to refuse an apply whose base hash is not the file's any  *)
(* more, to write the file with every apply it accepts, and to load a file *)
(* that was written beside it.  It may refuse any call for its own reasons *)
(* as often as it likes, and the answer to an apply it did may be lost.    *)
(* Documents are compared up to the fields OpenClaw adds: a content stands *)
(* for all of its supplemented forms.                                      *)
(***************************************************************************)
EXTENDS Naturals, FiniteSets

CONSTANTS
    Pushes,         \* bound: pushes 1 .. Pushes; the number is the generation
    Reverts,        \* whether a push may say what the start or an earlier one said
    Attempts,       \* backoffsMs.length
    MaxStale, MaxRate,  \* MAX_STALE_HASH_RETRIES, MAX_RATE_LIMIT_RETRIES
    MaxDown         \* NOT_CONNECTED_MAX_WAIT_MS / NOT_CONNECTED_RETRY_DELAY_MS

ASSUME ConfigPushAssumption ==
    /\ Pushes \in Nat /\ Attempts \in Nat \ {0}
    /\ MaxStale \in Nat /\ MaxRate \in Nat /\ MaxDown \in Nat
    /\ Reverts \in BOOLEAN

VARIABLES
    generation, \* the newest generation claimed
    push,       \* [1 .. Pushes -> where the push's coroutine is]
    runtime,    \* what the gateway works with
    file        \* what openclaw.json says

pushVars == <<generation, push, runtime, file>>

\* 0: what the gateway starts with.
Contents == 0..Pushes

Answers == {"none", "ok", "stale", "rate", "down", "other"}

Push == [at: {"none", "get", "got", "apply", "answered", "sleep", "settled"},
         content: Contents, config: Contents, base: Contents, answer: Answers,
         i: 1..Attempts, stale: 0..MaxStale, rate: 0..MaxRate, down: 0..MaxDown]

PushTypeOK ==
    /\ generation \in 0..Pushes
    /\ push \in [1..Pushes -> Push]
    /\ runtime \in Contents /\ file \in Contents

NoPush == [at |-> "none", content |-> 0, config |-> 0,
           base |-> 0, answer |-> "none", i |-> 1, stale |-> 0, rate |-> 0, down |-> 0]

PushInit ==
    /\ generation = 0
    /\ push = [g \in 1..Pushes |-> NoPush]
    /\ runtime = 0 /\ file = 0

Superseded(g) == g # generation

\* How many coroutines the health endpoint reports (getPendingConfigPushCount).
Pending == Cardinality({g \in 1..Pushes : push[g].at \notin {"none", "settled"}})

NewContents(g) == IF Reverts THEN 0..g ELSE {g}

-----------------------------------------------------------------------------
\* A settled coroutine keeps nothing but what it was to deliver.
Settled(g) == [NoPush EXCEPT !.at = "settled", !.content = push[g].content]

\* pushConfigInBackground: without a client the file is written before it returns.
PushStarts(g) ==
    /\ g = generation + 1
    /\ generation' = g
    /\ \E c \in NewContents(g) :
            \/ /\ push' = [push EXCEPT ![g] = [NoPush EXCEPT !.at = "get", !.content = c]]
               /\ UNCHANGED file
            \/ /\ push' = [push EXCEPT ![g] = [NoPush EXCEPT !.at = "settled", !.content = c]]
               /\ file' = c
    /\ UNCHANGED runtime

\* A call comes back with a: what an earlier config.get told is of no use any more.
ComesBack(g, a) ==
    push' = [push EXCEPT ![g].at = "answered", ![g].answer = a, ![g].config = 0, ![g].base = 0]

\* config.get at the gateway.
GatewayReads(g) ==
    /\ push[g].at = "get"
    /\ \/ push' = [push EXCEPT ![g].at = "got", ![g].config = runtime, ![g].base = file]
       \/ \E a \in {"down", "other"} : ComesBack(g, a)
    /\ UNCHANGED <<generation, runtime, file>>

\* config.get returns: superseded, nothing to do, or an apply on that base.
GetReturns(g) ==
    /\ push[g].at = "got"
    /\ push' = [push EXCEPT ![g] = IF Superseded(g) \/ push[g].config = push[g].content
                                   THEN Settled(g) ELSE [@ EXCEPT !.at = "apply"]]
    /\ UNCHANGED <<generation, runtime, file>>

\* config.apply at the gateway.
GatewayApplies(g) ==
    /\ push[g].at = "apply"
    /\ \/ /\ push[g].base = file
          /\ runtime' = push[g].content /\ file' = push[g].content
          /\ \E a \in {"ok", "down", "other"} : ComesBack(g, a)
       \/ /\ \E a \in {"stale", "rate", "down", "other"} : ComesBack(g, a)
          /\ UNCHANGED <<runtime, file>>
    /\ UNCHANGED generation

-----------------------------------------------------------------------------
(* The answer to an apply, or the error of either call. *)

\* The file fallback, with the content the push is to deliver.
FallsBack(g) == /\ file' = push[g].content
                /\ push' = [push EXCEPT ![g] = Settled(g)]

Retries(g, q) == push' = [push EXCEPT ![g] = q] /\ UNCHANGED file

Sleeps(g) == [push[g] EXCEPT !.at = "sleep", !.answer = "none"]

RateLimited(g) ==
    /\ push[g].answer = "rate"
    /\ IF push[g].rate < MaxRate
       THEN Retries(g, [Sleeps(g) EXCEPT !.rate = @ + 1])
       ELSE FallsBack(g)

\* Mutant: the immediate retries are not counted.
StaleHashUncounted(g) ==
    /\ push[g].answer = "stale" /\ push[g].stale < MaxStale
    /\ Retries(g, [push[g] EXCEPT !.at = "get", !.answer = "none"])

StaleHash(g) ==
    /\ push[g].answer = "stale" /\ push[g].stale < MaxStale
    /\ Retries(g, [push[g] EXCEPT !.at = "get", !.answer = "none", !.stale = @ + 1])

NotConnected(g) ==
    /\ push[g].answer = "down" /\ push[g].down < MaxDown
    /\ Retries(g, [Sleeps(g) EXCEPT !.down = @ + 1])

\* Any other error, or a budget used up: the next backoff, or the file.
Otherwise(g) ==
    /\ \/ push[g].answer = "other"
       \/ push[g].answer = "stale" /\ push[g].stale = MaxStale
       \/ push[g].answer = "down" /\ push[g].down = MaxDown
    /\ IF push[g].i < Attempts
       THEN Retries(g, [Sleeps(g) EXCEPT !.i = @ + 1])
       ELSE FallsBack(g)

\* Mutant: a superseded push goes on to its retries and fallbacks.
AnsweredAnyway(g) ==
    /\ push[g].at = "answered"
    /\ \/ /\ push[g].answer = "ok"
          /\ push' = [push EXCEPT ![g] = Settled(g)]
          /\ UNCHANGED file
       \/ RateLimited(g) \/ StaleHash(g) \/ NotConnected(g) \/ Otherwise(g)
    /\ UNCHANGED <<generation, runtime>>

\* A superseded push leaves everything to the newer one.
Answered(g) ==
    /\ push[g].at = "answered"
    /\ \/ /\ push[g].answer = "ok" \/ Superseded(g)
          /\ push' = [push EXCEPT ![g] = Settled(g)]
          /\ UNCHANGED file
       \/ /\ ~Superseded(g)
          /\ RateLimited(g) \/ StaleHash(g) \/ NotConnected(g) \/ Otherwise(g)
    /\ UNCHANGED <<generation, runtime>>

\* The sleep is over: the loop looks for a newer push first.
Wakes(g) ==
    /\ push[g].at = "sleep"
    /\ push' = [push EXCEPT ![g] = IF Superseded(g) THEN Settled(g) ELSE [@ EXCEPT !.at = "get"]]
    /\ UNCHANGED <<generation, runtime, file>>

\* The gateway's file watcher loads what was written beside it.
FileReloads ==
    /\ runtime # file
    /\ runtime' = file
    /\ UNCHANGED <<generation, push, file>>

-----------------------------------------------------------------------------
PushGoesOn(g) ==
    GatewayReads(g) \/ GetReturns(g) \/ GatewayApplies(g) \/ Answered(g) \/ Wakes(g)

PushNext == FileReloads \/ \E g \in 1..Pushes : PushStarts(g) \/ PushGoesOn(g)

PushSpec == PushInit /\ [][PushNext]_pushVars

-----------------------------------------------------------------------------
(* What the push promises. *)

\* "A stale payload can never land on top of a newer one" (push-state.ts): once every
\* push has settled and the file is loaded, the gateway works with the newest one.
NewestDelivered ==
    Pending = 0 /\ runtime = file /\ generation > 0 => runtime = push[generation].content

\* Every push settles, so `configPushesPending` comes back to zero, however often the
\* gateway refuses or drops its calls.
PushSettles == Pending > 0 ~> Pending = 0

=============================================================================
