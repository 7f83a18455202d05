-------------------------- MODULE ServerPartsProofs --------------------------
(***************************************************************************)
(* The parts of the server beside each other (MCServerParts) do what each  *)
(* does for itself, so that what is proved of a part holds of the          *)
(* composition, for every value of the constants.                          *)
(***************************************************************************)
EXTENDS MCServerParts, PokeBridgeProofs, WorkersProofs, GatewayProofs, UploadsProofs

\* A step of the composition is a step of the part in focus, and none of the others.
LEMMA PartSteps ==
  ASSUME [PartsNext]_partsVars
  PROVE  /\ [Next]_vars /\ [SweepNext]_sweepVars /\ [IndexNext]_indexVars
         /\ [HealthNext]_healthVars /\ [PushNext]_pushVars /\ [UploadsNext]_uploadVars
<1>1. CASE UNCHANGED partsVars
  BY <1>1 DEF partsVars
<1>2. CASE PartsNext
  <2>1. \/ /\ Next
           /\ UNCHANGED <<sweepVars, indexVars, healthVars, pushVars, uploadVars>>
        \/ /\ SweepNext
           /\ UNCHANGED <<vars, indexVars, healthVars, pushVars, uploadVars>>
        \/ /\ IndexNext
           /\ UNCHANGED <<vars, sweepVars, healthVars, pushVars, uploadVars>>
        \/ /\ HealthNext
           /\ UNCHANGED <<vars, sweepVars, indexVars, pushVars, uploadVars>>
        \/ /\ PushNext
           /\ UNCHANGED <<vars, sweepVars, indexVars, healthVars, uploadVars>>
        \/ /\ UploadsNext
           /\ UNCHANGED <<vars, sweepVars, indexVars, healthVars, pushVars>>
    BY <1>2 DEF PartsNext, StillExcept
  <2> QED BY <2>1
<1> QED BY <1>1, <1>2

\* The composition implements the specification of each part: the poke bridge, the
\* sweep, the index queue, the watchdog, the config push and the uploads share no
\* variable, and what the part in focus does leaves the others' as they are.
THEOREM PartsFollowTheirSpecs ==
  PartsSpec => Spec /\ SweepSpec /\ IndexSpec /\ HealthSpec /\ PushSpec /\ UploadsSpec
<1>1. PartsInit => Init /\ SweepInit /\ IndexInit /\ HealthInit /\ PushInit /\ UploadsInit
  BY DEF PartsInit
<1>2. [PartsNext]_partsVars =>
        /\ [Next]_vars /\ [SweepNext]_sweepVars /\ [IndexNext]_indexVars
        /\ [HealthNext]_healthVars /\ [PushNext]_pushVars /\ [UploadsNext]_uploadVars
  BY PartSteps
<1> QED BY <1>1, <1>2, PTL DEF PartsSpec, Spec, SweepSpec, IndexSpec, HealthSpec, PushSpec, UploadsSpec

\* Every variable of every part keeps to its set of values, in the composition: for any
\* sockets, mails, jobs, schedules, pushes and uploads, if the watchdog's ticks do not
\* overlap, no push says what an earlier one said, no upload expires under a send that
\* has checked it, and no restart tears the undo of an insert.
THEOREM PartsTypeCorrect ==
  ASSUME OneAtATime, ~Reverts, ~SlowSends, NoTornUndo
  PROVE  PartsSpec => []PartsTypeOK
<1>1. PushInv => PushTypeOK
  BY DEF PushInv
<1>2. TypeOK /\ InboxTypeOK /\ IndexTypeOK /\ HealthTypeOK /\ PushTypeOK /\ UploadsTypeOK => PartsTypeOK
  BY DEF PartsTypeOK
<1> QED BY <1>1, <1>2, PartsFollowTheirSpecs, BridgeTypeCorrect, SweepTypeCorrect, IndexTypeCorrect,
           HealthKept, PushInvAlways, UploadsTypeCorrect, PTL

\* What the parts promise when nothing more is assumed: sessions have one upstream, every
\* handle an owner, claims are kept while their mail is run, settled mails were
\* notified, and the queue shows the live run, beside whatever the other parts do.
THEOREM PartsKeepPromises ==
  PartsSpec => /\ []OneUpstreamPerSession /\ []HandlesOwned /\ []IdleUpstreamCloses
               /\ []LiveClaimKept /\ []SettledWasTold /\ FollowsLedger
               /\ []LiveRunShown /\ []ThrowNeedsTurnover
BY PartsFollowTheirSpecs, OneUpstream, HandlesNotLost, IdleUpstreamListed, ClaimsKept, SettledTold,
   SweepFollowsLedger, LiveRowTrue, ThrowsOnTurnover, PTL

\* And what they promise under the assumptions named above: restarts of a channel keep
\* their pace and an outage disables it once, the newest configuration wins, and
\* attached files keep their bytes.
THEOREM PartsKeepAssumedPromises ==
  ASSUME OneAtATime, ~Reverts, ~SlowSends, NoTornUndo
  PROVE  PartsSpec => /\ []DisabledOnce /\ RestartsPaced
                      /\ []NewestDelivered /\ []AttachedBytesKept
BY PartsFollowTheirSpecs, DisabledAtMostOnce, RestartsKeepPace, NewestWins, AttachedKept, PTL

=============================================================================
