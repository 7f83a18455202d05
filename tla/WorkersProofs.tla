---------------------------- MODULE WorkersProofs ----------------------------
(***************************************************************************)
(* Theorems about the two workers that a timer starts and that survive a   *)
(* restart by what their tables say: the mailbox sweep with its ledger     *)
(* (InboxSweep), and the knowledge-base index queue (IndexJobs), for every *)
(* value of their constants.                                               *)
(***************************************************************************)
EXTENDS InboxSweep, IndexJobs, FiniteSetTheorems, TLAPS

-----------------------------------------------------------------------------
(* The mailbox sweep and its ledger. *)

\* Where a pass may be.
LEMMA PassStageNames ==
  /\ "idle" \in PassStages /\ "reset" \in PassStages /\ "names" \in PassStages
  /\ "audit" \in PassStages /\ "load" \in PassStages /\ "search" \in PassStages
  /\ "skip" \in PassStages /\ "hydrate" \in PassStages /\ "dispatch" \in PassStages
  /\ "running" \in PassStages /\ "notify" \in PassStages /\ "finalize" \in PassStages
  /\ "status" \in PassStages
  BY DEF PassStages

\* A pass that is over, or has just begun, has its type.
LEMMA NoPassType ==
  /\ NoPass \in Pass
  /\ [NoPass EXCEPT !.at = "reset"] \in Pass
<1>1. /\ {} \in SUBSET (Mails \X Nat) /\ {} \in SUBSET Mails
      /\ 0 \in 0..MailCount /\ 0 \in Nat /\ "none" \in Verdicts \cup {"none"}
  BY InboxSweepAssumption
<1>2. NoPass \in Pass
  BY <1>1, PassStageNames DEF NoPass, Pass
<1>3. \A r \in Pass, a \in PassStages : [r EXCEPT !.at = a] \in Pass
  BY DEF Pass
<1> QED BY <1>2, <1>3, PassStageNames

\* What a pass holds, and what a statement may give it to hold.
LEMMA HoldsType ==
  ASSUME InboxTypeOK, NEW p \in Passes
  PROVE  /\ pass[p] \in Pass
         /\ {<<m, row[m].id>> : m \in Stuck} \in SUBSET (Mails \X Nat)
         /\ Page \in SUBSET Mails
         /\ {m \in pass[p].listed : row[m].status = "none"} \in SUBSET Mails
  BY InboxSweepAssumption DEF InboxTypeOK, Stuck, Page, Mails, Pass, Row

\* t[p] has become u[p], of its type and at stage a; the other passes are as they were.
PassMoved(t, u, p, a) ==
    /\ u \in [Passes -> Pass] /\ u[p].at = a
    /\ \A q \in Passes \ {p} : u[q] = t[q]

\* It has kept its mail, the claim and what the run came to.
Kept(t, u, p) == u[p].mail = t[p].mail /\ u[p].id = t[p].id /\ u[p].verdict = t[p].verdict

\* A pass that only changes its stage.
LEMMA PassStageUpdate ==
  ASSUME NEW t \in [Passes -> Pass], NEW p \in Passes, NEW a \in PassStages
  PROVE  LET u == [t EXCEPT ![p].at = a] IN PassMoved(t, u, p, a) /\ Kept(t, u, p)
  BY DEF Pass, PassMoved, Kept

\* A pass that changes its stage and its resets,
LEMMA ResetsUpdate ==
  ASSUME NEW t \in [Passes -> Pass], NEW p \in Passes, NEW a \in PassStages,
         NEW R \in SUBSET (Mails \X Nat)
  PROVE  LET u == [t EXCEPT ![p].at = a, ![p].resets = R] IN PassMoved(t, u, p, a)
  BY DEF Pass, PassMoved

\* what it listed,
LEMMA ListedUpdate ==
  ASSUME NEW t \in [Passes -> Pass], NEW p \in Passes, NEW a \in PassStages, NEW S \in SUBSET Mails
  PROVE  LET u == [t EXCEPT ![p].at = a, ![p].listed = S] IN PassMoved(t, u, p, a)
  BY DEF Pass, PassMoved

\* what it has to dispatch,
LEMMA TodoUpdate ==
  ASSUME NEW t \in [Passes -> Pass], NEW p \in Passes, NEW a \in PassStages, NEW S \in SUBSET Mails
  PROVE  LET u == [t EXCEPT ![p].at = a, ![p].todo = S] IN PassMoved(t, u, p, a)
  BY DEF Pass, PassMoved

\* whether its unit is broken;
LEMMA BrokenUpdate ==
  ASSUME NEW t \in [Passes -> Pass], NEW p \in Passes, NEW a \in PassStages, NEW b \in BOOLEAN
  PROVE  LET u == [t EXCEPT ![p].at = a, ![p].broken = b] IN PassMoved(t, u, p, a)
  BY DEF Pass, PassMoved

\* one that goes on to the next mail,
LEMMA NextMailUpdate ==
  ASSUME InboxTypeOK, NEW p \in Passes
  PROVE  PassMoved(pass, NextMail(p), p, "dispatch")
<1> DEFINE u == NextMail(p)
           r == [pass[p] EXCEPT !.at = "dispatch", !.mail = 0, !.id = 0, !.verdict = "none"]
<1>1. 0 \in 0..MailCount /\ 0 \in Nat /\ "none" \in Verdicts \cup {"none"}
  BY InboxSweepAssumption
<1>2. r \in Pass /\ r.at = "dispatch"
  BY <1>1, PassStageNames DEF InboxTypeOK, Pass
<1>3. u[p] = r /\ \A q \in Passes \ {p} : u[q] = pass[q]
  BY DEF InboxTypeOK, Pass, NextMail
<1>4. u = [q \in Passes |-> u[q]]
  BY DEF InboxTypeOK, NextMail
<1> HIDE DEF u, r
<1>5. PassMoved(pass, u, p, "dispatch")
  BY <1>2, <1>3, <1>4 DEF PassMoved, InboxTypeOK
<1> QED BY <1>5 DEF u

\* and one that is over.
LEMMA OverUpdate ==
  ASSUME InboxTypeOK, NEW p \in Passes
  PROVE  PassMoved(pass, [pass EXCEPT ![p] = NoPass], p, "idle")
  BY NoPassType DEF InboxTypeOK, PassMoved, NoPass

\* What a step makes of its pass: the stages in which a claim is held are reached by
\* three actions only.
ClaimHeld == {"running", "notify", "finalize"}

Steps(p, a) == pass[p].at # "idle" /\ a \in PassStages /\ PassMoved(pass, pass', p, a)

\* The head of the pass,
LEMMA HeadMoves ==
  ASSUME InboxTypeOK, NEW p \in Passes,
         \/ ResetStuck(p) \/ NamesRead(p) \/ AuditReset(p) \/ SweepFails(p) \/ LoadUnits(p)
  PROVE  \E a \in PassStages \ ClaimHeld : Steps(p, a)
<1> USE DEF Steps, ClaimHeld
<1>0. pass \in [Passes -> Pass]
  BY DEF InboxTypeOK
<1>1. CASE ResetStuck(p)
  <2> DEFINE a == IF Stuck = {} THEN "load" ELSE "names"
             R == {<<m, row[m].id>> : m \in Stuck}
  <2>1. a \in PassStages \ ClaimHeld /\ R \in SUBSET (Mails \X Nat)
    BY PassStageNames, HoldsType
  <2>2. pass' = [pass EXCEPT ![p].at = a, ![p].resets = R] /\ pass[p].at = "reset"
    BY <1>1 DEF ResetStuck
  <2> HIDE DEF a, R
  <2> QED BY <1>0, <2>1, <2>2, ResetsUpdate
<1>2. CASE NamesRead(p)
  BY <1>0, <1>2, PassStageNames, PassStageUpdate DEF NamesRead
<1>3. CASE AuditReset(p)
  <2>1. PICK r \in pass[p].resets :
          pass' = [pass EXCEPT ![p].resets = @ \ {r},
                               ![p].at = IF pass[p].resets = {r} THEN "load" ELSE "audit"]
    BY <1>3 DEF AuditReset
  <2> DEFINE a == IF pass[p].resets = {r} THEN "load" ELSE "audit"
             R == pass[p].resets \ {r}
  <2>2. a \in PassStages \ ClaimHeld /\ R \in SUBSET (Mails \X Nat)
    BY PassStageNames, HoldsType DEF Pass
  <2>3. pass' = [pass EXCEPT ![p].resets = R, ![p].at = a]
    BY <2>1
  <2>4. pass' = [pass EXCEPT ![p].at = a, ![p].resets = R]
    BY <1>0, <2>3 DEF Pass
  <2>5. pass[p].at = "audit"
    BY <1>3 DEF AuditReset
  <2> HIDE DEF a, R
  <2> QED BY <1>0, <2>2, <2>4, <2>5, ResetsUpdate
<1>4. CASE SweepFails(p)
  BY <1>4, OverUpdate, PassStageNames DEF SweepFails
<1>5. CASE LoadUnits(p)
  <2>1. CASE pass' = [pass EXCEPT ![p].at = "search"]
    BY <1>0, <1>5, <2>1, PassStageNames, PassStageUpdate DEF LoadUnits
  <2>2. CASE pass' = [pass EXCEPT ![p].at = "status", ![p].broken = TRUE]
    BY <1>0, <1>5, <2>2, PassStageNames, BrokenUpdate DEF LoadUnits
  <2> QED BY <1>5, <2>1, <2>2 DEF LoadUnits
<1> QED BY <1>1, <1>2, <1>3, <1>4, <1>5

\* the listing,
LEMMA ListingMoves ==
  ASSUME InboxTypeOK, NEW p \in Passes,
         \/ SearchMailbox(p) \/ SkipKnown(p) \/ Hydrate(p) \/ UnitFails(p)
  PROVE  \E a \in PassStages \ ClaimHeld : Steps(p, a)
<1> USE DEF Steps, ClaimHeld
<1>0. pass \in [Passes -> Pass]
  BY DEF InboxTypeOK
<1>1. CASE SearchMailbox(p)
  BY <1>0, <1>1, HoldsType, PassStageNames, ListedUpdate DEF SearchMailbox
<1>2. CASE SkipKnown(p)
  BY <1>0, <1>2, HoldsType, PassStageNames, TodoUpdate DEF SkipKnown
<1>3. CASE Hydrate(p)
  <2>1. PICK lost \in SUBSET pass[p].todo :
          \/ pass' = [pass EXCEPT ![p].at = "status", ![p].broken = TRUE]
          \/ pass' = [pass EXCEPT ![p].at = "dispatch", ![p].todo = (@ \ lost) \cap Wanted]
    BY <1>3 DEF Hydrate
  <2>2. (pass[p].todo \ lost) \cap Wanted \in SUBSET Mails
    BY InboxSweepAssumption DEF Mails
  <2>3. pass[p].at = "hydrate"
    BY <1>3 DEF Hydrate
  <2>4. CASE pass' = [pass EXCEPT ![p].at = "dispatch", ![p].todo = (@ \ lost) \cap Wanted]
    <3> DEFINE S == (pass[p].todo \ lost) \cap Wanted
    <3>1. pass' = [pass EXCEPT ![p].at = "dispatch", ![p].todo = S]
      BY <2>4, <1>0 DEF Pass
    <3> HIDE DEF S
    <3> QED BY <1>0, <2>2, <2>3, <3>1, PassStageNames, TodoUpdate DEF S
  <2>5. CASE pass' = [pass EXCEPT ![p].at = "status", ![p].broken = TRUE]
    BY <1>0, <2>3, <2>5, PassStageNames, BrokenUpdate
  <2> QED BY <2>1, <2>4, <2>5
<1>4. CASE UnitFails(p)
  BY <1>0, <1>4, PassStageNames, BrokenUpdate DEF UnitFails
<1> QED BY <1>1, <1>2, <1>3, <1>4

\* and the end of a mail or of the batch hold no claim afterwards.
LEMMA EndMoves ==
  ASSUME InboxTypeOK, NEW p \in Passes,
         RunDefers(p) \/ FinalizeEmail(p) \/ DeliveryFails(p) \/ BatchDone(p) \/ SetWorkflowStatus(p)
  PROVE  \E a \in PassStages \ ClaimHeld : Steps(p, a)
<1> USE DEF Steps, ClaimHeld
<1>0. pass \in [Passes -> Pass]
  BY DEF InboxTypeOK
<1>1. CASE RunDefers(p) \/ FinalizeEmail(p) \/ DeliveryFails(p)
  BY <1>1, NextMailUpdate, PassStageNames DEF RunDefers, FinalizeEmail, DeliveryFails
<1>2. CASE BatchDone(p)
  BY <1>0, <1>2, PassStageNames, PassStageUpdate DEF BatchDone
<1>3. CASE SetWorkflowStatus(p)
  BY <1>3, OverUpdate, PassStageNames DEF SetWorkflowStatus
<1> QED BY <1>1, <1>2, <1>3

\* What is known of a pass that works on a mail: it owns the mail's row, and a mail is
\* settled only after the notice was written.
Serves(p) ==
    /\ pass[p].at \in ClaimHeld => pass[p].mail \in Mails /\ OwnsRow(p)
    /\ pass[p].at \in {"notify", "finalize"} => pass[p].verdict \in Verdicts
    /\ pass[p].at = "finalize" => Notice(p) \in told

OnePass == \A p, q \in Passes : pass[p].at # "idle" /\ pass[q].at # "idle" => p = q

SweepInv ==
    /\ InboxTypeOK
    /\ OnePass
    /\ \A p \in Passes : Serves(p)
    /\ SettledWasTold

-----------------------------------------------------------------------------
(* The rest of the types. *)

\* What statements make of a row is a row.
LEMMA RowTypes ==
  /\ \A m \in Mails, r \in Row : r.id + 1 \in Nat
  /\ \A i \in Nat : [status |-> "processing", id |-> i, old |-> FALSE] \in Row
  /\ \A r \in Row : /\ [r EXCEPT !.old = TRUE] \in Row
                    /\ [r EXCEPT !.status = "none", !.old = FALSE] \in Row
  /\ \A r \in Row, v \in Verdicts : [r EXCEPT !.status = v] \in Row
<1> DEFINE S == {"none", "processing"} \cup Verdicts
<1>1. /\ \A r \in Row : r.id + 1 \in Nat
      /\ \A i \in Nat, a \in S, b \in BOOLEAN : [status |-> a, id |-> i, old |-> b] \in Row
  BY DEF Row
<1>2. ASSUME NEW r \in Row, NEW a \in S, NEW b \in BOOLEAN
      PROVE  /\ [r EXCEPT !.old = b] \in Row
             /\ [r EXCEPT !.status = a] \in Row
             /\ [r EXCEPT !.status = a, !.old = b] \in Row
  BY DEF Row
<1>3. "none" \in S /\ "processing" \in S /\ Verdicts \subseteq S /\ TRUE \in BOOLEAN /\ FALSE \in BOOLEAN
  OBVIOUS
<1> HIDE DEF S
<1> QED BY <1>1, <1>2, <1>3

\* A claim makes a row of the mail, or leaves the ledger as it is.
LEMMA ClaimMoves ==
  ASSUME InboxTypeOK, NEW p \in Passes, ClaimEmail(p)
  PROVE  \/ /\ row' = row
            /\ Steps(p, "dispatch")
         \/ \E m \in Mails :
              /\ row[m].status = "none"
              /\ row' = [row EXCEPT ![m] = [status |-> "processing", id |-> row[m].id + 1, old |-> FALSE]]
              /\ Steps(p, "running")
              /\ pass'[p].mail = m /\ pass'[p].id = row[m].id + 1
<1>0. pass \in [Passes -> Pass] /\ row \in [Mails -> Row] /\ pass[p].at = "dispatch"
  BY DEF InboxTypeOK, ClaimEmail
<1>1. PICK m \in pass[p].todo :
        \/ /\ row[m].status = "none"
           /\ row' = [row EXCEPT ![m] = [status |-> "processing", id |-> @.id + 1, old |-> FALSE]]
           /\ pass' = [pass EXCEPT ![p].at = "running", ![p].todo = @ \ {m},
                                   ![p].mail = m, ![p].id = row[m].id + 1]
        \/ pass' = [pass EXCEPT ![p].todo = @ \ {m}] /\ UNCHANGED row
  BY DEF ClaimEmail
<1>2. m \in Mails /\ m \in 0..MailCount /\ row[m].id + 1 \in Nat
  <2>1. pass[p].todo \subseteq Mails
    BY <1>0 DEF Pass
  <2>2. m \in Mails /\ row[m] \in Row
    BY <1>0, <2>1
  <2>3. m \in 0..MailCount
    BY <2>2, InboxSweepAssumption DEF Mails
  <2> QED BY <2>2, <2>3, RowTypes
<1> DEFINE S == pass[p].todo \ {m}
<1>3. S \in SUBSET Mails
  BY <1>0 DEF Pass
<1>4. CASE /\ row[m].status = "none"
           /\ row' = [row EXCEPT ![m] = [status |-> "processing", id |-> @.id + 1, old |-> FALSE]]
           /\ pass' = [pass EXCEPT ![p].at = "running", ![p].todo = @ \ {m},
                                   ![p].mail = m, ![p].id = row[m].id + 1]
  <2>1. PICK a \in PassStages, T \in SUBSET Mails, i \in Nat : a = "running" /\ T = S /\ i = row[m].id + 1
    BY <1>2, <1>3, PassStageNames
  <2>2. pass' = [pass EXCEPT ![p].at = a, ![p].todo = T, ![p].mail = m, ![p].id = i]
    BY <1>0, <1>4, <2>1 DEF Pass
  <2>3. PassMoved(pass, pass', p, a) /\ pass'[p].mail = m /\ pass'[p].id = i
    <3> DEFINE u == [pass EXCEPT ![p].at = a, ![p].todo = T, ![p].mail = m, ![p].id = i]
               r == [pass[p] EXCEPT !.at = a, !.todo = T, !.mail = m, !.id = i]
    <3>1. r \in Pass /\ r.at = a /\ r.mail = m /\ r.id = i
      BY <1>0, <1>2 DEF Pass
    <3>2. u[p] = r /\ \A q \in Passes \ {p} : u[q] = pass[q]
      BY <1>0, <1>2 DEF Pass
    <3>3. u = [q \in Passes |-> u[q]] /\ pass' = u
      BY <1>0, <2>2
    <3> HIDE DEF u, r
    <3>4. u \in [Passes -> Pass]
      BY <1>0, <3>1, <3>2, <3>3
    <3>5. PassMoved(pass, u, p, a) /\ u[p].mail = m /\ u[p].id = i
      BY <3>1, <3>2, <3>4 DEF PassMoved
    <3> QED BY <3>3, <3>5
  <2>4. PassMoved(pass, pass', p, "running") /\ pass'[p].mail = m /\ pass'[p].id = row[m].id + 1
    BY <2>1, <2>3
  <2> QED BY <1>0, <1>2, <1>4, <2>4, PassStageNames DEF Steps
<1>5. CASE pass' = [pass EXCEPT ![p].todo = @ \ {m}] /\ UNCHANGED row
  <2>1. pass' = [pass EXCEPT ![p].todo = S]
    BY <1>0, <1>5 DEF Pass
  <2> HIDE DEF S
  <2>2. PassMoved(pass, pass', p, "dispatch")
    BY <1>0, <1>3, <2>1 DEF PassMoved, Pass
  <2> QED BY <1>0, <1>5, <2>2, PassStageNames DEF Steps
<1> QED BY <1>1, <1>4, <1>5

\* A run that ends and a notice that is written keep the claim.
LEMMA WorkMoves ==
  ASSUME InboxTypeOK, NEW p \in Passes, RunEnds(p) \/ Notify(p)
  PROVE  \/ /\ RunEnds(p) /\ Steps(p, "notify") /\ pass'[p].verdict \in Verdicts
            /\ pass'[p].mail = pass[p].mail /\ pass'[p].id = pass[p].id
         \/ Notify(p) /\ Steps(p, "finalize") /\ Kept(pass, pass', p)
<1>0. pass \in [Passes -> Pass]
  BY DEF InboxTypeOK
<1>1. CASE RunEnds(p)
  <2>1. PICK v \in Verdicts : pass' = [pass EXCEPT ![p].at = "notify", ![p].verdict = v]
    BY <1>1 DEF RunEnds
  <2>2. PICK a \in PassStages : a = "notify"
    BY PassStageNames
  <2>3. pass' = [pass EXCEPT ![p].at = a, ![p].verdict = v]
    BY <2>1, <2>2
  <2>4. /\ PassMoved(pass, pass', p, a) /\ pass'[p].verdict = v
        /\ pass'[p].mail = pass[p].mail /\ pass'[p].id = pass[p].id
    BY <1>0, <2>3 DEF Pass, PassMoved
  <2> QED BY <1>1, <2>2, <2>4 DEF RunEnds, Steps
<1>2. CASE Notify(p)
  BY <1>0, <1>2, PassStageNames, PassStageUpdate DEF Notify, Steps
<1> QED BY <1>1, <1>2

\* The ledger keeps its type,
LEMMA RowType ==
  ASSUME InboxTypeOK, \A p \in Passes : Serves(p), SweepNext
  PROVE  row' \in [Mails -> Row]
<1> USE DEF InboxTypeOK
<1>1. CASE \E m \in Mails : ClaimAges(m)
  <2>1. PICK m \in Mails : row' = [row EXCEPT ![m] = [row[m] EXCEPT !.old = TRUE]]
    BY <1>1 DEF ClaimAges
  <2> QED BY <2>1, RowTypes
<1>2. ASSUME NEW p \in Passes, ResetStuck(p) PROVE row' \in [Mails -> Row]
  BY <1>2, RowTypes DEF ResetStuck
<1>3. ASSUME NEW p \in Passes, ClaimEmail(p) PROVE row' \in [Mails -> Row]
  <2>1. CASE row' = row
    BY <2>1
  <2>2. CASE \E m \in Mails :
               row' = [row EXCEPT ![m] = [status |-> "processing", id |-> row[m].id + 1, old |-> FALSE]]
    BY <2>2, RowTypes
  <2> QED BY <1>3, <2>1, <2>2, ClaimMoves
<1>4. ASSUME NEW p \in Passes, FinalizeEmail(p) \/ DeliveryFails(p) PROVE row' \in [Mails -> Row]
  <2>1. \/ row' = row
        \/ pass[p].at = "finalize" /\ row' = [row EXCEPT ![pass[p].mail].status = pass[p].verdict]
    BY <1>4 DEF FinalizeEmail, DeliveryFails
  <2>2. CASE pass[p].at = "finalize" /\ row' = [row EXCEPT ![pass[p].mail].status = pass[p].verdict]
    <3>1. pass[p].mail \in Mails /\ pass[p].verdict \in Verdicts
      BY <2>2 DEF Serves, ClaimHeld
    <3> QED BY <2>2, <3>1, RowTypes
  <2> QED BY <2>1, <2>2
<1>5. \/ \E m \in Mails : ClaimAges(m)
      \/ \E p \in Passes : ResetStuck(p) \/ ClaimEmail(p) \/ FinalizeEmail(p) \/ DeliveryFails(p)
      \/ row' = row
  BY DEF SweepNext, PassGoesOn, PassStumbles, MailArrives, SweepTick, SweepCrash, NamesRead, AuditReset,
         LoadUnits, SearchMailbox, SkipKnown, Hydrate, RunEnds, Notify, BatchDone, SetWorkflowStatus,
         SweepFails, UnitFails, RunDefers
<1> QED BY <1>1, <1>2, <1>3, <1>4, <1>5

\* All steps of a pass together.
LEMMA PassMoves ==
  ASSUME InboxTypeOK, NEW p \in Passes, PassGoesOn(p) \/ PassStumbles(p)
  PROVE  /\ \E a \in PassStages : Steps(p, a)
         /\ pass'[p].at \in ClaimHeld => ClaimEmail(p) \/ RunEnds(p) \/ Notify(p)
<1>1. CASE ClaimEmail(p) \/ RunEnds(p) \/ Notify(p)
  BY <1>1, ClaimMoves, WorkMoves, PassStageNames DEF Steps
<1>2. CASE ~(ClaimEmail(p) \/ RunEnds(p) \/ Notify(p))
  <2>1. PICK a \in PassStages \ ClaimHeld : Steps(p, a)
    BY <1>2, HeadMoves, ListingMoves, EndMoves DEF PassGoesOn, PassStumbles
  <2> QED BY <2>1 DEF Steps, PassMoved
<1> QED BY <1>1, <1>2

\* Outside a pass.
LEMMA PassesMoveIdly ==
  ASSUME InboxTypeOK, SweepTick \/ SweepCrash
  PROVE  /\ pass' \in [Passes -> Pass] /\ UNCHANGED <<row, told>>
         /\ \A p \in Passes : pass'[p].at \notin ClaimHeld
         /\ \A p, q \in Passes : pass'[p].at # "idle" /\ pass'[q].at # "idle" => p = q
<1>0. pass \in [Passes -> Pass]
  BY DEF InboxTypeOK
<1>1. NoPass.at = "idle" /\ [NoPass EXCEPT !.at = "reset"].at = "reset"
  BY DEF NoPass
<1>2. CASE SweepTick
  <2>1. \A p \in Passes : pass[p].at = "idle"
    BY <1>2 DEF SweepTick, IdlePasses
  <2>2. SomeIdle \in Passes
    BY <2>1, InboxSweepAssumption DEF SomeIdle, IdlePasses
  <2>3. pass' = [pass EXCEPT ![SomeIdle] = [NoPass EXCEPT !.at = "reset"]]
    BY <1>2 DEF SweepTick
  <2>4. \A p \in Passes : pass'[p] = IF p = SomeIdle THEN [NoPass EXCEPT !.at = "reset"] ELSE pass[p]
    BY <1>0, <2>2, <2>3
  <2>5. pass' \in [Passes -> Pass]
    BY <1>0, <2>2, <2>3, NoPassType
  <2>6. \A p \in Passes : pass'[p].at = IF p = SomeIdle THEN "reset" ELSE "idle"
    BY <1>1, <2>1, <2>4
  <2> QED BY <1>2, <2>5, <2>6 DEF SweepTick, ClaimHeld
<1>3. CASE SweepCrash
  <2>1. \A p \in Passes : pass'[p] = NoPass
    BY <1>3 DEF SweepCrash
  <2> QED BY <1>1, <1>3, <2>1, NoPassType DEF SweepCrash, ClaimHeld
<1> QED BY <1>2, <1>3

\* The passes keep their type,
LEMMA PassType ==
  ASSUME InboxTypeOK, SweepNext
  PROVE  pass' \in [Passes -> Pass]
<1>1. CASE \E p \in Passes : PassGoesOn(p) \/ PassStumbles(p)
  BY <1>1, PassMoves DEF Steps, PassMoved
<1>2. CASE MailArrives \/ \E m \in Mails : ClaimAges(m)
  BY <1>2 DEF MailArrives, ClaimAges, InboxTypeOK
<1> QED BY <1>1, <1>2, PassesMoveIdly DEF SweepNext

\* and so does all the rest.
LEMMA OtherTypes ==
  ASSUME InboxTypeOK, \A p \in Passes : Serves(p), SweepNext
  PROVE  /\ arrived' \in 0..MailCount /\ mishaps' \in 0..MaxMishaps
         /\ health' \in {"active", "error"}
         /\ told' \subseteq (Mails \X Nat \X {"success", "failure"})
         /\ trail' \subseteq (Mails \X Nat)
<1> USE InboxSweepAssumption DEF InboxTypeOK
<1>0. /\ arrived' = arrived \/ MailArrives
      /\ mishaps' = mishaps \/ \E kind \in {"crash", "mailbox", "database", "defer", "delivery"} : Mishap(kind)
  BY DEF SweepNext, PassGoesOn, PassStumbles, MailArrives, SweepTick, SweepCrash, ClaimAges, ResetStuck,
         NamesRead, AuditReset, LoadUnits, SearchMailbox, SkipKnown, Hydrate, ClaimEmail, RunEnds, Notify,
         FinalizeEmail, BatchDone, SetWorkflowStatus, SweepFails, UnitFails, RunDefers, DeliveryFails
<1>1. arrived' \in 0..MailCount
  BY <1>0 DEF MailArrives
<1>2. mishaps' \in 0..MaxMishaps
  BY <1>0 DEF Mishap
<1>3. health' \in {health, "active", "error"}
  BY DEF SweepNext, PassGoesOn, PassStumbles, MailArrives, SweepTick, SweepCrash, ClaimAges, ResetStuck,
         NamesRead, AuditReset, LoadUnits, SearchMailbox, SkipKnown, Hydrate, ClaimEmail, RunEnds, Notify,
         FinalizeEmail, BatchDone, SetWorkflowStatus, SweepFails, UnitFails, RunDefers, DeliveryFails
<1>4. told' = told \/ \E p \in Passes : pass[p].at = "notify" /\ told' = told \cup {Notice(p)}
  BY DEF SweepNext, PassGoesOn, PassStumbles, MailArrives, SweepTick, SweepCrash, ClaimAges, ResetStuck,
         NamesRead, AuditReset, LoadUnits, SearchMailbox, SkipKnown, Hydrate, ClaimEmail, RunEnds, Notify,
         FinalizeEmail, BatchDone, SetWorkflowStatus, SweepFails, UnitFails, RunDefers, DeliveryFails
<1>5. \A p \in Passes : pass[p].at = "notify" => Notice(p) \in Mails \X Nat \X {"success", "failure"}
  BY DEF Notice, Serves, ClaimHeld, Pass
<1>6. trail' = trail \/ \E p \in Passes : \E r \in pass[p].resets : trail' = trail \cup {r}
  BY DEF SweepNext, PassGoesOn, PassStumbles, MailArrives, SweepTick, SweepCrash, ClaimAges, ResetStuck,
         NamesRead, AuditReset, LoadUnits, SearchMailbox, SkipKnown, Hydrate, ClaimEmail, RunEnds, Notify,
         FinalizeEmail, BatchDone, SetWorkflowStatus, SweepFails, UnitFails, RunDefers, DeliveryFails
<1>7. \A p \in Passes : pass[p].resets \subseteq (Mails \X Nat)
  BY DEF Pass
<1> QED BY <1>1, <1>2, <1>3, <1>4, <1>5, <1>6, <1>7

-----------------------------------------------------------------------------
(* The invariant. *)

\* What a step of one pass does to the ledger and to the notices.
LEMMA LedgerMoves ==
  ASSUME InboxTypeOK, \A p \in Passes : Serves(p), NEW p \in Passes, PassGoesOn(p) \/ PassStumbles(p)
  PROVE  /\ told \subseteq told'
         /\ \A m \in Mails :
              \/ row'[m] = row[m]
              \/ /\ pass[p].at = "reset"
                 /\ row[m].status = "processing" /\ row'[m].status = "none" /\ row'[m].id = row[m].id
              \/ row[m].status = "none" /\ row'[m].status = "processing"
              \/ /\ pass[p].at = "finalize" /\ m = pass[p].mail /\ OwnsRow(p)
                 /\ row'[m].status = pass[p].verdict /\ row'[m].id = row[m].id
<1> USE DEF InboxTypeOK
<1>1. CASE ResetStuck(p)
  <2>1. \A m \in Mails : row'[m] = IF m \in Stuck THEN [row[m] EXCEPT !.status = "none", !.old = FALSE]
                                   ELSE row[m]
    BY <1>1 DEF ResetStuck
  <2>2. \A m \in Stuck : row[m].status = "processing" /\ row[m] \in Row
    BY DEF Stuck
  <2> QED BY <1>1, <2>1, <2>2 DEF ResetStuck, Row
<1>2. CASE ClaimEmail(p)
  <2>1. told' = told
    BY <1>2 DEF ClaimEmail
  <2>2. CASE \E m \in Mails :
               /\ row[m].status = "none"
               /\ row' = [row EXCEPT ![m] = [status |-> "processing", id |-> row[m].id + 1, old |-> FALSE]]
    BY <2>1, <2>2
  <2> QED BY <1>2, <2>1, <2>2, ClaimMoves
<1>3. CASE FinalizeEmail(p) \/ DeliveryFails(p)
  <2>1. /\ told \subseteq told'
        /\ \/ row' = row
           \/ /\ pass[p].at = "finalize" /\ OwnsRow(p)
              /\ row' = [row EXCEPT ![pass[p].mail].status = pass[p].verdict]
    BY <1>3 DEF FinalizeEmail, DeliveryFails
  <2>2. CASE /\ pass[p].at = "finalize" /\ OwnsRow(p)
             /\ row' = [row EXCEPT ![pass[p].mail].status = pass[p].verdict]
    <3>1. pass[p].mail \in Mails /\ row[pass[p].mail] \in Row
      BY <2>2 DEF Serves, ClaimHeld
    <3>2. \A m \in Mails : row'[m] = IF m = pass[p].mail THEN [row[m] EXCEPT !.status = pass[p].verdict]
                                     ELSE row[m]
      BY <2>2, <3>1
    <3> QED BY <2>1, <2>2, <3>1, <3>2 DEF Row
  <2> QED BY <2>1, <2>2
<1>4. \/ ResetStuck(p) \/ ClaimEmail(p) \/ FinalizeEmail(p) \/ DeliveryFails(p)
      \/ row' = row /\ told \subseteq told'
  BY DEF PassGoesOn, PassStumbles, NamesRead, AuditReset, LoadUnits, SearchMailbox, SkipKnown, Hydrate,
         RunEnds, Notify, BatchDone, SetWorkflowStatus, SweepFails, UnitFails, RunDefers
<1> QED BY <1>1, <1>2, <1>3, <1>4

\* One pass at a time, by the guard of the runner.
LEMMA OnePassKept ==
  ASSUME InboxTypeOK, OnePass, SweepNext
  PROVE  OnePass'
<1>1. ASSUME NEW p \in Passes, PassGoesOn(p) \/ PassStumbles(p) PROVE OnePass'
  <2>1. pass[p].at # "idle" /\ \A q \in Passes \ {p} : pass'[q] = pass[q]
    BY <1>1, PassMoves DEF Steps, PassMoved
  <2> QED BY <2>1 DEF OnePass
<1>2. CASE MailArrives \/ \E m \in Mails : ClaimAges(m)
  BY <1>2 DEF MailArrives, ClaimAges, OnePass
<1>3. CASE SweepTick \/ SweepCrash
  BY <1>3, PassesMoveIdly DEF OnePass
<1> QED BY <1>1, <1>2, <1>3 DEF SweepNext

\* A pass that holds a claim goes on holding it.
LEMMA ServesKept ==
  ASSUME SweepInv, SweepNext
  PROVE  \A p \in Passes : Serves(p)'
<1> USE DEF SweepInv
<1>1. ASSUME NEW p \in Passes, PassGoesOn(p) \/ PassStumbles(p), NEW q \in Passes PROVE Serves(q)'
  <2>1. pass[p].at # "idle" /\ pass' \in [Passes -> Pass]
        /\ \A o \in Passes \ {p} : pass'[o] = pass[o] /\ pass[o].at = "idle"
    BY <1>1, PassMoves DEF Steps, PassMoved, OnePass
  <2>2. CASE q # p
    BY <2>1, <2>2 DEF Serves, ClaimHeld
  <2>3. CASE q = p /\ pass'[p].at \notin ClaimHeld
    BY <2>3 DEF Serves, ClaimHeld
  <2>4. CASE q = p /\ ClaimEmail(p)
    <3>1. CASE row' = row /\ Steps(p, "dispatch")
      BY <2>4, <3>1 DEF Steps, PassMoved, Serves, ClaimHeld
    <3>2. ASSUME NEW m \in Mails,
                 row' = [row EXCEPT ![m] = [status |-> "processing", id |-> row[m].id + 1, old |-> FALSE]],
                 Steps(p, "running"), pass'[p].mail = m, pass'[p].id = row[m].id + 1
          PROVE  Serves(p)'
      <4>1. row'[m].status = "processing" /\ row'[m].id = row[m].id + 1 /\ pass'[p].at = "running"
        BY <3>2 DEF InboxTypeOK, Steps, PassMoved
      <4> QED BY <3>2, <4>1 DEF Serves, ClaimHeld, OwnsRow
    <3> QED BY <2>4, <3>1, <3>2, ClaimMoves
  <2>5. CASE q = p /\ RunEnds(p)
    <3>1. /\ pass'[p].at = "notify" /\ pass'[p].verdict \in Verdicts
          /\ pass'[p].mail = pass[p].mail /\ pass'[p].id = pass[p].id
          /\ pass[p].at = "running" /\ row' = row
      BY <2>5, WorkMoves DEF Steps, PassMoved, RunEnds, Notify
    <3> QED BY <2>5, <3>1 DEF Serves, ClaimHeld, OwnsRow
  <2>6. CASE q = p /\ Notify(p)
    <3>1. /\ pass'[p].at = "finalize" /\ Kept(pass, pass', p)
          /\ pass[p].at = "notify" /\ row' = row /\ told' = told \cup {Notice(p)}
      BY <2>6, WorkMoves DEF Steps, PassMoved, RunEnds, Notify
    <3>2. Notice(p)' = Notice(p)
      BY <3>1 DEF Kept, Notice
    <3> QED BY <2>6, <3>1, <3>2 DEF Serves, ClaimHeld, OwnsRow, Kept
  <2> QED BY <1>1, <2>2, <2>3, <2>4, <2>5, <2>6, PassMoves
<1>2. ASSUME NEW m \in Mails, ClaimAges(m), NEW q \in Passes PROVE Serves(q)'
  <2>1. pass' = pass /\ told' = told
        /\ \A n \in Mails : row'[n].status = row[n].status /\ row'[n].id = row[n].id
    BY <1>2 DEF ClaimAges, InboxTypeOK, Row
  <2> QED BY <2>1 DEF Serves, ClaimHeld, OwnsRow, Notice
<1>3. CASE MailArrives
  BY <1>3 DEF MailArrives, Serves, ClaimHeld, OwnsRow, Notice
<1>4. CASE SweepTick \/ SweepCrash
  BY <1>4, PassesMoveIdly DEF Serves, ClaimHeld
<1> QED BY <1>1, <1>2, <1>3, <1>4 DEF SweepNext

\* A settled mail was told, because the pass that settles it has told it.
LEMMA SettledKept ==
  ASSUME SweepInv, SweepNext
  PROVE  SettledWasTold'
<1> USE DEF SweepInv
<1> DEFINE Told(m, i, s) == <<m, i, IF s = "failed" THEN "failure" ELSE "success">>
<1>1. ASSUME NEW p \in Passes, PassGoesOn(p) \/ PassStumbles(p), NEW m \in Mails,
             row'[m].status \in Verdicts
      PROVE  Told(m, row'[m].id, row'[m].status) \in told'
  <2>1. told \subseteq told'
    BY <1>1, LedgerMoves
  <2>2. CASE row'[m] = row[m]
    BY <1>1, <2>1, <2>2 DEF SettledWasTold
  <2>3. CASE row'[m].status \in {"none", "processing"}
    BY <1>1, <2>3 DEF Verdicts
  <2>4. CASE /\ pass[p].at = "finalize" /\ m = pass[p].mail /\ OwnsRow(p)
             /\ row'[m].status = pass[p].verdict /\ row'[m].id = row[m].id
    BY <2>1, <2>4 DEF Serves, Notice, OwnsRow
  <2> QED BY <1>1, <2>2, <2>3, <2>4, LedgerMoves
<1>2. ASSUME NEW n \in Mails, ClaimAges(n) PROVE SettledWasTold'
  <2>1. told' = told
        /\ \A m \in Mails : row'[m].status = row[m].status /\ row'[m].id = row[m].id
    BY <1>2 DEF ClaimAges, InboxTypeOK, Row
  <2> QED BY <2>1 DEF SettledWasTold
<1>3. CASE MailArrives
  BY <1>3 DEF MailArrives, SettledWasTold
<1>4. CASE SweepTick \/ SweepCrash
  BY <1>4, PassesMoveIdly DEF SettledWasTold
<1>5. ASSUME NEW p \in Passes, PassGoesOn(p) \/ PassStumbles(p) PROVE SettledWasTold'
  BY <1>1, <1>5 DEF SettledWasTold
<1> QED BY <1>2, <1>3, <1>4, <1>5 DEF SweepNext

\* The invariant holds at the start,
LEMMA SweepInvInit ==
  ASSUME SweepInit
  PROVE  SweepInv
<1>1. [status |-> "none", id |-> 0, old |-> FALSE] \in Row
  BY DEF Row
<1>2. InboxTypeOK
  BY <1>1, NoPassType, InboxSweepAssumption DEF SweepInit, InboxTypeOK
<1>3. \A p \in Passes : pass[p].at = "idle"
  BY DEF SweepInit, NoPass
<1>4. SettledWasTold
  BY DEF SweepInit, SettledWasTold, Verdicts
<1> QED BY <1>2, <1>3, <1>4 DEF SweepInv, OnePass, Serves, ClaimHeld

\* every step keeps it,
LEMMA SweepInvStep ==
  ASSUME SweepInv, [SweepNext]_sweepVars
  PROVE  SweepInv'
<1>1. CASE SweepNext
  <2>1. InboxTypeOK'
    BY <1>1, RowType, PassType, OtherTypes DEF SweepInv, InboxTypeOK
  <2> QED BY <1>1, <2>1, OnePassKept, ServesKept, SettledKept DEF SweepInv
<1>2. CASE UNCHANGED sweepVars
  BY <1>2 DEF sweepVars, SweepInv, InboxTypeOK, OnePass, Serves, ClaimHeld, OwnsRow, Notice, SettledWasTold
<1> QED BY <1>1, <1>2

\* so it always holds.
LEMMA SweepInvAlways == SweepSpec => []SweepInv
  BY SweepInvInit, SweepInvStep, PTL DEF SweepSpec

-----------------------------------------------------------------------------
(* What follows. *)

\* Every variable keeps its type.
THEOREM SweepTypeCorrect == SweepSpec => []InboxTypeOK
<1>1. SweepInv => InboxTypeOK
  BY DEF SweepInv
<1> QED BY <1>1, SweepInvAlways, PTL

\* However long a run takes, its claim is not taken from it: the reset of stuck claims
\* runs in the pass that would have to be over first.
THEOREM ClaimsKept == SweepSpec => []LiveClaimKept
<1>1. SweepInv => LiveClaimKept
  BY DEF SweepInv, Serves, ClaimHeld, LiveClaimKept
<1> QED BY <1>1, SweepInvAlways, PTL

\* No mail is settled that nobody was told of.
THEOREM SettledTold == SweepSpec => []SettledWasTold
<1>1. SweepInv => SettledWasTold
  BY DEF SweepInv
<1> QED BY <1>1, SweepInvAlways, PTL

-----------------------------------------------------------------------------
(* The trail. *)

\* No statement of a pass fails and the process does not stop.
PassesFinish == {"crash", "database"} \cap Mishaps = {}

\* The claims a mail without a row has lost are in the trail, or a pass has them to
\* audit yet.
ResetsHeld ==
    \A m \in Mails : row[m].status = "none" =>
        \A i \in 1..row[m].id : <<m, i>> \in trail \/ \E p \in Passes : <<m, i>> \in pass[p].resets

\* A pass past its head has audited all its resets.
Audited(p) == pass[p].at \notin {"names", "audit"} => pass[p].resets = {}

TrailInv == SweepInv /\ RerunExplained /\ ResetsHeld /\ \A p \in Passes : Audited(p)

\* Past the head no pass gets a reset or writes to the trail.
LEMMA ResetsStay ==
  ASSUME InboxTypeOK, NEW p \in Passes,
         \/ LoadUnits(p) \/ SearchMailbox(p) \/ SkipKnown(p) \/ Hydrate(p) \/ UnitFails(p)
         \/ ClaimEmail(p) \/ RunEnds(p) \/ RunDefers(p) \/ Notify(p) \/ FinalizeEmail(p)
         \/ DeliveryFails(p) \/ BatchDone(p) \/ SetWorkflowStatus(p)
  PROVE  /\ pass[p].at \notin {"names", "audit"} /\ pass'[p].at \notin {"names", "audit"}
         /\ pass'[p].resets \in {pass[p].resets, {}}
         /\ trail' = trail
<1> USE DEF InboxTypeOK, Pass
<1>1. CASE LoadUnits(p)
  BY <1>1 DEF LoadUnits
<1>2. CASE SearchMailbox(p)
  BY <1>2 DEF SearchMailbox
<1>3. CASE SkipKnown(p)
  BY <1>3 DEF SkipKnown
<1>4. CASE Hydrate(p)
  BY <1>4 DEF Hydrate
<1>5. CASE UnitFails(p)
  <2>1. pass[p].at \in {"search", "skip", "dispatch"} /\ trail' = trail
    BY <1>5 DEF UnitFails
  <2>2. pass' = [pass EXCEPT ![p].at = "status", ![p].broken = TRUE]
    BY <1>5 DEF UnitFails
  <2>3. pass'[p].at = "status" /\ pass'[p].resets = pass[p].resets
    BY <2>2
  <2> QED BY <2>1, <2>3
<1>6. CASE ClaimEmail(p)
  <2>1. pass[p].at = "dispatch" /\ trail' = trail
    BY <1>6 DEF ClaimEmail
  <2>2. ASSUME NEW m \in pass[p].todo, NEW i \in Nat,
               pass' = [pass EXCEPT ![p].at = "running", ![p].todo = @ \ {m}, ![p].mail = m, ![p].id = i]
        PROVE  pass'[p].at = "running" /\ pass'[p].resets = pass[p].resets
    BY <2>2
  <2>3. ASSUME NEW m \in pass[p].todo, pass' = [pass EXCEPT ![p].todo = @ \ {m}]
        PROVE  pass'[p].at = pass[p].at /\ pass'[p].resets = pass[p].resets
    BY <2>3
  <2>4. \A m \in Mails : row[m].id + 1 \in Nat
    BY DEF Row
  <2>5. PICK m \in pass[p].todo :
          \/ pass' = [pass EXCEPT ![p].at = "running", ![p].todo = @ \ {m}, ![p].mail = m,
                                  ![p].id = row[m].id + 1]
          \/ pass' = [pass EXCEPT ![p].todo = @ \ {m}]
    BY <1>6 DEF ClaimEmail
  <2>6. row[m].id + 1 \in Nat
    BY <2>4
  <2> QED BY <2>1, <2>2, <2>3, <2>5, <2>6
<1>7. CASE RunEnds(p)
  BY <1>7 DEF RunEnds
<1>8. CASE RunDefers(p) \/ FinalizeEmail(p) \/ DeliveryFails(p)
  <2>1. pass' = NextMail(p) /\ trail' = trail /\ pass[p].at \in {"running", "notify", "finalize"}
    BY <1>8 DEF RunDefers, FinalizeEmail, DeliveryFails
  <2>2. pass'[p].at = "dispatch" /\ pass'[p].resets = pass[p].resets
    BY <2>1 DEF NextMail
  <2> QED BY <2>1, <2>2
<1>9. CASE Notify(p)
  BY <1>9 DEF Notify
<1>10. CASE BatchDone(p)
  BY <1>10 DEF BatchDone
<1>11. CASE SetWorkflowStatus(p)
  BY <1>11 DEF SetWorkflowStatus, NoPass
<1> QED BY <1>1, <1>2, <1>3, <1>4, <1>5, <1>6, <1>7, <1>8, <1>9, <1>10, <1>11

\* While one pass runs, no other has anything to audit.
LEMMA NothingElseHeld ==
  ASSUME TrailInv, NEW p \in Passes, pass[p].at # "idle"
  PROVE  \A q \in Passes \ {p} : pass[q].resets = {}
<1>1. \A q \in Passes \ {p} : pass[q].at = "idle"
  BY DEF TrailInv, SweepInv, OnePass
<1> QED BY <1>1 DEF TrailInv, Audited

\* The parts of the invariant that speak of the trail, over one step: where the rows say
\* the same, nothing is taken from what is audited or to be audited.
LEMMA TrailFrame ==
  ASSUME TrailInv,
         \A m \in Mails : \/ row'[m] = row[m]
                          \/ /\ row[m].status # "none" /\ row'[m].status # "none"
                             /\ row'[m].id = row[m].id,
         trail \subseteq trail',
         \A p \in Passes : pass[p].resets \subseteq pass'[p].resets \cup trail'
  PROVE  RerunExplained' /\ ResetsHeld'
<1>1. ASSUME NEW m \in Mails, row'[m].status # "none", NEW i \in 1..(row'[m].id - 1)
      PROVE  <<m, i>> \in trail'
  <2>1. row[m].status # "none" /\ row[m].id = row'[m].id
    BY <1>1
  <2> QED BY <1>1, <2>1 DEF TrailInv, RerunExplained
<1>2. ASSUME NEW m \in Mails, row'[m].status = "none", NEW i \in 1..row'[m].id
      PROVE  <<m, i>> \in trail' \/ \E p \in Passes : <<m, i>> \in pass'[p].resets
  <2>1. row[m].status = "none" /\ row[m].id = row'[m].id
    BY <1>2
  <2>2. <<m, i>> \in trail \/ \E p \in Passes : <<m, i>> \in pass[p].resets
    BY <1>2, <2>1 DEF TrailInv, ResetsHeld
  <2> QED BY <2>2
<1> QED BY <1>1, <1>2 DEF RerunExplained, ResetsHeld

\* The reset of the stuck claims,
LEMMA ResetKeepsTrail ==
  ASSUME TrailInv, NEW p \in Passes, ResetStuck(p)
  PROVE  RerunExplained' /\ ResetsHeld' /\ \A q \in Passes : Audited(q)'
<1> USE DEF TrailInv, SweepInv, InboxTypeOK
<1> DEFINE R == {<<m, row[m].id>> : m \in Stuck}
<1>1. \A q \in Passes : pass[q].resets = {}
  BY NothingElseHeld DEF ResetStuck, Audited
<1>2. /\ pass' = [pass EXCEPT ![p].at = IF Stuck = {} THEN "load" ELSE "names", ![p].resets = R]
      /\ trail' = trail
  BY DEF ResetStuck
<1>3. /\ pass'[p].resets = R /\ pass'[p].at = IF Stuck = {} THEN "load" ELSE "names"
      /\ \A q \in Passes \ {p} : pass'[q] = pass[q]
  <2> HIDE DEF R
  <2> QED BY <1>2 DEF Pass
<1>4. Stuck = {} => R = {}
  OBVIOUS
<1>5. \A m \in Mails : row'[m] = IF m \in Stuck THEN [row[m] EXCEPT !.status = "none", !.old = FALSE]
                                 ELSE row[m]
  BY DEF ResetStuck
<1>6. \A m \in Stuck : /\ m \in Mails /\ row[m].status = "processing" /\ row[m].id \in Nat
                       /\ row'[m].status = "none" /\ row'[m].id = row[m].id
  BY <1>5 DEF Stuck, Row
<1>7. ASSUME NEW m \in Mails, row'[m].status # "none" PROVE row'[m] = row[m]
  BY <1>5, <1>6, <1>7
<1>8. RerunExplained'
  BY <1>2, <1>7 DEF RerunExplained
<1>9. ASSUME NEW m \in Mails, row'[m].status = "none", NEW i \in 1..row'[m].id
      PROVE  <<m, i>> \in trail' \/ \E q \in Passes : <<m, i>> \in pass'[q].resets
  <2>1. CASE m \in Stuck /\ i = row[m].id
    <3>1. <<m, i>> \in R
      BY <2>1
    <3> QED BY <1>3, <3>1
  <2>2. CASE m \in Stuck /\ i # row[m].id
    <3>1. i \in 1..(row[m].id - 1) /\ row[m].status # "none"
      BY <1>6, <1>9, <2>2
    <3> QED BY <1>2, <3>1 DEF RerunExplained
  <2>3. CASE m \notin Stuck
    <3>1. row'[m] = row[m]
      BY <1>5, <2>3
    <3>2. \A q \in Passes : <<m, i>> \notin pass[q].resets
      BY <1>1
    <3> QED BY <1>2, <1>9, <3>1, <3>2 DEF ResetsHeld
  <2> QED BY <2>1, <2>2, <2>3
<1>10. \A q \in Passes : Audited(q)'
  <2>1. Audited(p)'
    BY <1>3, <1>4 DEF Audited
  <2>2. \A q \in Passes \ {p} : Audited(q)'
    BY <1>1, <1>3 DEF Audited
  <2> QED BY <2>1, <2>2
<1>11. ResetsHeld'
  BY <1>9 DEF ResetsHeld
<1> QED BY <1>8, <1>10, <1>11

\* the rest of the head,
LEMMA AuditKeepsTrail ==
  ASSUME TrailInv, NEW p \in Passes, NamesRead(p) \/ AuditReset(p)
  PROVE  RerunExplained' /\ ResetsHeld' /\ \A q \in Passes : Audited(q)'
<1> USE DEF TrailInv, SweepInv, InboxTypeOK
<1>1. CASE NamesRead(p)
  <2>1. /\ pass'[p].resets = pass[p].resets /\ pass'[p].at = "audit"
        /\ \A q \in Passes \ {p} : pass'[q] = pass[q]
        /\ row' = row /\ trail' = trail
    BY <1>1 DEF NamesRead, Pass
  <2>2. RerunExplained' /\ ResetsHeld'
    BY <2>1, TrailFrame
  <2> QED BY <2>1, <2>2 DEF Audited
<1>2. CASE AuditReset(p)
  <2>1. PICK r \in pass[p].resets :
          /\ trail' = trail \cup {r}
          /\ pass' = [pass EXCEPT ![p].resets = @ \ {r},
                                  ![p].at = IF pass[p].resets = {r} THEN "load" ELSE "audit"]
    BY <1>2 DEF AuditReset
  <2>2. /\ pass'[p].resets = pass[p].resets \ {r}
        /\ pass'[p].at = IF pass[p].resets = {r} THEN "load" ELSE "audit"
        /\ \A q \in Passes \ {p} : pass'[q] = pass[q]
    <3> DEFINE a == IF pass[p].resets = {r} THEN "load" ELSE "audit"
               R == pass[p].resets \ {r}
    <3>1. pass' = [pass EXCEPT ![p].resets = R, ![p].at = a]
      BY <2>1
    <3> HIDE DEF a, R
    <3>2. pass'[p].resets = R /\ pass'[p].at = a /\ \A q \in Passes \ {p} : pass'[q] = pass[q]
      BY <3>1 DEF Pass
    <3> QED BY <3>2 DEF a, R
  <2>3. \A q \in Passes : pass[q].resets \subseteq pass'[q].resets \cup trail'
    BY <2>1, <2>2
  <2>4. RerunExplained' /\ ResetsHeld'
    BY <1>2, <2>1, <2>3, TrailFrame DEF AuditReset
  <2>5. Audited(p)'
    BY <2>2 DEF Audited
  <2> QED BY <2>2, <2>4, <2>5 DEF Audited
<1> QED BY <1>1, <1>2

\* the claim of a mail, which every loss of it has been audited for,
LEMMA ClaimKeepsTrail ==
  ASSUME TrailInv, NEW p \in Passes, ClaimEmail(p)
  PROVE  RerunExplained' /\ ResetsHeld'
<1> USE DEF TrailInv, SweepInv, InboxTypeOK
<1>1. pass[p].at = "dispatch" /\ trail' = trail
  BY DEF ClaimEmail
<1>2. \A q \in Passes : pass[q].resets = {}
  BY <1>1, NothingElseHeld DEF Audited
<1>3. CASE row' = row
  BY <1>1, <1>2, <1>3, TrailFrame
<1>4. ASSUME NEW m \in Mails, row[m].status = "none",
             row' = [row EXCEPT ![m] = [status |-> "processing", id |-> row[m].id + 1, old |-> FALSE]]
      PROVE  RerunExplained' /\ ResetsHeld'
  <2>1. /\ row'[m].status = "processing" /\ row'[m].id = row[m].id + 1
        /\ \A n \in Mails \ {m} : row'[n] = row[n]
        /\ row[m].id \in Nat
    BY <1>4 DEF Row
  <2>2. \A n \in Mails : row[n].status = "none" => \A i \in 1..row[n].id : <<n, i>> \in trail
    BY <1>2 DEF ResetsHeld
  <2>3. \A i \in 1..(row'[m].id - 1) : <<m, i>> \in trail'
    BY <1>1, <1>4, <2>1, <2>2
  <2>4. RerunExplained'
    BY <1>1, <2>1, <2>3 DEF RerunExplained
  <2>5. ResetsHeld'
    BY <1>1, <2>1, <2>2 DEF ResetsHeld
  <2> QED BY <2>4, <2>5
<1> QED BY <1>3, <1>4, ClaimMoves

\* and every other step of a pass.
LEMMA PassKeepsTrail ==
  ASSUME TrailInv, PassesFinish, NEW p \in Passes, PassGoesOn(p) \/ PassStumbles(p)
  PROVE  RerunExplained' /\ ResetsHeld' /\ \A q \in Passes : Audited(q)'
<1> USE DEF TrailInv, SweepInv
<1>1. CASE ResetStuck(p) \/ NamesRead(p) \/ AuditReset(p)
  BY <1>1, ResetKeepsTrail, AuditKeepsTrail
<1>2. CASE SweepFails(p)
  BY <1>2 DEF SweepFails, Mishap, PassesFinish
<1>3. CASE /\ ~(ResetStuck(p) \/ NamesRead(p) \/ AuditReset(p))
           /\ ~SweepFails(p)
  <2>1. /\ pass[p].at \notin {"names", "audit"} /\ pass'[p].at \notin {"names", "audit"}
        /\ pass'[p].resets \in {pass[p].resets, {}}
        /\ trail' = trail
    BY <1>3, ResetsStay DEF PassGoesOn, PassStumbles
  <2>2. \A q \in Passes \ {p} : pass'[q] = pass[q]
    BY PassMoves DEF Steps, PassMoved
  <2>3. pass[p].resets = {} /\ pass'[p].resets = {}
    BY <2>1 DEF Audited
  <2>4. \A q \in Passes : Audited(q)'
    BY <2>2, <2>3 DEF Audited
  <2>5. CASE ClaimEmail(p)
    BY <2>4, <2>5, ClaimKeepsTrail
  <2>6. CASE ~ClaimEmail(p)
    <3>1. \A m \in Mails : \/ row'[m] = row[m]
                           \/ /\ pass[p].at = "finalize" /\ m = pass[p].mail /\ OwnsRow(p)
                              /\ row'[m].status = pass[p].verdict /\ row'[m].id = row[m].id
      <4>1. CASE FinalizeEmail(p) \/ DeliveryFails(p)
        <5>1. pass[p].at # "reset"
          BY <4>1 DEF FinalizeEmail, DeliveryFails
        <5>2. \A m \in Mails : \/ row'[m] = row[m]
                               \/ pass[p].at = "finalize"
          BY <4>1 DEF FinalizeEmail, DeliveryFails
        <5>3. CASE pass[p].at = "finalize"
          <6>1. OwnsRow(p)
            BY <5>3 DEF Serves, ClaimHeld
          <6>2. row' = row \/ row' = [row EXCEPT ![pass[p].mail].status = pass[p].verdict]
            BY <4>1 DEF FinalizeEmail, DeliveryFails
          <6> QED BY <5>3, <6>1, <6>2 DEF InboxTypeOK, Row
        <5> QED BY <5>2, <5>3
      <4>2. CASE ~(FinalizeEmail(p) \/ DeliveryFails(p))
        <5>1. row' = row
          BY <1>3, <2>6, <4>2 DEF PassGoesOn, PassStumbles, LoadUnits, SearchMailbox, SkipKnown, Hydrate,
                 UnitFails, RunEnds, RunDefers, Notify, BatchDone, SetWorkflowStatus
        <5> QED BY <5>1
      <4> QED BY <4>1, <4>2
    <3>2. pass[p].at = "finalize" => pass[p].verdict \in Verdicts
      BY DEF Serves, ClaimHeld
    <3>3. \A m \in Mails : \/ row'[m] = row[m]
                           \/ /\ row[m].status # "none" /\ row'[m].status # "none"
                              /\ row'[m].id = row[m].id
      BY <3>1, <3>2 DEF OwnsRow, Verdicts
    <3>4. \A q \in Passes : pass[q].resets \subseteq pass'[q].resets \cup trail'
      BY <2>2, <2>3
    <3>5. RerunExplained' /\ ResetsHeld'
      BY <2>1, <3>3, <3>4, TrailFrame
    <3> QED BY <2>4, <3>5
  <2> QED BY <2>5, <2>6
<1> QED BY <1>1, <1>2, <1>3

\* The invariant holds at the start,
LEMMA TrailInit ==
  ASSUME SweepInit
  PROVE  TrailInv
<1>1. \A m \in Mails : row[m].status = "none" /\ row[m].id = 0
  BY DEF SweepInit
<1>2. \A p \in Passes : pass[p].resets = {}
  BY DEF SweepInit, NoPass
<1>3. RerunExplained /\ ResetsHeld
  BY <1>1 DEF RerunExplained, ResetsHeld
<1> QED BY <1>2, <1>3, SweepInvInit DEF TrailInv, Audited

\* and every step keeps it.
LEMMA TrailStep ==
  ASSUME TrailInv, PassesFinish, [SweepNext]_sweepVars
  PROVE  TrailInv'
<1>0. SweepInv'
  BY SweepInvStep DEF TrailInv
<1>1. CASE \E p \in Passes : PassGoesOn(p) \/ PassStumbles(p)
  BY <1>0, <1>1, PassKeepsTrail DEF TrailInv
<1>2. CASE SweepCrash
  BY <1>2 DEF SweepCrash, Mishap, PassesFinish
<1>3. CASE SweepTick
  <2>1. \A p \in Passes : pass[p].at = "idle" /\ pass[p].resets = {}
    BY <1>3 DEF SweepTick, IdlePasses, TrailInv, Audited
  <2>2. \A p \in Passes : pass'[p].resets = {}
    <3>1. SomeIdle \in Passes
      BY <2>1, InboxSweepAssumption DEF SomeIdle, IdlePasses
    <3>2. [NoPass EXCEPT !.at = "reset"].resets = {}
      BY DEF NoPass
    <3> QED BY <1>3, <2>1, <3>1, <3>2 DEF SweepTick, TrailInv, SweepInv, InboxTypeOK
  <2>3. row' = row /\ trail' = trail
    BY <1>3 DEF SweepTick
  <2>4. RerunExplained' /\ ResetsHeld'
    BY <2>1, <2>2, <2>3, TrailFrame
  <2> QED BY <1>0, <2>2, <2>4 DEF TrailInv, Audited
<1>4. ASSUME NEW m \in Mails, ClaimAges(m) PROVE TrailInv'
  <2>1. pass' = pass /\ trail' = trail
    BY <1>4 DEF ClaimAges
  <2>2. \A n \in Mails : \/ row'[n] = row[n]
                         \/ /\ row[n].status # "none" /\ row'[n].status # "none"
                            /\ row'[n].id = row[n].id
    BY <1>4 DEF ClaimAges, TrailInv, SweepInv, InboxTypeOK, Row
  <2>3. RerunExplained' /\ ResetsHeld'
    BY <2>1, <2>2, TrailFrame
  <2> QED BY <1>0, <2>1, <2>3 DEF TrailInv, Audited
<1>5. CASE MailArrives \/ UNCHANGED sweepVars
  <2>1. row' = row /\ pass' = pass /\ trail' = trail
    BY <1>5 DEF MailArrives, sweepVars
  <2>2. RerunExplained' /\ ResetsHeld'
    BY <2>1, TrailFrame
  <2> QED BY <1>0, <2>1, <2>2 DEF TrailInv, Audited
<1> QED BY <1>1, <1>2, <1>3, <1>4, <1>5 DEF SweepNext

\* While the process does not stop and no statement of a pass fails, the trail tells of
\* every claim that a mail lost before it was claimed again, whatever the mailbox, the
\* runtime and the delivery of a notification do.  The run inbox_trail shows what one
\* failing read between the delete and the first audit row makes of it.
THEOREM RerunsTold ==
  ASSUME PassesFinish
  PROVE  SweepSpec => []RerunExplained
<1>1. TrailInv => RerunExplained
  BY DEF TrailInv
<1> QED BY <1>1, TrailInit, TrailStep, PTL DEF SweepSpec

-----------------------------------------------------------------------------
(* The ledger. *)

\* An open row is read as open, a claim as claimed, a verdict as itself.
LEMMA ReadingValues ==
  /\ \A r \in Row : r.status = "none" <=> Reading(r) = "open"
  /\ \A r \in Row : r.status = "processing" <=> Reading(r) = "claimed"
  /\ \A r \in Row, v \in Verdicts : r.status = v => Reading(r) = v
  BY DEF Row, Reading, Verdicts

\* Every step is one of the ledger, or does not touch it.
LEMMA LedgerStep ==
  ASSUME SweepInv, SweepNext
  PROVE  Ledger!Next \/ LedgerState' = LedgerState
<1> USE DEF SweepInv, InboxTypeOK
<1>0. row' \in [Mails -> Row]
  BY RowType
<1>1. CASE \E m \in Mails : ClaimAges(m)
  <2>1. \A m \in Mails : row'[m].status = row[m].status
    BY <1>1 DEF ClaimAges, Row
  <2> QED BY <2>1 DEF LedgerState, Reading
<1>2. ASSUME NEW p \in Passes, ResetStuck(p) PROVE Ledger!Next
  <2>1. \A m \in Mails : row'[m] = IF m \in Stuck THEN [row[m] EXCEPT !.status = "none", !.old = FALSE]
                                   ELSE row[m]
    BY <1>2 DEF ResetStuck
  <2>2. \A m \in Stuck : row[m].status = "processing" /\ row'[m].status = "none" /\ m \in Mails
    BY <2>1 DEF Stuck, Row
  <2>3. \A m \in Mails : LedgerState'[m] = IF m \in Stuck THEN "open" ELSE LedgerState[m]
    BY <1>0, <2>1, <2>2, ReadingValues DEF LedgerState
  <2>4. \A m \in Stuck : LedgerState[m] = "claimed"
    BY <2>2, ReadingValues DEF LedgerState
  <2>5. LedgerState' = [m \in Mails |-> IF m \in Stuck THEN "open" ELSE LedgerState[m]]
    BY <2>3 DEF LedgerState
  <2>6. Stuck \in SUBSET Mails
    BY <2>2
  <2> QED BY <2>4, <2>5, <2>6 DEF Ledger!Next, Ledger!Release
<1>3. ASSUME NEW p \in Passes, ClaimEmail(p) PROVE Ledger!Next \/ LedgerState' = LedgerState
  <2>1. ASSUME NEW m \in Mails, row[m].status = "none",
               row' = [row EXCEPT ![m] = [status |-> "processing", id |-> row[m].id + 1, old |-> FALSE]]
        PROVE  Ledger!Claim(m)
    BY <1>0, <2>1, ReadingValues DEF Ledger!Claim, LedgerState
  <2> QED BY <1>3, <2>1, ClaimMoves DEF Ledger!Next, LedgerState
<1>4. ASSUME NEW p \in Passes, FinalizeEmail(p) \/ DeliveryFails(p)
      PROVE  Ledger!Next \/ LedgerState' = LedgerState
  <2>1. CASE row' = row
    BY <2>1 DEF LedgerState
  <2>2. CASE /\ pass[p].at = "finalize" /\ OwnsRow(p)
             /\ row' = [row EXCEPT ![pass[p].mail].status = pass[p].verdict]
    <3>1. /\ pass[p].mail \in Mails /\ pass[p].verdict \in Verdicts
          /\ row[pass[p].mail].status = "processing"
      BY <2>2 DEF Serves, ClaimHeld, OwnsRow
    <3>2. row'[pass[p].mail].status = pass[p].verdict
          /\ \A m \in Mails \ {pass[p].mail} : row'[m] = row[m]
      BY <2>2, <3>1 DEF Row
    <3>3. Ledger!Settle(pass[p].mail, pass[p].verdict)
      BY <1>0, <3>1, <3>2, ReadingValues DEF Ledger!Settle, LedgerState
    <3> QED BY <3>1, <3>3 DEF Ledger!Next
  <2> QED BY <1>4, <2>1, <2>2 DEF FinalizeEmail, DeliveryFails
<1>5. \/ \E m \in Mails : ClaimAges(m)
      \/ \E p \in Passes : ResetStuck(p) \/ ClaimEmail(p) \/ FinalizeEmail(p) \/ DeliveryFails(p)
      \/ row' = row
  BY DEF SweepNext, PassGoesOn, PassStumbles, MailArrives, SweepTick, SweepCrash, NamesRead, AuditReset,
         LoadUnits, SearchMailbox, SkipKnown, Hydrate, RunEnds, Notify, BatchDone, SetWorkflowStatus,
         SweepFails, UnitFails, RunDefers
<1> QED BY <1>1, <1>2, <1>3, <1>4, <1>5 DEF LedgerState

\* The sweep implements the ledger: a settled mail stays settled as it was, and a claim is
\* only made where none is.
THEOREM SweepFollowsLedger == SweepSpec => FollowsLedger
<1>1. SweepInit => Ledger!Init
  BY DEF SweepInit, Ledger!Init, LedgerState, Reading
<1>2. SweepInv /\ [SweepNext]_sweepVars => [Ledger!Next]_LedgerState
  BY LedgerStep DEF sweepVars, LedgerState
<1> QED BY <1>1, <1>2, SweepInvAlways, PTL DEF SweepSpec, FollowsLedger, Ledger!Spec

-----------------------------------------------------------------------------
(* The index queue. *)

Calls == [at: {"idle", "insert", "lookup", "queued", "busy", "thrown", "error"},
          attempt: 1..2, since: Nat]

TickStages == {"idle", "requeue", "select", "claim", "ingest", "finish"}

Tick == [at: TickStages, job: Requests \cup {NoRequest}, processed: 0..Documents,
         outcome: {"none", "succeeded", "failed"}]

Job == [status: Statuses, processed: 0..Documents]

\* A tick has come to stage a; the others are where they were.
TickMoved(u, t, a) ==
    /\ u \in [Ticks -> Tick] /\ u[t].at = a
    /\ \A s \in Ticks \ {t} : u[s] = tick[s]

\* What a tick with a job knows of it, and that no other tick is under way.
Works(t) ==
    /\ tick[t].at \in {"claim", "ingest", "finish"} => tick[t].job \in Requests
    /\ tick[t].at = "finish" => tick[t].outcome \in {"succeeded", "failed"}
    /\ tick[t].at \in {"idle", "requeue", "select", "claim"} => tick[t].processed = 0

\* A row nobody works on shows no progress.
Blank == \A r \in Requests : job[r].status \in {"none", "pending"} => job[r].processed = 0

OneTick == \A s, t \in Ticks : tick[s].at # "idle" /\ tick[t].at # "idle" => s = t

\* A request that has not inserted yet has no row.
NoRowYet == \A r \in Requests : call[r].at \in {"idle", "insert", "lookup"} => job[r].status = "none"

\* While a call looks for the job that blocked it, that job is there or has ended; and
\* every attempt before the last was lost to a job that ended meanwhile.
Turnover(r) ==
    /\ call[r].at = "idle" => call[r].attempt = 1
    /\ call[r].at \in {"insert", "lookup"} => EndedCount >= call[r].since + call[r].attempt - 1
    /\ call[r].at = "lookup" =>
         (\E s \in Requests : Active(s)) \/ EndedCount >= call[r].since + call[r].attempt

IndexInv ==
    /\ IndexTypeOK
    /\ OneTick
    /\ \A t \in Ticks : Works(t)
    /\ Blank
    /\ LiveRunShown
    /\ NoRowYet
    /\ \A r \in Requests : Turnover(r)
    /\ ThrowNeedsTurnover

-----------------------------------------------------------------------------
(* Types. *)

\* The types by the names used here.
LEMMA TypesNamed ==
  IndexTypeOK <=>
    /\ job \in [Requests -> Job] /\ call \in [Requests -> Calls] /\ tick \in [Ticks -> Tick]
    /\ orphansRequeued \in BOOLEAN /\ outage \in BOOLEAN
    /\ restarts \in 0..MaxRestarts /\ refused \in 0..MaxRefused
  BY DEF IndexTypeOK, Job, Calls, Tick, TickStages

\* Where a tick may be.
LEMMA TickStageNames ==
  /\ "idle" \in TickStages /\ "requeue" \in TickStages /\ "select" \in TickStages
  /\ "claim" \in TickStages /\ "ingest" \in TickStages /\ "finish" \in TickStages
  BY DEF TickStages

\* A tick that is over, or looks for more work.
LEMMA IdleTickType ==
  /\ IdleTick \in Tick /\ IdleTick.at = "idle" /\ IdleTick.processed = 0
  /\ LET k == [IdleTick EXCEPT !.at = "select"]
     IN  k \in Tick /\ k.at = "select" /\ k.processed = 0
<1>1. 0 \in 0..Documents /\ NoRequest \in Requests \cup {NoRequest}
  BY IndexJobsAssumption
<1>2. IdleTick \in Tick /\ IdleTick.at = "idle" /\ IdleTick.processed = 0
  BY <1>1, TickStageNames DEF IdleTick, Tick
<1>3. \A k \in Tick, a \in TickStages : [k EXCEPT !.at = a] \in Tick /\ [k EXCEPT !.at = a].at = a
        /\ [k EXCEPT !.at = a].processed = k.processed
  BY DEF Tick
<1> QED BY <1>2, <1>3, TickStageNames

\* What statements make of a row is a row.
LEMMA JobUpdate ==
  ASSUME NEW j \in Job
  PROVE  /\ \A s \in Statuses : /\ [j EXCEPT !.status = s] \in Job
                                /\ [j EXCEPT !.status = s].status = s
                                /\ [j EXCEPT !.status = s].processed = j.processed
         /\ \A n \in 0..Documents : /\ [j EXCEPT !.processed = n] \in Job
                                    /\ [j EXCEPT !.processed = n].status = j.status
                                    /\ [j EXCEPT !.processed = n].processed = n
  BY DEF Job

\* The names of the statuses.
LEMMA StatusNames ==
  /\ "none" \in Statuses /\ "pending" \in Statuses /\ "running" \in Statuses
  /\ "succeeded" \in Statuses /\ "failed" \in Statuses
  BY DEF Statuses

\* A tick that only changes its stage, or takes a job, a document or an outcome with it.
LEMMA TickUpdate ==
  ASSUME tick \in [Ticks -> Tick], NEW t \in Ticks, NEW a \in TickStages
  PROVE  /\ LET u == [tick EXCEPT ![t].at = a]
            IN  TickMoved(u, t, a) /\ u[t].job = tick[t].job /\ u[t].outcome = tick[t].outcome
                /\ u[t].processed = tick[t].processed
         /\ LET u == [tick EXCEPT ![t] = IdleTick] IN TickMoved(u, t, "idle") /\ u[t].processed = 0
         /\ LET u == [tick EXCEPT ![t] = [IdleTick EXCEPT !.at = "select"]]
            IN  TickMoved(u, t, "select") /\ u[t].processed = 0
  BY IdleTickType DEF Tick, TickMoved

\* Where the step of a tick leads.
LEMMA TickMoves ==
  ASSUME IndexTypeOK, \A t \in Ticks : Works(t), NEW t \in Ticks, WorkerStep(t) \/ TickFails(t)
  PROVE  /\ tick[t].at # "idle"
         /\ \E a \in TickStages : TickMoved(tick', t, a)
         /\ tick'[t].at = "claim" => SelectPending(t) /\ tick'[t].job \in Requests
         /\ tick'[t].at \in {"ingest", "finish"} =>
              /\ ClaimJob(t) \/ IngestDocument(t) \/ IngestEnds(t)
              /\ tick'[t].job = tick[t].job
         /\ tick'[t].at = "finish" => tick'[t].outcome \in {"succeeded", "failed"}
         /\ tick'[t].at \in {"idle", "requeue", "select", "claim"} => tick'[t].processed = 0
         /\ tick'[t].processed = tick[t].processed \/ tick'[t].at \in {"idle", "select"} \/ IngestDocument(t)
<1> USE TickStageNames DEF TickMoved, Works
<1>0. tick \in [Ticks -> Tick] /\ tick[t] \in Tick
  BY TypesNamed
<1>1. CASE RequeueOrphans(t)
  BY <1>0, <1>1, TickUpdate DEF RequeueOrphans
<1>2. CASE SelectPending(t)
  <2>1. CASE tick' = [tick EXCEPT ![t] = IdleTick]
    BY <1>0, <1>2, <2>1, TickUpdate DEF SelectPending
  <2>2. ASSUME NEW r \in Requests, tick' = [tick EXCEPT ![t].at = "claim", ![t].job = r]
        PROVE  TickMoved(tick', t, "claim") /\ tick'[t].job = r /\ tick'[t].processed = tick[t].processed
    <3>1. PICK a \in TickStages : a = "claim"
      OBVIOUS
    <3>2. tick' = [tick EXCEPT ![t].at = a, ![t].job = r]
      BY <2>2, <3>1
    <3>3. TickMoved(tick', t, a) /\ tick'[t].job = r /\ tick'[t].processed = tick[t].processed
      BY <1>0, <3>2 DEF Tick
    <3> QED BY <3>1, <3>3
  <2> QED BY <1>2, <2>1, <2>2 DEF SelectPending
<1>3. CASE ClaimJob(t)
  <2>1. /\ tick[t].at = "claim"
        /\ tick' = [tick EXCEPT ![t].at = "ingest"] \/ tick' = [tick EXCEPT ![t] = IdleTick]
    BY <1>3 DEF ClaimJob
  <2>2. CASE tick' = [tick EXCEPT ![t].at = "ingest"]
    BY <1>0, <1>3, <2>1, <2>2, TickUpdate
  <2>3. CASE tick' = [tick EXCEPT ![t] = IdleTick]
    BY <1>0, <2>1, <2>3, TickUpdate
  <2> QED BY <2>1, <2>2, <2>3
<1>4. CASE IngestDocument(t)
  <2>1. PICK n \in 0..Documents : n = tick[t].processed + 1
    BY <1>0, <1>4, IndexJobsAssumption DEF IngestDocument, Tick
  <2>2. tick' = [tick EXCEPT ![t].processed = n] /\ tick[t].at = "ingest"
    BY <1>4, <2>1 DEF IngestDocument
  <2>3. TickMoved(tick', t, "ingest") /\ tick'[t].job = tick[t].job
    BY <1>0, <2>2 DEF Tick
  <2> QED BY <1>4, <2>2, <2>3
<1>5. CASE IngestEnds(t)
  <2>1. PICK o \in {"succeeded", "failed"} : tick' = [tick EXCEPT ![t].at = "finish", ![t].outcome = o]
    BY <1>5 DEF IngestEnds
  <2>2. PICK a \in TickStages : a = "finish"
    OBVIOUS
  <2>3. tick' = [tick EXCEPT ![t].at = a, ![t].outcome = o]
    BY <2>1, <2>2
  <2>4. TickMoved(tick', t, a) /\ tick'[t].job = tick[t].job /\ tick'[t].outcome = o
        /\ tick'[t].processed = tick[t].processed
    BY <1>0, <2>3 DEF Tick
  <2> QED BY <1>5, <2>2, <2>4 DEF IngestEnds
<1>6. CASE FinishJob(t)
  BY <1>0, <1>6, TickUpdate DEF FinishJob
<1>7. CASE TickFails(t)
  BY <1>0, <1>7, TickUpdate DEF TickFails
<1> QED BY <1>1, <1>2, <1>3, <1>4, <1>5, <1>6, <1>7 DEF WorkerStep

\* Outside a tick.
LEMMA TicksMoveIdly ==
  ASSUME IndexTypeOK, \A t \in Ticks : Works(t), WorkerTick \/ ProcessRestarts
  PROVE  /\ tick' \in [Ticks -> Tick] /\ job' = job
         /\ \A t \in Ticks : tick'[t].at \in {"idle", "requeue", "select"} /\ tick'[t].processed = 0
         /\ \A s, t \in Ticks : tick'[s].at # "idle" /\ tick'[t].at # "idle" => s = t
<1>0. tick \in [Ticks -> Tick]
  BY TypesNamed
<1>1. CASE WorkerTick
  <2>1. \A t \in Ticks : tick[t].at = "idle"
    BY <1>1 DEF WorkerTick, IdleTicks
  <2>2. SomeIdleTick \in Ticks
    BY <2>1, IndexJobsAssumption DEF SomeIdleTick, IdleTicks
  <2>3. PICK a \in {"select", "requeue"} : tick' = [tick EXCEPT ![SomeIdleTick].at = a] /\ job' = job
    BY <1>1 DEF WorkerTick, StartTick
  <2>4. TickMoved(tick', SomeIdleTick, a) /\ tick'[SomeIdleTick].processed = tick[SomeIdleTick].processed
    BY <1>0, <2>2, <2>3, TickStageNames, TickUpdate
  <2> QED BY <2>1, <2>2, <2>3, <2>4 DEF TickMoved, Works
<1>2. CASE ProcessRestarts
  BY <1>2, IdleTickType DEF ProcessRestarts
<1> QED BY <1>1, <1>2

\* The queue keeps its type,
LEMMA JobType ==
  ASSUME IndexTypeOK, \A t \in Ticks : Works(t), IndexNext
  PROVE  job' \in [Requests -> Job]
<1>0. job \in [Requests -> Job] /\ tick \in [Ticks -> Tick]
  BY TypesNamed
<1> USE JobUpdate, StatusNames, IndexJobsAssumption
<1>1. ASSUME NEW r \in Requests, InsertJob(r) PROVE job' \in [Requests -> Job]
  BY <1>0, <1>1 DEF InsertJob
<1>2. ASSUME NEW t \in Ticks, RequeueOrphans(t) PROVE job' \in [Requests -> Job]
  <2>1. [status |-> "pending", processed |-> 0] \in Job
    BY DEF Job
  <2> QED BY <1>0, <1>2, <2>1 DEF RequeueOrphans
<1>3. ASSUME NEW t \in Ticks, ClaimJob(t) \/ FinishJob(t) \/ TickFails(t) PROVE job' \in [Requests -> Job]
  <2>1. \/ job' = job
        \/ /\ tick[t].at = "claim" /\ job' = [job EXCEPT ![tick[t].job].status = "running"]
        \/ /\ tick[t].at = "finish" /\ job' = [job EXCEPT ![tick[t].job].status = tick[t].outcome]
    BY <1>3 DEF ClaimJob, FinishJob, TickFails
  <2>2. tick[t].at \in {"claim", "finish"} => tick[t].job \in Requests
    BY DEF Works
  <2>3. tick[t].at = "finish" => tick[t].outcome \in Statuses
    BY DEF Works
  <2> QED BY <1>0, <2>1, <2>2, <2>3
<1>4. ASSUME NEW t \in Ticks, IngestDocument(t) PROVE job' \in [Requests -> Job]
  <2>1. PICK n \in 0..Documents : n = tick[t].processed + 1
    BY <1>0, <1>4 DEF IngestDocument, Tick
  <2>2. tick[t].job \in Requests
    BY <1>4 DEF IngestDocument, Works
  <2> QED BY <1>0, <1>4, <2>1, <2>2 DEF IngestDocument
<1>5. \/ \E r \in Requests : InsertJob(r)
      \/ \E t \in Ticks : RequeueOrphans(t) \/ ClaimJob(t) \/ FinishJob(t) \/ TickFails(t) \/ IngestDocument(t)
      \/ job' = job
  BY DEF IndexNext, EnqueueStep, WorkerStep, EnqueueStarts, LookupActive, EnqueueFails, WorkerTick,
         StartTick, ProcessRestarts, SelectPending, IngestEnds
<1> QED BY <1>0, <1>1, <1>2, <1>3, <1>4, <1>5

\* the ticks and the calls keep theirs,
LEMMA TickType ==
  ASSUME IndexTypeOK, \A t \in Ticks : Works(t), IndexNext
  PROVE  tick' \in [Ticks -> Tick]
<1>1. CASE \E t \in Ticks : WorkerStep(t) \/ TickFails(t)
  BY <1>1, TickMoves DEF TickMoved
<1>2. CASE \E r \in Requests : EnqueueStarts(r) \/ EnqueueStep(r) \/ EnqueueFails(r)
  BY <1>2, TypesNamed DEF EnqueueStarts, EnqueueStep, InsertJob, LookupActive, EnqueueFails
<1> QED BY <1>1, <1>2, TicksMoveIdly DEF IndexNext

\* Where the step of a call leads; the numbers it looks back to are its own.
CallMoved(r) ==
    /\ call' \in [Requests -> Calls]
    /\ \A s \in Requests \ {r} : call'[s] = call[s]

LEMMA EndedIsNat == EndedCount \in Nat
<1>1. IsFiniteSet({r \in Requests : Ended(r)})
  BY IndexJobsAssumption, FS_Subset
<1> QED BY <1>1, FS_CardinalityType DEF EndedCount

LEMMA CallMoves ==
  ASSUME IndexTypeOK, NEW r \in Requests, EnqueueStarts(r) \/ EnqueueStep(r) \/ EnqueueFails(r)
  PROVE  /\ CallMoved(r)
         /\ \/ EnqueueStarts(r) /\ call'[r].at = "insert" /\ call'[r].since = EndedCount
                                /\ call'[r].attempt = call[r].attempt
            \/ /\ call'[r].since = call[r].since
               /\ \/ InsertJob(r) /\ call'[r].at = "queued"
                  \/ /\ InsertJob(r) /\ call'[r].at = "lookup" /\ call'[r].attempt = call[r].attempt
                     /\ job' = job /\ \E s \in Requests : Active(s)
                  \/ LookupActive(r) /\ call'[r].at = "busy"
                  \/ /\ LookupActive(r) /\ \A s \in Requests : ~Active(s)
                     /\ call[r].attempt = 1 /\ call'[r].at = "insert" /\ call'[r].attempt = 2
                  \/ /\ LookupActive(r) /\ \A s \in Requests : ~Active(s)
                     /\ call[r].attempt = 2 /\ call'[r].at = "thrown"
                  \/ EnqueueFails(r) /\ call'[r].at = "error"
<1>0. call \in [Requests -> Calls] /\ call[r].attempt \in 1..2
  BY TypesNamed DEF Calls
<1> DEFINE A == {"idle", "insert", "lookup", "queued", "busy", "thrown", "error"}
<1>1. ASSUME NEW a \in A, call' = [call EXCEPT ![r].at = a]
      PROVE  /\ CallMoved(r) /\ call'[r].at = a
             /\ call'[r].since = call[r].since /\ call'[r].attempt = call[r].attempt
  BY <1>0, <1>1 DEF Calls, CallMoved
<1>2. CASE EnqueueStarts(r)
  <2>1. PICK a \in A, n \in Nat : a = "insert" /\ n = EndedCount
    BY EndedIsNat
  <2>2. call' = [call EXCEPT ![r].at = a, ![r].since = n]
    BY <1>2, <2>1 DEF EnqueueStarts
  <2>3. CallMoved(r) /\ call'[r].at = a /\ call'[r].since = n /\ call'[r].attempt = call[r].attempt
    BY <1>0, <2>2 DEF Calls, CallMoved
  <2> QED BY <1>2, <2>1, <2>3
<1>3. CASE InsertJob(r)
  <2>1. CASE \E s \in Requests : Active(s)
    <3>1. call' = [call EXCEPT ![r].at = "lookup"] /\ job' = job
      BY <1>3, <2>1 DEF InsertJob
    <3> QED BY <1>1, <1>3, <2>1, <3>1
  <2>2. CASE ~ \E s \in Requests : Active(s)
    <3>1. call' = [call EXCEPT ![r].at = "queued"]
      BY <1>3, <2>2 DEF InsertJob
    <3> QED BY <1>1, <1>3, <3>1
  <2> QED BY <2>1, <2>2
<1>4. CASE LookupActive(r)
  <2>1. CASE call' = [call EXCEPT ![r].at = "busy"]
    BY <1>1, <1>4, <2>1
  <2>2. CASE /\ \A s \in Requests : ~Active(s)
             /\ call[r].attempt = 1 /\ call' = [call EXCEPT ![r].at = "insert", ![r].attempt = 2]
    <3>1. PICK a \in A, n \in 1..2 : a = "insert" /\ n = 2
      OBVIOUS
    <3>2. call' = [call EXCEPT ![r].at = a, ![r].attempt = n]
      BY <2>2, <3>1
    <3>3. CallMoved(r) /\ call'[r].at = a /\ call'[r].attempt = n /\ call'[r].since = call[r].since
      BY <1>0, <3>2 DEF Calls, CallMoved
    <3> QED BY <1>4, <2>2, <3>1, <3>3
  <2>3. CASE /\ \A s \in Requests : ~Active(s)
             /\ call[r].attempt # 1 /\ call' = [call EXCEPT ![r].at = "thrown"]
    BY <1>0, <1>1, <1>4, <2>3
  <2> QED BY <1>4, <2>1, <2>2, <2>3 DEF LookupActive
<1>5. CASE EnqueueFails(r)
  BY <1>1, <1>5 DEF EnqueueFails
<1> QED BY <1>2, <1>3, <1>4, <1>5 DEF EnqueueStep

LEMMA CallType ==
  ASSUME IndexTypeOK, IndexNext
  PROVE  call' \in [Requests -> Calls]
<1>0. call \in [Requests -> Calls]
  BY TypesNamed
<1>1. CASE \E r \in Requests : EnqueueStarts(r) \/ EnqueueStep(r) \/ EnqueueFails(r)
  BY <1>1, CallMoves DEF CallMoved
<1>2. CASE ProcessRestarts
  <2>1. \A r \in Requests : [call[r] EXCEPT !.at = "error"] \in Calls
    BY <1>0 DEF Calls
  <2> QED BY <1>0, <1>2, <2>1 DEF ProcessRestarts
<1>3. CASE WorkerTick \/ \E t \in Ticks : WorkerStep(t) \/ TickFails(t)
  BY <1>0, <1>3 DEF WorkerTick, StartTick, WorkerStep, RequeueOrphans, SelectPending, ClaimJob,
                    IngestDocument, IngestEnds, FinishJob, TickFails
<1> QED BY <1>1, <1>2, <1>3 DEF IndexNext

\* the counters and the flags do,
LEMMA CounterTypes ==
  ASSUME IndexTypeOK, IndexNext
  PROVE  /\ orphansRequeued' \in BOOLEAN /\ outage' \in BOOLEAN
         /\ restarts' \in 0..MaxRestarts /\ refused' \in 0..MaxRefused
<1>0. /\ orphansRequeued \in BOOLEAN /\ outage \in BOOLEAN
      /\ restarts \in 0..MaxRestarts /\ refused \in 0..MaxRefused
  BY TypesNamed
<1>3. CASE \E r \in Requests : EnqueueStarts(r) \/ EnqueueStep(r) \/ EnqueueFails(r)
  <2>1. UNCHANGED <<orphansRequeued, outage, restarts>> /\ (refused' = refused \/ Refused)
    BY <1>3 DEF EnqueueStep, EnqueueStarts, InsertJob, LookupActive, EnqueueFails
  <2> QED BY <1>0, <2>1, IndexJobsAssumption DEF Refused
<1>4. CASE WorkerTick
  BY <1>0, <1>4 DEF WorkerTick, StartTick
<1>5. CASE ProcessRestarts
  <2>1. orphansRequeued' = FALSE /\ outage' = FALSE /\ refused' = refused
    BY <1>5 DEF ProcessRestarts
  <2>2. restarts' \in 0..MaxRestarts
    BY <1>0, <1>5, IndexJobsAssumption DEF ProcessRestarts
  <2> QED BY <1>0, <2>1, <2>2
<1>6. CASE \E t \in Ticks : WorkerStep(t)
  <2>1. UNCHANGED <<orphansRequeued, outage, restarts, refused>>
    BY <1>6 DEF WorkerStep, RequeueOrphans, SelectPending, ClaimJob, IngestDocument, IngestEnds, FinishJob
  <2> QED BY <1>0, <2>1
<1>7. CASE \E t \in Ticks : TickFails(t)
  <2>1. UNCHANGED <<orphansRequeued, restarts>> /\ outage' = TRUE /\ Refused
    BY <1>7 DEF TickFails
  <2> QED BY <1>0, <2>1, IndexJobsAssumption DEF Refused
<1> QED BY <1>3, <1>4, <1>5, <1>6, <1>7 DEF IndexNext

\* and so does everything.
LEMMA NextTypeOK ==
  ASSUME IndexInv, IndexNext
  PROVE  IndexTypeOK'
<1>1. job' \in [Requests -> Job] /\ call' \in [Requests -> Calls] /\ tick' \in [Ticks -> Tick]
  BY JobType, CallType, TickType DEF IndexInv
<1> QED BY <1>1, CounterTypes DEF IndexTypeOK, IndexInv, Job, Calls, Tick, TickStages

-----------------------------------------------------------------------------
(* The invariant. *)

\* A row that is queued stays queued or ends, one that ended stays so, and a new one is
\* made by its own request.
LEMMA JobMoves ==
  ASSUME IndexInv, IndexNext, NEW r \in Requests
  PROVE  \/ job'[r] = job[r]
         \/ /\ Active(r)
            /\ \/ job'[r].status = "running" \/ Ended(r)'
               \/ job'[r].status = "pending" /\ job'[r].processed = 0
         \/ InsertJob(r) /\ (\A s \in Requests : ~Active(s)) /\ job[r].status = "none"
            /\ Active(r)' /\ job'[r].processed = job[r].processed /\ call'[r].at = "queued"
<1>0. /\ job \in [Requests -> Job] /\ tick \in [Ticks -> Tick] /\ call \in [Requests -> Calls]
      /\ \A j \in Requests : job[j] \in Job
  BY TypesNamed DEF IndexInv
<1> USE DEF Active, Ended
<1>1. ASSUME NEW q \in Requests, InsertJob(q), job' # job
      PROVE  \/ job'[r] = job[r]
             \/ InsertJob(r) /\ (\A s \in Requests : ~Active(s)) /\ job[r].status = "none"
                /\ Active(r)' /\ job'[r].processed = job[r].processed /\ call'[r].at = "queued"
  <2>1. /\ \A s \in Requests : ~Active(s)
        /\ job' = [job EXCEPT ![q].status = "pending"] /\ call' = [call EXCEPT ![q].at = "queued"]
        /\ job[q].status = "none"
    BY <1>1 DEF InsertJob, IndexInv, NoRowYet
  <2>2. job'[q] = [job[q] EXCEPT !.status = "pending"] /\ \A s \in Requests \ {q} : job'[s] = job[s]
    BY <1>0, <2>1
  <2>3. job'[q].status = "pending" /\ job'[q].processed = job[q].processed
    BY <1>0, <2>2, JobUpdate, StatusNames
  <2>4. call'[q].at = "queued"
    BY <1>0, <2>1 DEF Calls
  <2> QED BY <1>1, <2>1, <2>2, <2>3, <2>4
<1>2. ASSUME NEW t \in Ticks, RequeueOrphans(t)
      PROVE  job'[r] = job[r] \/ (Active(r) /\ job'[r].status = "pending" /\ job'[r].processed = 0)
  <2>1. job'[r] = IF job[r].status = "running" THEN [status |-> "pending", processed |-> 0] ELSE job[r]
    BY <1>2 DEF RequeueOrphans
  <2> QED BY <2>1
<1>3. ASSUME NEW t \in Ticks, ClaimJob(t) \/ FinishJob(t) \/ TickFails(t)
      PROVE  job'[r] = job[r] \/ (Active(r) /\ (job'[r].status = "running" \/ Ended(r)'))
  <2>1. \/ job' = job
        \/ /\ tick[t].at = "claim" /\ job[tick[t].job].status = "pending"
           /\ job' = [job EXCEPT ![tick[t].job].status = "running"]
        \/ /\ tick[t].at = "finish" /\ job' = [job EXCEPT ![tick[t].job].status = tick[t].outcome]
    BY <1>3 DEF ClaimJob, FinishJob, TickFails
  <2>2. /\ tick[t].at \in {"claim", "finish"} => tick[t].job \in Requests
        /\ tick[t].at = "finish" => /\ tick[t].outcome \in {"succeeded", "failed"}
                                    /\ job[tick[t].job].status = "running"
    BY DEF IndexInv, Works, LiveRunShown
  <2>3. ASSUME NEW s \in Statuses, tick[t].job \in Requests, job' = [job EXCEPT ![tick[t].job].status = s]
        PROVE  \A i \in Requests : job'[i] = job[i] \/ (i = tick[t].job /\ job'[i].status = s)
    <3>1. PICK j \in Requests : j = tick[t].job
      BY <2>3
    <3>2. job'[j] = [job[j] EXCEPT !.status = s] /\ \A i \in Requests \ {j} : job'[i] = job[i]
      BY <1>0, <2>3, <3>1
    <3>3. job'[j].status = s
      BY <1>0, <3>2, JobUpdate
    <3> QED BY <3>1, <3>2, <3>3
  <2>4. CASE tick[t].at = "claim" /\ job[tick[t].job].status = "pending"
             /\ job' = [job EXCEPT ![tick[t].job].status = "running"]
    <3>1. \A i \in Requests : job'[i] = job[i] \/ (i = tick[t].job /\ job'[i].status = "running")
      BY <2>2, <2>3, <2>4, StatusNames
    <3> QED BY <2>4, <3>1
  <2>5. CASE tick[t].at = "finish" /\ job' = [job EXCEPT ![tick[t].job].status = tick[t].outcome]
    <3>1. tick[t].outcome \in Statuses /\ tick[t].job \in Requests
      BY <2>2, <2>5, StatusNames
    <3>2. \A i \in Requests : job'[i] = job[i] \/ (i = tick[t].job /\ job'[i].status = tick[t].outcome)
      BY <2>3, <2>5, <3>1
    <3> QED BY <2>2, <2>5, <3>2
  <2> QED BY <2>1, <2>4, <2>5
<1>4. ASSUME NEW t \in Ticks, IngestDocument(t)
      PROVE  job'[r] = job[r] \/ (Active(r) /\ job'[r].status = "running")
  <2>1. /\ tick[t].job \in Requests /\ job[tick[t].job].status = "running"
        /\ job' = [job EXCEPT ![tick[t].job].processed = tick[t].processed + 1]
    BY <1>4 DEF IngestDocument, IndexInv, Works, LiveRunShown
  <2>2. \A j \in Requests : job'[j] = job[j] \/ (j = tick[t].job /\ job'[j].status = job[j].status)
    BY <1>0, <2>1 DEF Job
  <2>3. CASE r = tick[t].job
    BY <2>1, <2>2, <2>3
  <2>4. CASE r # tick[t].job
    BY <2>2, <2>4
  <2> QED BY <2>3, <2>4
<1>5. \/ \E q \in Requests : InsertJob(q)
      \/ \E t \in Ticks : RequeueOrphans(t) \/ ClaimJob(t) \/ FinishJob(t) \/ TickFails(t) \/ IngestDocument(t)
      \/ job' = job
  BY DEF IndexNext, EnqueueStep, WorkerStep, EnqueueStarts, LookupActive, EnqueueFails, WorkerTick,
         StartTick, ProcessRestarts, SelectPending, IngestEnds
<1> QED BY <1>1, <1>2, <1>3, <1>4, <1>5

\* Ended jobs are never fewer, and more when the last active one has gone.
LEMMA EndedGrows ==
  ASSUME IndexInv, IndexNext
  PROVE  /\ EndedCount' >= EndedCount
         /\ (\E s \in Requests : Active(s)) /\ (\A s \in Requests : ~Active(s)') => EndedCount' >= EndedCount + 1
<1> DEFINE D == {r \in Requests : Ended(r)}
           E == {r \in Requests : Ended(r)'}
<1>1. IsFiniteSet(D) /\ IsFiniteSet(E)
  BY IndexJobsAssumption, FS_Subset
<1>2. D \subseteq E
  BY JobMoves DEF Ended, Active
<1>3. EndedCount = Cardinality(D) /\ EndedCount' = Cardinality(E)
  BY DEF EndedCount
<1>4. Cardinality(D) \in Nat /\ Cardinality(E) \in Nat
  BY <1>1, FS_CardinalityType
<1>5. Cardinality(D) <= Cardinality(E)
  BY <1>1, <1>2, FS_Subset
<1>6. ASSUME NEW s \in Requests, Active(s), ~Active(s)' PROVE Cardinality(E) >= Cardinality(D) + 1
  <2>1. s \notin D /\ s \in E
    BY <1>6, JobMoves DEF Ended, Active
  <2>2. Cardinality(D \cup {s}) = Cardinality(D) + 1
    BY <1>1, <2>1, FS_AddElement
  <2>3. D \cup {s} \subseteq E
    BY <1>2, <2>1
  <2>4. Cardinality(D \cup {s}) <= Cardinality(E)
    BY <1>1, <2>3, FS_Subset
  <2> QED BY <1>4, <2>2, <2>4
<1> HIDE DEF D, E
<1> QED BY <1>3, <1>4, <1>5, <1>6

\* A call goes on by its own step, is cut off, or stays where it is.
LEMMA CallsElse ==
  ASSUME IndexInv, IndexNext, NEW r \in Requests
  PROVE  \/ call'[r] = call[r]
         \/ call'[r].at = "error"
         \/ EnqueueStarts(r) \/ EnqueueStep(r) \/ EnqueueFails(r)
<1>0. call \in [Requests -> Calls] /\ call[r] \in Calls
  BY TypesNamed DEF IndexInv
<1>1. ASSUME NEW q \in Requests, EnqueueStarts(q) \/ EnqueueStep(q) \/ EnqueueFails(q), q # r
      PROVE  call'[r] = call[r]
  BY <1>1, CallMoves DEF CallMoved, IndexInv
<1>2. CASE ProcessRestarts
  <2>1. call'[r] = IF call[r].at \in {"insert", "lookup"} THEN [call[r] EXCEPT !.at = "error"] ELSE call[r]
    BY <1>2 DEF ProcessRestarts
  <2> QED BY <1>0, <2>1 DEF Calls
<1>3. CASE WorkerTick \/ \E t \in Ticks : WorkerStep(t) \/ TickFails(t)
  BY <1>3 DEF WorkerTick, StartTick, WorkerStep, RequeueOrphans, SelectPending, ClaimJob,
              IngestDocument, IngestEnds, FinishJob, TickFails
<1> QED BY <1>1, <1>2, <1>3 DEF IndexNext

LEMMA RowAfterInsert ==
  ASSUME IndexInv, IndexNext
  PROVE  NoRowYet'
<1>1. ASSUME NEW r \in Requests, call'[r].at \in {"idle", "insert", "lookup"}
      PROVE  job'[r].status = "none"
  <2>1. call[r].at \in {"idle", "insert", "lookup"} \/ call'[r] = call[r]
    BY <1>1, CallsElse DEF EnqueueStarts, EnqueueStep, EnqueueFails, InsertJob, LookupActive
  <2>2. job[r].status = "none"
    BY <1>1, <2>1 DEF IndexInv, NoRowYet
  <2> QED BY <1>1, <2>2, JobMoves DEF Active
<1> QED BY <1>1 DEF NoRowYet

LEMMA BlankKept ==
  ASSUME IndexInv, IndexNext
  PROVE  Blank'
  BY JobMoves DEF IndexInv, Blank, Active, Ended

\* What a call knows of the jobs that ended grows with them.
LEMMA TurnoverKept ==
  ASSUME IndexInv, IndexNext, NEW r \in Requests
  PROVE  Turnover(r)' /\ (call'[r].at = "thrown" => EndedCount' >= call'[r].since + 2)
<1>0. /\ EndedCount \in Nat /\ EndedCount' \in Nat
      /\ call[r].since \in Nat /\ call[r].attempt \in 1..2
  <2>1. EndedCount' \in Nat
    <3>1. IsFiniteSet({q \in Requests : Ended(q)'})
      BY IndexJobsAssumption, FS_Subset
    <3> QED BY <3>1, FS_CardinalityType DEF EndedCount
  <2> QED BY <2>1, EndedIsNat, TypesNamed DEF IndexInv, Calls
<1>1. /\ EndedCount' >= EndedCount
      /\ (\E s \in Requests : Active(s)) =>
            (\E s \in Requests : Active(s)') \/ EndedCount' >= EndedCount + 1
  BY EndedGrows
<1>2. Turnover(r) /\ (call[r].at = "thrown" => EndedCount >= call[r].since + 2)
  BY DEF IndexInv, ThrowNeedsTurnover
<1>3. CASE call'[r] = call[r]
  BY <1>0, <1>1, <1>2, <1>3 DEF Turnover
<1>4. CASE call'[r].at = "error"
  BY <1>4 DEF Turnover
<1>5. CASE EnqueueStarts(r) \/ EnqueueStep(r) \/ EnqueueFails(r)
  <2>1. call[r].at = "idle" => call[r].attempt = 1
    BY <1>2 DEF Turnover
  <2>2. CASE EnqueueStarts(r) /\ call'[r].at = "insert" /\ call'[r].since = EndedCount
             /\ call'[r].attempt = call[r].attempt
    <3>1. call'[r].attempt = 1
      BY <2>1, <2>2 DEF EnqueueStarts
    <3> QED BY <1>0, <1>1, <2>2, <3>1 DEF Turnover
  <2>3. CASE call'[r].at \in {"queued", "busy", "error"}
    BY <2>3 DEF Turnover
  <2>4. CASE /\ InsertJob(r) /\ call'[r].at = "lookup" /\ call'[r].attempt = call[r].attempt
             /\ call'[r].since = call[r].since /\ job' = job /\ \E s \in Requests : Active(s)
    <3>1. call[r].at = "insert"
      BY <2>4 DEF InsertJob
    <3>2. \E s \in Requests : Active(s)'
      BY <2>4 DEF Active
    <3> QED BY <1>0, <1>1, <1>2, <2>4, <3>1, <3>2 DEF Turnover
  <2>5. CASE /\ LookupActive(r) /\ (\A s \in Requests : ~Active(s)) /\ call'[r].since = call[r].since
             /\ \/ call[r].attempt = 1 /\ call'[r].at = "insert" /\ call'[r].attempt = 2
                \/ call[r].attempt = 2 /\ call'[r].at = "thrown"
    <3>1. call[r].at = "lookup"
      BY <2>5 DEF LookupActive
    <3>2. EndedCount >= call[r].since + call[r].attempt
      BY <1>2, <2>5, <3>1 DEF Turnover
    <3> QED BY <1>0, <1>1, <2>5, <3>2 DEF Turnover
  <2> QED BY <1>5, <2>2, <2>3, <2>4, <2>5, CallMoves DEF IndexInv
<1> QED BY <1>3, <1>4, <1>5, CallsElse

\* A request's step leaves the ticks alone, and the rows while one is active.
LEMMA RequestsApart ==
  ASSUME IndexInv, NEW r \in Requests, EnqueueStarts(r) \/ EnqueueStep(r) \/ EnqueueFails(r)
  PROVE  tick' = tick /\ ((\E s \in Requests : Active(s)) => job' = job)
  BY DEF EnqueueStarts, EnqueueStep, EnqueueFails, InsertJob, LookupActive

LEMMA OneTickKept ==
  ASSUME IndexInv, IndexNext
  PROVE  OneTick'
<1>1. CASE \E r \in Requests : EnqueueStarts(r) \/ EnqueueStep(r) \/ EnqueueFails(r)
  BY <1>1, RequestsApart DEF IndexInv, OneTick
<1>2. CASE WorkerTick \/ ProcessRestarts
  BY <1>2, TicksMoveIdly DEF IndexInv, OneTick
<1>3. ASSUME NEW t \in Ticks, WorkerStep(t) \/ TickFails(t) PROVE OneTick'
  BY <1>3, TickMoves DEF IndexInv, OneTick, TickMoved
<1> QED BY <1>1, <1>2, <1>3 DEF IndexNext

LEMMA WorksKept ==
  ASSUME IndexInv, IndexNext, NEW s \in Ticks
  PROVE  Works(s)'
<1>0. \A t \in Ticks : Works(t)
  BY DEF IndexInv
<1>1. CASE \E r \in Requests : EnqueueStarts(r) \/ EnqueueStep(r) \/ EnqueueFails(r)
  BY <1>0, <1>1, RequestsApart DEF Works
<1>2. CASE WorkerTick \/ ProcessRestarts
  BY <1>2, TicksMoveIdly DEF IndexInv, Works
<1>3. ASSUME NEW t \in Ticks, WorkerStep(t) \/ TickFails(t) PROVE Works(s)'
  <2>1. CASE s # t
    BY <1>0, <1>3, <2>1, TickMoves DEF IndexInv, TickMoved, Works
  <2>2. CASE s = t
    <3>1. ClaimJob(t) \/ IngestDocument(t) \/ IngestEnds(t) => tick[t].job \in Requests
      BY <1>0 DEF ClaimJob, IngestDocument, IngestEnds, Works
    <3>2. tick'[t].at \in {"claim", "ingest", "finish"} => tick'[t].job \in Requests
      BY <1>3, <3>1, TickMoves DEF IndexInv
    <3>3. /\ tick'[t].at = "finish" => tick'[t].outcome \in {"succeeded", "failed"}
          /\ tick'[t].at \in {"idle", "requeue", "select", "claim"} => tick'[t].processed = 0
      BY <1>3, TickMoves DEF IndexInv
    <3> QED BY <2>2, <3>2, <3>3 DEF Works
  <2> QED BY <2>1, <2>2
<1> QED BY <1>1, <1>2, <1>3 DEF IndexNext

\* The row of a run that is under way is the row its tick believes in.
LEMMA LiveRunKept ==
  ASSUME IndexInv, IndexNext
  PROVE  LiveRunShown'
<1>0. /\ job \in [Requests -> Job] /\ tick \in [Ticks -> Tick] /\ LiveRunShown
      /\ \A t \in Ticks : Works(t) /\ tick[t] \in Tick
  BY TypesNamed DEF IndexInv
<1>1. CASE \E r \in Requests : EnqueueStarts(r) \/ EnqueueStep(r) \/ EnqueueFails(r)
  <2>1. ASSUME NEW t \in Ticks, tick'[t].at \in {"ingest", "finish"}
        PROVE  tick' = tick /\ job' = job
    <3>1. tick' = tick
      BY <1>1, RequestsApart
    <3>2. tick[t].job \in Requests /\ Active(tick[t].job)
      BY <1>0, <2>1, <3>1 DEF LiveRunShown, Works, Active
    <3> QED BY <1>1, <3>1, <3>2, RequestsApart
  <2> QED BY <1>0, <2>1 DEF LiveRunShown
<1>2. CASE WorkerTick \/ ProcessRestarts
  BY <1>2, TicksMoveIdly DEF IndexInv, LiveRunShown
<1>3. ASSUME NEW t \in Ticks, WorkerStep(t) \/ TickFails(t) PROVE LiveRunShown'
  <2>1. \A s \in Ticks \ {t} : tick'[s].at = "idle"
    BY <1>3, TickMoves DEF IndexInv, OneTick, TickMoved
  <2>2. ASSUME tick'[t].at \in {"ingest", "finish"}
        PROVE  /\ job'[tick'[t].job].status = "running"
               /\ job'[tick'[t].job].processed = tick'[t].processed
    <3>1. /\ ClaimJob(t) \/ IngestDocument(t) \/ IngestEnds(t)
          /\ tick'[t].job = tick[t].job
          /\ tick'[t].processed = tick[t].processed \/ IngestDocument(t)
      BY <1>3, <2>2, TickMoves DEF IndexInv
    <3>2. PICK j \in Requests : j = tick[t].job
      BY <1>0, <3>1 DEF Works, ClaimJob, IngestDocument, IngestEnds
    <3>3. CASE ClaimJob(t)
      <4>1. tick[t].at = "claim" /\ tick[t].processed = 0 /\ tick'[t].processed = 0
        BY <1>0, <3>1, <3>3 DEF ClaimJob, IngestDocument, Works
      <4>2. job[j].status = "pending" /\ job' = [job EXCEPT ![j].status = "running"]
        <5>1. tick' # [tick EXCEPT ![t] = IdleTick]
          BY <1>0, <2>2, TickUpdate, TickStageNames DEF TickMoved
        <5> QED BY <3>2, <3>3, <5>1 DEF ClaimJob
      <4>3. job[j].processed = 0
        BY <4>2 DEF IndexInv, Blank
      <4>4. job'[j] = [job[j] EXCEPT !.status = "running"] /\ job[j] \in Job
        BY <1>0, <4>2
      <4> QED BY <3>1, <3>2, <4>1, <4>3, <4>4, JobUpdate, StatusNames
    <3>4. CASE IngestDocument(t)
      <4>1. PICK n \in 0..Documents : n = tick[t].processed + 1
        BY <1>0, <3>4, IndexJobsAssumption DEF IngestDocument, Tick
      <4>2. /\ tick' = [tick EXCEPT ![t].processed = n]
            /\ job' = [job EXCEPT ![j].processed = n]
            /\ job[j].status = "running"
        BY <1>0, <3>2, <3>4, <4>1 DEF IngestDocument, LiveRunShown
      <4>3. tick'[t].processed = n
        BY <1>0, <4>2 DEF Tick
      <4>4. job'[j] = [job[j] EXCEPT !.processed = n] /\ job[j] \in Job
        BY <1>0, <4>2
      <4>5. job'[j].status = job[j].status /\ job'[j].processed = n
        BY <4>4, JobUpdate
      <4> QED BY <3>1, <3>2, <4>2, <4>3, <4>5, Zenon
    <3>5. CASE IngestEnds(t)
      <4>1. tick'[t].processed = tick[t].processed
        <5>1. PICK o \in {"succeeded", "failed"} :
                tick' = [tick EXCEPT ![t].at = "finish", ![t].outcome = o]
          BY <3>5 DEF IngestEnds
        <5> QED BY <1>0, <5>1 DEF Tick
      <4> QED BY <1>0, <3>1, <3>5, <4>1 DEF IngestEnds, LiveRunShown
    <3> QED BY <3>1, <3>3, <3>4, <3>5
  <2> QED BY <2>1, <2>2 DEF LiveRunShown
<1> QED BY <1>1, <1>2, <1>3 DEF IndexNext

-----------------------------------------------------------------------------
(* The theorems. *)

LEMMA IndexInvInit == IndexInit => IndexInv
<1> SUFFICES ASSUME IndexInit PROVE IndexInv
  OBVIOUS
<1>1. 0 \in 0..Documents /\ 0 \in 0..MaxRestarts /\ 0 \in 0..MaxRefused /\ 0 \in Nat /\ 1 \in 1..2
  BY IndexJobsAssumption
<1>2. /\ \A r \in Requests : job[r].status = "none" /\ job[r].processed = 0
      /\ \A r \in Requests : call[r].at = "idle" /\ call[r].attempt = 1
      /\ \A t \in Ticks : tick[t].at = "idle" /\ tick[t].processed = 0
  BY DEF IndexInit, IdleTick
<1>3. IndexTypeOK
  <2>1. job \in [Requests -> Job]
    BY <1>1, StatusNames DEF IndexInit, Job
  <2>2. call \in [Requests -> Calls]
    BY <1>1 DEF IndexInit, Calls
  <2>3. tick \in [Ticks -> Tick]
    BY IdleTickType DEF IndexInit
  <2> QED BY <1>1, <2>1, <2>2, <2>3, TypesNamed DEF IndexInit
<1> QED BY <1>2, <1>3 DEF IndexInv, OneTick, Works, Blank, LiveRunShown, NoRowYet, Turnover, ThrowNeedsTurnover

LEMMA IndexInvNext == IndexInv /\ [IndexNext]_indexVars => IndexInv'
<1>1. ASSUME IndexInv, IndexNext PROVE IndexInv'
  BY <1>1, NextTypeOK, OneTickKept, WorksKept, BlankKept, LiveRunKept, RowAfterInsert, TurnoverKept
     DEF IndexInv, ThrowNeedsTurnover
<1>2. ASSUME IndexInv, UNCHANGED indexVars PROVE IndexInv'
  <2>1. job' = job /\ call' = call /\ tick' = tick
    BY <1>2 DEF indexVars
  <2>2. EndedCount' = EndedCount
    BY <2>1 DEF EndedCount, Ended
  <2>3. IndexTypeOK'
    BY <1>2 DEF IndexInv, IndexTypeOK, indexVars
  <2> QED BY <1>2, <2>1, <2>2, <2>3 DEF IndexInv, OneTick, Works, Blank, LiveRunShown, NoRowYet, Turnover,
          Active, ThrowNeedsTurnover
<1> QED BY <1>1, <1>2

LEMMA IndexInvAlways == IndexSpec => []IndexInv
  BY IndexInvInit, IndexInvNext, PTL DEF IndexSpec

\* The queue, its calls and its ticks keep their types, for any number of them.
THEOREM IndexTypeCorrect == IndexSpec => []IndexTypeOK
<1>1. IndexInv => IndexTypeOK
  BY DEF IndexInv
<1> QED BY <1>1, IndexInvAlways, PTL

\* While a run is live its row is `running` and tells how far it is, whatever process
\* restarted and whatever statement failed: no requeue and no second tick touches it.
THEOREM LiveRowTrue == IndexSpec => []LiveRunShown
<1>1. IndexInv => LiveRunShown
  BY DEF IndexInv
<1> QED BY <1>1, IndexInvAlways, PTL

\* An enqueue that throws saw two jobs end while it tried, however many requests compete.
THEOREM ThrowsOnTurnover == IndexSpec => []ThrowNeedsTurnover
<1>1. IndexInv => ThrowNeedsTurnover
  BY DEF IndexInv
<1> QED BY <1>1, IndexInvAlways, PTL

=============================================================================
