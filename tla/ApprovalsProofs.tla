--------------------------- MODULE ApprovalsProofs ---------------------------
(* Theorems about the tool-confirmation gate, for every value of its constants. *)
EXTENDS ApprovalsProps, FiniteSetTheorems, TLAPS

-----------------------------------------------------------------------------
(* What an update does to a table of rows, a table of decisions or the audit log. *)

\* Writing a status keeps the table well typed.
LEMMA StatusUpdate ==
  ASSUME NEW t \in [Rows -> Row], NEW r \in Rows, NEW s \in Statuses
  PROVE  [t EXCEPT ![r].status = s] \in [Rows -> Row]
  BY DEF Row

\* So does writing an age,
LEMMA AgeUpdate ==
  ASSUME NEW t \in [Rows -> Row], NEW r \in Rows, NEW a \in Ages
  PROVE  [t EXCEPT ![r].age = a] \in [Rows -> Row]
  BY DEF Row

\* re-pointing a row to another call,
LEMMA RepointUpdate ==
  ASSUME NEW t \in [Rows -> Row], NEW r \in Rows, NEW id \in CallIds
  PROVE  [t EXCEPT ![r].callId = id, ![r].approvalId = NoCall] \in [Rows -> Row]
  BY DEF Row

\* and linking any set of rows to one parked call.
LEMMA LinkMap ==
  ASSUME NEW t \in [Rows -> Row], NEW T, NEW c \in Calls
  PROVE  [r \in Rows |-> IF r \in T THEN [t[r] EXCEPT !.approvalId = c] ELSE t[r]] \in [Rows -> Row]
  BY DEF Row

\* Writing where a decision is keeps the decisions well typed.
LEMMA DecisionUpdate ==
  ASSUME NEW d \in [Rows -> Decision], NEW r \in Rows,
         NEW a \in Calls \cup {NoCall}, NEW at \in DecisionStates
  PROVE  [d EXCEPT ![r].addr = a, ![r].at = at] \in [Rows -> Decision]
  BY DEF Decision

\* The two ids of a typed row are typed.
LEMMA RowIds ==
  ASSUME NEW t \in [Rows -> Row], NEW r \in Rows
  PROVE  t[r].approvalId \in Calls \cup {NoCall}
  BY DEF Row

\* Counting one more audit row keeps the counters natural numbers.
LEMMA AuditUpdate ==
  ASSUME NEW log \in [Rows -> [Events -> Nat]], NEW r \in Rows, NEW e \in Events
  PROVE  [log EXCEPT ![r][e] = @ + 1] \in [Rows -> [Events -> Nat]]
  OBVIOUS

-----------------------------------------------------------------------------
(* The actions with more than one write: what they leave well typed. *)

\* Types of what GateConsume writes.
LEMMA ConsumeTypes ==
  ASSUME rows \in [Rows -> Row], audit \in [Rows -> [Events -> Nat]],
         charge \in [Calls -> Rows \cup {NoRow}],
         NEW c \in Calls, GateConsume(c)
  PROVE  /\ rows' \in [Rows -> Row]
         /\ audit' \in [Rows -> [Events -> Nat]]
         /\ charge' \in [Calls -> Rows \cup {NoRow}]
<1> PICK r \in Tickets(c) : /\ rows' = [rows EXCEPT ![r].status = "consumed"]
                            /\ charge' = [charge EXCEPT ![c] = r]
                            /\ Audited(r, "consumed")
  BY DEF GateConsume
<1>1. r \in Rows
  BY DEF Tickets
<1>2. "consumed" \in Statuses /\ "consumed" \in Events
  BY DEF Statuses, Events
<1>3. rows' \in [Rows -> Row]
  BY <1>1, <1>2, StatusUpdate
<1>4. audit' \in [Rows -> [Events -> Nat]]
  BY <1>1, <1>2, AuditUpdate DEF Audited
<1> QED BY <1>1, <1>3, <1>4

\* Types of what GateLookup writes.
LEMMA LookupTypes ==
  ASSUME pc \in [Calls -> CallStates], seen \in [Calls -> Rows \cup {NoRow}],
         lapsed \in [Calls -> SUBSET Rows], NEW c \in Calls, GateLookup(c)
  PROVE  /\ pc' \in [Calls -> CallStates]
         /\ seen' \in [Calls -> Rows \cup {NoRow}]
         /\ lapsed' \in [Calls -> SUBSET Rows]
<1> USE DEF CallStates, Ends, GoesOn
<1>1. ASSUME NEW r \in Waiting(c), Ends(c, "prompted")
      PROVE  /\ pc' \in [Calls -> CallStates]
             /\ seen' \in [Calls -> Rows \cup {NoRow}]
             /\ lapsed' \in [Calls -> SUBSET Rows]
  BY <1>1
<1>2. ASSUME NEW r \in Waiting(c), GoesOn(c, "repoint"),
             seen' = [seen EXCEPT ![c] = r], UNCHANGED lapsed
      PROVE  /\ pc' \in [Calls -> CallStates]
             /\ seen' \in [Calls -> Rows \cup {NoRow}]
             /\ lapsed' \in [Calls -> SUBSET Rows]
  BY <1>2 DEF Waiting
<1>3. ASSUME GoesOn(c, "count"), UNCHANGED gateVars
      PROVE  /\ pc' \in [Calls -> CallStates]
             /\ seen' \in [Calls -> Rows \cup {NoRow}]
             /\ lapsed' \in [Calls -> SUBSET Rows]
  BY <1>3 DEF gateVars
<1> HIDE DEF CallStates, Ends, GoesOn
<1> QED BY <1>1, <1>2, <1>3 DEF GateLookup

\* Types of what GateRepoint writes.
LEMMA RepointRows ==
  ASSUME rows \in [Rows -> Row], seen \in [Calls -> Rows \cup {NoRow}],
         NEW c \in Calls, GateRepoint(c)
  PROVE  rows' \in [Rows -> Row]
<1>1. CASE seen[c] \in Rows /\ Opened(seen[c])
  <2>1. IdOf[c] \in CallIds
    BY DEF CallIds
  <2>2. rows' = [rows EXCEPT ![seen[c]].callId = IdOf[c], ![seen[c]].approvalId = NoCall]
    BY <1>1 DEF GateRepoint
  <2> QED BY <1>1, <2>1, <2>2, RepointUpdate
<1>2. CASE ~Opened(seen[c])
  BY <1>2 DEF GateRepoint
<1>3. CASE seen[c] = NoRow
  <2>1. NoRow \notin Rows
    BY DEF NoRow, Rows
  <2> QED BY <1>3, <2>1 DEF GateRepoint
<1> QED BY <1>1, <1>2, <1>3

\* Types of what LinkApproval writes.
LEMMA LinkRows ==
  ASSUME rows \in [Rows -> Row], NEW c \in Calls, LinkApproval(c)
  PROVE  rows' \in [Rows -> Row]
<1> DEFINE T == {r \in Rows : /\ Names(c, r)
                              /\ rows[r].approvalId = NoCall
                              /\ rows[r].status \in {"pending", "approved", "denied"}}
<1>1. rows' = [r \in Rows |-> IF r \in T THEN [rows[r] EXCEPT !.approvalId = c] ELSE rows[r]]
  BY DEF LinkApproval
<1> HIDE DEF T
<1> QED BY <1>1, LinkMap

\* Types of what RecordResolution writes.
LEMMA RecordTypes ==
  ASSUME rows \in [Rows -> Row], audit \in [Rows -> [Events -> Nat]],
         NEW c \in Calls, NEW how, RecordResolution(c, how)
  PROVE  rows' \in [Rows -> Row] /\ audit' \in [Rows -> [Events -> Nat]]
<1> DEFINE T == SettledBy(c, how)
           s == SettledAs(how)
<1>1. s \in Statuses /\ s \in Events
  BY DEF SettledAs, Statuses, Events
<1>2. rows' = [r \in Rows |-> IF r \in T THEN [rows[r] EXCEPT !.status = s] ELSE rows[r]]
  BY DEF RecordResolution
<1> HIDE DEF T, s
<1>3. rows' \in [Rows -> Row]
  <2>1. \A r \in Rows : [rows[r] EXCEPT !.status = s] \in Row
    BY <1>1 DEF Row
  <2> QED BY <1>2, <2>1
<1> USE DEF T, s
<1>4. CASE UNCHANGED audit
  BY <1>3, <1>4
<1>5. ASSUME NEW r \in SettledBy(c, how), Audited(r, SettledAs(how))
      PROVE  audit' \in [Rows -> [Events -> Nat]]
  <2>1. r \in Rows
    BY DEF SettledBy
  <2> QED BY <1>1, <1>5, <2>1, AuditUpdate DEF Audited
<1> QED BY <1>3, <1>4, <1>5 DEF RecordResolution

\* Types of what DecisionFlip writes.
LEMMA FlipTypes ==
  ASSUME rows \in [Rows -> Row], decision \in [Rows -> Decision],
         NEW r \in Rows, NEW v, DecisionFlip(r, v)
  PROVE  rows' \in [Rows -> Row] /\ decision' \in [Rows -> Decision]
<1>1. CASE rows[r].status = "pending"
  <2> DEFINE s == IF v = "approve" THEN "approved" ELSE "denied"
             at == IF rows[r].approvalId = NoCall THEN "waiting" ELSE "resolving"
  <2>1. /\ rows' = [rows EXCEPT ![r].status = s]
        /\ decision' = [decision EXCEPT ![r].addr = rows[r].approvalId, ![r].at = at]
    BY <1>1 DEF DecisionFlip
  <2>2. s \in Statuses /\ at \in DecisionStates
    BY DEF Statuses, DecisionStates
  <2>3. rows[r].approvalId \in Calls \cup {NoCall}
    BY RowIds
  <2> HIDE DEF s, at
  <2>4. rows' \in [Rows -> Row]
    BY <2>1, <2>2, StatusUpdate
  <2>5. decision' \in [Rows -> Decision]
    BY <2>1, <2>2, <2>3, DecisionUpdate
  <2> QED BY <2>4, <2>5
<1>2. CASE rows[r].status # "pending"
  BY <1>2 DEF DecisionFlip
<1> QED BY <1>1, <1>2

\* Types of what LinkFound writes.
LEMMA LinkFoundDecision ==
  ASSUME rows \in [Rows -> Row], decision \in [Rows -> Decision],
         NEW r \in Rows, LinkFound(r)
  PROVE  decision' \in [Rows -> Decision]
<1>1. decision' = [decision EXCEPT ![r].addr = rows[r].approvalId, ![r].at = "resolving"]
  BY DEF LinkFound
<1>2. rows[r].approvalId \in Calls \cup {NoCall} /\ "resolving" \in DecisionStates
  BY RowIds DEF DecisionStates
<1> QED BY <1>1, <1>2, DecisionUpdate

\* Types of what Age writes.
LEMMA AgeRows ==
  ASSUME rows \in [Rows -> Row], NEW r \in Rows, Age(r)
  PROVE  rows' \in [Rows -> Row]
<1>1. PICK a \in Ages : rows' = [rows EXCEPT ![r].age = a]
  BY DEF Age, Ages
<1> QED BY <1>1, AgeUpdate

-----------------------------------------------------------------------------
(* Type correctness. *)

\* The empty table and the calls not begun are well typed.
LEMMA InitTypeOK == Init => TypeOK
  BY ConstantsAssumption DEF Init, TypeOK, Rows, Row, NewRow, CallIds, NoRow, Decision, DecisionStates,
     Outcomes, CallStates, Grounds, Statuses, Ages, Events, Verdicts, Resolutions

\* Every statement of the gate-check route keeps the types.
LEMMA GateCheckTypeOK ==
  ASSUME TypeOK, NEW c \in Calls, GateCheck(c)
  PROVE  TypeOK'
<1> USE ConstantsAssumption DEF TypeOK, gateVars, wireVars, decisionVars, grantVars
<1>1. CASE PolicyAllows(c)
  BY <1>1 DEF PolicyAllows, CallStates, Grounds
<1>2. CASE RefuseUnattributable(c)
  BY <1>2 DEF RefuseUnattributable, CallStates
<1>3. CASE GateConsume(c)
  BY <1>3, ConsumeTypes DEF GateConsume, CallStates, Grounds
<1>4. CASE GateMiss(c)
  BY <1>4 DEF GateMiss, CallStates, Overdue
<1>5. CASE GateLookup(c)
  BY <1>5, LookupTypes DEF GateLookup
<1>6. CASE GateRepoint(c)
  <2>1. rows' \in [Rows -> Row]
    BY <1>6, RepointRows
  <2> QED BY <1>6, <2>1 DEF GateRepoint, Ends, CallStates, NoRow
<1>7. CASE GateCount(c)
  BY <1>7 DEF GateCount, Ends, GoesOn, CallStates, NoRow
<1>8. CASE GateInsert(c)
  <2>1. nrows + 1 \in Rows /\ nrows' \in 0..MaxRows
    BY <1>8 DEF GateInsert, Rows
  <2>2. NewRow("pending", BindingOf[c], IdOf[c]) \in Row
    BY DEF NewRow, Row, Statuses, CallIds, Ages
  <2>3. rows' \in [Rows -> Row]
    BY <1>8, <2>1, <2>2 DEF GateInsert
  <2>4. audit' \in [Rows -> [Events -> Nat]]
    BY <1>8, <2>1, AuditUpdate DEF GateInsert, Audited, Events
  <2> QED BY <1>8, <2>1, <2>3, <2>4 DEF GateInsert, Ends, CallStates, NoRow
<1> QED BY <1>1, <1>2, <1>3, <1>4, <1>5, <1>6, <1>7, <1>8 DEF GateCheck

\* The end of a wait keeps the call states and the reports well typed.
LEMMA EndWaitType ==
  ASSUME TypeOK, NEW c \in Calls, NEW how \in Resolutions, NEW next \in CallStates,
         EndWait(c, how, next)
  PROVE  pc' \in [Calls -> CallStates] /\ reports' \subseteq Calls \X Resolutions
  BY DEF EndWait, TypeOK

\* Everything the plugin, OpenClaw and the bridge do keeps the types.
LEMMA CallStepTypeOK ==
  ASSUME TypeOK, NEW c \in Calls, CallStep(c)
  PROVE  TypeOK'
<1> USE ConstantsAssumption DEF TypeOK, gateVars, wireVars, decisionVars, grantVars
<1>1. CASE AnswerArrives(c)
  BY <1>1 DEF AnswerArrives, CallStates
<1>2. CASE AnswerLost(c)
  BY <1>2 DEF AnswerLost, Ends, CallStates, NoRow
<1>3. CASE ParkTimeout(c)
  BY <1>3, EndWaitType DEF ParkTimeout, Resolutions, CallStates
<1>4. CASE RunCancelled(c)
  BY <1>4, EndWaitType DEF RunCancelled, Resolutions, CallStates
<1>5. CASE ForeignDecision(c)
  BY <1>5, EndWaitType DEF ForeignDecision, Resolutions, CallStates, Grounds
<1>6. CASE LinkApproval(c)
  BY <1>6, LinkRows DEF LinkApproval
<1>7. CASE BroadcastLost(c)
  BY <1>7 DEF BroadcastLost
<1>8. ASSUME NEW how \in Resolutions, RecordResolution(c, how)
      PROVE  TypeOK'
  BY <1>8, RecordTypes DEF RecordResolution
<1>9. ASSUME NEW how \in Resolutions, ReportLost(c, how)
      PROVE  TypeOK'
  BY <1>9 DEF ReportLost
<1> QED BY <1>1, <1>2, <1>3, <1>4, <1>5, <1>6, <1>7, <1>8, <1>9 DEF CallStep

\* Answering a decision keeps the decisions and the audit counters well typed.
LEMMA AnsweredType ==
  ASSUME TypeOK, NEW r \in Rows, NEW outcome \in Outcomes, Answered(r, outcome)
  PROVE  decision' \in [Rows -> Decision] /\ audit' \in [Rows -> [Events -> Nat]]
  BY DEF Answered, Over, Audited, TypeOK, Decision, DecisionStates, Events

\* Everything the decision route does, and time, keeps the types; a decision
\* being delivered needs its address for that (AddressKnown).
LEMMA RowStepTypeOK ==
  ASSUME TypeOK, NEW r \in Rows, RowStep(r),
         decision[r].at = "resolving" => decision[r].addr \in Calls
  PROVE  TypeOK'
<1> USE ConstantsAssumption DEF TypeOK, gateVars, wireVars, decisionVars, grantVars
<1>1. ASSUME NEW v \in Verdicts, DecisionRead(r, v)
      PROVE  TypeOK'
  BY <1>1 DEF DecisionRead
<1>2. ASSUME NEW v \in Verdicts, DecisionFlip(r, v)
      PROVE  TypeOK'
  BY <1>2, FlipTypes DEF DecisionFlip
<1>3. CASE LinkFound(r)
  BY <1>3, LinkFoundDecision DEF LinkFound
<1>4. CASE LinkWaitEnds(r)
  BY <1>4, AnsweredType DEF LinkWaitEnds, Outcomes
<1>5. CASE ResolveTakesEffect(r)
  <2> DEFINE c == decision[r].addr
  <2>1. c \in Calls
    BY <1>5 DEF ResolveTakesEffect
  <2>2. decision' \in [Rows -> Decision] /\ audit' \in [Rows -> [Events -> Nat]]
    BY <1>5, AnsweredType DEF ResolveTakesEffect, Outcomes
  <2>3. pc' \in [Calls -> CallStates] /\ reports' \subseteq Calls \X Resolutions
    BY <1>5, <2>1, EndWaitType DEF ResolveTakesEffect, Resolutions, CallStates
  <2>4. charge' \in [Calls -> Rows \cup {NoRow}] /\ ground' \in [Calls -> Grounds]
    <3>1. CASE UNCHANGED grantVars
      BY <3>1
    <3>2. CASE charge' = [charge EXCEPT ![c] = r] /\ ground' = [ground EXCEPT ![c] = "resume"]
      BY <3>2 DEF Grounds
    <3> QED BY <1>5, <3>1, <3>2 DEF ResolveTakesEffect
  <2> QED BY <1>5, <2>2, <2>3, <2>4 DEF ResolveTakesEffect
<1>6. CASE ResolveFails(r)
  BY <1>6, AnsweredType DEF ResolveFails, Outcomes
<1>7. CASE DecisionDies(r)
  <2>1. decision' \in [Rows -> Decision]
    BY <1>7 DEF DecisionDies, Over, Decision, DecisionStates, Outcomes
  <2> QED BY <1>7, <2>1 DEF DecisionDies
<1>8. CASE Age(r)
  BY <1>8, AgeRows DEF Age
<1> QED BY <1>1, <1>2, <1>3, <1>4, <1>5, <1>6, <1>7, <1>8 DEF RowStep, DecisionRoute

\* The hourly sweep keeps the types.
LEMMA SweepTypeOK == TypeOK /\ Sweep => TypeOK'
<1> SUFFICES ASSUME TypeOK, Sweep PROVE TypeOK'
  OBVIOUS
<1>1. ASSUME NEW b \in Bindings \cup {NoBinding}
      PROVE  [NewRow("none", b, NoCallId) EXCEPT !.age = "aged"] \in Row
  BY DEF NewRow, Row, Statuses, CallIds, Ages
<1>2. rows' \in [Rows -> Row]
  BY <1>1 DEF Sweep, TypeOK, Row, Statuses
<1>3. audit' \in [Rows -> [Events -> Nat]]
  BY DEF Sweep, TypeOK, Events
<1> QED BY <1>2, <1>3 DEF Sweep, TypeOK, gateVars, wireVars, decisionVars, grantVars

-----------------------------------------------------------------------------
(* What one step does to one row: it leaves it alone, settles it, decides it, *)
(* re-points it, links it, opens it or deletes it.                            *)

SameIds(q) == /\ rows'[q].binding = rows[q].binding
              /\ rows'[q].callId = rows[q].callId
              /\ rows'[q].approvalId = rows[q].approvalId

Left(q) == SameIds(q) /\ rows'[q].status = rows[q].status /\ verdict'[q] = verdict[q]

Settled(q) ==
    /\ SameIds(q) /\ verdict'[q] = verdict[q]
    /\ <<rows[q].status, rows'[q].status>> \in
         {<<"approved", "consumed">>, <<"pending", "consumed">>,
          <<"pending", "denied">>, <<"pending", "expired">>}

Decided(q) ==
    /\ SameIds(q) /\ verdict'[q] \in Verdicts
    /\ rows[q].status = "pending"
    /\ rows'[q].status = IF verdict'[q] = "approve" THEN "approved" ELSE "denied"

Repointed(q) ==
    /\ rows'[q].status = rows[q].status /\ rows'[q].binding = rows[q].binding
    /\ verdict'[q] = verdict[q] /\ rows'[q].approvalId = NoCall
    /\ \E c \in Calls : pc[c] = "repoint" /\ seen[c] = q /\ rows'[q].callId = IdOf[c]

Linked(q) ==
    /\ rows'[q].status = rows[q].status /\ rows'[q].binding = rows[q].binding
    /\ rows'[q].callId = rows[q].callId /\ verdict'[q] = verdict[q]
    /\ rows'[q].approvalId \in Calls /\ Names(rows'[q].approvalId, q)

OpenedNow(q) ==
    /\ q = nrows + 1 /\ nrows' = nrows + 1 /\ verdict'[q] = verdict[q]
    /\ \E c \in Calls : rows'[q] = NewRow("pending", BindingOf[c], IdOf[c])

Deleted(q) ==
    /\ rows'[q].binding = rows[q].binding /\ verdict'[q] = verdict[q]
    /\ rows'[q].status = "none" /\ rows'[q].callId = NoCallId /\ rows'[q].approvalId = NoCall

RowEffect(q) == \/ Left(q) \/ Settled(q) \/ Decided(q) \/ Repointed(q)
                \/ Linked(q) \/ OpenedNow(q) \/ Deleted(q)

\* A status write changes one row's status and no other field.
LEMMA StatusEffect ==
  ASSUME NEW t \in [Rows -> Row], NEW r \in Rows, NEW s, NEW q \in Rows
  PROVE  LET u == [t EXCEPT ![r].status = s] IN
           /\ u[q].binding = t[q].binding /\ u[q].callId = t[q].callId
           /\ u[q].approvalId = t[q].approvalId
           /\ u[q].status = IF q = r THEN s ELSE t[q].status
  BY DEF Row

\* A re-pointing changes the two ids of one row.
LEMMA RepointEffect ==
  ASSUME NEW t \in [Rows -> Row], NEW r \in Rows, NEW id, NEW q \in Rows
  PROVE  LET u == [t EXCEPT ![r].callId = id, ![r].approvalId = NoCall] IN
           /\ u[q].binding = t[q].binding /\ u[q].status = t[q].status
           /\ u[q].callId = IF q = r THEN id ELSE t[q].callId
           /\ u[q].approvalId = IF q = r THEN NoCall ELSE t[q].approvalId
  BY DEF Row

\* Time changes one row's age.
LEMMA AgeEffect ==
  ASSUME NEW t \in [Rows -> Row], NEW r \in Rows, NEW a, NEW q \in Rows
  PROVE  LET u == [t EXCEPT ![r].age = a] IN
           /\ u[q].binding = t[q].binding /\ u[q].callId = t[q].callId
           /\ u[q].approvalId = t[q].approvalId /\ u[q].status = t[q].status
  BY DEF Row

\* Spending a ticket touches one approved row of the call's binding.
LEMMA ConsumeEffect ==
  ASSUME TypeOK, NEW c \in Calls, GateConsume(c), NEW q \in Rows
  PROVE  Left(q) \/ Settled(q)
<1> PICK r \in Tickets(c) : rows' = [rows EXCEPT ![r].status = "consumed"]
  BY DEF GateConsume
<1>1. r \in Rows /\ rows[r].status = "approved"
  BY DEF Tickets
<1>2. rows \in [Rows -> Row]
  BY DEF TypeOK
<1>3. SameIds(q) /\ rows'[q].status = IF q = r THEN "consumed" ELSE rows[q].status
  BY <1>1, <1>2, StatusEffect DEF SameIds
<1>4. verdict'[q] = verdict[q]
  BY DEF GateConsume, decisionVars
<1> QED BY <1>1, <1>3, <1>4 DEF Left, Settled

\* GateRepoint touches the ids of the row its lookup saw.
LEMMA RepointRowEffect ==
  ASSUME TypeOK, NEW c \in Calls, GateRepoint(c), NEW q \in Rows
  PROVE  Left(q) \/ Repointed(q)
<1>1. rows \in [Rows -> Row] /\ seen[c] \in Rows \cup {NoRow}
  BY DEF TypeOK
<1>2. verdict'[q] = verdict[q] /\ pc[c] = "repoint"
  BY DEF GateRepoint, decisionVars
<1>3. CASE UNCHANGED rows
  BY <1>2, <1>3 DEF Left, SameIds
<1>4. CASE seen[c] \in Rows /\ rows' = [rows EXCEPT ![seen[c]].callId = IdOf[c], ![seen[c]].approvalId = NoCall]
  <2>1. /\ rows'[q].binding = rows[q].binding /\ rows'[q].status = rows[q].status
        /\ rows'[q].callId = IF q = seen[c] THEN IdOf[c] ELSE rows[q].callId
        /\ rows'[q].approvalId = IF q = seen[c] THEN NoCall ELSE rows[q].approvalId
    BY <1>1, <1>4, RepointEffect
  <2> QED BY <1>2, <2>1 DEF Left, SameIds, Repointed
<1>5. CASE seen[c] \notin Rows
  BY <1>1, <1>3, <1>5 DEF GateRepoint, NoRow
<1> QED BY <1>1, <1>3, <1>4, <1>5 DEF GateRepoint

\* GateInsert opens the first unused row number for the call's binding.
LEMMA InsertEffect ==
  ASSUME TypeOK, NEW c \in Calls, GateInsert(c), NEW q \in Rows
  PROVE  Left(q) \/ OpenedNow(q)
<1>1. rows \in [Rows -> Row] /\ verdict'[q] = verdict[q]
  BY DEF TypeOK, GateInsert, decisionVars
<1>2. rows'[q] = IF q = nrows + 1 THEN NewRow("pending", BindingOf[c], IdOf[c]) ELSE rows[q]
  BY <1>1 DEF GateInsert
<1> QED BY <1>1, <1>2 DEF Left, SameIds, OpenedNow, GateInsert

\* LinkApproval writes approval ids of rows the broadcast names, nothing else.
LEMMA LinkEffect ==
  ASSUME TypeOK, NEW c \in Calls, LinkApproval(c), NEW q \in Rows
  PROVE  Left(q) \/ Linked(q)
<1>1. rows \in [Rows -> Row] /\ verdict'[q] = verdict[q]
  BY DEF TypeOK, LinkApproval, decisionVars
<1>2. CASE rows'[q] = rows[q]
  BY <1>1, <1>2 DEF Left, SameIds
<1>3. CASE rows'[q] = [rows[q] EXCEPT !.approvalId = c] /\ Names(c, q)
  <2>1. rows[q] \in Row
    BY <1>1
  <2>2. /\ rows'[q].binding = rows[q].binding /\ rows'[q].status = rows[q].status
        /\ rows'[q].callId = rows[q].callId /\ rows'[q].approvalId = c
    BY <1>3, <2>1 DEF Row
  <2> QED BY <1>1, <1>3, <2>2 DEF Linked
<1> QED BY <1>2, <1>3 DEF LinkApproval

\* A report settles pending or approved rows, and never approves one.
LEMMA RecordEffect ==
  ASSUME TypeOK, NEW c \in Calls, NEW how \in Resolutions, RecordResolution(c, how), NEW q \in Rows
  PROVE  Left(q) \/ Settled(q)
<1>1. rows \in [Rows -> Row] /\ verdict'[q] = verdict[q]
  BY DEF TypeOK, RecordResolution, decisionVars
<1>2. CASE rows'[q] = rows[q]
  BY <1>1, <1>2 DEF Left, SameIds
<1>3. CASE rows'[q] = [rows[q] EXCEPT !.status = SettledAs(how)] /\ q \in SettledBy(c, how)
  <2>1. rows[q] \in Row
    BY <1>1
  <2>2. SameIds(q) /\ rows'[q].status = SettledAs(how)
    BY <1>3, <2>1 DEF Row, SameIds
  <2>3. rows[q].status \in IF Allows(how) THEN {"pending", "approved"} ELSE {"pending"}
    BY <1>3 DEF SettledBy
  <2> QED BY <1>1, <2>2, <2>3 DEF Settled, SettledAs
<1> QED BY <1>2, <1>3 DEF RecordResolution

\* Only the flip of a pending row records a verdict.
LEMMA FlipEffect ==
  ASSUME TypeOK, NEW r \in Rows, NEW v \in Verdicts, DecisionFlip(r, v), NEW q \in Rows
  PROVE  Left(q) \/ Decided(q)
<1>1. rows \in [Rows -> Row] /\ verdict \in [Rows -> Verdicts \cup {"none"}]
  BY DEF TypeOK
<1>2. CASE UNCHANGED <<rows, verdict>>
  BY <1>2 DEF Left, SameIds
<1>3. CASE rows[r].status = "pending"
  <2> DEFINE s == IF v = "approve" THEN "approved" ELSE "denied"
  <2>1. rows' = [rows EXCEPT ![r].status = s] /\ verdict' = [verdict EXCEPT ![r] = v]
    BY <1>3 DEF DecisionFlip
  <2> HIDE DEF s
  <2>2. SameIds(q) /\ rows'[q].status = IF q = r THEN s ELSE rows[q].status
    BY <1>1, <2>1, StatusEffect DEF SameIds
  <2>3. verdict'[q] = IF q = r THEN v ELSE verdict[q]
    BY <1>1, <2>1
  <2> QED BY <1>3, <2>2, <2>3 DEF Left, Decided, s
<1> QED BY <1>2, <1>3 DEF DecisionFlip

\* Age leaves statuses, bindings and ids alone.
LEMMA AgeRowEffect ==
  ASSUME TypeOK, NEW r \in Rows, Age(r), NEW q \in Rows
  PROVE  Left(q)
<1>1. rows \in [Rows -> Row] /\ verdict'[q] = verdict[q]
  BY DEF TypeOK, Age, decisionVars
<1>2. PICK a \in Ages : rows' = [rows EXCEPT ![r].age = a]
  BY DEF Age, Ages
<1> QED BY <1>1, <1>2, AgeEffect DEF Left, SameIds

\* The sweep expires or deletes; it approves nothing and re-binds nothing.
LEMMA SweepEffect ==
  ASSUME TypeOK, Sweep, NEW q \in Rows
  PROVE  Left(q) \/ Settled(q) \/ Deleted(q)
<1>1. rows[q] \in Row /\ verdict'[q] = verdict[q]
  BY DEF TypeOK, Sweep, decisionVars
<1>2. CASE rows'[q] = rows[q]
  BY <1>1, <1>2 DEF Left, SameIds
<1>3. CASE rows'[q] = [NewRow("none", rows[q].binding, NoCallId) EXCEPT !.age = "aged"]
  BY <1>1, <1>3 DEF Deleted, NewRow
<1>4. CASE rows'[q] = [rows[q] EXCEPT !.status = "expired"] /\ rows[q].status = "pending"
  <2>1. SameIds(q) /\ rows'[q].status = "expired"
    BY <1>1, <1>4 DEF Row, SameIds
  <2> QED BY <1>1, <1>4, <2>1 DEF Settled
<1> QED BY <1>2, <1>3, <1>4 DEF Sweep, Overdue

\* Every other action leaves the table alone.
LEMMA RowStepEffect ==
  ASSUME TypeOK, Next, NEW q \in Rows
  PROVE  RowEffect(q)
<1> USE DEF RowEffect
<1>1. CASE UNCHANGED <<rows, verdict>>
  BY <1>1 DEF Left, SameIds
<1>2. ASSUME NEW c \in Calls, GateCheck(c) PROVE RowEffect(q)
  <2> USE DEF decisionVars
  <2>1. CASE PolicyAllows(c)         BY <1>1, <2>1 DEF PolicyAllows
  <2>2. CASE RefuseUnattributable(c) BY <1>1, <2>2 DEF RefuseUnattributable
  <2>3. CASE GateConsume(c)          BY <2>3, ConsumeEffect
  <2>4. CASE GateMiss(c)             BY <1>1, <2>4 DEF GateMiss
  <2>5. CASE GateLookup(c)           BY <1>1, <2>5 DEF GateLookup
  <2>6. CASE GateRepoint(c)          BY <2>6, RepointRowEffect
  <2>7. CASE GateCount(c)            BY <1>1, <2>7 DEF GateCount
  <2>8. CASE GateInsert(c)           BY <2>8, InsertEffect
  <2> QED BY <1>2, <2>1, <2>2, <2>3, <2>4, <2>5, <2>6, <2>7, <2>8 DEF GateCheck
<1>3. ASSUME NEW c \in Calls, CallStep(c) PROVE RowEffect(q)
  <2> USE DEF decisionVars
  <2>1. CASE AnswerArrives(c)   BY <1>1, <2>1 DEF AnswerArrives
  <2>2. CASE AnswerLost(c)      BY <1>1, <2>2 DEF AnswerLost
  <2>3. CASE ParkTimeout(c)     BY <1>1, <2>3 DEF ParkTimeout
  <2>4. CASE RunCancelled(c)    BY <1>1, <2>4 DEF RunCancelled
  <2>5. CASE ForeignDecision(c) BY <1>1, <2>5 DEF ForeignDecision
  <2>6. CASE LinkApproval(c)    BY <2>6, LinkEffect
  <2>7. CASE BroadcastLost(c)   BY <1>1, <2>7 DEF BroadcastLost
  <2>8. ASSUME NEW how \in Resolutions, RecordResolution(c, how) PROVE RowEffect(q)
    BY <2>8, RecordEffect
  <2>9. ASSUME NEW how \in Resolutions, ReportLost(c, how) PROVE RowEffect(q)
    BY <1>1, <2>9 DEF ReportLost
  <2> QED BY <1>3, <2>1, <2>2, <2>3, <2>4, <2>5, <2>6, <2>7, <2>8, <2>9 DEF CallStep
<1>4. ASSUME NEW r \in Rows, RowStep(r) PROVE RowEffect(q)
  <2> USE DEF decisionVars
  <2>1. ASSUME NEW v \in Verdicts, DecisionRead(r, v) PROVE RowEffect(q)
    BY <1>1, <2>1 DEF DecisionRead
  <2>2. ASSUME NEW v \in Verdicts, DecisionFlip(r, v) PROVE RowEffect(q)
    BY <2>2, FlipEffect
  <2>3. CASE DecisionRoute(r)
    BY <1>1, <2>3 DEF DecisionRoute, LinkFound, LinkWaitEnds, ResolveTakesEffect, ResolveFails
  <2>4. CASE DecisionDies(r)    BY <1>1, <2>4 DEF DecisionDies
  <2>5. CASE Age(r)             BY <2>5, AgeRowEffect
  <2> QED BY <1>4, <2>1, <2>2, <2>3, <2>4, <2>5 DEF RowStep
<1>5. CASE Sweep
  BY <1>5, SweepEffect
<1> QED BY <1>2, <1>3, <1>4, <1>5 DEF Next

-----------------------------------------------------------------------------
(* What one step does to one decision. *)

\* The decision route captures the id the row names, or is over.
DecisionEffect(r) ==
    \/ decision'[r] = decision[r]
    \/ decision'[r].at # "resolving" /\ decision'[r].addr = NoCall
    \/ /\ decision'[r].addr = rows[r].approvalId
       /\ decision'[r].at = "resolving" => rows[r].approvalId # NoCall

\* Where a decision's address comes from: the row's approval id.
LEMMA AddrEffect ==
  ASSUME NEW d \in [Rows -> Decision], NEW r \in Rows, NEW a, NEW at, NEW q \in Rows
  PROVE  LET e == [d EXCEPT ![r].addr = a, ![r].at = at] IN
           IF q = r THEN e[q].addr = a /\ e[q].at = at ELSE e[q] = d[q]
  BY DEF Decision

\* An answered decision has no address.
LEMMA AnsweredEffect ==
  ASSUME TypeOK, NEW r \in Rows, NEW outcome, Answered(r, outcome), NEW q \in Rows
  PROVE  DecisionEffect(q)
  BY DEF TypeOK, Answered, Over, DecisionEffect

\* What a step may do to a decision's address.
LEMMA DecisionStepEffect ==
  ASSUME TypeOK, Next, NEW q \in Rows
  PROVE  DecisionEffect(q)
<1>1. CASE UNCHANGED decision
  BY <1>1 DEF DecisionEffect
<1>2. ASSUME NEW c \in Calls, GateCheck(c) PROVE DecisionEffect(q)
  BY <1>1, <1>2 DEF GateCheck, PolicyAllows, RefuseUnattributable, GateConsume, GateMiss,
     GateLookup, GateRepoint, GateCount, GateInsert, decisionVars
<1>3. ASSUME NEW c \in Calls, CallStep(c) PROVE DecisionEffect(q)
  BY <1>1, <1>3 DEF CallStep, AnswerArrives, AnswerLost, ParkTimeout, RunCancelled,
     ForeignDecision, LinkApproval, BroadcastLost, RecordResolution, ReportLost, decisionVars
<1>4. ASSUME NEW r \in Rows, RowStep(r) PROVE DecisionEffect(q)
  <2>0. decision \in [Rows -> Decision]
    BY DEF TypeOK
  <2>1. ASSUME NEW v \in Verdicts, DecisionRead(r, v) PROVE DecisionEffect(q)
    BY <1>1, <2>1 DEF DecisionRead
  <2>2. ASSUME NEW v \in Verdicts, DecisionFlip(r, v) PROVE DecisionEffect(q)
    <3> DEFINE at == IF rows[r].approvalId = NoCall THEN "waiting" ELSE "resolving"
    <3>1. CASE decision' = [decision EXCEPT ![r].addr = rows[r].approvalId, ![r].at = at]
      <4>1. at = "resolving" => rows[r].approvalId # NoCall
        OBVIOUS
      <4> HIDE DEF at
      <4> QED BY <2>0, <3>1, <4>1, AddrEffect DEF DecisionEffect
    <3> QED BY <1>1, <2>2, <3>1 DEF DecisionFlip
  <2>3. CASE LinkFound(r)
    <3>1. /\ decision' = [decision EXCEPT ![r].addr = rows[r].approvalId, ![r].at = "resolving"]
          /\ rows[r].approvalId # NoCall
      BY <2>3 DEF LinkFound
    <3> QED BY <2>0, <3>1, AddrEffect DEF DecisionEffect
  <2>4. CASE LinkWaitEnds(r)
    BY <2>4, AnsweredEffect DEF LinkWaitEnds
  <2>5. CASE ResolveTakesEffect(r)
    BY <2>5, AnsweredEffect DEF ResolveTakesEffect
  <2>6. CASE ResolveFails(r)
    BY <2>6, AnsweredEffect DEF ResolveFails
  <2>7. CASE DecisionDies(r)
    BY <2>0, <2>7 DEF DecisionDies, Over, DecisionEffect
  <2>8. CASE Age(r)
    BY <1>1, <2>8 DEF Age, decisionVars
  <2> QED BY <1>4, <2>1, <2>2, <2>3, <2>4, <2>5, <2>6, <2>7, <2>8 DEF RowStep, DecisionRoute
<1>5. CASE Sweep
  BY <1>1, <1>5 DEF Sweep, decisionVars
<1> QED BY <1>2, <1>3, <1>4, <1>5 DEF Next

\* A decision enters delivery with an address and keeps it until it is answered.
LEMMA AddressKnownStep == TypeOK /\ AddressKnown /\ Next => AddressKnown'
  BY DecisionStepEffect DEF DecisionEffect, AddressKnown

\* Every step keeps the types.
LEMMA NextTypeOK == TypeOK /\ AddressKnown /\ Next => TypeOK'
<1> SUFFICES ASSUME TypeOK, AddressKnown, Next PROVE TypeOK'
  OBVIOUS
<1>1. \A r \in Rows : decision[r].at = "resolving" => decision[r].addr \in Calls
  BY DEF TypeOK, AddressKnown, Decision
<1> QED BY <1>1, GateCheckTypeOK, CallStepTypeOK, RowStepTypeOK, SweepTypeOK DEF Next

\* Every variable keeps its type: among others, a decision that is being
\* delivered always addresses a real call, so the resolve of
\* resolvePluginApproval changes a call of the run and nothing else.
THEOREM TypeCorrect == Spec => [](TypeOK /\ AddressKnown)
<1>1. Init => TypeOK /\ AddressKnown
  BY InitTypeOK DEF Init, AddressKnown
<1>2. TypeOK /\ AddressKnown /\ [Next]_vars => TypeOK' /\ AddressKnown'
  <2>1. TypeOK /\ AddressKnown /\ UNCHANGED vars => TypeOK' /\ AddressKnown'
    BY DEF vars, TypeOK, AddressKnown, gateVars, wireVars, decisionVars, grantVars
  <2> QED BY <2>1, NextTypeOK, AddressKnownStep
<1> QED BY <1>1, <1>2, PTL DEF Spec

-----------------------------------------------------------------------------
(* What one step does to a gate-check's reading and to a grant. *)

\* A gate-check that is about to re-point has just found its row, or had.
SeenEffect(c) ==
    pc'[c] = "repoint" =>
        \/ pc[c] = "repoint" /\ seen'[c] = seen[c]
        \/ seen'[c] \in Waiting(c) /\ rows[seen'[c]].binding = BindingOf[c]

\* A call is charged to a ticket of its binding, or to the decision that resumed it.
ChargeEffect(c) ==
    \/ charge'[c] = charge[c]
    \/ charge'[c] \in Tickets(c)
    \/ /\ charge'[c] \in Rows
       /\ verdict[charge'[c]] = "approve"
       /\ decision[charge'[c]].addr = c

\* A call is let run by the policy, by another surface, or by a charge.
MayRunEffect(c) ==
    pc'[c] \in {"allowed", "running"} =>
        \/ /\ pc[c] \in {"allowed", "running"}
           /\ ground'[c] = ground[c] /\ charge'[c] = charge[c]
        \/ BindingOf[c] \notin Gated
        \/ ground'[c] = "foreign"
        \/ charge'[c] \in Rows

CallEffect(c) == SeenEffect(c) /\ ChargeEffect(c) /\ MayRunEffect(c)

\* What a step may do to a call, to its charge and to the row it is charged to.
LEMMA CallStepEffect ==
  ASSUME TypeOK, AddressKnown, Next, NEW d \in Calls
  PROVE  CallEffect(d)
<1>0. /\ pc \in [Calls -> CallStates]
      /\ seen \in [Calls -> Rows \cup {NoRow}]
      /\ charge \in [Calls -> Rows \cup {NoRow}]
      /\ ground \in [Calls -> Grounds]
  BY DEF TypeOK
<1> USE DEF CallEffect, SeenEffect, ChargeEffect, MayRunEffect
<1>1. CASE UNCHANGED <<pc, seen, charge, ground>>
  BY <1>1
<1>2. ASSUME NEW c \in Calls, NEW next \in CallStates \ {"repoint", "allowed", "running"},
             pc' = [pc EXCEPT ![c] = next], seen'[d] = seen[d] \/ c = d,
             UNCHANGED <<charge, ground>>
      PROVE  CallEffect(d)
  BY <1>0, <1>2
<1>3. ASSUME NEW c \in Calls, GateCheck(c) PROVE CallEffect(d)
  <2> USE <1>0 DEF grantVars
  <2>1. CASE PolicyAllows(c)
    BY <2>1 DEF PolicyAllows, gateVars
  <2>2. CASE RefuseUnattributable(c)
    BY <1>2, <2>2 DEF RefuseUnattributable, gateVars, CallStates
  <2>3. CASE GateConsume(c)
    <3>1. PICK r \in Tickets(c) : charge' = [charge EXCEPT ![c] = r]
      BY <2>3 DEF GateConsume
    <3>2. r \in Rows
      BY DEF Tickets
    <3> QED BY <2>3, <3>1, <3>2 DEF GateConsume, gateVars
  <2>4. CASE GateMiss(c)
    BY <1>2, <2>4 DEF GateMiss, CallStates
  <2>5. CASE GateLookup(c)
    <3>1. CASE Ends(c, "prompted")
      BY <1>2, <2>5, <3>1 DEF GateLookup, Ends, CallStates
    <3>2. ASSUME NEW r \in Waiting(c), rows[r].binding = BindingOf[c], GoesOn(c, "repoint"),
                 seen' = [seen EXCEPT ![c] = r]
          PROVE  CallEffect(d)
      BY <2>5, <3>2 DEF GateLookup, GoesOn
    <3>3. CASE GoesOn(c, "count") /\ UNCHANGED gateVars
      BY <1>2, <2>5, <3>3 DEF GateLookup, GoesOn, gateVars, CallStates
    <3> QED BY <2>5, <3>1, <3>2, <3>3 DEF GateLookup
  <2>6. CASE GateRepoint(c)
    BY <1>2, <2>6 DEF GateRepoint, Ends, CallStates
  <2>7. CASE GateCount(c)
    <3>1. CASE Ends(c, "blocked")
      BY <1>2, <2>7, <3>1 DEF GateCount, Ends, CallStates
    <3>2. CASE GoesOn(c, "insert") /\ UNCHANGED gateVars
      BY <1>2, <2>7, <3>2 DEF GateCount, GoesOn, gateVars, CallStates
    <3> QED BY <2>7, <3>1, <3>2 DEF GateCount
  <2>8. CASE GateInsert(c)
    BY <1>2, <2>8 DEF GateInsert, Ends, CallStates
  <2> QED BY <1>3, <2>1, <2>2, <2>3, <2>4, <2>5, <2>6, <2>7, <2>8 DEF GateCheck
<1>4. ASSUME NEW c \in Calls, CallStep(c) PROVE CallEffect(d)
  <2> USE <1>0 DEF grantVars, gateVars
  <2>1. CASE AnswerArrives(c)
    <3>1. CASE pc[c] = "allowed"
      BY <2>1, <3>1 DEF AnswerArrives
    <3>2. CASE pc[c] = "prompted"
      BY <1>2, <2>1, <3>2 DEF AnswerArrives, CallStates
    <3> QED BY <2>1, <3>1, <3>2 DEF AnswerArrives
  <2>2. CASE AnswerLost(c)
    BY <1>2, <2>2 DEF AnswerLost, Ends, CallStates
  <2>3. CASE ParkTimeout(c)
    BY <1>2, <2>3 DEF ParkTimeout, EndWait, CallStates
  <2>4. CASE RunCancelled(c)
    BY <1>2, <2>4 DEF RunCancelled, EndWait, CallStates
  <2>5. CASE ForeignDecision(c)
    <3>1. CASE EndWait(c, "allow-once", "running") /\ ground' = [ground EXCEPT ![c] = "foreign"]
      BY <2>5, <3>1 DEF ForeignDecision, EndWait
    <3>2. CASE EndWait(c, "deny", "blocked") /\ UNCHANGED ground
      BY <1>2, <2>5, <3>2 DEF ForeignDecision, EndWait, CallStates
    <3> QED BY <2>5, <3>1, <3>2 DEF ForeignDecision
  <2>6. CASE LinkApproval(c)
    BY <1>1, <2>6 DEF LinkApproval
  <2>7. CASE BroadcastLost(c)
    BY <1>1, <2>7 DEF BroadcastLost
  <2>8. ASSUME NEW how \in Resolutions, RecordResolution(c, how) \/ ReportLost(c, how)
        PROVE  CallEffect(d)
    BY <1>1, <2>8 DEF RecordResolution, ReportLost
  <2> QED BY <1>4, <2>1, <2>2, <2>3, <2>4, <2>5, <2>6, <2>7, <2>8 DEF CallStep
<1>5. ASSUME NEW r \in Rows, RowStep(r) PROVE CallEffect(d)
  <2> USE DEF grantVars, gateVars
  <2>1. CASE ResolveTakesEffect(r)
    <3> DEFINE c == decision[r].addr
    <3>1. c \in Calls
      BY <2>1 DEF TypeOK, AddressKnown, Decision, ResolveTakesEffect
    <3>2. CASE /\ verdict[r] = "approve" /\ EndWait(c, "allow-once", "running")
               /\ charge' = [charge EXCEPT ![c] = r]
               /\ ground' = [ground EXCEPT ![c] = "resume"]
      BY <1>0, <2>1, <3>1, <3>2 DEF ResolveTakesEffect, EndWait
    <3>3. CASE EndWait(c, "deny", "blocked") /\ UNCHANGED grantVars
      BY <1>2, <2>1, <3>1, <3>3 DEF ResolveTakesEffect, EndWait, CallStates
    <3> QED BY <2>1, <3>2, <3>3 DEF ResolveTakesEffect
  <2>2. CASE ~ResolveTakesEffect(r)
    BY <1>1, <1>5, <2>2 DEF RowStep, DecisionRoute, DecisionRead, DecisionFlip, LinkFound,
       LinkWaitEnds, ResolveFails, DecisionDies, Age
  <2> QED BY <2>1, <2>2
<1>6. CASE Sweep
  BY <1>1, <1>6 DEF Sweep, gateVars, grantVars
<1> QED BY <1>3, <1>4, <1>5, <1>6 DEF Next

\* Row numbers are handed out in order and never taken back.
LEMMA RowCountEffect ==
  ASSUME Next
  PROVE  nrows' = nrows \/ nrows' = nrows + 1
<1>1. ASSUME NEW c \in Calls, GateCheck(c) PROVE nrows' = nrows \/ nrows' = nrows + 1
  BY <1>1 DEF GateCheck, PolicyAllows, RefuseUnattributable, GateConsume, GateMiss, GateLookup,
     GateRepoint, GateCount, GateInsert
<1>2. ASSUME NEW c \in Calls, CallStep(c) PROVE nrows' = nrows
  BY <1>2 DEF CallStep, AnswerArrives, AnswerLost, ParkTimeout, RunCancelled,
     ForeignDecision, LinkApproval, BroadcastLost, RecordResolution, ReportLost
<1>3. ASSUME NEW r \in Rows, RowStep(r) PROVE nrows' = nrows
  BY <1>3 DEF RowStep, DecisionRoute, DecisionRead, DecisionFlip, LinkFound, LinkWaitEnds,
     ResolveTakesEffect, ResolveFails, DecisionDies, Age
<1>4. CASE Sweep
  BY <1>4 DEF Sweep
<1> QED BY <1>1, <1>2, <1>3, <1>4 DEF Next

-----------------------------------------------------------------------------
(* The inductive invariant: every id stays with the binding it was issued for. *)

\* A confirmation's binding never changes, and an approval is never taken back.
LEMMA BindingKept ==
  ASSUME TypeOK, StatusFitsVerdict, Next, NEW r \in Rows, r \in 1..nrows
  PROVE  /\ rows'[r].binding = rows[r].binding
         /\ verdict[r] = "approve" => verdict'[r] = "approve"
         /\ r \in 1..nrows'
<1>1. RowEffect(r) /\ ~OpenedNow(r)
  BY RowStepEffect DEF OpenedNow, TypeOK
<1>2. r \in 1..nrows'
  BY RowCountEffect DEF TypeOK
<1> QED BY <1>1, <1>2 DEF RowEffect, Left, Settled, Decided, Repointed, Linked, Deleted, SameIds,
        StatusFitsVerdict

\* A row number not handed out yet stays clean.
LEMMA UnusedRowsCleanStep ==
  ASSUME TypeOK, UnusedRowsClean, SeenBound, Next
  PROVE  UnusedRowsClean'
<1> SUFFICES ASSUME NEW r \in Rows, r > nrows'
             PROVE  /\ rows'[r].status = "none" /\ rows'[r].approvalId = NoCall
                    /\ rows'[r].callId = NoCallId /\ verdict'[r] = "none"
                    /\ decision'[r].addr = NoCall
  BY DEF UnusedRowsClean
<1>1. r > nrows
  BY RowCountEffect DEF TypeOK, Rows
<1>2. /\ rows[r].status = "none" /\ rows[r].approvalId = NoCall
      /\ rows[r].callId = NoCallId /\ verdict[r] = "none"
      /\ decision[r].addr = NoCall
  BY <1>1 DEF UnusedRowsClean
<1>3. decision'[r].addr = NoCall
  BY <1>2, DecisionStepEffect DEF DecisionEffect
<1>4. ~OpenedNow(r)
  BY DEF OpenedNow, TypeOK, Rows
<1>5. ~Repointed(r)
  BY <1>1 DEF Repointed, SeenBound, TypeOK, Rows
<1>6. ~Linked(r)
  BY <1>2 DEF Linked, Names
<1> QED BY <1>2, <1>3, <1>4, <1>5, <1>6, RowStepEffect DEF RowEffect, Left, Settled, Decided, Deleted, SameIds

\* A row is approved only by its requester's approval, and only while pending.
LEMMA StatusFitsVerdictStep ==
  ASSUME TypeOK, UnusedRowsClean, StatusFitsVerdict, Next
  PROVE  StatusFitsVerdict'
<1> SUFFICES ASSUME NEW r \in Rows
             PROVE  /\ rows'[r].status = "pending" => verdict'[r] = "none"
                    /\ rows'[r].status = "approved" => verdict'[r] = "approve"
  BY DEF StatusFitsVerdict
<1>1. CASE OpenedNow(r)
  <2>1. verdict[r] = "none"
    BY <1>1 DEF OpenedNow, UnusedRowsClean, TypeOK
  <2> QED BY <1>1, <2>1 DEF OpenedNow, NewRow
<1>2. CASE ~OpenedNow(r)
  BY <1>2, RowStepEffect DEF RowEffect, Left, Settled, Decided, Repointed, Linked, Deleted,
     StatusFitsVerdict, Verdicts
<1> QED BY <1>1, <1>2

\* The bridge links a row to a call of its binding: the tool call id of the row
\* is one of its binding's calls, and a broadcast that names it is another's
\* only if the two are attempts at one action.
LEMMA LinkedBound ==
  ASSUME IdsTellBindingsApart, RowIdsBound, NEW r \in Rows, NEW c \in Calls, Names(c, r)
  PROVE  BindingOf[c] = rows[r].binding
<1>1. PICK d \in Calls : IdOf[d] = rows[r].callId /\ BindingOf[d] = rows[r].binding
  BY DEF RowIdsBound, Names
<1> QED BY <1>1 DEF IdsTellBindingsApart, Confusable, Names

\* Linking and re-pointing write only ids of calls with the row's binding.
LEMMA RowIdsBoundStep ==
  ASSUME IdsTellBindingsApart, TypeOK, StatusFitsVerdict, RowIdsBound, SeenBound, Next
  PROVE  RowIdsBound'
<1> SUFFICES ASSUME NEW r \in Rows
             PROVE  /\ rows'[r].callId # NoCallId =>
                         \E d \in Calls : IdOf[d] = rows'[r].callId /\ BindingOf[d] = rows'[r].binding
                    /\ rows'[r].approvalId # NoCall =>
                         BindingOf[rows'[r].approvalId] = rows'[r].binding
  BY DEF RowIdsBound
<1>1. CASE Left(r) \/ Settled(r) \/ Decided(r)
  BY <1>1 DEF Left, Settled, Decided, SameIds, RowIdsBound
<1>2. CASE Repointed(r)
  BY <1>2 DEF Repointed, SeenBound
<1>3. CASE Linked(r)
  BY <1>3, LinkedBound DEF Linked, RowIdsBound
<1>4. CASE OpenedNow(r)
  BY <1>4 DEF OpenedNow, NewRow
<1>5. CASE Deleted(r)
  BY <1>5 DEF Deleted
<1> QED BY <1>1, <1>2, <1>3, <1>4, <1>5, RowStepEffect DEF RowEffect

\* A row seen by a lookup keeps its binding until it is re-pointed.
LEMMA SeenBoundStep ==
  ASSUME TypeOK, AddressKnown, UnusedRowsClean, StatusFitsVerdict, SeenBound, Next
  PROVE  SeenBound'
<1> SUFFICES ASSUME NEW c \in Calls, pc'[c] = "repoint"
             PROVE  seen'[c] \in 1..nrows' /\ rows'[seen'[c]].binding = BindingOf[c]
  BY DEF SeenBound
<1> DEFINE r == seen'[c]
<1>1. SeenEffect(c)
  BY CallStepEffect DEF CallEffect
<1>2. r \in Rows /\ r \in 1..nrows /\ rows[r].binding = BindingOf[c]
  <2>1. CASE pc[c] = "repoint" /\ seen'[c] = seen[c]
    BY <2>1, ConstantsAssumption DEF SeenBound, TypeOK, Rows, ConstantsAssumption
  <2>2. CASE r \in Waiting(c) /\ rows[r].binding = BindingOf[c]
    <3>1. r \in Rows /\ rows[r].status = "pending"
      BY <2>2 DEF Waiting
    <3> QED BY <2>2, <3>1 DEF UnusedRowsClean, TypeOK, Rows
  <2> QED BY <1>1, <2>1, <2>2 DEF SeenEffect
<1> HIDE DEF r
<1>3. r \in 1..nrows' /\ rows'[r].binding = BindingOf[c]
  BY <1>2, BindingKept
<1> QED BY <1>3 DEF r

\* A decision takes its address from a row that names calls of its binding only.
LEMMA DecisionBoundStep ==
  ASSUME TypeOK, UnusedRowsClean, StatusFitsVerdict, RowIdsBound, DecisionBound, Next
  PROVE  DecisionBound'
<1> SUFFICES ASSUME NEW r \in Rows, decision'[r].addr # NoCall
             PROVE  BindingOf[decision'[r].addr] = rows'[r].binding
  BY DEF DecisionBound
<1>1. \/ decision[r].addr # NoCall /\ decision'[r].addr = decision[r].addr
      \/ rows[r].approvalId # NoCall /\ decision'[r].addr = rows[r].approvalId
  BY DecisionStepEffect DEF DecisionEffect
<1>2. BindingOf[decision'[r].addr] = rows[r].binding
  BY <1>1 DEF DecisionBound, RowIdsBound
<1>3. r \in 1..nrows
  BY <1>1 DEF UnusedRowsClean, TypeOK, Rows
<1> QED BY <1>2, <1>3, BindingKept

\* A call is charged to an approved row of its binding, and the row stays one.
LEMMA ChargeBoundStep ==
  ASSUME TypeOK, AddressKnown, UnusedRowsClean, StatusFitsVerdict, DecisionBound, ChargeBound, Next
  PROVE  ChargeBound'
<1> SUFFICES ASSUME NEW c \in Calls
             PROVE  /\ charge'[c] # NoRow => /\ charge'[c] \in 1..nrows'
                                            /\ verdict'[charge'[c]] = "approve"
                                            /\ rows'[charge'[c]].binding = BindingOf[c]
                    /\ (/\ pc'[c] \in {"allowed", "running"}
                        /\ BindingOf[c] \in Gated /\ ground'[c] # "foreign")
                         => charge'[c] # NoRow
  BY DEF ChargeBound
<1>0. ChargeEffect(c) /\ MayRunEffect(c)
  BY CallStepEffect DEF CallEffect
<1>1. ASSUME charge'[c] # NoRow
      PROVE  /\ charge'[c] \in 1..nrows'
             /\ verdict'[charge'[c]] = "approve"
             /\ rows'[charge'[c]].binding = BindingOf[c]
  <2> DEFINE r == charge'[c]
  <2>1. r \in Rows /\ r \in 1..nrows /\ verdict[r] = "approve" /\ rows[r].binding = BindingOf[c]
    <3>1. CASE charge'[c] = charge[c]
      BY <1>1, <3>1 DEF ChargeBound, TypeOK, Rows
    <3>2. CASE r \in Tickets(c)
      <4>1. r \in Rows /\ rows[r].status = "approved" /\ rows[r].binding = BindingOf[c]
        BY <3>2 DEF Tickets
      <4> QED BY <4>1 DEF UnusedRowsClean, StatusFitsVerdict, TypeOK, Rows
    <3>3. CASE r \in Rows /\ verdict[r] = "approve" /\ decision[r].addr = c
      <4>1. c # NoCall
        BY ConstantsAssumption DEF ConstantsAssumption
      <4> QED BY <3>3, <4>1 DEF UnusedRowsClean, DecisionBound, TypeOK, Rows
    <3> QED BY <1>0, <3>1, <3>2, <3>3 DEF ChargeEffect
  <2> HIDE DEF r
  <2>2. r \in 1..nrows' /\ verdict'[r] = "approve" /\ rows'[r].binding = BindingOf[c]
    BY <2>1, BindingKept
  <2> QED BY <2>2 DEF r
<1>2. ASSUME pc'[c] \in {"allowed", "running"}, BindingOf[c] \in Gated, ground'[c] # "foreign"
      PROVE  charge'[c] # NoRow
  <2>1. CASE charge'[c] \in Rows
    BY <2>1 DEF NoRow, Rows
  <2>2. CASE pc[c] \in {"allowed", "running"} /\ ground'[c] = ground[c] /\ charge'[c] = charge[c]
    BY <1>2, <2>2 DEF ChargeBound
  <2> QED BY <1>0, <1>2, <2>1, <2>2 DEF MayRunEffect
<1> QED BY <1>1, <1>2

\* Where no two different actions can be confused by tool call id and session,
\* BindingsTravelTogether is inductive.
LEMMA BindingsInvariant ==
  ASSUME IdsTellBindingsApart
  PROVE  Spec => [](TypeOK /\ BindingsTravelTogether)
<1> DEFINE IInv == TypeOK /\ BindingsTravelTogether
<1> USE DEF BindingsTravelTogether
<1>1. Init => IInv
  <2> SUFFICES ASSUME Init PROVE BindingsTravelTogether
    BY InitTypeOK
  <2>1. \A r \in Rows : /\ rows[r] = NewRow("none", NoBinding, NoCallId)
                       /\ verdict[r] = "none"
                       /\ decision[r] = [at |-> "idle", addr |-> NoCall, outcome |-> "none"]
    BY DEF Init
  <2>2. UnusedRowsClean /\ StatusFitsVerdict /\ RowIdsBound
    BY <2>1 DEF UnusedRowsClean, StatusFitsVerdict, RowIdsBound, NewRow
  <2>3. AddressKnown /\ DecisionBound
    BY <2>1 DEF AddressKnown, DecisionBound
  <2>4. SeenBound /\ ChargeBound
    BY DEF Init, SeenBound, ChargeBound
  <2> QED BY <2>2, <2>3, <2>4
<1>2. IInv /\ Next => IInv'
  BY NextTypeOK, AddressKnownStep, UnusedRowsCleanStep, StatusFitsVerdictStep, RowIdsBoundStep,
     SeenBoundStep, DecisionBoundStep, ChargeBoundStep
<1>3. IInv /\ UNCHANGED vars => IInv'
  BY DEF vars, gateVars, wireVars, decisionVars, grantVars, TypeOK, UnusedRowsClean,
     StatusFitsVerdict, RowIdsBound, SeenBound, AddressKnown, DecisionBound, ChargeBound
<1> HIDE DEF IInv
<1>4. IInv /\ [Next]_vars => IInv'
  BY <1>2, <1>3
<1>5. Spec => []IInv
  BY <1>1, <1>4, PTL DEF Spec
<1> QED BY <1>5 DEF IInv

\* A gated call runs only on a confirmation of its own binding that its
\* requester approved, for any number of calls, rows, overlapping gate-checks
\* and requests, and under every fault of the model: lost answers, broadcasts
\* and reports, an unreachable gateway, a crash, a cancelled run.
THEOREM ApprovedRuns ==
  ASSUME IdsTellBindingsApart
  PROVE  Spec => []RunsAreApproved
<1>1. TypeOK /\ BindingsTravelTogether => RunsAreApproved
  BY DEF TypeOK, BindingsTravelTogether, ChargeBound, RunsAreApproved, Ran
<1> QED BY <1>1, BindingsInvariant, PTL

-----------------------------------------------------------------------------
(* The table implements the life cycle of a confirmation. *)

\* What a status moves by: a life-cycle step, or nothing.
LEMMA RowFollowsLifecycle ==
  ASSUME TypeOK, UnusedRowsClean, StatusFitsVerdict, Next, NEW r \in Rows, ~Decided(r)
  PROVE  /\ verdict'[r] = verdict[r]
         /\ \/ rows'[r].status = rows[r].status
            \/ <<rows[r].status, rows'[r].status>> \in Lifecycle!Moves
         /\ rows'[r].status = "approved" => rows[r].status = "approved"
         /\ rows'[r].status = "pending" => verdict[r] = "none"
<1> USE DEF Lifecycle!Moves
<1>1. CASE Left(r) \/ Repointed(r) \/ Linked(r)
  BY <1>1 DEF Left, Repointed, Linked, StatusFitsVerdict
<1>2. CASE Settled(r)
  BY <1>2 DEF Settled
<1>3. CASE OpenedNow(r)
  <2>1. rows[r].status = "none" /\ verdict[r] = "none"
    BY <1>3 DEF OpenedNow, UnusedRowsClean, TypeOK
  <2> QED BY <1>3, <2>1 DEF OpenedNow, NewRow
<1>4. CASE Deleted(r)
  <2>1. rows[r].status \in Statuses
    BY DEF TypeOK, Row
  <2> QED BY <1>4, <2>1 DEF Deleted, Statuses
<1> QED BY <1>1, <1>2, <1>3, <1>4, RowStepEffect DEF RowEffect

\* Only the flip of a pending row writes a verdict.
LEMMA VerdictWriter ==
  ASSUME Next, verdict' # verdict
  PROVE  \E r \in Rows, v \in Verdicts : DecisionFlip(r, v) /\ rows[r].status = "pending"
<1>1. ASSUME NEW c \in Calls, GateCheck(c) PROVE FALSE
  BY <1>1 DEF GateCheck, PolicyAllows, RefuseUnattributable, GateConsume, GateMiss, GateLookup,
     GateRepoint, GateCount, GateInsert, decisionVars
<1>2. ASSUME NEW c \in Calls, CallStep(c) PROVE FALSE
  BY <1>2 DEF CallStep, AnswerArrives, AnswerLost, ParkTimeout, RunCancelled,
     ForeignDecision, LinkApproval, BroadcastLost, RecordResolution, ReportLost, decisionVars
<1>3. ASSUME NEW r \in Rows, RowStep(r)
      PROVE  \E v \in Verdicts : DecisionFlip(r, v) /\ rows[r].status = "pending"
  <2>1. ~DecisionRoute(r) /\ ~DecisionDies(r) /\ ~Age(r)
    BY DEF DecisionRoute, LinkFound, LinkWaitEnds, ResolveTakesEffect, ResolveFails,
       DecisionDies, Age, decisionVars
  <2>2. \A v \in Verdicts : ~DecisionRead(r, v)
    BY DEF DecisionRead
  <2>3. PICK v \in Verdicts : DecisionFlip(r, v)
    BY <1>3, <2>1, <2>2 DEF RowStep
  <2> QED BY <2>3 DEF DecisionFlip
<1>4. ~Sweep
  BY DEF Sweep, decisionVars
<1> QED BY <1>1, <1>2, <1>3, <1>4 DEF Next

\* The flip of a pending row is the life cycle's Decide.
LEMMA FlipDecides ==
  ASSUME TypeOK, StatusFitsVerdict, NEW r \in Rows, NEW v \in Verdicts,
         DecisionFlip(r, v), rows[r].status = "pending"
  PROVE  Lifecycle!Decide(r)
<1> DEFINE s == IF v = "approve" THEN "approved" ELSE "denied"
           st == [q \in Rows |-> rows[q].status]
<1>1. rows' = [rows EXCEPT ![r].status = s] /\ verdict' = [verdict EXCEPT ![r] = v]
  BY DEF DecisionFlip
<1>2. rows \in [Rows -> Row] /\ verdict[r] = "none"
  BY DEF TypeOK, StatusFitsVerdict
<1>3. st' = [st EXCEPT ![r] = s]
  <2> HIDE DEF s
  <2>1. \A q \in Rows : rows'[q].status = IF q = r THEN s ELSE rows[q].status
    BY <1>1, <1>2, StatusEffect
  <2> QED BY <2>1
<1> QED BY <1>1, <1>2, <1>3 DEF Lifecycle!Decide, Verdicts

\* Every step is a life-cycle step of the confirmations, or a stutter.
LEMMA StepFollowsLifecycle ==
  ASSUME TypeOK, UnusedRowsClean, StatusFitsVerdict, Next, TypeOK'
  PROVE  Lifecycle!Next
<1>1. CASE verdict' # verdict
  BY <1>1, VerdictWriter, FlipDecides DEF Lifecycle!Next
<1>2. CASE verdict' = verdict
  <2>1. \A r \in Rows : ~Decided(r)
    BY <1>2 DEF Decided, StatusFitsVerdict, Verdicts
  <2>2. \A r \in Rows : rows'[r].status \in Lifecycle!Statuses
    BY DEF TypeOK, Row, Statuses, Lifecycle!Statuses
  <2>3. Lifecycle!Settle
    BY <1>2, <2>1, <2>2, RowFollowsLifecycle DEF Lifecycle!Settle
  <2> QED BY <2>3 DEF Lifecycle!Next
<1> QED BY <1>1, <1>2

\* Whoever writes to tool_approval and in whatever order -- the gate, the bridge,
\* the decision route, the reports, the sweep -- every row follows the life cycle
\* of a confirmation: opened once, decided once and only while pending, never
\* granted by anyone but its requester, never taken back.  No assumption on the
\* tool call ids is needed.
THEOREM TableFollowsLifecycle == Spec => FollowsLifecycle
<1> DEFINE IInv == /\ TypeOK /\ AddressKnown /\ UnusedRowsClean
                   /\ StatusFitsVerdict /\ SeenBound
<1>1. Init => IInv /\ Lifecycle!Init
  <2> SUFFICES ASSUME Init PROVE IInv /\ Lifecycle!Init
    OBVIOUS
  <2>1. \A r \in Rows : /\ rows[r] = NewRow("none", NoBinding, NoCallId)
                       /\ verdict[r] = "none"
                       /\ decision[r] = [at |-> "idle", addr |-> NoCall, outcome |-> "none"]
    BY DEF Init
  <2>2. UnusedRowsClean /\ StatusFitsVerdict /\ AddressKnown
    BY <2>1 DEF UnusedRowsClean, StatusFitsVerdict, AddressKnown, NewRow
  <2>3. SeenBound
    BY DEF Init, SeenBound
  <2>4. Lifecycle!Init
    BY <2>1 DEF Lifecycle!Init, Init, NewRow
  <2> QED BY <2>2, <2>3, <2>4, InitTypeOK
<1>2. IInv /\ Next => IInv' /\ Lifecycle!Next
  BY NextTypeOK, AddressKnownStep, UnusedRowsCleanStep, StatusFitsVerdictStep, SeenBoundStep,
     StepFollowsLifecycle
<1>3. IInv /\ UNCHANGED vars => IInv' /\ UNCHANGED <<[r \in Rows |-> rows[r].status], verdict>>
  BY DEF vars, gateVars, wireVars, decisionVars, grantVars, TypeOK, UnusedRowsClean,
     StatusFitsVerdict, SeenBound, AddressKnown
<1> HIDE DEF IInv
<1>4. IInv /\ [Next]_vars =>
        IInv' /\ [Lifecycle!Next]_<<[r \in Rows |-> rows[r].status], verdict>>
  BY <1>2, <1>3
<1> QED BY <1>1, <1>4, PTL DEF Spec, FollowsLifecycle, Lifecycle!Spec

-----------------------------------------------------------------------------
(* What the gate counts: a confirmation's audit events and grants, and the   *)
(* confirmations that wait for one requester.                                *)

\* The decision route is between its flip and its audit row.
Answering(q) == decision[q].at \in {"waiting", "resolving"}

\* How often a confirmation was audited as over.
Closings(q) == audit[q]["granted"] + audit[q]["denied"] + audit[q]["expired"]

Counted(q, e) == audit'[q] = [audit[q] EXCEPT ![e] = @ + 1]

-----------------------------------------------------------------------------
(* What one step does to the trail of one confirmation: nothing, or one audit *)
(* row that goes with one change of the row or the end of one decision.       *)

Silent(q) == /\ audit'[q] = audit[q]
             /\ ~OpenedNow(q)
             /\ Answering(q)' => Answering(q) \/ Decided(q)

Opens(q) == OpenedNow(q) /\ Counted(q, "requested") /\ decision'[q] = decision[q]

Spends(q) == /\ rows[q].status \in {"pending", "approved"} /\ rows'[q].status = "consumed"
             /\ Counted(q, "consumed") /\ decision'[q] = decision[q]

Closes(q) == /\ rows[q].status = "pending" /\ rows'[q].status # "pending"
             /\ Counted(q, "denied") \/ Counted(q, "expired")
             /\ decision'[q] = decision[q]

Answers(q) == /\ Answering(q) /\ ~Answering(q)' /\ rows'[q].status = rows[q].status
              /\ Counted(q, "granted") \/ Counted(q, "denied")

TrailEffect(q) == Silent(q) \/ Opens(q) \/ Spends(q) \/ Closes(q) \/ Answers(q)

\* One more audit row of one confirmation leaves the others' trails alone.
LEMMA AuditEffect ==
  ASSUME TypeOK, NEW r \in Rows, NEW e, Audited(r, e), NEW q \in Rows
  PROVE  IF q = r THEN Counted(q, e) ELSE audit'[q] = audit[q]
  BY DEF TypeOK, Audited, Counted

\* A step that writes neither the trail, the decisions nor the row count is silent.
LEMMA QuietStep ==
  ASSUME TypeOK, UNCHANGED <<audit, decision, nrows>>, NEW q \in Rows
  PROVE  TrailEffect(q)
  BY DEF TrailEffect, Silent, OpenedNow, Answering, TypeOK

\* Spending a ticket audits the spent row.
LEMMA ConsumeTrail ==
  ASSUME TypeOK, NEW c \in Calls, GateConsume(c), NEW q \in Rows
  PROVE  TrailEffect(q)
<1> PICK r \in Tickets(c) : rows' = [rows EXCEPT ![r].status = "consumed"] /\ Audited(r, "consumed")
  BY DEF GateConsume
<1>1. r \in Rows /\ rows[r].status = "approved" /\ rows \in [Rows -> Row]
  BY DEF Tickets, TypeOK
<1>2. UNCHANGED <<decision, nrows>>
  BY DEF GateConsume, decisionVars
<1>3. CASE q = r
  <2>1. rows'[q].status = "consumed"
    BY <1>1, <1>3, StatusEffect
  <2>2. Counted(q, "consumed")
    BY <1>1, <1>3, AuditEffect
  <2> QED BY <1>1, <1>2, <1>3, <2>1, <2>2 DEF TrailEffect, Spends
<1>4. CASE q # r
  <2>1. audit'[q] = audit[q]
    BY <1>1, <1>4, AuditEffect
  <2> QED BY <1>2, <2>1 DEF TrailEffect, Silent, OpenedNow, Answering, TypeOK
<1> QED BY <1>3, <1>4

\* Opening a confirmation audits the new row.
LEMMA InsertTrail ==
  ASSUME TypeOK, NEW c \in Calls, GateInsert(c), NEW q \in Rows
  PROVE  TrailEffect(q)
<1>1. /\ nrows + 1 \in Rows /\ nrows' = nrows + 1 /\ decision' = decision
      /\ Audited(nrows + 1, "requested")
  BY ConstantsAssumption DEF GateInsert, decisionVars, TypeOK, Rows
<1>2. CASE q = nrows + 1
  <2>1. Counted(q, "requested")
    BY <1>1, <1>2, AuditEffect
  <2>2. OpenedNow(q)
    BY <1>1, <1>2 DEF GateInsert, OpenedNow, decisionVars, TypeOK
  <2> QED BY <1>1, <2>1, <2>2 DEF TrailEffect, Opens
<1>3. CASE q # nrows + 1
  <2>1. audit'[q] = audit[q]
    BY <1>1, <1>3, AuditEffect
  <2> QED BY <1>1, <1>3, <2>1 DEF TrailEffect, Silent, OpenedNow, Answering
<1> QED BY <1>2, <1>3

\* A report audits one of the rows it settles, as what it settles them to.
LEMMA RecordTrail ==
  ASSUME TypeOK, NEW c \in Calls, NEW how \in Resolutions, RecordResolution(c, how), NEW q \in Rows
  PROVE  TrailEffect(q)
<1>1. UNCHANGED <<decision, nrows>> /\ rows[q] \in Row
  BY DEF RecordResolution, decisionVars, TypeOK
<1>2. CASE UNCHANGED audit
  BY <1>1, <1>2, QuietStep
<1>3. ASSUME NEW r \in SettledBy(c, how), Audited(r, SettledAs(how))
      PROVE  TrailEffect(q)
  <2>1. r \in Rows
    BY DEF SettledBy
  <2>2. CASE q # r
    <3>1. audit'[q] = audit[q]
      BY <1>3, <2>1, <2>2, AuditEffect
    <3> QED BY <1>1, <3>1 DEF TrailEffect, Silent, OpenedNow, Answering, TypeOK
  <2>3. CASE q = r
    <3>1. Counted(q, SettledAs(how))
      BY <1>3, <2>1, <2>3, AuditEffect
    <3>2. rows'[q] = [rows[q] EXCEPT !.status = SettledAs(how)]
      BY <2>3 DEF RecordResolution
    <3>3. rows'[q].status = SettledAs(how)
      BY <1>1, <3>2 DEF Row
    <3>4. rows[q].status \in IF Allows(how) THEN {"pending", "approved"} ELSE {"pending"}
      BY <2>3 DEF SettledBy
    <3>5. CASE Allows(how)
      BY <1>1, <3>1, <3>3, <3>4, <3>5 DEF SettledAs, TrailEffect, Spends
    <3>6. CASE ~Allows(how)
      BY <1>1, <3>1, <3>3, <3>4, <3>6 DEF SettledAs, TrailEffect, Closes
    <3> QED BY <3>5, <3>6
  <2> QED BY <2>2, <2>3
<1> QED BY <1>2, <1>3 DEF RecordResolution

\* A flip writes no audit row: the route does that when the decision is answered.
LEMMA FlipTrail ==
  ASSUME TypeOK, NEW r \in Rows, NEW v \in Verdicts, DecisionFlip(r, v), NEW q \in Rows
  PROVE  TrailEffect(q)
<1>1. UNCHANGED <<audit, nrows>>
  BY DEF DecisionFlip
<1>2. CASE UNCHANGED decision
  BY <1>1, <1>2, QuietStep
<1>3. CASE rows[r].status = "pending"
  <2> DEFINE at == IF rows[r].approvalId = NoCall THEN "waiting" ELSE "resolving"
             s == IF v = "approve" THEN "approved" ELSE "denied"
  <2>1. /\ decision' = [decision EXCEPT ![r].addr = rows[r].approvalId, ![r].at = at]
        /\ rows' = [rows EXCEPT ![r].status = s] /\ verdict' = [verdict EXCEPT ![r] = v]
    BY <1>3 DEF DecisionFlip
  <2>2. /\ decision \in [Rows -> Decision] /\ rows \in [Rows -> Row]
        /\ verdict \in [Rows -> Verdicts \cup {"none"}]
    BY DEF TypeOK
  <2>3. CASE q = r
    <3>1. verdict'[q] = v
      BY <2>1, <2>2, <2>3
    <3>2. rows'[q].status = s /\ SameIds(q)
      <4> HIDE DEF s
      <4> QED BY <2>1, <2>2, <2>3, StatusEffect DEF SameIds
    <3>3. Decided(q)
      BY <1>3, <2>3, <3>1, <3>2 DEF Decided
    <3> QED BY <1>1, <3>3 DEF TrailEffect, Silent, OpenedNow, TypeOK
  <2>4. CASE q # r
    <3>1. decision'[q] = decision[q]
      <4> HIDE DEF at
      <4> QED BY <2>1, <2>2, <2>4, AddrEffect
    <3> QED BY <1>1, <3>1 DEF TrailEffect, Silent, OpenedNow, Answering, TypeOK
  <2> QED BY <2>3, <2>4
<1> QED BY <1>2, <1>3 DEF DecisionFlip

\* The end of a decision audits it, once, and touches no row.
LEMMA AnsweredTrail ==
  ASSUME TypeOK, NEW r \in Rows, NEW outcome, Answered(r, outcome), Answering(r),
         UNCHANGED <<rows, nrows>>, NEW q \in Rows
  PROVE  TrailEffect(q)
<1> DEFINE e == IF verdict[r] = "approve" THEN "granted" ELSE "denied"
<1>1. decision' = [decision EXCEPT ![r] = Over(outcome)] /\ Audited(r, e)
  BY DEF Answered
<1>2. CASE q = r
  <2>1. Counted(q, e)
    <3> HIDE DEF e
    <3> QED BY <1>1, <1>2, AuditEffect
  <2>2. ~Answering(q)'
    BY <1>1, <1>2 DEF Answering, Over, TypeOK
  <2> QED BY <1>2, <2>1, <2>2 DEF TrailEffect, Answers
<1>3. CASE q # r
  <2>1. audit'[q] = audit[q]
    <3> HIDE DEF e
    <3> QED BY <1>1, <1>3, AuditEffect
  <2>2. decision'[q] = decision[q]
    BY <1>1, <1>3 DEF TypeOK
  <2> QED BY <2>1, <2>2 DEF TrailEffect, Silent, OpenedNow, Answering, TypeOK
<1> QED BY <1>2, <1>3

\* The sweep audits exactly the pending rows it expires or deletes.
LEMMA SweepTrail ==
  ASSUME TypeOK, Sweep, NEW q \in Rows
  PROVE  TrailEffect(q)
<1>1. UNCHANGED <<decision, nrows>> /\ rows[q] \in Row
  BY DEF Sweep, decisionVars, TypeOK
<1>2. CASE q \in Overdue
  <2>1. Counted(q, "expired") /\ rows[q].status = "pending"
    BY <1>2 DEF Sweep, Counted, Overdue
  <2>2. rows'[q].status \in {"none", "expired"}
    BY <1>1, <1>2 DEF Sweep, Row, NewRow
  <2> QED BY <1>1, <2>1, <2>2 DEF TrailEffect, Closes
<1>3. CASE q \notin Overdue
  <2>1. audit'[q] = audit[q]
    BY <1>3 DEF Sweep
  <2> QED BY <1>1, <2>1 DEF TrailEffect, Silent, OpenedNow, Answering, TypeOK
<1> QED BY <1>2, <1>3

\* What any step does to a trail.
LEMMA StepTrail ==
  ASSUME TypeOK, Next, NEW q \in Rows
  PROVE  TrailEffect(q)
<1>1. ASSUME NEW c \in Calls, GateCheck(c) PROVE TrailEffect(q)
  <2>1. CASE GateConsume(c)
    BY <2>1, ConsumeTrail
  <2>2. CASE GateInsert(c)
    BY <2>2, InsertTrail
  <2>3. CASE UNCHANGED <<audit, decision, nrows>>
    BY <2>3, QuietStep
  <2> QED BY <1>1, <2>1, <2>2, <2>3 DEF GateCheck, PolicyAllows, RefuseUnattributable, GateMiss,
          GateLookup, GateRepoint, GateCount, decisionVars
<1>2. ASSUME NEW c \in Calls, CallStep(c) PROVE TrailEffect(q)
  <2>1. CASE UNCHANGED <<audit, decision, nrows>>
    BY <2>1, QuietStep
  <2>2. ASSUME NEW how \in Resolutions, RecordResolution(c, how) PROVE TrailEffect(q)
    BY <2>2, RecordTrail
  <2> QED BY <1>2, <2>1, <2>2 DEF CallStep, AnswerArrives, AnswerLost, ParkTimeout, RunCancelled,
          ForeignDecision, LinkApproval, BroadcastLost, ReportLost, decisionVars
<1>3. ASSUME NEW r \in Rows, RowStep(r) PROVE TrailEffect(q)
  <2>1. CASE UNCHANGED <<audit, decision, nrows>>
    BY <2>1, QuietStep
  <2>2. ASSUME NEW v \in Verdicts, DecisionRead(r, v) PROVE TrailEffect(q)
    BY <2>1, <2>2 DEF DecisionRead
  <2>3. ASSUME NEW v \in Verdicts, DecisionFlip(r, v) PROVE TrailEffect(q)
    BY <2>3, FlipTrail
  <2>4. CASE LinkFound(r) \/ DecisionDies(r)
    <3>1. /\ audit' = audit /\ nrows' = nrows
          /\ Answering(r)
          /\ q # r => decision'[q] = decision[q]
      BY <2>4 DEF LinkFound, DecisionDies, Answering, TypeOK
    <3> QED BY <3>1 DEF TrailEffect, Silent, OpenedNow, Answering, TypeOK
  <2>5. CASE LinkWaitEnds(r)
    BY <2>5, AnsweredTrail DEF LinkWaitEnds, Answering
  <2>6. CASE ResolveTakesEffect(r)
    BY <2>6, AnsweredTrail DEF ResolveTakesEffect, Answering
  <2>7. CASE ResolveFails(r)
    BY <2>7, AnsweredTrail DEF ResolveFails, Answering
  <2>8. CASE Age(r)
    BY <2>1, <2>8 DEF Age, decisionVars
  <2> QED BY <1>3, <2>2, <2>3, <2>4, <2>5, <2>6, <2>7, <2>8 DEF RowStep, DecisionRoute
<1>4. CASE Sweep
  BY <1>4, SweepTrail
<1> QED BY <1>1, <1>2, <1>3, <1>4 DEF Next

-----------------------------------------------------------------------------
(* The inductive invariant. *)

\* A row not opened has no trail; a spent row stays spent; a confirmation
\* audited as over is neither pending nor still being answered, and while it is
\* being answered it is no longer pending, so nobody else can close it.
TrailFits(q) ==
    /\ q > nrows => /\ rows[q].status = "none" /\ ~Answering(q)
                    /\ \A e \in Events : audit[q][e] = 0
    /\ audit[q]["requested"] <= 1
    /\ audit[q]["consumed"] <= 1
    /\ audit[q]["consumed"] = 1 => rows[q].status \in {"consumed", "none"}
    /\ Closings(q) <= 1
    /\ Closings(q) = 1 => rows[q].status # "pending" /\ ~Answering(q)
    /\ Answering(q) => rows[q].status # "pending"

TrailsFit == \A q \in Rows : TrailFits(q)

\* The counters of a trail are natural numbers, and one more row counts once.
LEMMA TrailNumbers ==
  ASSUME TypeOK, NEW q \in Rows
  PROVE  /\ Closings(q) \in Nat
         /\ audit[q]["requested"] \in Nat /\ audit[q]["granted"] \in Nat
         /\ audit[q]["denied"] \in Nat /\ audit[q]["consumed"] \in Nat
         /\ audit[q]["expired"] \in Nat
         /\ \A e \in Events : Counted(q, e) =>
              \A f \in Events : audit'[q][f] = IF f = e THEN audit[q][f] + 1 ELSE audit[q][f]
<1>1. audit[q] \in [Events -> Nat]
  BY DEF TypeOK
<1> QED BY <1>1 DEF Counted, Closings, Events

\* A row that was not opened by this step is not pending unless it was, and
\* stays spent or deleted once it is.
LEMMA StatusOneWay ==
  ASSUME TypeOK, Next, NEW q \in Rows, ~OpenedNow(q)
  PROVE  /\ rows'[q].status = "pending" => rows[q].status = "pending"
         /\ rows[q].status \in {"consumed", "none"} => rows'[q].status \in {"consumed", "none"}
         /\ rows[q].status = "none" => rows'[q].status = "none"
  BY RowStepEffect DEF RowEffect, Left, Settled, Decided, Repointed, Linked, Deleted

\* Every step keeps every trail fitting.
LEMMA TrailStep ==
  ASSUME TypeOK, Next, NEW q \in Rows, TrailFits(q)
  PROVE  TrailFits(q)'
<1> DEFINE N(e) == audit[q][e]
<1>0. nrows \in Nat /\ q \in Nat /\ (q > nrows' => q > nrows)
  BY RowCountEffect, ConstantsAssumption DEF TypeOK, Rows
<1>1. CASE Silent(q)
  <2>1. /\ audit'[q] = audit[q] /\ Closings(q)' = Closings(q)
        /\ Answering(q)' => Answering(q) \/ Decided(q)
    BY <1>1 DEF Silent, Closings
  <2>2. /\ rows'[q].status = "pending" => rows[q].status = "pending"
        /\ rows[q].status \in {"consumed", "none"} => rows'[q].status \in {"consumed", "none"}
        /\ rows[q].status = "none" => rows'[q].status = "none"
    BY <1>1, StatusOneWay DEF Silent
  <2>3. Decided(q) => rows[q].status = "pending" /\ rows'[q].status # "pending"
    BY DEF Decided
  <2> QED BY <1>0, <2>1, <2>2, <2>3 DEF TrailFits
<1>2. CASE Opens(q)
  <2>1. q = nrows + 1 /\ nrows' = nrows + 1 /\ decision'[q] = decision[q] /\ Counted(q, "requested")
    BY <1>2 DEF Opens, OpenedNow
  <2>2. ~Answering(q)' /\ \A e \in Events : audit[q][e] = 0
    BY <1>0, <2>1 DEF TrailFits, Answering
  <2>3. /\ audit'[q]["requested"] = 1 /\ audit'[q]["consumed"] = 0
        /\ audit'[q]["granted"] = 0 /\ audit'[q]["denied"] = 0 /\ audit'[q]["expired"] = 0
    BY <2>1, <2>2, TrailNumbers DEF Events
  <2>4. Closings(q)' = 0
    BY <2>3 DEF Closings
  <2>5. ~(q > nrows')
    BY <1>0, <2>1
  <2> QED BY <2>2, <2>3, <2>4, <2>5 DEF TrailFits
<1>3. CASE Spends(q)
  <2>1. /\ rows[q].status \in {"pending", "approved"} /\ rows'[q].status = "consumed"
        /\ Counted(q, "consumed") /\ decision'[q] = decision[q]
    BY <1>3 DEF Spends
  <2>2. ~(q > nrows') /\ audit[q]["consumed"] = 0
    BY <1>0, <2>1, TrailNumbers DEF TrailFits
  <2>3. /\ audit'[q]["requested"] = audit[q]["requested"] /\ audit'[q]["consumed"] = 1
        /\ audit'[q]["granted"] = audit[q]["granted"] /\ audit'[q]["denied"] = audit[q]["denied"]
        /\ audit'[q]["expired"] = audit[q]["expired"]
    BY <2>1, <2>2, TrailNumbers DEF Events
  <2>4. Closings(q)' = Closings(q)
    BY <2>3 DEF Closings
  <2>5. Answering(q)' = Answering(q)
    BY <2>1 DEF Answering
  <2> QED BY <2>1, <2>2, <2>3, <2>4, <2>5 DEF TrailFits
<1>4. CASE Closes(q)
  <2>1. /\ rows[q].status = "pending" /\ rows'[q].status # "pending"
        /\ Counted(q, "denied") \/ Counted(q, "expired")
        /\ decision'[q] = decision[q]
    BY <1>4 DEF Closes
  <2>2. ~(q > nrows') /\ ~Answering(q)' /\ Closings(q) = 0
    BY <1>0, <2>1, TrailNumbers DEF TrailFits, Answering
  <2>3. /\ audit'[q]["requested"] = audit[q]["requested"]
        /\ audit'[q]["consumed"] = audit[q]["consumed"]
        /\ Closings(q)' = Closings(q) + 1
    BY <2>1, TrailNumbers DEF Closings, Events
  <2>4. Closings(q)' = 1
    BY <2>2, <2>3
  <2>5. audit[q]["consumed"] # 1
    BY <2>1 DEF TrailFits
  <2> QED BY <2>1, <2>2, <2>3, <2>4, <2>5 DEF TrailFits
<1>5. CASE Answers(q)
  <2>1. /\ Answering(q) /\ ~Answering(q)' /\ rows'[q].status = rows[q].status
        /\ Counted(q, "granted") \/ Counted(q, "denied")
    BY <1>5 DEF Answers
  <2>2. ~(q > nrows') /\ rows[q].status # "pending" /\ Closings(q) = 0
    BY <1>0, <2>1, TrailNumbers DEF TrailFits
  <2>3. /\ audit'[q]["requested"] = audit[q]["requested"]
        /\ audit'[q]["consumed"] = audit[q]["consumed"]
        /\ Closings(q)' = Closings(q) + 1
    BY <2>1, TrailNumbers DEF Closings, Events
  <2>4. Closings(q)' = 1
    BY <2>2, <2>3
  <2> QED BY <2>1, <2>2, <2>3, <2>4 DEF TrailFits
<1> QED BY <1>1, <1>2, <1>3, <1>4, <1>5, StepTrail DEF TrailEffect

\* The trails fit their rows in every state.
LEMMA TrailsKept == Spec => []TrailsFit
<1>1. Init => TrailsFit
  <2> SUFFICES ASSUME Init, NEW q \in Rows PROVE TrailFits(q)
    BY DEF TrailsFit
  <2>1. /\ rows[q].status = "none" /\ ~Answering(q)
        /\ \A e \in Events : audit[q][e] = 0
    BY DEF Init, NewRow, Answering
  <2> QED BY <2>1 DEF TrailFits, Closings, Events
<1>2. TypeOK /\ TrailsFit /\ [Next]_vars => TrailsFit'
  <2>1. TypeOK /\ TrailsFit /\ Next => TrailsFit'
    BY TrailStep DEF TrailsFit
  <2>2. TrailsFit /\ UNCHANGED vars => TrailsFit'
    BY DEF vars, decisionVars, TrailsFit, TrailFits, Answering, Closings
  <2> QED BY <2>1, <2>2
<1> QED BY <1>1, <1>2, TypeCorrect, PTL DEF Spec

\* However decisions, reports, gate-checks and sweeps interleave, and whichever
\* of them crashes or gets lost, a confirmation is audited at most once as each
\* event and ends in at most one of granted, denied and expired: the statement
\* guards of decideGate, resolveDecision, recordResolution and expireStale leave
\* one writer to each row's end.  No assumption on the tool call ids is needed.
THEOREM AuditedOnce == Spec => []LifecycleAuditedOnce
<1>1. TypeOK /\ TrailsFit => LifecycleAuditedOnce
  <2> SUFFICES ASSUME TypeOK, TrailsFit, NEW q \in Rows
               PROVE  /\ \A e \in Events : audit[q][e] <= 1
                      /\ audit[q]["granted"] + audit[q]["denied"] + audit[q]["expired"] <= 1
    BY DEF LifecycleAuditedOnce
  <2>1. TrailFits(q)
    BY DEF TrailsFit
  <2> QED BY <2>1, TrailNumbers DEF TrailFits, Closings, Events
<1> QED BY <1>1, TypeCorrect, TrailsKept, PTL

-----------------------------------------------------------------------------
(* A grant is spent once on each path. *)

\* Nothing has let the call run yet.
Before(c) == pc[c] \in {"new", "prompted", "parked"} \cup Checking

\* A call that waits is charged to nothing; a spent ticket's row stays spent; a
\* row that resumed a call is never decided or resolved again.
GrantsFit ==
    \A c \in Calls :
        /\ Before(c) => charge[c] = NoRow
        /\ charge[c] # NoRow =>
             /\ charge[c] \in 1..nrows
             /\ \/ ground[c] = "ticket" /\ rows[charge[c]].status \in {"consumed", "none"}
                \/ /\ ground[c] = "resume"
                   /\ ~Answering(charge[c]) /\ rows[charge[c]].status # "pending"

\* The three things a step may do to the grants.
GrantsKept ==
    charge' = charge /\ \A d \in Calls : ~Before(d) => ground'[d] = ground[d]

TicketSpent(c, r) ==
    /\ r \in Tickets(c) /\ rows'[r].status = "consumed"
    /\ charge' = [charge EXCEPT ![c] = r] /\ ground' = [ground EXCEPT ![c] = "ticket"]

CallResumed(c, r) ==
    /\ Answering(r) /\ ~Answering(r)' /\ UNCHANGED rows
    /\ charge' = [charge EXCEPT ![c] = r] /\ ground' = [ground EXCEPT ![c] = "resume"]

GrantEffect ==
    /\ \A d \in Calls : Before(d)' => Before(d)
    /\ \/ GrantsKept
       \/ \E c \in Calls, r \in Rows : /\ Before(c) /\ ~Before(c)'
                                       /\ TicketSpent(c, r) \/ CallResumed(c, r)

\* A call that moves on from one state to another does not come back to waiting
\* for the gate, if it only moves along it.
LEMMA MovesOn ==
  ASSUME TypeOK, NEW c \in Calls, NEW next, pc' = [pc EXCEPT ![c] = next],
         Before(c) \/ next \notin {"new", "prompted", "parked"} \cup Checking,
         UNCHANGED charge, Before(c) \/ UNCHANGED ground,
         \A d \in Calls : d # c => ground'[d] = ground[d]
  PROVE  GrantEffect
  BY DEF GrantEffect, GrantsKept, Before, TypeOK

\* Steps that touch no call grant nothing.
LEMMA NoMove ==
  ASSUME UNCHANGED <<pc, charge, ground>>
  PROVE  GrantEffect
  BY DEF GrantEffect, GrantsKept, Before

\* What the gate-check route does to the grants.
LEMMA GateGrants ==
  ASSUME TypeOK, NEW c \in Calls, GateCheck(c)
  PROVE  GrantEffect
<1> USE DEF grantVars, Checking, Before
<1>0. ground \in [Calls -> Grounds] /\ pc \in [Calls -> CallStates]
  BY DEF TypeOK
<1>1. CASE GateConsume(c)
  <2> PICK r \in Tickets(c) : /\ rows' = [rows EXCEPT ![r].status = "consumed"]
                              /\ charge' = [charge EXCEPT ![c] = r]
    BY <1>1 DEF GateConsume
  <2>1. r \in Rows /\ rows \in [Rows -> Row]
    BY DEF Tickets, TypeOK
  <2>2. rows'[r].status = "consumed"
    BY <2>1, StatusEffect
  <2>3. /\ ground' = [ground EXCEPT ![c] = "ticket"]
        /\ pc[c] = "new" /\ pc' = [pc EXCEPT ![c] = "allowed"]
    BY <1>1 DEF GateConsume, NeedsConfirmation
  <2> QED BY <1>0, <2>1, <2>2, <2>3 DEF GrantEffect, TicketSpent
<1>2. CASE PolicyAllows(c)
  BY <1>0, <1>2, MovesOn DEF PolicyAllows
<1>3. CASE RefuseUnattributable(c)
  BY <1>3, MovesOn DEF RefuseUnattributable
<1>4. CASE GateMiss(c)
  BY <1>4, MovesOn DEF GateMiss, NeedsConfirmation
<1>5. CASE GateLookup(c)
  BY <1>5, MovesOn DEF GateLookup, Ends, GoesOn
<1>6. CASE GateRepoint(c)
  BY <1>6, MovesOn DEF GateRepoint, Ends
<1>7. CASE GateCount(c)
  BY <1>7, MovesOn DEF GateCount, Ends, GoesOn
<1>8. CASE GateInsert(c)
  BY <1>8, MovesOn DEF GateInsert, Ends
<1> QED BY <1>1, <1>2, <1>3, <1>4, <1>5, <1>6, <1>7, <1>8 DEF GateCheck

\* What the plugin, OpenClaw and the bridge do to the grants: a decision made
\* on another surface lets a call run, but charges it to no row.
LEMMA CallGrants ==
  ASSUME TypeOK, NEW c \in Calls, CallStep(c)
  PROVE  GrantEffect
<1> USE DEF grantVars, Checking, Before
<1>0. ground \in [Calls -> Grounds] /\ pc \in [Calls -> CallStates]
  BY DEF TypeOK
<1>1. CASE AnswerArrives(c)
  BY <1>1, MovesOn DEF AnswerArrives
<1>2. CASE AnswerLost(c)
  BY <1>2, MovesOn DEF AnswerLost, Ends
<1>3. CASE ParkTimeout(c)
  BY <1>3, MovesOn DEF ParkTimeout, EndWait
<1>4. CASE RunCancelled(c)
  BY <1>4, MovesOn DEF RunCancelled, EndWait
<1>5. CASE ForeignDecision(c)
  BY <1>0, <1>5, MovesOn DEF ForeignDecision, EndWait
<1>6. CASE LinkApproval(c)
  BY <1>6, NoMove DEF LinkApproval
<1>7. CASE BroadcastLost(c)
  BY <1>7, NoMove DEF BroadcastLost
<1>8. ASSUME NEW how \in Resolutions, RecordResolution(c, how) \/ ReportLost(c, how)
      PROVE  GrantEffect
  BY <1>8, NoMove DEF RecordResolution, ReportLost
<1> QED BY <1>1, <1>2, <1>3, <1>4, <1>5, <1>6, <1>7, <1>8 DEF CallStep

\* What the decision route does to the grants.
LEMMA RouteGrants ==
  ASSUME TypeOK, AddressKnown, NEW r \in Rows, RowStep(r)
  PROVE  GrantEffect
<1> USE DEF grantVars, Before
<1>0. ground \in [Calls -> Grounds] /\ pc \in [Calls -> CallStates]
  BY DEF TypeOK
<1>1. CASE ResolveTakesEffect(r)
  <2>0. decision[r].addr \in Calls
    BY <1>1 DEF TypeOK, AddressKnown, Decision, ResolveTakesEffect
  <2> PICK c \in Calls : c = decision[r].addr
    BY <2>0
  <2>1. Answering(r) /\ UNCHANGED rows
    BY <1>1 DEF ResolveTakesEffect, Answering
  <2>2. ~Answering(r)'
    BY <1>1 DEF ResolveTakesEffect, Answered, Over, Answering, TypeOK
  <2>3. CASE /\ EndWait(c, "allow-once", "running")
             /\ charge' = [charge EXCEPT ![c] = r]
             /\ ground' = [ground EXCEPT ![c] = "resume"]
    <3>1. Before(c) /\ ~Before(c)' /\ \A d \in Calls : Before(d)' => Before(d)
      BY <1>0, <2>1, <2>3 DEF EndWait, Checking
    <3>2. CallResumed(c, r)
      BY <2>1, <2>2, <2>3 DEF CallResumed
    <3> QED BY <2>1, <3>1, <3>2 DEF GrantEffect
  <2>4. CASE EndWait(c, "deny", "blocked") /\ UNCHANGED grantVars
    BY <2>1, <2>4, MovesOn DEF EndWait
  <2> QED BY <1>1, <2>3, <2>4 DEF ResolveTakesEffect
<1>2. CASE ~ResolveTakesEffect(r)
  BY <1>2, NoMove DEF RowStep, DecisionRoute, DecisionRead, DecisionFlip, LinkFound,
     LinkWaitEnds, ResolveFails, DecisionDies, Age
<1> QED BY <1>1, <1>2

\* What any step does to the grants.
LEMMA StepGrants ==
  ASSUME TypeOK, AddressKnown, Next
  PROVE  GrantEffect
<1>1. CASE Sweep
  BY <1>1, NoMove DEF Sweep, grantVars
<1> QED BY <1>1, GateGrants, CallGrants, RouteGrants DEF Next

\* A charged row stays what the charge made it: spent, or decided and resolved.
LEMMA ChargedRowKept ==
  ASSUME TypeOK, TrailsFit, Next, NEW r \in 1..nrows
  PROVE  /\ r \in 1..nrows'
         /\ rows[r].status \in {"consumed", "none"} => rows'[r].status \in {"consumed", "none"}
         /\ rows[r].status # "pending" /\ ~Answering(r) =>
              rows'[r].status # "pending" /\ ~Answering(r)'
<1>1. r \in Rows /\ nrows \in Nat /\ r \in 1..nrows' /\ ~OpenedNow(r)
  BY RowCountEffect, ConstantsAssumption DEF TypeOK, Rows, OpenedNow
<1>2. /\ rows'[r].status = "pending" => rows[r].status = "pending"
      /\ rows[r].status \in {"consumed", "none"} => rows'[r].status \in {"consumed", "none"}
  BY <1>1, StatusOneWay
<1>3. rows[r].status # "pending" /\ ~Answering(r) => ~Answering(r)'
  BY <1>1, StepTrail DEF TrailEffect, Silent, Decided, Opens, Spends, Closes, Answers, Answering
<1> QED BY <1>1, <1>2, <1>3

\* Every step keeps the grants fitting their rows, and spends no row twice on
\* one path: a ticket must be approved and a spent row is not, a resolve must be
\* under way and an answered decision is not.
LEMMA GrantStep ==
  ASSUME TypeOK, AddressKnown, TrailsFit, GrantsFit, SpentOncePerPath, Next
  PROVE  GrantsFit' /\ SpentOncePerPath'
<1>0. /\ charge \in [Calls -> Rows \cup {NoRow}] /\ ground \in [Calls -> Grounds]
      /\ nrows \in Nat /\ NoRow \notin Rows
  BY DEF TypeOK, NoRow, Rows
<1>1. \A d \in Calls : Before(d)' => Before(d)
  BY StepGrants DEF GrantEffect
<1>2. CASE GrantsKept
  <2>1. \A d \in Calls : charge'[d] = charge[d] /\ (charge[d] # NoRow => ground'[d] = ground[d])
    BY <1>2 DEF GrantsKept, GrantsFit
  <2>2. GrantsFit'
    BY <1>1, <2>1, ChargedRowKept DEF GrantsFit
  <2> QED BY <2>1, <2>2 DEF SpentOncePerPath
<1>3. ASSUME NEW c \in Calls, NEW r \in Rows, Before(c), ~Before(c)',
             TicketSpent(c, r) \/ CallResumed(c, r)
      PROVE  GrantsFit' /\ SpentOncePerPath'
  <2>1. r \in 1..nrows
    BY <1>0, <1>3 DEF TicketSpent, CallResumed, Tickets, TrailsFit, TrailFits, Rows
  <2>2. /\ charge'[c] = r
        /\ \/ ground'[c] = "ticket" /\ rows[r].status = "approved" /\ rows'[r].status = "consumed"
           \/ /\ ground'[c] = "resume" /\ Answering(r) /\ ~Answering(r)'
              /\ rows'[r].status # "pending"
    BY <1>0, <1>3 DEF TicketSpent, CallResumed, Tickets, TrailsFit, TrailFits
  <2>3. \A d \in Calls : d # c => charge'[d] = charge[d] /\ ground'[d] = ground[d]
    BY <1>0, <1>3 DEF TicketSpent, CallResumed
  <2>4. GrantsFit'
    <3>1. ASSUME NEW d \in Calls, Before(d)' PROVE charge'[d] = NoRow
      BY <1>1, <1>3, <2>3, <3>1 DEF GrantsFit
    <3>2. ASSUME NEW d \in Calls, NEW q, charge'[d] = q, q # NoRow
          PROVE  /\ q \in 1..nrows'
                 /\ \/ ground'[d] = "ticket" /\ rows'[q].status \in {"consumed", "none"}
                    \/ ground'[d] = "resume" /\ ~Answering(q)' /\ rows'[q].status # "pending"
      <4>1. CASE d = c
        <5>1. r \in 1..nrows' /\ q = r
          BY <2>1, <2>2, <3>2, <4>1, ChargedRowKept
        <5> QED BY <2>2, <4>1, <5>1
      <4>2. CASE d # c
        <5>1. charge[d] = q /\ ground'[d] = ground[d]
          BY <2>3, <3>2, <4>2
        <5>2. /\ q \in 1..nrows
              /\ \/ ground[d] = "ticket" /\ rows[q].status \in {"consumed", "none"}
                 \/ ground[d] = "resume" /\ ~Answering(q) /\ rows[q].status # "pending"
          BY <3>2, <5>1 DEF GrantsFit
        <5> QED BY <5>1, <5>2, ChargedRowKept
      <4> QED BY <4>1, <4>2
    <3> QED BY <3>1, <3>2 DEF GrantsFit, Answering
  <2>5. ASSUME NEW d \in Calls, d # c, charge[d] = r
        PROVE  ground[d] # ground'[c]
    BY <1>0, <2>2, <2>5 DEF GrantsFit
  <2>6. SpentOncePerPath'
    BY <2>2, <2>3, <2>5 DEF SpentOncePerPath
  <2> QED BY <2>4, <2>6
<1> QED BY <1>2, <1>3, StepGrants DEF GrantEffect

\* An approval is spent at the gate at most once and resumes at most one call,
\* for any number of calls and overlapping gate-checks: decideGate's conditional
\* UPDATE and resolveDecision's flip of a pending row each have one winner.
THEOREM SpentOnce == Spec => []SpentOncePerPath
<1>1. Init => GrantsFit /\ SpentOncePerPath
  BY DEF Init, GrantsFit, SpentOncePerPath, NoRow
<1>2. TypeOK /\ AddressKnown /\ TrailsFit /\ GrantsFit /\ SpentOncePerPath /\ [Next]_vars
        => GrantsFit' /\ SpentOncePerPath'
  <2>1. GrantsFit /\ SpentOncePerPath /\ UNCHANGED vars => GrantsFit' /\ SpentOncePerPath'
    BY DEF vars, decisionVars, grantVars, GrantsFit, SpentOncePerPath, Before, Answering
  <2> QED BY <2>1, GrantStep
<1> QED BY <1>1, <1>2, TypeCorrect, TrailsKept, PTL DEF Spec

-----------------------------------------------------------------------------
\* The gate-checks under way, and those that have counted and will insert.
Underway == {c \in Calls : pc[c] \in Checking}
Inserting(p) == {c \in Calls : pc[c] = "insert" /\ PrincipalOf[BindingOf[c]] = p}

-----------------------------------------------------------------------------
(* What a step does to the age of a row. *)

\* No step but the opening of a row makes it fresh.
AgeKept(q) == rows'[q].age = "fresh" => rows[q].age = "fresh" \/ OpenedNow(q)

\* Writing another field leaves the age of a row alone.
LEMMA AgeUntouched ==
  ASSUME NEW t \in [Rows -> Row], NEW r \in Rows, NEW q \in Rows, NEW s, NEW id
  PROVE  /\ [t EXCEPT ![r].status = s][q].age = t[q].age
         /\ [t EXCEPT ![r].callId = id, ![r].approvalId = NoCall][q].age = t[q].age
  BY DEF Row

\* Nothing makes a row fresh again, so a row that was overdue stays out of the count.
LEMMA StepAge ==
  ASSUME TypeOK, Next, NEW q \in Rows
  PROVE  AgeKept(q)
<1> USE DEF AgeKept
<1>0. rows \in [Rows -> Row] /\ rows[q] \in Row
  BY DEF TypeOK
<1>1. CASE UNCHANGED rows
  BY <1>1
<1>2. ASSUME NEW c \in Calls, GateCheck(c) PROVE AgeKept(q)
  <2>1. CASE GateConsume(c)
    <3> PICK r \in Tickets(c) : rows' = [rows EXCEPT ![r].status = "consumed"]
      BY <2>1 DEF GateConsume
    <3>1. r \in Rows
      BY DEF Tickets
    <3> QED BY <1>0, <3>1, AgeUntouched
  <2>2. CASE GateRepoint(c)
    <3>1. CASE rows' = [rows EXCEPT ![seen[c]].callId = IdOf[c], ![seen[c]].approvalId = NoCall]
      <4>1. seen[c] \in Rows => rows'[q].age = rows[q].age
        BY <1>0, <3>1, AgeUntouched
      <4>2. seen[c] \notin Rows => rows'[q] = rows[q]
        BY <1>0, <3>1
      <4> QED BY <4>1, <4>2
    <3> QED BY <1>1, <2>2, <3>1 DEF GateRepoint
  <2>3. CASE GateInsert(c)
    <3>1. q # nrows + 1 => rows'[q] = rows[q]
      BY <1>0, <2>3 DEF GateInsert
    <3>2. q = nrows + 1 => OpenedNow(q)
      BY <1>0, <2>3 DEF GateInsert, OpenedNow, decisionVars
    <3> QED BY <3>1, <3>2
  <2> QED BY <1>1, <1>2, <2>1, <2>2, <2>3 DEF GateCheck, PolicyAllows, RefuseUnattributable,
          GateMiss, GateLookup, GateCount
<1>3. ASSUME NEW c \in Calls, CallStep(c) PROVE AgeKept(q)
  <2>1. CASE LinkApproval(c)
    <3>1. rows'[q] = rows[q] \/ rows'[q] = [rows[q] EXCEPT !.approvalId = c]
      BY <2>1 DEF LinkApproval
    <3> QED BY <1>0, <3>1 DEF Row
  <2>2. ASSUME NEW how \in Resolutions, RecordResolution(c, how) PROVE AgeKept(q)
    <3>1. rows'[q] = rows[q] \/ rows'[q] = [rows[q] EXCEPT !.status = SettledAs(how)]
      BY <2>2 DEF RecordResolution
    <3> QED BY <1>0, <3>1 DEF Row
  <2> QED BY <1>1, <1>3, <2>1, <2>2 DEF CallStep, AnswerArrives, AnswerLost, ParkTimeout,
          RunCancelled, ForeignDecision, BroadcastLost, ReportLost
<1>4. ASSUME NEW r \in Rows, RowStep(r) PROVE AgeKept(q)
  <2>1. ASSUME NEW v \in Verdicts, DecisionFlip(r, v) PROVE AgeKept(q)
    <3> DEFINE s == IF v = "approve" THEN "approved" ELSE "denied"
    <3>1. UNCHANGED rows \/ rows' = [rows EXCEPT ![r].status = s]
      BY <2>1 DEF DecisionFlip
    <3> HIDE DEF s
    <3>2. CASE rows' = [rows EXCEPT ![r].status = s]
      BY <1>0, <3>2, AgeUntouched
    <3> QED BY <1>1, <3>1, <3>2
  <2>2. CASE Age(r)
    <3>1. PICK a \in {"overdue", "aged"} : rows' = [rows EXCEPT ![r].age = a]
      BY <2>2 DEF Age
    <3> QED BY <1>0, <3>1 DEF Row
  <2> QED BY <1>1, <1>4, <2>1, <2>2 DEF RowStep, DecisionRoute, DecisionRead, LinkFound,
          LinkWaitEnds, ResolveTakesEffect, ResolveFails, DecisionDies
<1>5. CASE Sweep
  <2>1. \/ rows'[q] = rows[q] \/ rows'[q] = [rows[q] EXCEPT !.status = "expired"]
        \/ rows'[q] = [NewRow("none", rows[q].binding, NoCallId) EXCEPT !.age = "aged"]
    BY <1>5 DEF Sweep
  <2> QED BY <1>0, <2>1 DEF Row, NewRow
<1> QED BY <1>2, <1>3, <1>4, <1>5 DEF Next

\* The confirmations of a requester only grow by the row a step opens.
LEMMA WaitingShrinks ==
  ASSUME TypeOK, Next, NEW p
  PROVE  PendingOf(p)' \subseteq PendingOf(p) \cup {q \in Rows : OpenedNow(q)}
<1> SUFFICES ASSUME NEW q \in Rows, q \in PendingOf(p)', ~OpenedNow(q)
             PROVE  q \in PendingOf(p)
  BY DEF PendingOf
<1>1. rows[q].status = "pending" /\ rows[q].age = "fresh"
  BY StatusOneWay, StepAge DEF PendingOf, AgeKept
<1>2. rows'[q].binding = rows[q].binding
  BY RowStepEffect DEF RowEffect, Left, Settled, Decided, Repointed, Linked, Deleted, SameIds
<1> QED BY <1>1, <1>2 DEF PendingOf

-----------------------------------------------------------------------------
(* What a step does to the gate-checks under way. *)

\* Neither starts a gate-check, nor counts, nor opens a row.
Passive ==
    /\ nrows' = nrows
    /\ \A c \in Calls : /\ pc'[c] \in Checking => pc[c] \in Checking
                        /\ pc'[c] = "insert" => pc[c] = "insert"
                        /\ lapsed'[c] \subseteq lapsed[c]

\* Every step but three of the gate-check's is passive.
LEMMA StepChecks ==
  ASSUME TypeOK, AddressKnown, Next
  PROVE  Passive \/ \E c \in Calls : GateMiss(c) \/ GateCount(c) \/ GateInsert(c)
<1> USE DEF Passive, Checking, gateVars
<1>0. pc \in [Calls -> CallStates] /\ lapsed \in [Calls -> SUBSET Rows]
  BY DEF TypeOK
<1>1. CASE UNCHANGED <<nrows, pc, lapsed>>
  BY <1>1
<1>2. ASSUME NEW c \in Calls, NEW next, next \in Checking => pc[c] \in Checking,
             next # "insert", pc' = [pc EXCEPT ![c] = next],
             UNCHANGED lapsed \/ lapsed' = [lapsed EXCEPT ![c] = {}], UNCHANGED nrows
      PROVE  Passive
  BY <1>0, <1>2
<1>3. ASSUME NEW c \in Calls, GateCheck(c), ~GateMiss(c), ~GateCount(c), ~GateInsert(c)
      PROVE  Passive
  <2>1. CASE PolicyAllows(c)         BY <1>2, <2>1 DEF PolicyAllows
  <2>2. CASE RefuseUnattributable(c) BY <1>2, <2>2 DEF RefuseUnattributable
  <2>3. CASE GateConsume(c)          BY <1>2, <2>3 DEF GateConsume
  <2>4. CASE GateLookup(c)           BY <1>2, <2>4 DEF GateLookup, Ends, GoesOn
  <2>5. CASE GateRepoint(c)          BY <1>2, <2>5 DEF GateRepoint, Ends
  <2> QED BY <1>3, <2>1, <2>2, <2>3, <2>4, <2>5 DEF GateCheck
<1>4. ASSUME NEW c \in Calls, CallStep(c) PROVE Passive
  <2>1. CASE AnswerArrives(c)   BY <1>2, <2>1 DEF AnswerArrives
  <2>2. CASE AnswerLost(c)      BY <1>2, <2>2 DEF AnswerLost, Ends
  <2>3. CASE ParkTimeout(c)     BY <1>2, <2>3 DEF ParkTimeout, EndWait
  <2>4. CASE RunCancelled(c)    BY <1>2, <2>4 DEF RunCancelled, EndWait
  <2>5. CASE ForeignDecision(c) BY <1>2, <2>5 DEF ForeignDecision, EndWait
  <2>6. CASE LinkApproval(c)    BY <1>1, <2>6 DEF LinkApproval
  <2>7. CASE BroadcastLost(c)   BY <1>1, <2>7 DEF BroadcastLost
  <2>8. ASSUME NEW how \in Resolutions, RecordResolution(c, how) \/ ReportLost(c, how)
        PROVE  Passive
    BY <1>1, <2>8 DEF RecordResolution, ReportLost
  <2> QED BY <1>4, <2>1, <2>2, <2>3, <2>4, <2>5, <2>6, <2>7, <2>8 DEF CallStep
<1>5. ASSUME NEW r \in Rows, RowStep(r) PROVE Passive
  <2>1. CASE ResolveTakesEffect(r)
    <3>1. decision[r].addr \in Calls
      BY <2>1 DEF TypeOK, AddressKnown, Decision, ResolveTakesEffect
    <3> QED BY <1>2, <2>1, <3>1 DEF ResolveTakesEffect, EndWait
  <2>2. CASE ~ResolveTakesEffect(r)
    BY <1>1, <1>5, <2>2 DEF RowStep, DecisionRoute, DecisionRead, DecisionFlip, LinkFound,
       LinkWaitEnds, ResolveFails, DecisionDies, Age
  <2> QED BY <2>1, <2>2
<1>6. CASE Sweep
  BY <1>1, <1>6 DEF Sweep
<1> QED BY <1>3, <1>4, <1>5, <1>6 DEF Next

-----------------------------------------------------------------------------
(* The inductive invariant. *)

\* At most MaxChecks gate-checks are under way; what a check excludes as overdue
\* is an opened row and stays overdue; the rows that wait for a requester and
\* the inserts already counted for are together within the bound.
CapFits ==
    /\ Cardinality(Underway) <= MaxChecks
    /\ \A c \in Calls : \A r \in lapsed[c] : r \in 1..nrows /\ rows[r].age # "fresh"
    /\ \A p : Cardinality(PendingOf(p)) + Cardinality(Inserting(p)) <= MaxPending + (MaxChecks - 1)

\* A part of a finite set has a cardinality, and no larger one.
LEMMA PartOf ==
  ASSUME NEW T, IsFiniteSet(T), NEW S, S \subseteq T
  PROVE  /\ IsFiniteSet(S) /\ Cardinality(S) \in Nat /\ Cardinality(T) \in Nat
         /\ Cardinality(S) <= Cardinality(T)
  BY FS_Subset, FS_CardinalityType

\* One more element counts at most once.
LEMMA OneMore ==
  ASSUME NEW S, IsFiniteSet(S), NEW x
  PROVE  /\ IsFiniteSet(S \cup {x}) /\ Cardinality(S \cup {x}) \in Nat
         /\ Cardinality(S \cup {x}) <= Cardinality(S) + 1
<1>1. IsFiniteSet(S \cup {x})
  BY FS_AddElement
<1>2. Cardinality(S \cup {x}) \in Nat /\ Cardinality(S) \in Nat
  BY <1>1, FS_CardinalityType
<1>3. Cardinality(S \cup {x}) \in {Cardinality(S), Cardinality(S) + 1}
  BY FS_AddElement
<1> QED BY <1>1, <1>2, <1>3

\* The sets that are counted are finite.
LEMMA CountedSets ==
  ASSUME TypeOK, IsFiniteSet(Calls), NEW p
  PROVE  /\ IsFiniteSet(Rows) /\ IsFiniteSet(PendingOf(p))
         /\ IsFiniteSet(Underway) /\ IsFiniteSet(Inserting(p))
         /\ Inserting(p) \subseteq Underway
         /\ Cardinality(PendingOf(p)) \in Nat /\ Cardinality(Inserting(p)) \in Nat
         /\ Cardinality(Underway) \in Nat
<1>1. IsFiniteSet(Rows)
  BY ConstantsAssumption, FS_Interval DEF Rows
<1>2. /\ PendingOf(p) \subseteq Rows /\ Underway \subseteq Calls
      /\ Inserting(p) \subseteq Underway
  BY DEF PendingOf, Underway, Inserting, Checking
<1> QED BY <1>1, <1>2, PartOf

\* A row that a gate-check finds overdue has been opened.
LEMMA OverdueOpened ==
  ASSUME TypeOK, TrailsFit, NEW r \in Overdue
  PROVE  r \in 1..nrows /\ rows[r].age # "fresh"
  BY DEF Overdue, TrailsFit, TrailFits, TypeOK, Rows

\* What was excluded as overdue stays so.
LEMMA LapsedStep ==
  ASSUME TypeOK, AddressKnown, TrailsFit, CapFits, Next,
         NEW c \in Calls, NEW r \in lapsed'[c]
  PROVE  r \in 1..nrows' /\ rows'[r].age # "fresh"
<1>1. r \in 1..nrows /\ rows[r].age # "fresh"
  <2>1. r \in lapsed[c] \/ r \in Overdue
    <3>1. CASE Passive
      BY <3>1 DEF Passive
    <3>2. ASSUME NEW d \in Calls, GateMiss(d) \/ GateCount(d) \/ GateInsert(d)
          PROVE  r \in lapsed[c] \/ r \in Overdue
      BY <3>2 DEF GateMiss, GateCount, GateInsert, Ends, gateVars, TypeOK
    <3> QED BY <3>1, <3>2, StepChecks
  <2> QED BY <2>1, OverdueOpened DEF CapFits
<1>2. r \in Rows /\ ~OpenedNow(r) /\ r \in 1..nrows'
  BY <1>1, RowCountEffect, ConstantsAssumption DEF TypeOK, Rows, OpenedNow
<1> QED BY <1>1, <1>2, StepAge DEF AgeKept

\* The number of gate-checks under way stays within its bound.
LEMMA UnderwayStep ==
  ASSUME TypeOK, TypeOK', AddressKnown, IsFiniteSet(Calls), CapFits, Next
  PROVE  Cardinality(Underway)' <= MaxChecks
<1>0. /\ IsFiniteSet(Underway) /\ Cardinality(Underway) \in Nat /\ MaxChecks \in Nat
  BY CountedSets, ConstantsAssumption
<1>1. CASE Underway' \subseteq Underway
  BY <1>0, <1>1, PartOf DEF CapFits
<1>2. ASSUME NEW c \in Calls, GateMiss(c) PROVE Cardinality(Underway)' <= MaxChecks
  <2>1. Cardinality(Underway) < MaxChecks
    BY <1>2 DEF GateMiss, Underway
  <2>2. Underway' \subseteq Underway \cup {c}
    BY <1>2 DEF GateMiss, Underway, TypeOK
  <2> DEFINE U == Underway \cup {c}
  <2>3. IsFiniteSet(U) /\ Cardinality(U) \in Nat /\ Cardinality(U) <= Cardinality(Underway) + 1
    BY <1>0, OneMore
  <2>4. Cardinality(Underway') <= Cardinality(U) /\ Cardinality(Underway') \in Nat
    BY <2>2, <2>3, PartOf
  <2> HIDE DEF U
  <2> QED BY <1>0, <2>1, <2>3, <2>4
<1>3. ASSUME NEW c \in Calls, GateCount(c) \/ GateInsert(c) PROVE Underway' \subseteq Underway
  BY <1>3 DEF GateCount, GateInsert, Ends, GoesOn, Underway, Checking, TypeOK
<1>4. CASE Passive
  BY <1>1, <1>4 DEF Passive, Underway
<1> QED BY <1>1, <1>2, <1>3, <1>4, StepChecks

\* The count sees every confirmation that waits: what it leaves out is overdue.
LEMMA CountSeesAll ==
  ASSUME TypeOK, CapFits, NEW c \in Calls, NEW p, p = PrincipalOf[BindingOf[c]]
  PROVE  PendingOf(p) \subseteq {r \in Waiting(c) : PrincipalOf[rows[r].binding] = PrincipalOf[BindingOf[c]]}
  BY DEF PendingOf, Waiting, CapFits

\* The rows that wait and the inserts already counted for stay within the
\* bound: a check counts fewer than MaxPending rows before it may insert, and at
\* most MaxChecks - 1 others may do so with it.
LEMMA CapStep ==
  ASSUME TypeOK, TypeOK', AddressKnown, IsFiniteSet(Calls), MaxChecks # 0, CapFits, Next, NEW p
  PROVE  Cardinality(PendingOf(p)') + Cardinality(Inserting(p)') <= MaxPending + (MaxChecks - 1)
<1> DEFINE bound == MaxPending + (MaxChecks - 1)
           W == PendingOf(p)
           I == Inserting(p)
<1> SUFFICES Cardinality(W') + Cardinality(I') <= bound
  OBVIOUS
<1>0. /\ IsFiniteSet(W) /\ Cardinality(W) \in Nat
      /\ IsFiniteSet(I) /\ Cardinality(I) \in Nat
      /\ IsFiniteSet(Underway) /\ Cardinality(Underway) \in Nat
      /\ MaxPending \in Nat /\ MaxChecks \in Nat \ {0}
      /\ Cardinality(W) + Cardinality(I) <= bound
  BY CountedSets, ConstantsAssumption DEF CapFits
<1>00. /\ IsFiniteSet(W') /\ Cardinality(W') \in Nat
       /\ IsFiniteSet(I') /\ Cardinality(I') \in Nat
       /\ IsFiniteSet(Underway') /\ Cardinality(Underway') \in Nat
       /\ I' \subseteq Underway'
  <2>1. /\ IsFiniteSet(Rows) /\ W' \subseteq Rows /\ Underway' \subseteq Calls /\ I' \subseteq Underway'
    BY CountedSets DEF PendingOf, Underway, Inserting, Checking
  <2> QED BY <2>1, PartOf
<1>01. nrows' = nrows => W' \subseteq W
  BY WaitingShrinks DEF OpenedNow, TypeOK
<1>1. CASE W' \subseteq W /\ I' \subseteq I
  <2>1. Cardinality(W') <= Cardinality(W) /\ Cardinality(I') <= Cardinality(I)
    BY <1>0, <1>1, PartOf
  <2> HIDE DEF W, I
  <2> QED BY <1>0, <1>00, <2>1
<1>2. CASE Passive
  <2>1. I' \subseteq I /\ nrows' = nrows
    BY <1>2 DEF Passive, Inserting
  <2> QED BY <1>01, <1>1, <2>1
<1>3. ASSUME NEW c \in Calls, GateMiss(c)
      PROVE  Cardinality(W') + Cardinality(I') <= bound
  <2>1. I' \subseteq I /\ nrows' = nrows
    BY <1>3 DEF GateMiss, Inserting, TypeOK
  <2> QED BY <1>01, <1>1, <2>1
<1>4. ASSUME NEW c \in Calls, GateCount(c)
      PROVE  Cardinality(W') + Cardinality(I') <= bound
  <2>0. nrows' = nrows
    BY <1>4 DEF GateCount
  <2>1. CASE I' \subseteq I
    BY <1>01, <1>1, <2>0, <2>1
  <2>2. CASE ~(I' \subseteq I)
    <3> DEFINE mine == {r \in Waiting(c) : PrincipalOf[rows[r].binding] = PrincipalOf[BindingOf[c]]}
    <3>1. p = PrincipalOf[BindingOf[c]] /\ pc'[c] = "insert"
      BY <1>4, <2>2 DEF GateCount, Ends, GoesOn, Inserting, TypeOK
    <3>2. Cardinality(mine) < MaxPending
      BY <1>4, <3>1 DEF GateCount, Ends, TypeOK
    <3>3. W \subseteq mine
      BY <3>1, CountSeesAll
    <3>4. IsFiniteSet(mine)
      <4>1. mine \subseteq Rows
        BY DEF Waiting
      <4> HIDE DEF mine
      <4> QED BY <4>1, CountedSets, PartOf
    <3> HIDE DEF mine
    <3>5. Cardinality(W) <= Cardinality(mine) /\ Cardinality(mine) \in Nat
      BY <3>3, <3>4, PartOf
    <3>6. Cardinality(W') <= Cardinality(W)
      BY <1>0, <1>01, <2>0, PartOf
    <3>7. Cardinality(I') <= Cardinality(Underway') /\ Cardinality(Underway') <= MaxChecks
      BY <1>00, UnderwayStep, PartOf
    <3> HIDE DEF W, I
    <3> QED BY <1>0, <1>00, <3>2, <3>5, <3>6, <3>7
  <2> QED BY <2>1, <2>2
<1>5. ASSUME NEW c \in Calls, GateInsert(c)
      PROVE  Cardinality(W') + Cardinality(I') <= bound
  <2>1. /\ W' \subseteq W \cup {nrows + 1}
        /\ I' = I \ {c} /\ pc[c] = "insert"
    BY <1>5, WaitingShrinks DEF GateInsert, Ends, Inserting, OpenedNow, TypeOK
  <2>2. CASE p = PrincipalOf[BindingOf[c]]
    <3>1. c \in I
      BY <2>1, <2>2 DEF Inserting
    <3>2. Cardinality(I') = Cardinality(I) - 1
      BY <1>0, <2>1, <3>1, FS_RemoveElement
    <3>3. /\ IsFiniteSet(W \cup {nrows + 1}) /\ Cardinality(W \cup {nrows + 1}) \in Nat
          /\ Cardinality(W \cup {nrows + 1}) <= Cardinality(W) + 1
      BY <1>0, OneMore
    <3>4. Cardinality(W') <= Cardinality(W \cup {nrows + 1})
      BY <2>1, <3>3, PartOf
    <3> HIDE DEF W, I
    <3> QED BY <1>0, <1>00, <3>2, <3>3, <3>4
  <2>3. CASE p # PrincipalOf[BindingOf[c]]
    <3>1. nrows + 1 \in Rows => rows'[nrows + 1].binding = BindingOf[c]
      BY <1>5 DEF GateInsert, NewRow, TypeOK
    <3>2. nrows + 1 \notin W'
      BY <2>3, <3>1 DEF PendingOf
    <3> QED BY <1>1, <2>1, <3>2
  <2> QED BY <2>2, <2>3
<1> QED BY <1>2, <1>3, <1>4, <1>5, StepChecks

\* No step leaves the bound.
LEMMA CapFitsStep ==
  ASSUME TypeOK, TypeOK', AddressKnown, TrailsFit, IsFiniteSet(Calls), MaxChecks # 0, CapFits, Next
  PROVE  CapFits'
<1>1. \A p : Cardinality(PendingOf(p)') + Cardinality(Inserting(p)') <= MaxPending + (MaxChecks - 1)
  BY CapStep
<1>2. Cardinality(Underway)' <= MaxChecks
  BY UnderwayStep
<1>3. \A c \in Calls : \A r \in lapsed'[c] : r \in 1..nrows' /\ rows'[r].age # "fresh"
  BY LapsedStep
<1> QED BY <1>1, <1>2, <1>3 DEF CapFits

\* The cap of gate-check on waiting confirmations is exceeded by overlapping
\* checks only, and by at most one for each check that overlaps, however long
\* the run, however many calls and whatever is decided, reported or expired
\* between the count and the insert.
THEOREM CapHolds ==
  ASSUME IsFiniteSet(Calls), MaxChecks # 0
  PROVE  Spec => []PendingCapped
<1>1. Init => CapFits
  <2> SUFFICES ASSUME Init PROVE CapFits
    OBVIOUS
  <2>1. Underway = {} /\ \A p : PendingOf(p) = {} /\ Inserting(p) = {}
    BY DEF Init, Underway, Checking, PendingOf, Inserting, NewRow
  <2>2. \A c \in Calls : lapsed[c] = {}
    BY DEF Init
  <2>3. /\ Cardinality(Underway) = 0
        /\ \A p : Cardinality(PendingOf(p)) = 0 /\ Cardinality(Inserting(p)) = 0
    BY <2>1, FS_EmptySet
  <2> QED BY <2>2, <2>3, ConstantsAssumption DEF CapFits
<1>2. TypeOK /\ TypeOK' /\ AddressKnown /\ TrailsFit /\ CapFits /\ [Next]_vars => CapFits'
  <2>1. CapFits /\ UNCHANGED vars => CapFits'
    BY DEF vars, gateVars, CapFits, Underway, PendingOf, Inserting
  <2> QED BY <2>1, CapFitsStep
<1>3. TypeOK /\ CapFits => PendingCapped
  <2> SUFFICES ASSUME TypeOK, CapFits, NEW p
               PROVE  Cardinality(PendingOf(p)) <= MaxPending + (MaxChecks - 1)
    BY DEF PendingCapped
  <2>1. /\ Cardinality(PendingOf(p)) \in Nat /\ Cardinality(Inserting(p)) \in Nat
        /\ Cardinality(PendingOf(p)) + Cardinality(Inserting(p)) <= MaxPending + (MaxChecks - 1)
    BY CountedSets DEF CapFits
  <2> QED BY <2>1, ConstantsAssumption
<1> QED BY <1>1, <1>2, <1>3, TypeCorrect, TrailsKept, PTL DEF Spec

=============================================================================
