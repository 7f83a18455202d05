---------------------------- MODULE UploadsProofs ----------------------------
(***************************************************************************)
(* What was attached keeps its bytes, for any number of uploads, sends and *)
(* names, as long as no upload expires under a send that has checked it    *)
(* and no restart catches the undo of an insert that was committed after   *)
(* all.                                                                    *)
(***************************************************************************)
EXTENDS Uploads, TLAPS

\* A committed insert that was reported as failed is undone in two removals; a
\* restart between them would leave a row that the sweep collects by its name.
NoTornUndo ==
    \/ "database" \notin UploadFaults
    \/ "restart" \notin UploadFaults
    \/ MaxUploadFaults <= 1

-----------------------------------------------------------------------------
(* The invariant. *)

\* The request has the reserved name to itself: it exists, and is not undone yet.
Reserving == {"stage", "insert", "undo", "unslot"}

\* Where the request that makes an upload is, and what is there of it by then.
PostFits(f) ==
    LET at == post[f].at IN
    /\ at \in Reserving \cup {"unstage"} => post[f].slot \in Slots
    /\ at \in {"new", "reserve", "stage", "insert"} => upload[f].status = "none"
    /\ at = "insert" => staging[f] = "full"
    /\ at = "unslot" => staging[f] = "none"
    /\ post[f].sent => at = "ended"

\* A row has the name that was reserved for it; one the client was not told of is
\* what a failed insert left behind, and is without staged bytes at the end.  One
\* that is not there any more has expired.
RowFits(f) ==
    LET row == upload[f] IN
    /\ row.status # "none" => row.name = post[f].slot /\ row.name \in Slots
    /\ row.status = "attached" => post[f].sent
    /\ row.status # "none" /\ ~post[f].sent => "database" \in UploadFaults /\ uploadFaults >= 1
    /\ row.status # "none" /\ ~post[f].sent /\ post[f].at = "ended" => staging[f] = "none"
    /\ row.stale => post[f].at = "ended"
    /\ post[f].sent /\ row.status = "none" => row.stale

\* Whose slot it is: that of a request under way, and that of a row as long as its
\* bytes are staged, in the slot, attached, or being collected.
Holding(f) ==
    \/ post[f].at \in Reserving
    \/ /\ post[f].sent /\ upload[f].status # "none"
       /\ \/ staging[f] # "none"
          \/ slot[post[f].slot] = f
          \/ upload[f].status = "attached"
          \/ gc.at = "slot" /\ gc.file = f

\* A slot that is held is there, and no other file is in it.
SlotsHeld ==
    /\ \A f \in Files : Holding(f) => slot[post[f].slot] \in {Placeholder, f}
    /\ \A f, g \in Files : Holding(f) /\ Holding(g) /\ post[f].slot = post[g].slot => f = g

\* What a send works on is acknowledged, and fresh once it has been looked at.
SendFits(o) ==
    /\ \A f \in o.named \cup o.rows : post[f].sent
    /\ o.at \in {"rename", "tidy", "flip"} => \A f \in o.rows : ~upload[f].stale
    /\ o.at \in {"tidy", "flip"} =>
         /\ o.file \in Files
         /\ post[o.file].sent /\ ~upload[o.file].stale
         /\ slot[post[o.file].slot] = o.file
    /\ \A f \in o.refs \cup o.again : upload[f].status = "attached"

\* What is being collected has expired, and was not sent.
SweepFits ==
    /\ gc.at \in {"slot", "row"} => gc.file \in Files \ gc.rows
    /\ \A f \in gc.rows : upload[f].status = "staged" /\ upload[f].stale
    /\ gc.at \in {"slot", "row"} => upload[gc.file].status = "staged" /\ upload[gc.file].stale
    /\ gc.at = "slot" => post[gc.file].sent /\ staging[gc.file] = "none"

\* What is attached has its bytes at its name, and only that was handed over.
HandedFits ==
    /\ \A f \in Files : upload[f].status = "attached" => slot[post[f].slot] = f
    /\ \A f \in handed : upload[f].status = "attached"

UploadsInv ==
    /\ UploadsTypeOK
    /\ \A f \in Files : PostFits(f) /\ RowFits(f)
    /\ SlotsHeld
    /\ \A s \in Frames : SendFits(frame[s])
    /\ SweepFits
    /\ HandedFits

-----------------------------------------------------------------------------
(* What keeps the parts of it. *)

\* An upload whose request, row and bytes stay as they are.
LEMMA OtherFits ==
  ASSUME UploadsTypeOK, NEW g \in Files, PostFits(g), RowFits(g),
         post'[g] = post[g], upload'[g] = upload[g], staging'[g] = staging[g],
         uploadFaults' \in Nat, uploadFaults' >= uploadFaults
  PROVE  PostFits(g)' /\ RowFits(g)'
<1>1. PostFits(g)'
  BY DEF PostFits
<1>2. uploadFaults >= 1 => uploadFaults' >= 1
  BY DEF UploadsTypeOK
<1>3. RowFits(g)'
  BY <1>2 DEF RowFits
<1> QED BY <1>1, <1>3

\* Nobody begins to hold a slot, and only its holder f changes one.
LEMMA SlotsKept ==
  ASSUME SlotsHeld, NEW f \in Files, NEW x,
         \A g \in Files : Holding(g)' => Holding(g) /\ post'[g].slot = post[g].slot,
         \/ slot' = slot
         \/ Holding(f) /\ slot' = [slot EXCEPT ![post[f].slot] = x] /\ (x = f \/ ~Holding(f)')
  PROVE  SlotsHeld'
<1>1. ASSUME NEW g \in Files, NEW h \in Files, Holding(g)', Holding(h)', post'[g].slot = post'[h].slot
      PROVE  g = h
  BY <1>1 DEF SlotsHeld
<1>2. ASSUME NEW g \in Files, Holding(g)'
      PROVE  slot'[post'[g].slot] \in {Placeholder, g}
  <2>1. Holding(g) /\ post'[g].slot = post[g].slot /\ slot[post[g].slot] \in {Placeholder, g}
    BY <1>2 DEF SlotsHeld
  <2>2. CASE slot' = slot
    BY <2>1, <2>2
  <2>3. CASE Holding(f) /\ slot' = [slot EXCEPT ![post[f].slot] = x] /\ (x = f \/ ~Holding(f)')
    <3>1. CASE g = f
      <4>1. x = f
        BY <1>2, <2>3, <3>1
      <4>2. slot'[post[g].slot] \in {slot[post[g].slot], x}
        BY <2>3
      <4> QED BY <2>1, <3>1, <4>1, <4>2
    <3>2. CASE g # f
      <4>1. post[g].slot # post[f].slot
        BY <2>1, <2>3, <3>2 DEF SlotsHeld
      <4>2. slot'[post[g].slot] = slot[post[g].slot]
        BY <2>3, <4>1
      <4> QED BY <2>1, <4>2
    <3> QED BY <3>1, <3>2
  <2> QED BY <2>2, <2>3
<1> QED BY <1>1, <1>2 DEF SlotsHeld

\* The slot of a holder is not touched when another holder changes its own.
LEMMA OtherSlot ==
  ASSUME SlotsHeld, NEW f \in Files, NEW g \in Files, Holding(f), Holding(g), f # g, NEW x,
         slot' = [slot EXCEPT ![post[f].slot] = x]
  PROVE  slot'[post[g].slot] = slot[post[g].slot]
<1>1. post[g].slot # post[f].slot
  BY DEF SlotsHeld
<1> QED BY <1>1

\* What is attached holds its slot.
LEMMA AttachedHolds ==
  ASSUME NEW f \in Files, RowFits(f), upload[f].status = "attached"
  PROVE  Holding(f) /\ post[f].sent
BY DEF RowFits, Holding

\* What the sends, the sweep and the agent go by is acknowledged uploads, rows, and
\* where files are.
LEMMA ElsewhereKept ==
  ASSUME UploadsTypeOK, \A s \in Frames : SendFits(frame[s]), SweepFits, HandedFits,
         UNCHANGED <<frame, gc, handed>>,
         \A g \in Files : post[g].sent =>
           post'[g] = post[g] /\ upload'[g] = upload[g] /\ staging'[g] = staging[g],
         \A g \in Files : upload[g].status # "none" => upload'[g] = upload[g] /\ post'[g].slot = post[g].slot,
         \A g \in Files : upload'[g].status = "attached" => upload[g].status = "attached",
         \A g \in Files : slot[post[g].slot] = g /\ post[g].sent => slot'[post[g].slot] = g,
         \A g \in Files : upload[g].status = "attached" => post[g].sent
  PROVE  /\ \A s \in Frames : SendFits(frame[s])'
         /\ SweepFits'
         /\ HandedFits'
<1>1. SweepFits'
  BY DEF SweepFits, UploadsTypeOK, Sweep
<1>2. HandedFits'
  BY DEF HandedFits, UploadsTypeOK
<1>3. ASSUME NEW s \in Frames PROVE SendFits(frame[s])'
  <2>1. /\ frame[s].named \subseteq Files /\ frame[s].rows \subseteq Files
        /\ frame[s].refs \subseteq Files /\ frame[s].again \subseteq Files
    BY DEF UploadsTypeOK, Send
  <2>2. SendFits(frame[s])
    OBVIOUS
  <2> QED BY <2>1, <2>2 DEF SendFits
<1> QED BY <1>1, <1>2, <1>3

-----------------------------------------------------------------------------
(* The request that makes an upload. *)

\* A step of the request of f: it changes its own stage, row and bytes, and a slot
\* that is its own; what it adds to the invariant is about f alone.
LEMMA PostKeeps ==
  ASSUME UploadsInv, NEW f \in Files, UploadsTypeOK', ~post[f].sent,
         UNCHANGED <<frame, gc, handed>>,
         \A g \in Files \ {f} : post'[g] = post[g] /\ upload'[g] = upload[g] /\ staging'[g] = staging[g],
         post'[f].slot = post[f].slot \/ upload[f].status = "none",
         upload'[f].status # "attached",
         upload[f].status # "none" => upload'[f] = upload[f],
         uploadFaults' >= uploadFaults,
         PostFits(f)', RowFits(f)', SlotsHeld',
         \A g \in Files : post[g].sent => slot'[post[g].slot] = slot[post[g].slot] \/ slot[post[g].slot] # g
  PROVE  UploadsInv'
<1>0. /\ UploadsTypeOK /\ SweepFits /\ HandedFits /\ \A s \in Frames : SendFits(frame[s])
      /\ \A g \in Files : PostFits(g) /\ RowFits(g)
  BY DEF UploadsInv
<1>1. \A g \in Files : PostFits(g)' /\ RowFits(g)'
  <2>1. uploadFaults' \in Nat
    BY DEF UploadsTypeOK
  <2> QED BY <1>0, <2>1, OtherFits
<1>2. upload[f].status # "attached"
  BY <1>0 DEF RowFits
<1>3. \A g \in Files : upload[g].status = "attached" => post[g].sent
  BY <1>0 DEF RowFits
<1>4. /\ \A g \in Files : post[g].sent =>
           post'[g] = post[g] /\ upload'[g] = upload[g] /\ staging'[g] = staging[g]
      /\ \A g \in Files : upload[g].status # "none" => upload'[g] = upload[g] /\ post'[g].slot = post[g].slot
      /\ \A g \in Files : upload'[g].status = "attached" => upload[g].status = "attached"
  OBVIOUS
<1>5. (\A s \in Frames : SendFits(frame[s])') /\ SweepFits' /\ HandedFits'
  BY <1>0, <1>3, <1>4, ElsewhereKept
<1> QED BY <1>1, <1>5 DEF UploadsInv

LEMMA PostStartKeeps == ASSUME UploadsInv, NEW f \in Files, PostStarts(f) PROVE UploadsInv'
<1>0. UploadsTypeOK /\ PostFits(f) /\ RowFits(f) /\ SlotsHeld
  BY DEF UploadsInv
<1>1. UploadsTypeOK'
  BY <1>0 DEF PostStarts, UploadsTypeOK, PostRequest
<1>2. /\ \A g \in Files \ {f} : post'[g] = post[g]
      /\ post[f].at = "new"
      /\ UNCHANGED <<slot, staging, upload, frame, gc, handed, uploadFaults>>
  BY <1>0 DEF PostStarts, UploadsTypeOK
<1>3. post'[f].at = "reserve" /\ post'[f].slot = post[f].slot /\ post'[f].sent = post[f].sent
  BY <1>0 DEF PostStarts, UploadsTypeOK, PostRequest
<1>4. PostFits(f)' /\ RowFits(f)' /\ ~post[f].sent /\ upload[f].status = "none"
  BY <1>0, <1>2, <1>3 DEF PostFits, RowFits, Reserving
<1>5. \A g \in Files : Holding(g)' => Holding(g) /\ post'[g].slot = post[g].slot
  BY <1>2, <1>3 DEF Holding, Reserving
<1>6. SlotsHeld'
  BY <1>0, <1>2, <1>5, SlotsKept
<1>7. uploadFaults' >= uploadFaults
  BY <1>0, <1>2 DEF UploadsTypeOK
<1> QED BY <1>1, <1>2, <1>3, <1>4, <1>6, <1>7, PostKeeps

LEMMA ProbeKeeps == ASSUME UploadsInv, NEW f \in Files, ProbeSlot(f) PROVE UploadsInv'
<1>0. UploadsTypeOK /\ PostFits(f) /\ RowFits(f) /\ SlotsHeld /\ post[f] \in PostRequest
  BY DEF UploadsInv, UploadsTypeOK
<1>1. /\ UNCHANGED <<staging, upload, frame, gc, handed, uploadFaults>>
      /\ post[f].at = "reserve" /\ ~post[f].sent /\ upload[f].status = "none"
      /\ uploadFaults' >= uploadFaults
  BY <1>0 DEF ProbeSlot, PostFits, UploadsTypeOK
<1>2. ASSUME NEW q \in PostRequest, post' = [post EXCEPT ![f] = q], slot' = slot,
             q.at \in {"reserve", "ended"}, q.sent = post[f].sent
      PROVE  UploadsInv'
  <2>1. UploadsTypeOK'
    BY <1>0, <1>1, <1>2 DEF UploadsTypeOK
  <2>2. post'[f] = q /\ \A g \in Files \ {f} : post'[g] = post[g]
    BY <1>0, <1>2 DEF UploadsTypeOK
  <2>3. PostFits(f)' /\ RowFits(f)'
    BY <1>0, <1>1, <1>2, <2>2 DEF PostFits, RowFits, Reserving
  <2>4. \A g \in Files : Holding(g)' => Holding(g) /\ post'[g].slot = post[g].slot
    BY <1>1, <1>2, <2>2 DEF Holding, Reserving
  <2>5. SlotsHeld'
    BY <1>0, <1>2, <2>4, SlotsKept
  <2> QED BY <1>1, <1>2, <2>1, <2>2, <2>3, <2>5, PostKeeps
<1>3. CASE post[f].slot > MaxCollisions /\ post' = [post EXCEPT ![f].at = "ended"] /\ slot' = slot
  <2>1. [post[f] EXCEPT !.at = "ended"] \in PostRequest
    BY <1>0 DEF PostRequest
  <2> QED BY <1>0, <1>2, <1>3, <2>1 DEF PostRequest
<1>4. CASE post[f].slot \in Slots /\ post' = [post EXCEPT ![f].slot = @ + 1] /\ slot' = slot
  <2>1. post[f].slot + 1 \in 0..(MaxCollisions + 1)
    BY <1>4, UploadsAssumption DEF Slots
  <2>2. [post[f] EXCEPT !.slot = @ + 1] \in PostRequest
    BY <1>0, <2>1 DEF PostRequest
  <2> QED BY <1>0, <1>1, <1>2, <1>4, <2>2 DEF PostRequest
<1>5. CASE /\ post[f].slot \in Slots /\ slot[post[f].slot] = NoFile
           /\ slot' = [slot EXCEPT ![post[f].slot] = Placeholder]
           /\ post' = [post EXCEPT ![f].at = "stage"]
  <2>1. UploadsTypeOK'
    BY <1>0, <1>1, <1>5 DEF UploadsTypeOK, PostRequest
  <2>2. /\ post'[f].at = "stage" /\ post'[f].slot = post[f].slot /\ post'[f].sent = post[f].sent
        /\ \A g \in Files \ {f} : post'[g] = post[g]
    BY <1>0, <1>5 DEF UploadsTypeOK, PostRequest
  <2>3. PostFits(f)' /\ RowFits(f)'
    BY <1>0, <1>1, <1>5, <2>2 DEF PostFits, RowFits, Reserving
  <2>4. slot \in [Slots -> Files \cup {NoFile, Placeholder}]
    BY <1>0 DEF UploadsTypeOK
  <2>5. ASSUME NEW g \in Files, g # f, Holding(g)'
        PROVE  /\ post'[g] = post[g] /\ post[g].slot # post[f].slot
               /\ slot'[post'[g].slot] \in {Placeholder, g}
               /\ Holding(g)
    <3>1. post'[g] = post[g]
      BY <2>2, <2>5
    <3>2. slot'[post[g].slot] = g => slot[post[g].slot] = g
      BY <1>5, <2>4, UploadsAssumption
    <3>3. Holding(g)
      BY <1>1, <2>5, <3>1, <3>2 DEF Holding
    <3>4. slot[post[g].slot] \in {Placeholder, g}
      BY <1>0, <3>3 DEF SlotsHeld
    <3>5. post[g].slot # post[f].slot
      BY <1>5, <3>4, UploadsAssumption
    <3> QED BY <1>5, <3>1, <3>3, <3>4, <3>5
  <2>6. slot'[post'[f].slot] = Placeholder
    BY <1>5, <2>2, <2>4
  <2>7. SlotsHeld'
    <3>1. \A g \in Files : Holding(g)' => slot'[post'[g].slot] \in {Placeholder, g}
      BY <2>5, <2>6
    <3>2. \A g, h \in Files : Holding(g)' /\ Holding(h)' /\ post'[g].slot = post'[h].slot => g = h
      BY <1>0, <2>2, <2>5 DEF SlotsHeld
    <3> QED BY <3>1, <3>2 DEF SlotsHeld
  <2>8. \A g \in Files : post[g].sent => slot'[post[g].slot] = slot[post[g].slot] \/ slot[post[g].slot] # g
    BY <1>5, <2>4, UploadsAssumption
  <2> QED BY <1>1, <2>1, <2>2, <2>3, <2>7, <2>8, PostKeeps
<1> QED BY <1>3, <1>4, <1>5 DEF ProbeSlot

LEMMA StageKeeps == ASSUME UploadsInv, NEW f \in Files, StageFile(f) PROVE UploadsInv'
<1>0. UploadsTypeOK /\ PostFits(f) /\ RowFits(f) /\ SlotsHeld /\ post[f] \in PostRequest
  BY DEF UploadsInv, UploadsTypeOK
<1>1. /\ UNCHANGED <<slot, upload, frame, gc, handed>>
      /\ post[f].at = "stage" /\ ~post[f].sent /\ upload[f].status = "none" /\ post[f].slot \in Slots
  BY <1>0 DEF StageFile, PostFits, Reserving
<1>2. /\ uploadFaults' >= uploadFaults /\ uploadFaults' \in 0..MaxUploadFaults
  BY <1>0, UploadsAssumption DEF StageFile, UploadFault, UploadsTypeOK
<1>3. ASSUME NEW b \in {"full", "empty"}, NEW a \in {"insert", "ended"}, b = "full" \/ a = "ended",
             staging' = [staging EXCEPT ![f] = b], post' = [post EXCEPT ![f].at = a]
      PROVE  UploadsInv'
  <2>1. UploadsTypeOK'
    BY <1>0, <1>1, <1>2, <1>3 DEF UploadsTypeOK, PostRequest
  <2>2. /\ post'[f].at = a /\ post'[f].slot = post[f].slot /\ post'[f].sent = post[f].sent
        /\ staging'[f] = b
        /\ \A g \in Files \ {f} : post'[g] = post[g] /\ staging'[g] = staging[g]
    BY <1>0, <1>3 DEF UploadsTypeOK, PostRequest
  <2>3. PostFits(f)' /\ RowFits(f)'
    BY <1>0, <1>1, <1>3, <2>2 DEF PostFits, RowFits, Reserving
  <2>4. \A g \in Files : Holding(g)' => Holding(g) /\ post'[g].slot = post[g].slot
    BY <1>1, <1>3, <2>2 DEF Holding, Reserving
  <2>5. SlotsHeld'
    BY <1>0, <1>1, <2>4, SlotsKept
  <2> QED BY <1>1, <1>2, <2>1, <2>2, <2>3, <2>5, PostKeeps
<1> QED BY <1>3 DEF StageFile

LEMMA InsertKeeps == ASSUME UploadsInv, NEW f \in Files, InsertRow(f) PROVE UploadsInv'
<1>0. UploadsTypeOK /\ PostFits(f) /\ RowFits(f) /\ SlotsHeld /\ post[f] \in PostRequest
  BY DEF UploadsInv, UploadsTypeOK
<1>1. /\ UNCHANGED <<slot, staging, frame, gc, handed>>
      /\ post[f].at = "insert" /\ ~post[f].sent /\ upload[f].status = "none" /\ post[f].slot \in Slots
      /\ staging[f] = "full"
  BY <1>0 DEF InsertRow, PostFits, Reserving
<1>2. uploadFaults' >= uploadFaults /\ uploadFaults' \in 0..MaxUploadFaults
  BY <1>0, UploadsAssumption DEF InsertRow, UploadFault, UploadsTypeOK
<1> DEFINE row == [status |-> "staged", name |-> post[f].slot, stale |-> FALSE]
<1>3. row \in UploadRow /\ row.status = "staged" /\ row.name = post[f].slot /\ ~row.stale
  BY <1>1 DEF UploadRow, Slots
<1> HIDE DEF row
<1>4. CASE upload' = [upload EXCEPT ![f] = row] /\ post' = [post EXCEPT ![f].at = "ended", ![f].sent = TRUE]
  <2>1. UploadsTypeOK'
    BY <1>0, <1>1, <1>2, <1>3, <1>4 DEF UploadsTypeOK, PostRequest
  <2>2. /\ post'[f].at = "ended" /\ post'[f].slot = post[f].slot /\ post'[f].sent
        /\ upload'[f] = row
        /\ \A g \in Files \ {f} : post'[g] = post[g] /\ upload'[g] = upload[g]
    BY <1>0, <1>4 DEF UploadsTypeOK, PostRequest
  <2>3. PostFits(f)' /\ RowFits(f)'
    BY <1>0, <1>1, <1>3, <2>2 DEF PostFits, RowFits, Reserving
  <2>4. \A g \in Files : Holding(g)' => Holding(g) /\ post'[g].slot = post[g].slot
    BY <1>1, <2>2 DEF Holding, Reserving
  <2>5. SlotsHeld'
    BY <1>0, <1>1, <2>4, SlotsKept
  <2> QED BY <1>1, <1>2, <1>3, <2>1, <2>2, <2>3, <2>5, PostKeeps
<1>5. CASE /\ UploadFault("database") /\ upload' \in {upload, [upload EXCEPT ![f] = row]}
           /\ post' = [post EXCEPT ![f].at = "undo"]
  <2>1. UploadsTypeOK'
    BY <1>0, <1>1, <1>2, <1>3, <1>5 DEF UploadsTypeOK, PostRequest
  <2>2. /\ post'[f].at = "undo" /\ post'[f].slot = post[f].slot /\ ~post'[f].sent
        /\ upload'[f] \in {upload[f], row}
        /\ \A g \in Files \ {f} : post'[g] = post[g] /\ upload'[g] = upload[g]
    BY <1>0, <1>1, <1>5 DEF UploadsTypeOK, PostRequest
  <2>3. "database" \in UploadFaults /\ uploadFaults' >= 1
    BY <1>0, <1>5 DEF UploadFault, UploadsTypeOK
  <2>4. PostFits(f)' /\ RowFits(f)'
    BY <1>0, <1>1, <1>3, <2>2, <2>3 DEF PostFits, RowFits, Reserving
  <2>5. \A g \in Files : Holding(g)' => Holding(g) /\ post'[g].slot = post[g].slot
    BY <1>1, <2>2 DEF Holding, Reserving
  <2>6. SlotsHeld'
    BY <1>0, <1>1, <2>5, SlotsKept
  <2> QED BY <1>1, <1>2, <1>3, <2>1, <2>2, <2>4, <2>6, PostKeeps
<1> QED BY <1>4, <1>5 DEF InsertRow, row

\* UndoStaging leaves the slot to UndoSlot, or ends the request.
LEMMA UnstageKeeps == ASSUME UploadsInv, NEW f \in Files, UndoStaging(f) PROVE UploadsInv'
<1>0. UploadsTypeOK /\ PostFits(f) /\ RowFits(f) /\ SlotsHeld /\ post[f] \in PostRequest
  BY DEF UploadsInv, UploadsTypeOK
<1>1. /\ UNCHANGED <<slot, upload, frame, gc, handed, uploadFaults>>
      /\ post[f].at \in {"undo", "unstage"} /\ ~post[f].sent /\ post[f].slot \in Slots
      /\ upload[f].status # "attached"
      /\ uploadFaults' >= uploadFaults
  BY <1>0 DEF UndoStaging, PostFits, RowFits, Reserving, UploadsTypeOK
<1> DEFINE a == IF post[f].at = "undo" THEN "unslot" ELSE "ended"
<1>2. /\ staging' = [staging EXCEPT ![f] = "none"] /\ post' = [post EXCEPT ![f].at = a]
      /\ (a = "unslot" /\ post[f].at = "undo") \/ a = "ended"
  BY DEF UndoStaging
<1> HIDE DEF a
<1>3. UploadsTypeOK'
  BY <1>0, <1>1, <1>2 DEF UploadsTypeOK, PostRequest
<1>4. /\ post'[f].at = a /\ post'[f].slot = post[f].slot /\ ~post'[f].sent
      /\ staging'[f] = "none"
      /\ \A g \in Files \ {f} : post'[g] = post[g] /\ staging'[g] = staging[g]
  BY <1>0, <1>1, <1>2 DEF UploadsTypeOK, PostRequest
<1>5. PostFits(f)' /\ RowFits(f)'
  BY <1>0, <1>1, <1>2, <1>4 DEF PostFits, RowFits, Reserving
<1>6. \A g \in Files : Holding(g)' => Holding(g) /\ post'[g].slot = post[g].slot
  BY <1>1, <1>2, <1>4 DEF Holding, Reserving
<1>7. SlotsHeld'
  BY <1>0, <1>1, <1>6, SlotsKept
<1> QED BY <1>1, <1>3, <1>4, <1>5, <1>7, PostKeeps

\* UndoSlot takes away a slot that is still the request's own.
LEMMA UnslotKeeps == ASSUME UploadsInv, NEW f \in Files, UndoSlot(f) PROVE UploadsInv'
<1>0. UploadsTypeOK /\ PostFits(f) /\ RowFits(f) /\ SlotsHeld /\ post[f] \in PostRequest
  BY DEF UploadsInv, UploadsTypeOK
<1>1. /\ UNCHANGED <<staging, upload, frame, gc, handed, uploadFaults>>
      /\ post[f].at \in {"undo", "unslot"} /\ ~post[f].sent /\ post[f].slot \in Slots
      /\ upload[f].status # "attached"
      /\ post[f].at = "unslot" => staging[f] = "none"
      /\ uploadFaults' >= uploadFaults
  BY <1>0 DEF UndoSlot, PostFits, RowFits, Reserving, UploadsTypeOK
<1> DEFINE a == IF post[f].at = "undo" THEN "unstage" ELSE "ended"
<1>2. /\ slot' = [slot EXCEPT ![post[f].slot] = NoFile] /\ post' = [post EXCEPT ![f].at = a]
      /\ a = "unstage" \/ (a = "ended" /\ post[f].at = "unslot")
  BY <1>1 DEF UndoSlot
<1> HIDE DEF a
<1>3. UploadsTypeOK'
  BY <1>0, <1>1, <1>2 DEF UploadsTypeOK, PostRequest
<1>4. /\ post'[f].at = a /\ post'[f].slot = post[f].slot /\ ~post'[f].sent
      /\ \A g \in Files \ {f} : post'[g] = post[g]
  BY <1>0, <1>1, <1>2 DEF UploadsTypeOK, PostRequest
<1>5. PostFits(f)' /\ RowFits(f)'
  BY <1>0, <1>1, <1>2, <1>4 DEF PostFits, RowFits, Reserving
<1>6. Holding(f) /\ ~Holding(f)'
  BY <1>1, <1>2, <1>4 DEF Holding, Reserving
<1>7. slot \in [Slots -> Files \cup {NoFile, Placeholder}]
  BY <1>0 DEF UploadsTypeOK
<1>8. \A g \in Files : slot'[post[g].slot] = g => slot[post[g].slot] = g
  BY <1>1, <1>2, <1>7, UploadsAssumption
<1>9. \A g \in Files : Holding(g)' => Holding(g) /\ post'[g].slot = post[g].slot
  BY <1>1, <1>4, <1>6, <1>8 DEF Holding, Reserving
<1>10. SlotsHeld'
  BY <1>0, <1>2, <1>6, <1>9, SlotsKept
<1>11. \A g \in Files : post[g].sent => slot'[post[g].slot] = slot[post[g].slot] \/ slot[post[g].slot] # g
  <2>1. slot[post[f].slot] \in {Placeholder, f}
    BY <1>0, <1>6 DEF SlotsHeld
  <2>2. SUFFICES ASSUME NEW g \in Files, post[g].sent
                 PROVE  slot'[post[g].slot] = slot[post[g].slot] \/ slot[post[g].slot] # g
    OBVIOUS
  <2>3. CASE post[g].slot = post[f].slot
    <3>1. f # g
      BY <1>1, <2>2
    <3> QED BY <2>1, <2>3, <3>1, UploadsAssumption
  <2>4. CASE post[g].slot # post[f].slot
    <3>1. slot'[post[g].slot] = slot[post[g].slot]
      BY <1>2, <2>4
    <3> QED BY <3>1
  <2> QED BY <2>3, <2>4
<1> QED BY <1>1, <1>3, <1>4, <1>5, <1>10, <1>11, PostKeeps

-----------------------------------------------------------------------------
(* A send. *)

LEMMA NoSendFits == NoSend \in Send /\ SendFits(NoSend)
BY DEF NoSend, Send, SendFits

\* A step that only moves a send on, to where it fits, and may hand over what is attached.
LEMMA FrameKeeps ==
  ASSUME UploadsInv, NEW s \in Frames, NEW o \in Send, frame' = [frame EXCEPT ![s] = o], SendFits(o),
         UNCHANGED <<slot, staging, upload, post, gc>>,
         handed' \subseteq Files, \A f \in handed' : upload[f].status = "attached",
         uploadFaults' \in 0..MaxUploadFaults, uploadFaults' >= uploadFaults
  PROVE  UploadsInv'
<1>0. /\ UploadsTypeOK /\ SweepFits /\ HandedFits /\ SlotsHeld
      /\ \A g \in Files : PostFits(g) /\ RowFits(g)
      /\ \A r \in Frames : SendFits(frame[r])
  BY DEF UploadsInv
<1>1. UploadsTypeOK'
  BY <1>0 DEF UploadsTypeOK
<1>2. \A g \in Files : PostFits(g)' /\ RowFits(g)'
  <2>1. uploadFaults' \in Nat
    BY <1>1 DEF UploadsTypeOK
  <2> QED BY <1>0, <2>1, OtherFits
<1>3. SlotsHeld'
  BY <1>0 DEF SlotsHeld, Holding
<1>4. \A r \in Frames : frame'[r] = o \/ frame'[r] = frame[r]
  BY <1>0 DEF UploadsTypeOK
<1>5. \A r \in Frames : SendFits(frame[r])'
  BY <1>0, <1>4 DEF SendFits
<1>6. SweepFits' /\ HandedFits'
  BY <1>0 DEF SweepFits, HandedFits
<1> QED BY <1>1, <1>2, <1>3, <1>5, <1>6 DEF UploadsInv

\* Where the checks of a frame lead: it is refused, or its loop starts.
LEMMA CheckedEffect ==
  ASSUME UploadsTypeOK, NEW s \in Frames, NEW rows \in SUBSET Files, NEW again \in SUBSET Files,
         \A f \in rows : post[f].sent, \A f \in again : upload[f].status = "attached",
         Checked(s, rows, again)
  PROVE  \E o \in Send : frame' = [frame EXCEPT ![s] = o] /\ SendFits(o)
<1>1. CASE \E f \in rows : upload[f].stale
  BY <1>1, NoSendFits DEF Checked
<1>2. CASE \A f \in rows : ~upload[f].stale
  <2> DEFINE o == [NoSend EXCEPT !.at = NextFile(rows), !.rows = rows, !.again = again]
  <2>1. NextFile(rows) \in {"deliver", "rename"}
    BY DEF NextFile
  <2>2. /\ o \in Send /\ o.named = {} /\ o.rows = rows /\ o.again = again /\ o.refs = {}
        /\ o.at = NextFile(rows)
    BY <2>1 DEF NoSend, Send
  <2>3. frame' = [frame EXCEPT ![s] = o]
    BY <1>2 DEF Checked
  <2> HIDE DEF o
  <2>4. SendFits(o)
    BY <1>2, <2>1, <2>2 DEF SendFits
  <2> QED BY <2>2, <2>3, <2>4
<1> QED BY <1>1, <1>2

LEMMA LookKeeps ==
  ASSUME UploadsInv, NEW s \in Frames, SendStarts(s) \/ LookupStaged(s) \/ LookupAttached(s)
  PROVE  UploadsInv'
<1>0. UploadsTypeOK /\ HandedFits /\ SendFits(frame[s]) /\ frame[s] \in Send
  BY DEF UploadsInv, UploadsTypeOK
<1>1. UNCHANGED <<slot, staging, upload, post, gc, handed, uploadFaults>>
  BY DEF SendStarts, LookupStaged, LookupAttached
<1>4. /\ handed' \subseteq Files /\ \A f \in handed' : upload[f].status = "attached"
      /\ uploadFaults' \in 0..MaxUploadFaults /\ uploadFaults' >= uploadFaults
  BY <1>0, <1>1 DEF UploadsTypeOK, HandedFits
<1>2. frame[s].named \subseteq Files /\ frame[s].rows \subseteq Files
  BY <1>0 DEF Send
<1>3. \E o \in Send : frame' = [frame EXCEPT ![s] = o] /\ SendFits(o)
  <2>1. CASE SendStarts(s)
    <3>1. PICK named \in SUBSET {f \in Files : post[f].sent}, retry \in BOOLEAN :
            frame' = [frame EXCEPT ![s] = [NoSend EXCEPT !.at = "staged", !.named = named, !.retry = retry]]
      BY <2>1 DEF SendStarts
    <3> DEFINE o == [NoSend EXCEPT !.at = "staged", !.named = named, !.retry = retry]
    <3>2. /\ o \in Send /\ o.at = "staged" /\ o.named = named /\ o.rows = {} /\ o.refs = {}
          /\ o.again = {}
      BY DEF NoSend, Send
    <3> HIDE DEF o
    <3>3. SendFits(o)
      BY <3>2 DEF SendFits
    <3> QED BY <3>1, <3>2, <3>3 DEF o
  <2>2. CASE LookupStaged(s)
    <3> DEFINE rows == {f \in frame[s].named : upload[f].status = "staged"}
               o == [frame[s] EXCEPT !.at = "attached", !.rows = rows]
    <3>1. rows \in SUBSET Files /\ \A f \in rows : post[f].sent
      BY <1>0, <1>2 DEF SendFits
    <3>2. CASE Checked(s, rows, {})
      BY <1>0, <3>1, <3>2, CheckedEffect
    <3>3. CASE frame' = [frame EXCEPT ![s].at = "attached", ![s].rows = rows]
      <4>1. frame' = [frame EXCEPT ![s] = o]
        BY <1>0, <3>3 DEF UploadsTypeOK
      <4>2. /\ o \in Send /\ o.at = "attached" /\ o.named = frame[s].named /\ o.rows = rows
            /\ o.refs = frame[s].refs /\ o.again = frame[s].again
        BY <1>0, <3>1 DEF Send
      <4> HIDE DEF o, rows
      <4>3. SendFits(o)
        BY <1>0, <3>1, <4>2 DEF SendFits
      <4> QED BY <4>1, <4>2, <4>3
    <3> QED BY <2>2, <3>2, <3>3 DEF LookupStaged
  <2>3. CASE LookupAttached(s)
    <3> DEFINE again == {f \in frame[s].named \ frame[s].rows : upload[f].status = "attached"}
    <3>1. /\ again \in SUBSET Files /\ \A f \in again : upload[f].status = "attached"
          /\ \A f \in frame[s].rows : post[f].sent
      BY <1>0, <1>2 DEF SendFits
    <3>2. Checked(s, frame[s].rows, again) \/ frame' = [frame EXCEPT ![s] = NoSend]
      BY <2>3 DEF LookupAttached
    <3> HIDE DEF again
    <3> QED BY <1>0, <1>2, <3>1, <3>2, CheckedEffect, NoSendFits
  <2> QED BY <2>1, <2>2, <2>3
<1> QED BY <1>1, <1>3, <1>4, FrameKeeps

LEMMA DeliverKeeps == ASSUME UploadsInv, NEW s \in Frames, Deliver(s) PROVE UploadsInv'
<1>0. UploadsTypeOK /\ HandedFits /\ SendFits(frame[s]) /\ frame[s] \in Send
  BY DEF UploadsInv, UploadsTypeOK
<1>1. /\ UNCHANGED <<slot, staging, upload, post, gc, uploadFaults>>
      /\ frame' = [frame EXCEPT ![s] = NoSend]
      /\ uploadFaults' \in 0..MaxUploadFaults /\ uploadFaults' >= uploadFaults
  BY <1>0 DEF Deliver, UploadsTypeOK
<1>2. handed' \in {handed, handed \cup frame[s].refs \cup frame[s].again}
  BY DEF Deliver
<1>3. handed' \subseteq Files /\ \A f \in handed' : upload[f].status = "attached"
  BY <1>0, <1>2 DEF UploadsTypeOK, HandedFits, SendFits, Send
<1> QED BY <1>1, <1>3, NoSendFits, FrameKeeps

\* A send goes by its acknowledged, fresh uploads and what is attached.
LEMMA SendsKept ==
  ASSUME UNCHANGED post, NEW o \in Send, SendFits(o),
         \A h \in Files : upload[h].status = "attached" => upload'[h].status = "attached",
         \A h \in Files : ~upload[h].stale /\ h \in o.rows \cup {o.file} => ~upload'[h].stale,
         \A h \in Files : post[h].sent /\ ~upload[h].stale /\ slot[post[h].slot] = h => slot'[post[h].slot] = h
  PROVE  SendFits(o)'
<1>1. o.named \subseteq Files /\ o.rows \subseteq Files /\ o.refs \subseteq Files /\ o.again \subseteq Files
  BY DEF Send
<1> QED BY <1>1 DEF SendFits

\* One send moves on, to where it fits; the others still fit.
LEMMA FramesFit ==
  ASSUME frame \in [Frames -> Send], \A r \in Frames : SendFits(frame[r]),
         NEW s \in Frames, NEW o \in Send, frame' = [frame EXCEPT ![s] = o], SendFits(o)',
         \A q \in Send : SendFits(q) => SendFits(q)'
  PROVE  frame' \in [Frames -> Send] /\ \A r \in Frames : SendFits(frame[r])'
<1>1. frame' \in [Frames -> Send]
  OBVIOUS
<1>2. SUFFICES ASSUME NEW r \in Frames PROVE SendFits(frame[r])'
  BY <1>1
<1>3. CASE r = s
  <2>1. frame'[r] = o
    BY <1>3
  <2> QED BY <2>1 DEF SendFits
<1>4. CASE r # s
  <2>1. PICK q \in Send : q = frame[r]
    OBVIOUS
  <2>2. frame'[r] = q /\ SendFits(q)'
    BY <1>4, <2>1
  <2> QED BY <2>2 DEF SendFits
<1> QED BY <1>3, <1>4

LEMMA RenameKeeps == ASSUME UploadsInv, NEW s \in Frames, RenameFile(s) PROVE UploadsInv'
<1>0. /\ UploadsTypeOK /\ HandedFits /\ SweepFits /\ SlotsHeld /\ SendFits(frame[s]) /\ frame[s] \in Send
      /\ \A g \in Files : PostFits(g) /\ RowFits(g)
      /\ \A r \in Frames : SendFits(frame[r])
  BY DEF UploadsInv, UploadsTypeOK
<1>1. UNCHANGED <<upload, post, gc, handed, uploadFaults>> /\ frame[s].at = "rename"
  BY DEF RenameFile
<1>2. /\ handed' \subseteq Files /\ uploadFaults' \in 0..MaxUploadFaults /\ uploadFaults' >= uploadFaults
      /\ \A f \in handed' : upload[f].status = "attached"
  BY <1>0, <1>1 DEF UploadsTypeOK, HandedFits
<1>3. PICK f \in frame[s].rows :
        IF staging[f] = "full"
        THEN /\ staging' = [staging EXCEPT ![f] = "empty"]
             /\ slot' = [slot EXCEPT ![upload[f].name] = f]
             /\ frame' = [frame EXCEPT ![s].at = "tidy", ![s].file = f, ![s].rows = @ \ {f}]
        ELSE frame' = [frame EXCEPT ![s] = NoSend] /\ UNCHANGED <<slot, staging>>
  BY DEF RenameFile
<1>4. CASE staging[f] # "full"
  BY <1>1, <1>2, <1>3, <1>4, NoSendFits, FrameKeeps
<1>5. CASE staging[f] = "full"
  <2>1. f \in Files /\ post[f].sent /\ ~upload[f].stale
    BY <1>0, <1>1 DEF SendFits, Send
  <2>2. upload[f].status # "none" /\ upload[f].name = post[f].slot /\ post[f].slot \in Slots /\ post[f].at = "ended"
    BY <1>0, <2>1 DEF RowFits, PostFits
  <2>3. /\ staging' = [staging EXCEPT ![f] = "empty"] /\ slot' = [slot EXCEPT ![post[f].slot] = f]
        /\ frame' = [frame EXCEPT ![s].at = "tidy", ![s].file = f, ![s].rows = @ \ {f}]
    BY <1>3, <1>5, <2>2
  <2>4. PICK o \in Send : o = [frame[s] EXCEPT !.at = "tidy", !.file = f, !.rows = @ \ {f}]
    BY <1>0, <2>1 DEF Send
  <2>5. /\ frame' = [frame EXCEPT ![s] = o]
        /\ o.at = "tidy" /\ o.file = f /\ o.rows = frame[s].rows \ {f}
        /\ o.named = frame[s].named /\ o.refs = frame[s].refs /\ o.again = frame[s].again
    BY <1>0, <2>3, <2>4 DEF UploadsTypeOK, Send
  <2>6. slot \in [Slots -> Files \cup {NoFile, Placeholder}] /\ staging \in [Files -> {"none", "full", "empty"}]
    BY <1>0 DEF UploadsTypeOK
  <2>7. slot'[post[f].slot] = f /\ \A n \in Slots : slot'[n] = slot[n] \/ slot'[n] = f
    BY <2>2, <2>3, <2>6
  <2>8. Holding(f) /\ slot[post[f].slot] \in {Placeholder, f}
    BY <1>0, <1>5, <2>1, <2>2 DEF Holding, SlotsHeld
  <2>9. \A h \in Files : slot[post[h].slot] = h => slot'[post[h].slot] = h
    <3> SUFFICES ASSUME NEW h \in Files, slot[post[h].slot] = h PROVE slot'[post[h].slot] = h
      OBVIOUS
    <3>1. CASE post[h].slot = post[f].slot
      <4>1. h = f
        BY <2>8, <3>1, UploadsAssumption
      <4> QED BY <2>7, <4>1
    <3>2. CASE post[h].slot # post[f].slot
      BY <2>3, <3>2
    <3> QED BY <3>1, <3>2
  <2>10. \A h \in Files : slot'[post[h].slot] = h => slot[post[h].slot] = h \/ h = f
    <3> SUFFICES ASSUME NEW h \in Files, slot'[post[h].slot] = h, h # f PROVE slot[post[h].slot] = h
      OBVIOUS
    <3>1. CASE post[h].slot = post[f].slot
      BY <2>7, <3>1
    <3>2. CASE post[h].slot # post[f].slot
      BY <2>3, <3>2
    <3> QED BY <3>1, <3>2
  <2>11. UploadsTypeOK'
    <3>1. slot' \in [Slots -> Files \cup {NoFile, Placeholder}]
      BY <2>1, <2>3, <2>6
    <3>2. staging' \in [Files -> {"none", "full", "empty"}]
      BY <2>3, <2>6
    <3>3. frame \in [Frames -> Send]
      BY <1>0 DEF UploadsTypeOK
    <3>4. frame' \in [Frames -> Send]
      BY <2>5, <3>3
    <3> QED BY <1>0, <1>1, <3>1, <3>2, <3>4 DEF UploadsTypeOK
  <2>12. \A g \in Files : g # f => staging'[g] = staging[g]
    BY <2>3, <2>6
  <2>13. \A g \in Files : PostFits(g)' /\ RowFits(g)'
    <3>1. PostFits(f)' /\ RowFits(f)'
      BY <1>0, <1>1, <2>1, <2>2 DEF PostFits, RowFits, Reserving
    <3>2. uploadFaults' \in Nat
      BY <1>2
    <3> QED BY <1>0, <1>1, <1>2, <2>12, <3>1, <3>2, OtherFits
  <2>14. \A g \in Files : Holding(g)' => Holding(g) /\ post'[g].slot = post[g].slot
    BY <1>1, <2>8, <2>10, <2>12 DEF Holding
  <2>15. SlotsHeld'
    BY <1>0, <2>1, <2>3, <2>8, <2>14, SlotsKept
  <2>16. \A q \in Send : SendFits(q) => SendFits(q)'
    BY <1>1, <2>9, SendsKept
  <2>17. SendFits(o)'
    BY <1>0, <1>1, <2>1, <2>5, <2>7 DEF SendFits
  <2>19. \A r \in Frames : SendFits(frame[r])'
    <3>1. frame \in [Frames -> Send]
      BY <1>0 DEF UploadsTypeOK
    <3> QED BY <1>0, <2>5, <2>16, <2>17, <3>1, FramesFit
  <2>18. gc.at = "slot" => gc.file # f
    BY <1>0, <2>1 DEF SweepFits
  <2>21. SweepFits'
    BY <1>0, <1>1, <2>12, <2>18 DEF SweepFits
  <2>22. HandedFits'
    BY <1>0, <1>1, <2>9 DEF HandedFits
  <2> QED BY <2>11, <2>13, <2>15, <2>19, <2>21, <2>22 DEF UploadsInv
<1> QED BY <1>4, <1>5

LEMMA TidyKeeps == ASSUME UploadsInv, NEW s \in Frames, TidyStaging(s) PROVE UploadsInv'
<1>0. /\ UploadsTypeOK /\ HandedFits /\ SweepFits /\ SlotsHeld /\ SendFits(frame[s]) /\ frame[s] \in Send
      /\ \A g \in Files : PostFits(g) /\ RowFits(g)
      /\ \A r \in Frames : SendFits(frame[r])
      /\ frame \in [Frames -> Send]
  BY DEF UploadsInv, UploadsTypeOK
<1>1. UNCHANGED <<slot, upload, post, gc, handed, uploadFaults>> /\ frame[s].at = "tidy"
  BY DEF TidyStaging
<1>2. PICK f \in Files : f = frame[s].file
  BY <1>0, <1>1 DEF SendFits
<1>3. /\ post[f].sent /\ ~upload[f].stale /\ slot[post[f].slot] = f
      /\ upload[f].status # "none" /\ post[f].at = "ended"
  BY <1>0, <1>1, <1>2 DEF SendFits, RowFits, PostFits
<1>4. PICK o \in Send : o = [frame[s] EXCEPT !.at = "flip"]
  BY <1>0 DEF Send
<1>5. /\ frame' = [frame EXCEPT ![s] = o]
      /\ o.at = "flip" /\ o.file = f /\ o.rows = frame[s].rows
      /\ o.named = frame[s].named /\ o.refs = frame[s].refs /\ o.again = frame[s].again
  BY <1>0, <1>2, <1>4 DEF TidyStaging, Send
<1>6. staging' = [staging EXCEPT ![f] = "none"] /\ staging \in [Files -> {"none", "full", "empty"}]
  BY <1>0, <1>2 DEF TidyStaging, UploadsTypeOK
<1>7. \A g \in Files : g # f => staging'[g] = staging[g]
  BY <1>6
<1>8. \A g \in Files : PostFits(g)' /\ RowFits(g)'
  <2>1. PostFits(f)' /\ RowFits(f)'
    BY <1>0, <1>1, <1>3, <1>6 DEF PostFits, RowFits, Reserving
  <2>2. uploadFaults' \in Nat /\ uploadFaults' >= uploadFaults
    BY <1>0, <1>1 DEF UploadsTypeOK
  <2> QED BY <1>0, <1>1, <1>7, <2>1, <2>2, OtherFits
<1>9. \A g \in Files : Holding(g)' => Holding(g) /\ post'[g].slot = post[g].slot
  BY <1>1, <1>3, <1>7 DEF Holding
<1>10. SlotsHeld'
  BY <1>0, <1>1, <1>9, SlotsKept
<1>11. SendFits(o)'
  BY <1>0, <1>1, <1>3, <1>5 DEF SendFits
<1>12. \A q \in Send : SendFits(q) => SendFits(q)'
  BY <1>1, SendsKept
<1>13. frame' \in [Frames -> Send] /\ \A r \in Frames : SendFits(frame[r])'
  BY <1>0, <1>5, <1>11, <1>12, FramesFit
<1>14. UploadsTypeOK'
  <2>1. staging' \in [Files -> {"none", "full", "empty"}]
    BY <1>6
  <2> QED BY <1>0, <1>1, <1>13, <2>1 DEF UploadsTypeOK
<1>15. SweepFits'
  BY <1>0, <1>1, <1>6, <1>7 DEF SweepFits
<1>16. HandedFits'
  BY <1>0, <1>1 DEF HandedFits
<1> QED BY <1>8, <1>10, <1>13, <1>14, <1>15, <1>16 DEF UploadsInv

\* The row of an upload whose bytes are in place becomes attached, of all it is known by.
LEMMA FlipFits ==
  ASSUME UploadsInv, NEW f \in Files, post[f].sent, ~upload[f].stale, slot[post[f].slot] = f,
         upload' = Flipped(f), UNCHANGED <<slot, staging, post, gc, handed>>,
         uploadFaults' \in 0..MaxUploadFaults, uploadFaults' >= uploadFaults
  PROVE  /\ upload' \in [Files -> UploadRow] /\ upload'[f].status = "attached"
         /\ \A g \in Files : PostFits(g)' /\ RowFits(g)'
         /\ SlotsHeld' /\ SweepFits' /\ HandedFits'
         /\ \A q \in Send : SendFits(q) => SendFits(q)'
         /\ \A g \in Files : upload[g].status = "attached" => upload'[g].status = "attached"
         /\ \A g \in Files : ~upload[g].stale => ~upload'[g].stale
<1>0. /\ UploadsTypeOK /\ HandedFits /\ SweepFits /\ SlotsHeld
      /\ \A g \in Files : PostFits(g) /\ RowFits(g)
      /\ upload \in [Files -> UploadRow]
  BY DEF UploadsInv, UploadsTypeOK
<1>1. upload[f].status # "none" /\ post[f].at = "ended"
  BY <1>0 DEF RowFits, PostFits
<1>2. PICK row \in UploadRow : row = [upload[f] EXCEPT !.status = "attached", !.stale = FALSE]
  <2>1. upload[f] \in UploadRow
    BY <1>0
  <2> QED BY <2>1 DEF UploadRow
<1>3. /\ upload' \in [Files -> UploadRow] /\ upload'[f].status = "attached" /\ ~upload'[f].stale
      /\ upload'[f].name = upload[f].name
      /\ \A g \in Files : g # f => upload'[g] = upload[g]
  <2>1. upload' = [upload EXCEPT ![f] = row]
    BY <1>0, <1>1, <1>2 DEF Flipped
  <2>2. upload[f] \in UploadRow /\ row.status = "attached" /\ ~row.stale /\ row.name = upload[f].name
    <3>1. upload[f] \in UploadRow
      BY <1>0
    <3> QED BY <1>2, <3>1 DEF UploadRow
  <2>3. upload'[f] = row /\ \A g \in Files : g # f => upload'[g] = upload[g]
    BY <1>0, <2>1
  <2>4. upload' \in [Files -> UploadRow]
    BY <1>0, <2>1
  <2> QED BY <2>2, <2>3, <2>4
<1>4. \A g \in Files : PostFits(g)' /\ RowFits(g)'
  <2>1. PostFits(f)' /\ RowFits(f)'
    BY <1>0, <1>1, <1>3 DEF PostFits, RowFits, Reserving
  <2> QED BY <1>0, <1>3, <2>1, OtherFits
<1>5. Holding(f)
  BY <1>1 DEF Holding
<1>6. \A g \in Files : Holding(g)' => Holding(g) /\ post'[g].slot = post[g].slot
  BY <1>3, <1>5 DEF Holding
<1>7. SlotsHeld'
  BY <1>0, <1>6, SlotsKept
<1>8. /\ \A g \in Files : upload[g].status = "attached" => upload'[g].status = "attached"
      /\ \A g \in Files : ~upload[g].stale => ~upload'[g].stale
  BY <1>3
<1>9. \A q \in Send : SendFits(q) => SendFits(q)'
  BY <1>8, SendsKept
<1>10. SweepFits'
  BY <1>0, <1>3 DEF SweepFits, UploadsTypeOK, Sweep
<1>11. HandedFits'
  BY <1>0, <1>3, <1>8 DEF HandedFits, UploadsTypeOK
<1> QED BY <1>3, <1>4, <1>7, <1>8, <1>9, <1>10, <1>11

LEMMA FlipKeeps == ASSUME UploadsInv, NEW s \in Frames, FlipRow(s) PROVE UploadsInv'
<1>0. /\ UploadsTypeOK /\ SendFits(frame[s]) /\ frame[s] \in Send
      /\ \A r \in Frames : SendFits(frame[r])
      /\ frame \in [Frames -> Send]
  BY DEF UploadsInv, UploadsTypeOK
<1>1. UNCHANGED <<slot, staging, post, gc, handed, uploadFaults>> /\ frame[s].at = "flip"
  BY DEF FlipRow
<1>2. PICK f \in Files : f = frame[s].file
  BY <1>0, <1>1 DEF SendFits
<1>3. post[f].sent /\ ~upload[f].stale /\ slot[post[f].slot] = f /\ upload' = Flipped(f)
  BY <1>0, <1>1, <1>2 DEF SendFits, FlipRow
<1>4. uploadFaults' \in 0..MaxUploadFaults /\ uploadFaults' >= uploadFaults
  BY <1>0, <1>1 DEF UploadsTypeOK
<1>5. /\ upload' \in [Files -> UploadRow] /\ upload'[f].status = "attached"
      /\ \A g \in Files : PostFits(g)' /\ RowFits(g)'
      /\ SlotsHeld' /\ SweepFits' /\ HandedFits'
      /\ \A q \in Send : SendFits(q) => SendFits(q)'
      /\ \A g \in Files : upload[g].status = "attached" => upload'[g].status = "attached"
      /\ \A g \in Files : ~upload[g].stale => ~upload'[g].stale
  BY <1>1, <1>3, <1>4, FlipFits
<1>6. NextFile(frame[s].rows) \in {"deliver", "rename"}
  BY DEF NextFile
<1>7. PICK o \in Send : o = [frame[s] EXCEPT !.at = NextFile(frame[s].rows), !.file = NoFile,
                                             !.refs = @ \cup {f}]
  BY <1>0, <1>6 DEF Send
<1>8. /\ frame' = [frame EXCEPT ![s] = o]
      /\ o.at \in {"deliver", "rename"} /\ o.rows = frame[s].rows
      /\ o.named = frame[s].named /\ o.refs = frame[s].refs \cup {f} /\ o.again = frame[s].again
  BY <1>0, <1>2, <1>6, <1>7 DEF FlipRow, Send
<1>9. frame[s].rows \subseteq Files /\ frame[s].refs \subseteq Files /\ frame[s].again \subseteq Files
  BY <1>0 DEF Send
<1>10. SendFits(o)'
  BY <1>0, <1>1, <1>5, <1>8, <1>9 DEF SendFits
<1>11. frame' \in [Frames -> Send] /\ \A r \in Frames : SendFits(frame[r])'
  BY <1>0, <1>5, <1>8, <1>10, FramesFit
<1>12. UploadsTypeOK'
  BY <1>0, <1>1, <1>5, <1>11 DEF UploadsTypeOK
<1> QED BY <1>5, <1>11, <1>12 DEF UploadsInv

LEMMA FailKeeps == ASSUME UploadsInv, NEW s \in Frames, SendFails(s) PROVE UploadsInv'
<1>0. /\ UploadsTypeOK /\ SendFits(frame[s]) /\ frame[s] \in Send /\ HandedFits
      /\ \A r \in Frames : SendFits(frame[r])
      /\ frame \in [Frames -> Send]
  BY DEF UploadsInv, UploadsTypeOK
<1>1. UNCHANGED <<slot, staging, post, gc, handed>> /\ frame' = [frame EXCEPT ![s] = NoSend]
  BY DEF SendFails
<1>2. uploadFaults' \in 0..MaxUploadFaults /\ uploadFaults' >= uploadFaults
  BY <1>0, UploadsAssumption DEF SendFails, UploadFault, UploadsTypeOK
<1>3. CASE upload' = upload
  <2>1. handed' \subseteq Files /\ \A f \in handed' : upload[f].status = "attached"
    BY <1>0, <1>1 DEF UploadsTypeOK, HandedFits
  <2> QED BY <1>1, <1>2, <1>3, <2>1, NoSendFits, FrameKeeps
<1>4. CASE frame[s].at = "flip" /\ upload' = Flipped(frame[s].file)
  <2>1. PICK f \in Files : f = frame[s].file
    BY <1>0, <1>4 DEF SendFits
  <2>2. post[f].sent /\ ~upload[f].stale /\ slot[post[f].slot] = f /\ upload' = Flipped(f)
    BY <1>0, <1>4, <2>1 DEF SendFits
  <2>3. /\ upload' \in [Files -> UploadRow]
        /\ \A g \in Files : PostFits(g)' /\ RowFits(g)'
        /\ SlotsHeld' /\ SweepFits' /\ HandedFits'
        /\ \A q \in Send : SendFits(q) => SendFits(q)'
    BY <1>1, <1>2, <2>2, FlipFits
  <2>4. SendFits(NoSend)'
    BY DEF SendFits, NoSend
  <2>5. frame' \in [Frames -> Send] /\ \A r \in Frames : SendFits(frame[r])'
    BY <1>0, <1>1, <2>3, <2>4, NoSendFits, FramesFit
  <2>6. UploadsTypeOK'
    BY <1>0, <1>1, <1>2, <2>3, <2>5 DEF UploadsTypeOK
  <2> QED BY <2>3, <2>5, <2>6 DEF UploadsInv
<1> QED BY <1>3, <1>4 DEF SendFails

\* An upload no send works on expires.
LEMMA ExpiresKeeps == ASSUME UploadsInv, ~SlowSends, NEW f \in Files, Expires(f) PROVE UploadsInv'
<1>0. /\ UploadsTypeOK /\ HandedFits /\ SweepFits /\ SlotsHeld
      /\ \A g \in Files : PostFits(g) /\ RowFits(g)
      /\ \A r \in Frames : SendFits(frame[r])
      /\ frame \in [Frames -> Send] /\ upload \in [Files -> UploadRow]
  BY DEF UploadsInv, UploadsTypeOK
<1>1. /\ UNCHANGED <<slot, staging, post, frame, gc, handed, uploadFaults>>
      /\ upload[f].status = "staged" /\ post[f].at = "ended"
      /\ \A r \in Frames : f \notin frame[r].named \cup frame[r].rows \cup {frame[r].file}
  BY DEF Expires
<1>2. PICK row \in UploadRow : row = [upload[f] EXCEPT !.stale = TRUE]
  <2>1. upload[f] \in UploadRow
    BY <1>0
  <2> QED BY <2>1 DEF UploadRow
<1>3. /\ upload' \in [Files -> UploadRow] /\ upload'[f].status = "staged" /\ upload'[f].stale
      /\ upload'[f].name = upload[f].name
      /\ \A g \in Files : g # f => upload'[g] = upload[g]
  <2>1. upload' = [upload EXCEPT ![f] = row]
    BY <1>0, <1>2 DEF Expires
  <2>2. row.status = "staged" /\ row.stale /\ row.name = upload[f].name
    <3>1. upload[f] \in UploadRow
      BY <1>0
    <3> QED BY <1>1, <1>2, <3>1 DEF UploadRow
  <2>3. upload'[f] = row /\ \A g \in Files : g # f => upload'[g] = upload[g]
    BY <1>0, <2>1
  <2>4. upload' \in [Files -> UploadRow]
    BY <1>0, <2>1
  <2> QED BY <2>2, <2>3, <2>4
<1>4. \A g \in Files : PostFits(g)' /\ RowFits(g)'
  <2>1. PostFits(f)' /\ RowFits(f)'
    BY <1>0, <1>1, <1>3 DEF PostFits, RowFits, Reserving
  <2>2. uploadFaults' \in Nat /\ uploadFaults' >= uploadFaults
    BY <1>0, <1>1 DEF UploadsTypeOK
  <2> QED BY <1>0, <1>1, <1>3, <2>1, <2>2, OtherFits
<1>5. \A g \in Files : Holding(g)' => Holding(g) /\ post'[g].slot = post[g].slot
  BY <1>1, <1>3 DEF Holding
<1>6. SlotsHeld'
  BY <1>0, <1>1, <1>5, SlotsKept
<1>7. \A r \in Frames : SendFits(frame[r])'
  <2>1. SUFFICES ASSUME NEW r \in Frames PROVE SendFits(frame[r])'
    OBVIOUS
  <2>2. PICK o \in Send : o = frame[r] /\ SendFits(o)
    BY <1>0
  <2>3. \A h \in Files : ~upload[h].stale /\ h \in o.rows \cup {o.file} => ~upload'[h].stale
    BY <1>1, <1>3, <2>2
  <2>4. \A h \in Files : upload[h].status = "attached" => upload'[h].status = "attached"
    BY <1>1, <1>3
  <2>5. SendFits(o)'
    BY <1>1, <2>2, <2>3, <2>4, SendsKept
  <2>6. frame'[r] = o
    BY <1>1, <2>2
  <2> QED BY <2>5, <2>6 DEF SendFits
<1>8. SweepFits'
  BY <1>0, <1>1, <1>3 DEF SweepFits, UploadsTypeOK, Sweep
<1>9. HandedFits'
  BY <1>0, <1>1, <1>3 DEF HandedFits, UploadsTypeOK
<1>10. UploadsTypeOK'
  BY <1>0, <1>1, <1>3 DEF UploadsTypeOK
<1> QED BY <1>4, <1>6, <1>7, <1>8, <1>9, <1>10 DEF UploadsInv

-----------------------------------------------------------------------------
(* The sweep. *)

\* The sweep moves on without a file being claimed.
LEMMA SweepMoves ==
  ASSUME UploadsInv, UNCHANGED <<slot, staging, upload, post, frame, handed>>,
         gc' \in Sweep, gc'.at # "slot", SweepFits',
         uploadFaults' \in 0..MaxUploadFaults, uploadFaults' >= uploadFaults
  PROVE  UploadsInv'
<1>0. /\ UploadsTypeOK /\ HandedFits /\ SlotsHeld
      /\ \A g \in Files : PostFits(g) /\ RowFits(g)
      /\ \A r \in Frames : SendFits(frame[r])
  BY DEF UploadsInv
<1>1. UploadsTypeOK'
  BY <1>0 DEF UploadsTypeOK
<1>2. \A g \in Files : PostFits(g)' /\ RowFits(g)'
  <2>1. uploadFaults' \in Nat
    OBVIOUS
  <2> QED BY <1>0, <2>1, OtherFits
<1>3. SlotsHeld'
  BY <1>0 DEF SlotsHeld, Holding
<1>4. \A r \in Frames : SendFits(frame[r])'
  BY <1>0 DEF SendFits
<1>5. HandedFits'
  BY <1>0 DEF HandedFits
<1> QED BY <1>1, <1>2, <1>3, <1>4, <1>5 DEF UploadsInv

LEMMA SelectKeeps == ASSUME UploadsInv, GcSelect PROVE UploadsInv'
<1>0. UploadsTypeOK /\ SweepFits /\ gc \in Sweep
  BY DEF UploadsInv, UploadsTypeOK
<1>1. PICK rows \in SUBSET Files : /\ rows = {f \in Files : upload[f].status = "staged" /\ upload[f].stale}
                                   /\ gc' = [gc EXCEPT !.at = "claim", !.rows = rows]
  BY DEF GcSelect
<1>2. gc' \in Sweep /\ gc'.at = "claim" /\ gc'.rows = rows
  BY <1>0, <1>1 DEF Sweep
<1>3. UNCHANGED <<slot, staging, upload, post, frame, handed, uploadFaults>>
  BY DEF GcSelect
<1>4. uploadFaults' \in 0..MaxUploadFaults /\ uploadFaults' >= uploadFaults
  BY <1>0, <1>3 DEF UploadsTypeOK
<1>5. SweepFits'
  BY <1>1, <1>2, <1>3 DEF SweepFits
<1> QED BY <1>2, <1>3, <1>4, <1>5, SweepMoves

\* What is left of a sweep, when the rows left are expired ones.
LEMMA GcNextFits ==
  ASSUME NEW left \in SUBSET Files
  PROVE  GcNext(left) \in Sweep /\ GcNext(left).at \in {"idle", "claim"} /\ GcNext(left).rows = left
BY DEF GcNext, Sweep, NoSweep

LEMMA ClaimKeeps == ASSUME UploadsInv, GcClaim PROVE UploadsInv'
<1>0. /\ UploadsTypeOK /\ HandedFits /\ SweepFits /\ SlotsHeld
      /\ \A g \in Files : PostFits(g) /\ RowFits(g)
      /\ \A r \in Frames : SendFits(frame[r])
      /\ gc \in Sweep /\ staging \in [Files -> {"none", "full", "empty"}]
  BY DEF UploadsInv, UploadsTypeOK
<1>1. UNCHANGED <<slot, upload, post, frame, handed>>
  BY DEF GcClaim
<1>2. uploadFaults' \in 0..MaxUploadFaults /\ uploadFaults' >= uploadFaults
  BY <1>0, UploadsAssumption DEF GcClaim, UploadFault, UploadsTypeOK
<1>3. PICK f \in gc.rows :
        \/ gc' = GcNext(gc.rows \ {f}) /\ UNCHANGED staging
        \/ /\ staging[f] # "none" /\ staging' = [staging EXCEPT ![f] = "none"]
           /\ gc' = [at |-> "slot", rows |-> gc.rows \ {f}, file |-> f]
  BY DEF GcClaim
<1>4. gc.rows \ {f} \in SUBSET Files /\ f \in Files
  BY <1>0 DEF Sweep
<1>5. CASE gc' = GcNext(gc.rows \ {f}) /\ UNCHANGED staging
  <2>1. gc' \in Sweep /\ gc'.at \in {"idle", "claim"} /\ gc'.rows = gc.rows \ {f}
    BY <1>4, <1>5, GcNextFits
  <2>2. SweepFits'
    BY <1>0, <1>1, <2>1 DEF SweepFits
  <2> QED BY <1>1, <1>2, <1>5, <2>1, <2>2, SweepMoves
<1>6. CASE /\ staging[f] # "none" /\ staging' = [staging EXCEPT ![f] = "none"]
           /\ gc' = [at |-> "slot", rows |-> gc.rows \ {f}, file |-> f]
  <2>1. upload[f].status = "staged" /\ upload[f].stale
    BY <1>0 DEF SweepFits
  <2>2. post[f].at = "ended" /\ post[f].sent
    BY <1>0, <1>4, <1>6, <2>1 DEF RowFits
  <2>3. /\ gc' \in Sweep /\ gc'.at = "slot" /\ gc'.file = f /\ gc'.rows = gc.rows \ {f}
        /\ staging' \in [Files -> {"none", "full", "empty"}]
        /\ staging'[f] = "none"
        /\ \A g \in Files : g # f => staging'[g] = staging[g]
    BY <1>0, <1>4, <1>6 DEF Sweep
  <2>4. \A g \in Files : PostFits(g)' /\ RowFits(g)'
    <3>1. PostFits(f)' /\ RowFits(f)'
      BY <1>0, <1>1, <1>4, <2>1, <2>2, <2>3 DEF PostFits, RowFits, Reserving
    <3>2. uploadFaults' \in Nat
      BY <1>2
    <3> QED BY <1>0, <1>1, <1>2, <2>3, <3>1, <3>2, OtherFits
  <2>5. Holding(f)
    BY <1>6, <2>1, <2>2 DEF Holding
  <2>6. \A g \in Files : Holding(g)' => Holding(g) /\ post'[g].slot = post[g].slot
    BY <1>1, <2>3, <2>5 DEF Holding
  <2>7. SlotsHeld'
    BY <1>0, <1>1, <1>4, <2>6, SlotsKept
  <2>8. \A r \in Frames : SendFits(frame[r])'
    BY <1>0, <1>1 DEF SendFits
  <2>9. SweepFits'
    BY <1>0, <1>1, <1>4, <2>1, <2>2, <2>3 DEF SweepFits
  <2>10. HandedFits'
    BY <1>0, <1>1 DEF HandedFits
  <2>11. UploadsTypeOK'
    BY <1>0, <1>1, <1>2, <2>3 DEF UploadsTypeOK
  <2> QED BY <2>4, <2>7, <2>8, <2>9, <2>10, <2>11 DEF UploadsInv
<1> QED BY <1>3, <1>5, <1>6

\* The slot that is freed is still the collected upload's, and nobody else's.
LEMMA FreeSlotKeeps == ASSUME UploadsInv, GcFreeSlot PROVE UploadsInv'
<1>0. /\ UploadsTypeOK /\ HandedFits /\ SweepFits /\ SlotsHeld
      /\ \A g \in Files : PostFits(g) /\ RowFits(g)
      /\ \A r \in Frames : SendFits(frame[r])
      /\ gc \in Sweep /\ slot \in [Slots -> Files \cup {NoFile, Placeholder}]
      /\ frame \in [Frames -> Send]
  BY DEF UploadsInv, UploadsTypeOK
<1>1. UNCHANGED <<staging, upload, post, frame, handed>> /\ gc.at = "slot"
  BY DEF GcFreeSlot
<1>2. uploadFaults' \in 0..MaxUploadFaults /\ uploadFaults' >= uploadFaults
  BY <1>0, UploadsAssumption DEF GcFreeSlot, UploadFault, UploadsTypeOK
<1>3. PICK f \in Files : f = gc.file
  BY <1>0, <1>1 DEF SweepFits
<1>4. /\ upload[f].status = "staged" /\ upload[f].stale /\ post[f].at = "ended" /\ post[f].sent
      /\ staging[f] = "none" /\ upload[f].name = post[f].slot /\ post[f].slot \in Slots
  BY <1>0, <1>1, <1>3 DEF SweepFits, RowFits
<1>5. gc' \in Sweep /\ gc'.at = "row" /\ gc'.file = f /\ gc'.rows = gc.rows
  BY <1>0, <1>3 DEF GcFreeSlot, Sweep
<1>6. SweepFits'
  BY <1>0, <1>1, <1>3, <1>4, <1>5 DEF SweepFits
<1>7. CASE slot' = slot
  BY <1>1, <1>2, <1>5, <1>6, <1>7, SweepMoves
<1>8. CASE slot' = [slot EXCEPT ![post[f].slot] = NoFile]
  <2>1. slot' \in [Slots -> Files \cup {NoFile, Placeholder}] /\ slot'[post[f].slot] = NoFile
    BY <1>0, <1>4, <1>8
  <2>2. Holding(f) /\ ~Holding(f)'
    BY <1>1, <1>3, <1>4, <1>5, <2>1, UploadsAssumption DEF Holding, Reserving
  <2>3. \A g \in Files : slot'[post[g].slot] = g => slot[post[g].slot] = g
    <3> SUFFICES ASSUME NEW g \in Files, slot'[post[g].slot] = g PROVE slot[post[g].slot] = g
      OBVIOUS
    <3>1. CASE post[g].slot = post[f].slot
      BY <2>1, <3>1, UploadsAssumption
    <3>2. CASE post[g].slot # post[f].slot
      BY <1>8, <3>2
    <3> QED BY <3>1, <3>2
  <2>4. \A g \in Files : Holding(g)' => Holding(g) /\ post'[g].slot = post[g].slot
    <3> SUFFICES ASSUME NEW g \in Files, Holding(g)' PROVE Holding(g)
      BY <1>1
    <3> QED BY <1>1, <1>5, <2>3 DEF Holding
  <2>5. SlotsHeld'
    BY <1>0, <1>8, <2>2, <2>4, SlotsKept
  <2>6. ASSUME NEW g \in Files, Holding(g), ~upload[g].stale \/ upload[g].status = "attached"
        PROVE  slot'[post[g].slot] = slot[post[g].slot]
    <3>1. g # f
      BY <1>4, <2>6
    <3> QED BY <1>0, <1>8, <2>2, <2>6, <3>1, OtherSlot
  <2>7. HandedFits'
    <3>1. \A g \in Files : upload[g].status = "attached" => Holding(g)
      BY <1>0, AttachedHolds
    <3> QED BY <1>0, <1>1, <2>6, <3>1 DEF HandedFits
  <2>8. \A h \in Files : post[h].sent /\ ~upload[h].stale /\ slot[post[h].slot] = h => slot'[post[h].slot] = h
    <3> SUFFICES ASSUME NEW h \in Files, post[h].sent, ~upload[h].stale, slot[post[h].slot] = h
                 PROVE  slot'[post[h].slot] = h
      OBVIOUS
    <3>1. Holding(h)
      BY <1>0 DEF RowFits, Holding
    <3> QED BY <2>6, <3>1
  <2>9. \A q \in Send : SendFits(q) => SendFits(q)'
    BY <1>1, <2>8, SendsKept
  <2>10. \A r \in Frames : SendFits(frame[r])'
    <3>1. SUFFICES ASSUME NEW r \in Frames PROVE SendFits(frame[r])'
      OBVIOUS
    <3>2. PICK q \in Send : q = frame[r] /\ SendFits(q)
      BY <1>0
    <3>3. frame'[r] = q /\ SendFits(q)'
      BY <1>1, <2>9, <3>2
    <3> QED BY <3>3 DEF SendFits
  <2>11. \A g \in Files : PostFits(g)' /\ RowFits(g)'
    <3>1. uploadFaults' \in Nat
      BY <1>2
    <3> QED BY <1>0, <1>1, <1>2, <3>1, OtherFits
  <2>12. UploadsTypeOK'
    BY <1>0, <1>1, <1>2, <1>5, <2>1 DEF UploadsTypeOK
  <2> QED BY <1>6, <2>5, <2>7, <2>10, <2>11, <2>12 DEF UploadsInv
<1> QED BY <1>3, <1>4, <1>7, <1>8 DEF GcFreeSlot

LEMMA DeleteRowKeeps == ASSUME UploadsInv, GcDeleteRow PROVE UploadsInv'
<1>0. /\ UploadsTypeOK /\ HandedFits /\ SweepFits /\ SlotsHeld
      /\ \A g \in Files : PostFits(g) /\ RowFits(g)
      /\ \A r \in Frames : SendFits(frame[r])
      /\ gc \in Sweep /\ upload \in [Files -> UploadRow] /\ frame \in [Frames -> Send]
  BY DEF UploadsInv, UploadsTypeOK
<1>1. UNCHANGED <<slot, staging, post, frame, handed>> /\ gc.at = "row" /\ gc' = GcNext(gc.rows)
  BY DEF GcDeleteRow
<1>2. uploadFaults' \in 0..MaxUploadFaults /\ uploadFaults' >= uploadFaults
  BY <1>0, UploadsAssumption DEF GcDeleteRow, UploadFault, UploadsTypeOK
<1>3. PICK f \in Files : f = gc.file
  BY <1>0, <1>1 DEF SweepFits
<1>4. f \notin gc.rows /\ upload[f].status = "staged" /\ upload[f].stale /\ post[f].at = "ended"
  BY <1>0, <1>1, <1>3 DEF SweepFits, RowFits
<1>5. gc' \in Sweep /\ gc'.at \in {"idle", "claim"} /\ gc'.rows = gc.rows
  <2>1. gc.rows \in SUBSET Files
    BY <1>0 DEF Sweep
  <2> QED BY <1>1, <2>1, GcNextFits
<1>6. CASE upload' = upload
  <2>1. SweepFits'
    BY <1>0, <1>5, <1>6 DEF SweepFits
  <2> QED BY <1>1, <1>2, <1>5, <1>6, <2>1, SweepMoves
<1>7. CASE upload' = [upload EXCEPT ![f].status = "none"]
  <2>1. PICK row \in UploadRow : row = [upload[f] EXCEPT !.status = "none"]
    <3>1. upload[f] \in UploadRow
      BY <1>0
    <3> QED BY <3>1 DEF UploadRow
  <2>2. row.status = "none" /\ row.stale
    <3>1. upload[f] \in UploadRow
      BY <1>0
    <3> QED BY <1>4, <2>1, <3>1 DEF UploadRow
  <2>3. /\ upload' \in [Files -> UploadRow] /\ upload'[f].status = "none" /\ upload'[f].stale
        /\ \A g \in Files : g # f => upload'[g] = upload[g]
    <3>1. upload' = [upload EXCEPT ![f] = row]
      BY <1>0, <1>7, <2>1
    <3> QED BY <1>0, <2>2, <3>1
  <2>4. \A g \in Files : PostFits(g)' /\ RowFits(g)'
    <3>1. PostFits(f)' /\ RowFits(f)'
      BY <1>0, <1>1, <1>4, <2>3 DEF PostFits, RowFits, Reserving
    <3>2. uploadFaults' \in Nat
      BY <1>2
    <3> QED BY <1>0, <1>1, <1>2, <2>3, <3>1, <3>2, OtherFits
  <2>5. \A g \in Files : Holding(g)' => Holding(g) /\ post'[g].slot = post[g].slot
    BY <1>1, <1>4, <1>5, <2>3 DEF Holding, Reserving
  <2>6. SlotsHeld'
    BY <1>0, <1>1, <2>5, SlotsKept
  <2>7. /\ \A h \in Files : upload[h].status = "attached" => upload'[h].status = "attached"
        /\ \A h \in Files : ~upload[h].stale => ~upload'[h].stale
    BY <1>4, <2>3
  <2>8. \A q \in Send : SendFits(q) => SendFits(q)'
    BY <1>1, <2>7, SendsKept
  <2>9. \A r \in Frames : SendFits(frame[r])'
    <3>1. SUFFICES ASSUME NEW r \in Frames PROVE SendFits(frame[r])'
      OBVIOUS
    <3>2. PICK q \in Send : q = frame[r] /\ SendFits(q)
      BY <1>0
    <3>3. frame'[r] = q /\ SendFits(q)'
      BY <1>1, <2>8, <3>2
    <3> QED BY <3>3 DEF SendFits
  <2>10. SweepFits'
    <3>1. gc.rows \subseteq Files
      BY <1>0 DEF Sweep
    <3> QED BY <1>0, <1>4, <1>5, <2>3, <3>1 DEF SweepFits
  <2>11. HandedFits'
    BY <1>0, <1>1, <1>4, <2>3 DEF HandedFits, UploadsTypeOK
  <2>12. UploadsTypeOK'
    BY <1>0, <1>1, <1>2, <1>5, <2>3 DEF UploadsTypeOK
  <2> QED BY <2>4, <2>6, <2>9, <2>10, <2>11, <2>12 DEF UploadsInv
<1> QED BY <1>3, <1>6, <1>7 DEF GcDeleteRow

\* With no torn undo, every row there is at a restart was acknowledged.
LEMMA RestartKeeps == ASSUME UploadsInv, NoTornUndo, ServerRestarts PROVE UploadsInv'
<1>0. /\ UploadsTypeOK /\ HandedFits /\ SweepFits /\ SlotsHeld
      /\ \A g \in Files : PostFits(g) /\ RowFits(g)
      /\ post \in [Files -> PostRequest]
      /\ uploadFaults \in Nat
  BY DEF UploadsInv, UploadsTypeOK
<1>1. /\ UNCHANGED <<slot, staging, upload, handed>>
      /\ frame' = [s \in Frames |-> NoSend] /\ gc' = NoSweep
      /\ post' = [f \in Files |-> IF post[f].at = "new" THEN post[f] ELSE [post[f] EXCEPT !.at = "ended"]]
      /\ "restart" \in UploadFaults /\ uploadFaults < MaxUploadFaults /\ uploadFaults' = uploadFaults + 1
  BY DEF ServerRestarts, UploadFault
<1>2. \A f \in Files : upload[f].status # "none" => post[f].sent
  <2>1. "database" \in UploadFaults => ~(uploadFaults >= 1)
    BY <1>0, <1>1, UploadsAssumption DEF NoTornUndo
  <2> QED BY <1>0, <2>1 DEF RowFits
<1>3. ASSUME NEW f \in Files
      PROVE  /\ post'[f] \in PostRequest /\ post'[f].slot = post[f].slot /\ post'[f].sent = post[f].sent
             /\ post'[f].at \in {"new", "ended"}
             /\ post'[f].at = "new" => post[f].at = "new"
  <2>1. post[f] \in PostRequest
    BY <1>0
  <2> QED BY <1>1, <2>1 DEF PostRequest
<1>4. UploadsTypeOK'
  <2>1. post' \in [Files -> PostRequest]
    BY <1>1, <1>3
  <2>2. frame' \in [Frames -> Send] /\ gc' \in Sweep
    BY <1>1 DEF NoSend, Send, NoSweep, Sweep
  <2>3. uploadFaults' \in 0..MaxUploadFaults
    BY <1>0, <1>1, UploadsAssumption
  <2> QED BY <1>0, <1>1, <2>1, <2>2, <2>3 DEF UploadsTypeOK
<1>5. ASSUME NEW f \in Files PROVE PostFits(f)' /\ RowFits(f)'
  <2>1. PostFits(f) /\ RowFits(f)
    BY <1>0
  <2>2. PostFits(f)'
    BY <1>1, <1>3, <2>1 DEF PostFits, Reserving
  <2>3. RowFits(f)'
    BY <1>1, <1>2, <1>3, <2>1 DEF RowFits, PostFits
  <2> QED BY <2>2, <2>3
<1>6. \A f \in Files : Holding(f)' => Holding(f) /\ post'[f].slot = post[f].slot
  BY <1>1, <1>3 DEF Holding, Reserving, NoSweep
<1>7. SlotsHeld'
  BY <1>0, <1>1, <1>6 DEF SlotsHeld
<1>8. \A s \in Frames : SendFits(frame[s])'
  BY <1>1 DEF SendFits, NoSend
<1>9. SweepFits'
  BY <1>1 DEF SweepFits, NoSweep
<1>10. HandedFits'
  BY <1>0, <1>1, <1>3 DEF HandedFits
<1> QED BY <1>4, <1>5, <1>7, <1>8, <1>9, <1>10 DEF UploadsInv

-----------------------------------------------------------------------------
(* The specification. *)

LEMMA UploadsInvInit == UploadsInit => UploadsInv
<1> SUFFICES ASSUME UploadsInit PROVE UploadsInv
  OBVIOUS
<1>1. UploadsTypeOK
  <2>1. upload \in [Files -> UploadRow] /\ post \in [Files -> PostRequest]
    <3>1. [status |-> "none", name |-> 0, stale |-> FALSE] \in UploadRow
      BY UploadsAssumption DEF UploadRow
    <3>2. [at |-> "new", slot |-> 1, sent |-> FALSE] \in PostRequest
      <4>1. 1 \in 0..(MaxCollisions + 1)
        BY UploadsAssumption
      <4> QED BY <4>1 DEF PostRequest
    <3> QED BY <3>1, <3>2 DEF UploadsInit
  <2>2. frame \in [Frames -> Send] /\ gc \in Sweep
    BY DEF UploadsInit, NoSend, Send, NoSweep, Sweep
  <2>3. uploadFaults \in 0..MaxUploadFaults
    BY UploadsAssumption DEF UploadsInit
  <2> QED BY <2>1, <2>2, <2>3 DEF UploadsInit, UploadsTypeOK
<1>2. \A f \in Files : PostFits(f) /\ RowFits(f)
  BY DEF UploadsInit, PostFits, RowFits, Reserving
<1>3. \A f \in Files : ~Holding(f)
  BY DEF UploadsInit, Holding, Reserving
<1>4. SlotsHeld
  BY <1>3 DEF SlotsHeld
<1>5. \A s \in Frames : SendFits(frame[s])
  BY DEF UploadsInit, SendFits, NoSend
<1>6. SweepFits /\ HandedFits
  BY DEF UploadsInit, SweepFits, NoSweep, HandedFits
<1> QED BY <1>1, <1>2, <1>4, <1>5, <1>6 DEF UploadsInv

LEMMA UploadsInvNext == ASSUME ~SlowSends, NoTornUndo, UploadsInv, [UploadsNext]_uploadVars PROVE UploadsInv'
<1>1. CASE \E f \in Files : PostStarts(f) \/ PostGoesOn(f) \/ Expires(f)
  BY <1>1, PostStartKeeps, ProbeKeeps, StageKeeps, InsertKeeps, UnstageKeeps, UnslotKeeps, ExpiresKeeps
     DEF PostGoesOn
<1>2. CASE \E s \in Frames : SendStarts(s) \/ SendGoesOn(s) \/ SendFails(s)
  BY <1>2, LookKeeps, RenameKeeps, TidyKeeps, FlipKeeps, DeliverKeeps, FailKeeps
     DEF SendGoesOn
<1>3. CASE GcGoesOn
  BY <1>3, SelectKeeps, ClaimKeeps, FreeSlotKeeps, DeleteRowKeeps DEF GcGoesOn
<1>4. CASE ServerRestarts
  BY <1>4, RestartKeeps
<1>5. CASE UNCHANGED uploadVars
  BY <1>5 DEF uploadVars, UploadsInv, UploadsTypeOK, PostFits, RowFits, SlotsHeld, Holding, SendFits, SweepFits,
              HandedFits
<1> QED BY <1>1, <1>2, <1>3, <1>4, <1>5 DEF UploadsNext

LEMMA UploadsInvAlways == ASSUME ~SlowSends, NoTornUndo PROVE UploadsSpec => []UploadsInv
BY UploadsInvInit, UploadsInvNext, PTL DEF UploadsSpec

\* Every variable keeps to its set of values, whatever the faults within the two
\* hypotheses: a send that names a file has one, and a sweep collects one it has.
THEOREM UploadsTypeCorrect == ASSUME ~SlowSends, NoTornUndo PROVE UploadsSpec => []UploadsTypeOK
<1>1. UploadsInv => UploadsTypeOK
  BY DEF UploadsInv
<1> QED BY <1>1, UploadsInvAlways, PTL

\* What is attached, and what the agent was handed a reference to, has its own bytes
\* at its name: no other upload's request, undo or collection takes them away,
\* however slots are freed and taken again (buildNextFreeFilename,
\* promoteStagedToAttached, sweepExpiredUploads).
THEOREM AttachedKept == ASSUME ~SlowSends, NoTornUndo PROVE UploadsSpec => []AttachedBytesKept
<1>1. UploadsInv => AttachedBytesKept
  <2> SUFFICES ASSUME UploadsInv, NEW f \in Files, upload[f].status = "attached" \/ f \in handed
               PROVE  upload[f].name # 0 /\ slot[upload[f].name] = f
    BY DEF AttachedBytesKept
  <2>1. upload[f].status = "attached" /\ slot[post[f].slot] = f
    BY DEF UploadsInv, HandedFits
  <2>2. upload[f].name = post[f].slot /\ upload[f].name \in Slots
    BY <2>1 DEF UploadsInv, RowFits
  <2> QED BY <2>1, <2>2, UploadsAssumption DEF Slots
<1> QED BY <1>1, UploadsInvAlways, PTL

=============================================================================
