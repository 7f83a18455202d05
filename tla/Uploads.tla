------------------------------- MODULE Uploads -------------------------------
(***************************************************************************)
(* The two-phase upload of chat attachments: the POST that reserves a slot *)
(* in uploads/ and stages the bytes, the send that moves them over the     *)
(* slot, and the hourly collection of what was staged and never sent       *)
(* (uploads.ts, uploads/route.ts, attachment-pipeline.ts, upload-gc.ts).   *)
(*                                                                         *)
(* One user, one agent; all uploads ask for the same file name, so that    *)
(* their slots are the numbered alternatives of one name.  A step is one   *)
(* call of the file system or the database.                                *)
(***************************************************************************)
EXTENDS Naturals, FiniteSets

CONSTANTS
    Files,          \* bound: the uploads that are ever made
    NoFile,         \* nothing at a path
    Placeholder,    \* the empty file that reserves a slot
    Frames,         \* bound: sends under way at once
    MaxCollisions,  \* the names buildNextFreeFilename tries
    SlowSends,      \* may an upload expire while a send that checked it goes on?
    UploadFaults,   \* "disk", "database", "restart"
    MaxUploadFaults \* bound: how many of them happen

ASSUME UploadsAssumption ==
    /\ NoFile \notin Files /\ Placeholder \notin Files /\ NoFile # Placeholder
    /\ MaxCollisions \in Nat \ {0} /\ MaxUploadFaults \in Nat
    /\ SlowSends \in BOOLEAN
    /\ UploadFaults \subseteq {"disk", "database", "restart"}

VARIABLES
    slot,       \* [Slots -> the file at that name in uploads/]
    staging,    \* [Files -> its directory in .staging/]
    upload,     \* [Files -> its row of uploaded_files]
    post,       \* [Files -> where the request that makes it is]
    frame,      \* [Frames -> the send]
    gc,         \* the sweep
    handed,     \* files some send gave the agent a reference to
    uploadFaults

uploadVars == <<slot, staging, upload, post, frame, gc, handed, uploadFaults>>

Slots == 1..MaxCollisions

\* name: the reserved slot.  stale: past expires_at.
UploadRow == [status: {"none", "staged", "attached"}, name: 0..MaxCollisions, stale: BOOLEAN]

PostRequest == [at: {"new", "reserve", "stage", "insert", "undo", "unstage", "unslot", "ended"}, slot: 0..(MaxCollisions + 1),
                sent: BOOLEAN]

\* rows: staged rows still to attach.  again: attached rows a retry names.
Send == [at: {"idle", "staged", "attached", "rename", "tidy", "flip", "deliver"},
         named: SUBSET Files, retry: BOOLEAN, rows: SUBSET Files, again: SUBSET Files,
         file: Files \cup {NoFile}, refs: SUBSET Files]

NoSend == [at |-> "idle", named |-> {}, retry |-> FALSE, rows |-> {}, again |-> {},
           file |-> NoFile, refs |-> {}]

Sweep == [at: {"idle", "claim", "slot", "row"}, rows: SUBSET Files, file: Files \cup {NoFile}]

NoSweep == [at |-> "idle", rows |-> {}, file |-> NoFile]

UploadsTypeOK ==
    /\ slot \in [Slots -> Files \cup {NoFile, Placeholder}]
    /\ staging \in [Files -> {"none", "full", "empty"}]
    /\ upload \in [Files -> UploadRow]
    /\ post \in [Files -> PostRequest]
    /\ frame \in [Frames -> Send]
    /\ gc \in Sweep
    /\ handed \subseteq Files
    /\ uploadFaults \in 0..MaxUploadFaults

UploadsInit ==
    /\ slot = [n \in Slots |-> NoFile]
    /\ staging = [f \in Files |-> "none"]
    /\ upload = [f \in Files |-> [status |-> "none", name |-> 0, stale |-> FALSE]]
    /\ post = [f \in Files |-> [at |-> "new", slot |-> 1, sent |-> FALSE]]
    /\ frame = [s \in Frames |-> NoSend]
    /\ gc = NoSweep
    /\ handed = {}
    /\ uploadFaults = 0

UploadFault(kind) ==
    /\ kind \in UploadFaults
    /\ uploadFaults < MaxUploadFaults
    /\ uploadFaults' = uploadFaults + 1

-----------------------------------------------------------------------------
(* POST /uploads. *)

PostStarts(f) ==
    /\ post[f].at = "new"
    /\ post' = [post EXCEPT ![f].at = "reserve"]
    /\ UNCHANGED <<slot, staging, upload, frame, gc, handed, uploadFaults>>

\* buildNextFreeFilename: one open(..., "wx") per name; no name left is an error.
ProbeSlot(f) ==
    /\ post[f].at = "reserve"
    /\ \/ /\ post[f].slot > MaxCollisions
          /\ post' = [post EXCEPT ![f].at = "ended"]
          /\ UNCHANGED slot
       \/ /\ post[f].slot \in Slots /\ slot[post[f].slot] # NoFile
          /\ post' = [post EXCEPT ![f].slot = @ + 1]
          /\ UNCHANGED slot
       \/ /\ post[f].slot \in Slots /\ slot[post[f].slot] = NoFile
          /\ slot' = [slot EXCEPT ![post[f].slot] = Placeholder]
          /\ post' = [post EXCEPT ![f].at = "stage"]
    /\ UNCHANGED <<staging, upload, frame, gc, handed, uploadFaults>>

\* The bytes go to .staging/<id>/; when that fails the reservation stays.
StageFile(f) ==
    /\ post[f].at = "stage"
    /\ \/ /\ staging' = [staging EXCEPT ![f] = "full"]
          /\ post' = [post EXCEPT ![f].at = "insert"]
          /\ UNCHANGED uploadFaults
       \/ /\ UploadFault("disk")
          /\ staging' = [staging EXCEPT ![f] = "empty"]
          /\ post' = [post EXCEPT ![f].at = "ended"]
    /\ UNCHANGED <<slot, upload, frame, gc, handed>>

\* A failed insert may have been committed all the same.
InsertRow(f) ==
    LET staged == [upload EXCEPT ![f] = [status |-> "staged", name |-> post[f].slot, stale |-> FALSE]]
    IN /\ post[f].at = "insert"
       /\ \/ /\ upload' = staged
             /\ post' = [post EXCEPT ![f].at = "ended", ![f].sent = TRUE]
             /\ UNCHANGED uploadFaults
          \/ /\ UploadFault("database")
             /\ upload' \in {upload, staged}
             /\ post' = [post EXCEPT ![f].at = "undo"]
       /\ UNCHANGED <<slot, staging, frame, gc, handed>>

\* The two removals run side by side; what they find missing is no error.
UndoStaging(f) ==
    /\ post[f].at \in {"undo", "unstage"}
    /\ staging' = [staging EXCEPT ![f] = "none"]
    /\ post' = [post EXCEPT ![f].at = IF post[f].at = "undo" THEN "unslot" ELSE "ended"]
    /\ UNCHANGED <<slot, upload, frame, gc, handed, uploadFaults>>

UndoSlot(f) ==
    /\ post[f].at \in {"undo", "unslot"}
    /\ slot' = [slot EXCEPT ![post[f].slot] = NoFile]
    /\ post' = [post EXCEPT ![f].at = IF post[f].at = "undo" THEN "unstage" ELSE "ended"]
    /\ UNCHANGED <<staging, upload, frame, gc, handed, uploadFaults>>

-----------------------------------------------------------------------------
(* materializeAttachments. *)

\* A message frame names uploads whose POST the client has an answer to.
SendStarts(s) ==
    /\ frame[s].at = "idle"
    /\ \E named \in SUBSET {f \in Files : post[f].sent} \ {{}}, retry \in BOOLEAN :
         frame' = [frame EXCEPT ![s] = [NoSend EXCEPT !.at = "staged", !.named = named, !.retry = retry]]
    /\ UNCHANGED <<slot, staging, upload, post, gc, handed, uploadFaults>>

\* Where the loop over the files goes on.
NextFile(left) == IF left = {} THEN "deliver" ELSE "rename"

\* A row past its expiry refuses the frame; otherwise the loop starts.
Checked(s, rows, again) ==
    IF \E f \in rows : upload[f].stale THEN frame' = [frame EXCEPT ![s] = NoSend]
    ELSE frame' = [frame EXCEPT ![s] = [NoSend EXCEPT !.at = NextFile(rows), !.rows = rows,
                                                      !.again = again]]

\* Rows still staged; only when some are not, those attached are looked up.
LookupStaged(s) ==
    LET rows == {f \in frame[s].named : upload[f].status = "staged"} IN
    /\ frame[s].at = "staged"
    /\ IF rows = frame[s].named THEN Checked(s, rows, {})
       ELSE frame' = [frame EXCEPT ![s].at = "attached", ![s].rows = rows]
    /\ UNCHANGED <<slot, staging, upload, post, gc, handed, uploadFaults>>

\* On a retry attached rows are referenced again, otherwise they refuse the
\* frame, and so does an id without a row.
LookupAttached(s) ==
    LET again == {f \in frame[s].named \ frame[s].rows : upload[f].status = "attached"} IN
    /\ frame[s].at = "attached"
    /\ IF frame[s].named = frame[s].rows \cup again /\ frame[s].retry
       THEN Checked(s, frame[s].rows, again)
       ELSE frame' = [frame EXCEPT ![s] = NoSend]
    /\ UNCHANGED <<slot, staging, upload, post, gc, handed, uploadFaults>>

\* promoteStagedToAttached: the rename replaces the placeholder, or whatever is
\* there; without the staged file it throws and the send ends.
RenameFile(s) ==
    /\ frame[s].at = "rename"
    /\ \E f \in frame[s].rows :
         IF staging[f] = "full"
         THEN /\ staging' = [staging EXCEPT ![f] = "empty"]
              /\ slot' = [slot EXCEPT ![upload[f].name] = f]
              /\ frame' = [frame EXCEPT ![s].at = "tidy", ![s].file = f, ![s].rows = @ \ {f}]
         ELSE /\ frame' = [frame EXCEPT ![s] = NoSend]
              /\ UNCHANGED <<slot, staging>>
    /\ UNCHANGED <<upload, post, gc, handed, uploadFaults>>

TidyStaging(s) ==
    /\ frame[s].at = "tidy"
    /\ staging' = [staging EXCEPT ![frame[s].file] = "none"]
    /\ frame' = [frame EXCEPT ![s].at = "flip"]
    /\ UNCHANGED <<slot, upload, post, gc, handed, uploadFaults>>

\* The row becomes attached, whatever its status is by now, if it is still there.
Flipped(f) == IF upload[f].status = "none" THEN upload
              ELSE [upload EXCEPT ![f].status = "attached", ![f].stale = FALSE]

FlipRow(s) ==
    /\ frame[s].at = "flip"
    /\ upload' = Flipped(frame[s].file)
    /\ frame' = [frame EXCEPT ![s].at = NextFile(frame[s].rows), ![s].file = NoFile,
                              ![s].refs = @ \cup {frame[s].file}]
    /\ UNCHANGED <<slot, staging, post, gc, handed, uploadFaults>>

\* A retry opens what it references again: a file that is gone ends the send.
\* Only a send that gets this far hands its references to the agent.
Deliver(s) ==
    /\ frame[s].at = "deliver"
    /\ \/ /\ \E f \in frame[s].again : slot[upload[f].name] = NoFile
          /\ UNCHANGED handed
       \/ /\ \A f \in frame[s].again : slot[upload[f].name] # NoFile
          /\ handed' = handed \cup frame[s].refs \cup frame[s].again
    /\ frame' = [frame EXCEPT ![s] = NoSend]
    /\ UNCHANGED <<slot, staging, upload, post, gc, uploadFaults>>

\* A query or an audit append throws; a failed UPDATE may have been committed.
SendFails(s) ==
    /\ frame[s].at \in {"staged", "attached", "flip", "deliver"}
    /\ UploadFault("database")
    /\ upload' \in {upload} \cup (IF frame[s].at = "flip" THEN {Flipped(frame[s].file)} ELSE {})
    /\ frame' = [frame EXCEPT ![s] = NoSend]
    /\ UNCHANGED <<slot, staging, post, gc, handed>>

\* The time to live of a staged upload, a day from its POST, is over.
Expires(f) ==
    /\ upload[f].status = "staged" /\ ~upload[f].stale
    /\ post[f].at = "ended"
    /\ SlowSends \/ \A s \in Frames : f \notin frame[s].named \cup frame[s].rows \cup {frame[s].file}
    /\ upload' = [upload EXCEPT ![f].stale = TRUE]
    /\ UNCHANGED <<slot, staging, post, frame, gc, handed, uploadFaults>>

-----------------------------------------------------------------------------
(* sweepExpiredUploads. *)

GcSelect ==
    LET rows == {f \in Files : upload[f].status = "staged" /\ upload[f].stale} IN
    /\ gc.at = "idle"
    /\ rows # {}
    /\ gc' = [gc EXCEPT !.at = "claim", !.rows = rows]
    /\ UNCHANGED <<slot, staging, upload, post, frame, handed, uploadFaults>>

\* On to the next expired row, or the sweep is over.
GcNext(left) == IF left = {} THEN NoSweep ELSE [at |-> "claim", rows |-> left, file |-> NoFile]

\* Mutant: a staging directory that is not there counts as removed.
GcClaimForced ==
    /\ gc.at = "claim"
    /\ \E f \in gc.rows :
         /\ staging' = [staging EXCEPT ![f] = "none"]
         /\ gc' = [at |-> "slot", rows |-> gc.rows \ {f}, file |-> f]
    /\ UNCHANGED <<slot, upload, post, frame, handed, uploadFaults>>

\* Mutant: the first row that cannot be collected ends the sweep.
GcClaimOrStop ==
    /\ gc.at = "claim"
    /\ \E f \in gc.rows :
         IF staging[f] = "none" THEN gc' = NoSweep /\ UNCHANGED staging
         ELSE /\ staging' = [staging EXCEPT ![f] = "none"]
              /\ gc' = [at |-> "slot", rows |-> gc.rows \ {f}, file |-> f]
    /\ UNCHANGED <<slot, upload, post, frame, handed, uploadFaults>>

\* Removing the staging directory claims the row; when it is missing or cannot be
\* removed the row is left for a later sweep.
GcClaim ==
    /\ gc.at = "claim"
    /\ \E f \in gc.rows :
         \/ /\ staging[f] = "none"
            /\ gc' = GcNext(gc.rows \ {f})
            /\ UNCHANGED <<staging, uploadFaults>>
         \/ /\ staging[f] # "none"
            /\ staging' = [staging EXCEPT ![f] = "none"]
            /\ gc' = [at |-> "slot", rows |-> gc.rows \ {f}, file |-> f]
            /\ UNCHANGED uploadFaults
         \/ /\ staging[f] # "none" /\ UploadFault("disk")
            /\ gc' = GcNext(gc.rows \ {f})
            /\ UNCHANGED staging
    /\ UNCHANGED <<slot, upload, post, frame, handed>>

\* A slot that cannot be removed stays, and the row goes all the same.
GcFreeSlot ==
    /\ gc.at = "slot"
    /\ \/ slot' = [slot EXCEPT ![upload[gc.file].name] = NoFile] /\ UNCHANGED uploadFaults
       \/ UploadFault("disk") /\ UNCHANGED slot
    /\ gc' = [gc EXCEPT !.at = "row"]
    /\ UNCHANGED <<staging, upload, post, frame, handed>>

\* The DELETE names the id alone; when it fails, the row is left without a file.
GcDeleteRow ==
    /\ gc.at = "row"
    /\ \/ upload' = [upload EXCEPT ![gc.file].status = "none"] /\ UNCHANGED uploadFaults
       \/ UploadFault("database") /\ UNCHANGED upload
    /\ gc' = GcNext(gc.rows)
    /\ UNCHANGED <<slot, staging, post, frame, handed>>

\* The process stops and starts again: requests, sends and the sweep are gone.
ServerRestarts ==
    /\ UploadFault("restart")
    /\ post' = [f \in Files |-> IF post[f].at = "new" THEN post[f] ELSE [post[f] EXCEPT !.at = "ended"]]
    /\ frame' = [s \in Frames |-> NoSend]
    /\ gc' = NoSweep
    /\ UNCHANGED <<slot, staging, upload, handed>>

-----------------------------------------------------------------------------
PostGoesOn(f) == ProbeSlot(f) \/ StageFile(f) \/ InsertRow(f) \/ UndoStaging(f) \/ UndoSlot(f)

SendGoesOn(s) == \/ LookupStaged(s) \/ LookupAttached(s) \/ RenameFile(s) \/ TidyStaging(s)
                 \/ FlipRow(s) \/ Deliver(s)

GcGoesOn == GcSelect \/ GcClaim \/ GcFreeSlot \/ GcDeleteRow

UploadsNext ==
    \/ \E f \in Files : PostStarts(f) \/ PostGoesOn(f) \/ Expires(f)
    \/ \E s \in Frames : SendStarts(s) \/ SendGoesOn(s) \/ SendFails(s)
    \/ GcGoesOn
    \/ ServerRestarts

UploadsSpec == UploadsInit /\ [][UploadsNext]_uploadVars

-----------------------------------------------------------------------------
(* What uploads promise. *)

\* "Never pointing the agent at nothing" (materializeAttachments, step 6): what is
\* attached, and what the agent was handed, has its own bytes at its name, however
\* slots are freed and taken again.
AttachedBytesKept ==
    \A f \in Files : upload[f].status = "attached" \/ f \in handed =>
        upload[f].name # 0 /\ slot[upload[f].name] = f

\* "A failed rm does NOT delete the DB row - the GC will retry" (upload-gc.ts): an
\* expired upload that was never sent is collected at last, also while a row that
\* can never be collected is selected along with it in every sweep.
Abandoned ==
    {f \in Files : upload[f].status = "staged" /\ upload[f].stale /\ staging[f] = "full"}

AbandonedCollected == Abandoned # {} ~> Abandoned = {}

=============================================================================
