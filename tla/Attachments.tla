---------------------------- MODULE Attachments ----------------------------
(***************************************************************************)
(* A post with attachments: the composer (usePostComposer.ts) uploads the   *)
(* encrypted files part by part (blobUploadIo.ts), then posts references to *)
(* them; the social provider stages the parts, promotes a file when it has  *)
(* every part of it, and stores the post (service.rs, store.rs).            *)
(*                                                                          *)
(* Requests cross the mixnet: each is lost, or arrives any time later, even *)
(* after the composer gave it up and began again.  A file is named by the   *)
(* hash of its bytes and sent with its parts' numbers, so a file and its    *)
(* parts are the same in every attempt.  The provider handles one request   *)
(* at a time and may crash between two statements of one.                   *)
(***************************************************************************)
EXTENDS Naturals, FiniteSets

CONSTANTS Files,        \* the files attached to the draft
          Parts,        \* the numbers of a file's parts
          MaxAttempts   \* bound: attempts to post

AttachmentsAssumption ==
  /\ IsFiniteSet(Files) /\ IsFiniteSet(Parts) /\ Parts # {} /\ MaxAttempts \in Nat

VARIABLES
  phase,      \* the composer: idle, uploading, posting
  attempt,    \* attempts begun
  jobs,       \* the parts to upload in this attempt: to do, sent, accepted
  net,        \* requests on their way: parts, and posts
  staged,     \* blob_parts: the attempt during which each part was last staged
  blobs,      \* the files promoted
  posts,      \* the copies of the post stored
  cleared     \* has the draft been posted and cleared?

vars == <<phase, attempt, jobs, net, staged, blobs, posts, cleared>>

PartsOf(f) == {f} \X Parts
AllParts   == Files \X Parts
Unstaged   == 0

Init ==
  /\ phase = "idle" /\ attempt = 0 /\ jobs = [p \in AllParts |-> "todo"]
  /\ net = {}
  /\ staged = [p \in AllParts |-> Unstaged] /\ blobs = {}
  /\ posts = 0 /\ cleared = FALSE

PartRequest(p) == [kind |-> "part", part |-> p, attempt |-> attempt]
PostRequest    == [kind |-> "post", attempt |-> attempt]

-----------------------------------------------------------------------------
(* The composer.                                                           *)

Post ==
  /\ phase = "idle" /\ ~cleared /\ attempt < MaxAttempts
  /\ phase' = "uploading" /\ attempt' = attempt + 1
  /\ jobs' = [p \in AllParts |-> "todo"]
  /\ UNCHANGED <<net, staged, blobs, posts, cleared>>

(* fetchNymParallel sends a few at a time, and none after one failed.       *)
SendPart(p) ==
  /\ phase = "uploading" /\ jobs[p] = "todo"
  /\ jobs' = [jobs EXCEPT ![p] = "sent"]
  /\ net' = net \cup {PartRequest(p)}
  /\ UNCHANGED <<phase, attempt, staged, blobs, posts, cleared>>

(* A part that timed out or was rejected ends the attempt.                  *)
UploadFails ==
  /\ phase = "uploading" /\ phase' = "idle"
  /\ UNCHANGED <<attempt, jobs, net, staged, blobs, posts, cleared>>

Uploaded == \A p \in AllParts : jobs[p] = "accepted"

UploadEnds ==
  /\ phase = "uploading" /\ Uploaded
  /\ phase' = "posting" /\ net' = net \cup {PostRequest}
  /\ UNCHANGED <<attempt, jobs, staged, blobs, posts, cleared>>

PostFails ==
  /\ phase = "posting" /\ phase' = "idle"
  /\ UNCHANGED <<attempt, jobs, net, staged, blobs, posts, cleared>>

-----------------------------------------------------------------------------
(* The provider.                                                           *)

Loses(r) ==
  /\ net' = net \ {r}
  /\ UNCHANGED <<phase, attempt, jobs, staged, blobs, posts, cleared>>

(* prune_blob_parts: what was staged longer ago than the staging time to    *)
(* live, which no attempt exceeds.                                          *)
PrunesAll == {p \in AllParts : staged[p] # Unstaged}  \* mutant: whatever its age
Old == {p \in AllParts : staged[p] # Unstaged /\ (staged[p] < attempt \/ phase = "idle")}

Drop(parts, from) == [p \in AllParts |-> IF p \in parts THEN Unstaged ELSE from[p]]

(* stage_blob_part: what is old is pruned, the part is staged, over an      *)
(* earlier copy if need be, and with the last one the file is promoted and  *)
(* its parts are cleared.  Each is a statement of its own: a crash leaves   *)
(* what was done so far, and no answer.  The answer reaches the composer    *)
(* while its attempt goes on, or never.                                     *)
StagePart(r) ==
  \E pruned \in SUBSET Old :
    LET rest  == Drop(pruned, staged)
        all   == [rest EXCEPT ![r.part] = attempt]
        file  == r.part[1]
        whole == \A p \in PartsOf(file) : all[p] # Unstaged
        Done(st, bl) == staged' = st /\ blobs' = bl
    IN \/ Done(rest, blobs) /\ UNCHANGED jobs
       \/ Done(all, blobs) /\ UNCHANGED jobs
       \/ whole /\ Done(all, blobs \cup {file}) /\ UNCHANGED jobs
       \/ /\ IF whole THEN Done(Drop(PartsOf(file), all), blobs \cup {file})
                      ELSE Done(all, blobs)
          /\ \/ UNCHANGED jobs
             \/ /\ phase = "uploading" /\ r.attempt = attempt
                /\ jobs' = [jobs EXCEPT ![r.part] = "accepted"]

PartArrives(r) ==
  /\ r.kind = "part"
  /\ net' = net \ {r}
  /\ StagePart(r)
  /\ UNCHANGED <<phase, attempt, posts, cleared>>

(* insert_post, without regard to the files; the composer clears the draft  *)
(* when it hears of it in time.                                             *)
PostArrives(r) ==
  /\ r.kind = "post"
  /\ net' = net \ {r}
  /\ posts' = posts + 1
  /\ \/ UNCHANGED <<phase, cleared>>
     \/ /\ phase = "posting" /\ r.attempt = attempt
        /\ phase' = "idle" /\ cleared' = TRUE
  /\ UNCHANGED <<attempt, jobs, staged, blobs>>

-----------------------------------------------------------------------------
Next ==
  \/ Post \/ UploadFails \/ UploadEnds \/ PostFails
  \/ \E p \in AllParts : SendPart(p)
  \/ \E r \in net : Loses(r) \/ PartArrives(r) \/ PostArrives(r)

Spec == Init /\ [][Next]_vars

-----------------------------------------------------------------------------
TypeOK ==
  /\ phase \in {"idle", "uploading", "posting"}
  /\ attempt \in 0..MaxAttempts /\ jobs \in [AllParts -> {"todo", "sent", "accepted"}]
  /\ \A r \in net : r.attempt \in 1..attempt /\ (r.kind = "part" => r.part \in AllParts)
  /\ staged \in [AllParts -> 0..MaxAttempts]
  /\ blobs \subseteq Files
  /\ posts \in 0..MaxAttempts /\ cleared \in BOOLEAN

(* "never a dangling attachment": once the composer sends a post, the files *)
(* it refers to can be fetched, whatever was lost, sent again, delivered    *)
(* late from an earlier attempt, pruned, or cut short by a crash.           *)
AttachmentsStored == phase = "posting" \/ posts > 0 => Files \subseteq blobs
=============================================================================
