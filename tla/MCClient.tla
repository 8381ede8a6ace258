------------------------------ MODULE MCClient ------------------------------
(* Components of the social client, and maps that are merged: they share no *)
(* state, each is on a small instance, a behaviour is one of the component  *)
(* in focus, and the variables of the others stay as they are.              *)
(*   dms:   one mailbox, read over two openings of the community.           *)
(*   files: a post with one attached file of three parts, tried twice.      *)
(*   identity: the user's key and the keystore, two procedures at a time. *)
(*   lww:   two replicas of a map, told of writes of the same day.          *)
EXTENDS PortalLww, TLC

CONSTANTS Focus,   \* the components to check
          MaxKept, MaxDms, MaxViews, MaxOut,
          Files, Parts, MaxAttempts,
          Identities, WrapKeys, MaxProcs, MaxRefused

VARIABLES focus,
          mailbox, stored, garbled, own, wire, view, mounted, dms, chain, stopped,
          cache, kept, lost,
          phase, attempt, jobs, net, staged, blobs, posts, cleared,
          plugin, held, disk, copy, shown, proc, asked, answers, refusals, mine, hasty, gone

dmVars   == <<mailbox, stored, garbled, own, wire, view, mounted, dms, chain, stopped,
              cache, kept, lost>>
fileVars == <<phase, attempt, jobs, net, staged, blobs, posts, cleared>>
keyVars  ==
  <<plugin, held, disk, copy, shown, proc, asked, answers, refusals, mine, hasty, gone>>
clientVars == <<focus, dmVars, fileVars, keyVars, vars>>

Dms  == INSTANCE DirectMessages
Blob == INSTANCE Attachments
Key  == INSTANCE Identity WITH cache <- copy, lost <- gone

\* Of one key three writes of one day, and one write of another.
Written(key, day, author, hash) ==
  [key |-> key, dot |-> <<day, author, hash>>, value |-> <<author, hash>>]
ClientWrites  == {Written("k", 1, 1, 1), Written("k", 1, 2, 0), Written("k", 1, 2, 1),
                  Written("l", 0, 2, 1)}

Symmetric == Permutations(Identities)

ASSUME ClientAssumption ==
  Dms!MessagesAssumption /\ Blob!AttachmentsAssumption /\ Key!IdentityAssumption

ClientInit ==
  /\ focus \in Focus
  /\ Init
  /\ IF focus = "dms" THEN Dms!Init
     ELSE mailbox = 0 /\ stored = 0 /\ garbled = 0 /\ own = 0 /\ wire = 0 /\ view = 0
          /\ mounted = 0 /\ dms = 0 /\ chain = 0 /\ stopped = 0
          /\ cache = 0 /\ kept = 0 /\ lost = 0
  /\ IF focus = "files" THEN Blob!Init
     ELSE phase = 0 /\ attempt = 0 /\ jobs = 0 /\ net = 0 /\ staged = 0
          /\ blobs = 0 /\ posts = 0 /\ cleared = 0
  /\ IF focus = "identity" THEN Key!Init
     ELSE plugin = 0 /\ held = 0 /\ disk = 0 /\ gone = 0 /\ copy = 0 /\ shown = 0 /\ proc = 0 /\ asked = 0
          /\ answers = 0 /\ refusals = 0 /\ mine = 0 /\ hasty = 0

ClientNext ==
  /\ UNCHANGED focus
  /\ \/ focus = "dms"   /\ Dms!Next  /\ UNCHANGED <<fileVars, keyVars, vars>>
     \/ focus = "files" /\ Blob!Next /\ UNCHANGED <<dmVars, keyVars, vars>>
     \/ focus = "identity" /\ Key!Next /\ UNCHANGED <<dmVars, fileVars, vars>>
     \/ focus = "lww" /\ Next /\ UNCHANGED <<dmVars, fileVars, keyVars>>

ClientSpec == ClientInit /\ [][ClientNext]_clientVars

-----------------------------------------------------------------------------
(* The properties of the components, as their modules state them; those of  *)
(* PortalLww hold in every state.                                           *)

ClientTypeOK == /\ TypeOK
                /\ focus = "dms"   => Dms!TypeOK
                /\ focus = "files" => Blob!TypeOK
                /\ focus = "identity" => Key!TypeOK

MailKept    == focus = "dms" =>
                 Dms!NothingDropped /\ Dms!RecordedOnce /\ Dms!ArrivalOrder
HistoryKept == [][focus = "dms" => Dms!HistoryKept]_clientVars

AttachmentsStored == focus = "files" => Blob!AttachmentsStored

KeysKept == focus = "identity" => Key!Recoverable /\ Key!AdoptedStored
=============================================================================
