---------------------------- MODULE ClientProofs ----------------------------
(* Theorems about the components of the social client.                      *)
(*   lww:   replicas of a last-writer-wins map converge.  The dots are      *)
(*          totally ordered, so of the writes of a key only one is last;    *)
(*          and what a map holds is the last of what it was told, which     *)
(*          inserting a write or the entries of another map preserves.      *)
(*   files: a post is sent with its files stored.  A part is accepted only  *)
(*          by a provider that holds it or has the file; so the last part   *)
(*          of a file is accepted only by one that has the file.            *)
(*   identity: a user is not left without a key.  A cache is wrapped only   *)
(*          by a key the keystore has; and while it refuses nothing,        *)
(*          its answers are true, in order, of what it holds, so that the   *)
(*          last call that stores decides what a start finds.               *)
(*   dms:   the history of direct messages loses and doubles none.  What is *)
(*          in the mailbox came after all that was answered, and what was   *)
(*          answered came after all that is recorded, so that a received    *)
(*          message is new; and of what was once recorded only as many are  *)
(*          gone as there are later ones.                                   *)
EXTENDS MCClient, ListProofs, FiniteSetTheorems


(* compareDots is a strict total order.                                     *)
LEMMA BeforeTotal ==
  ASSUME NEW d \in Dots, NEW e \in Dots, ~Before(d, e), ~Before(e, d)
  PROVE  d = e
BY DEF Before, Dots

LEMMA BeforeAsymmetric ==
  ASSUME NEW d \in Dots, NEW e \in Dots, Before(d, e)
  PROVE  ~Before(e, d)
BY DEF Before, Dots

LEMMA NotBeforeTransitive ==
  ASSUME NEW d \in Dots, NEW e \in Dots, NEW f \in Dots, ~Before(d, e), ~Before(e, f)
  PROVE  ~Before(d, f)
BY DEF Before, Dots

LEMMA WriteTypes ==
  ASSUME NEW w \in Writes
  PROVE  w.key \in Keys /\ w.dot \in Dots /\ w # None
BY LwwAssumption

(* The type invariant.                                                      *)
LEMMA TypeStep == TypeOK /\ [Next]_vars => TypeOK'
<1> SUFFICES ASSUME TypeOK, [Next]_vars PROVE TypeOK'
  OBVIOUS
<1> USE DEF TypeOK, Maps
<1>1. ASSUME NEW r \in Replicas, NEW w \in Writes, Insert(r, w) PROVE TypeOK'
  <2>1. Inserted(map[r], w) \in Maps
    BY DEF Inserted
  <2>2. QED
    BY <1>1, <2>1 DEF Insert
<1>2. ASSUME NEW r \in Replicas, ToEntries(r) PROVE TypeOK'
  BY <1>2 DEF ToEntries
<1>3. ASSUME NEW r \in Replicas, NEW c \in copies, Merge(r, c) PROVE TypeOK'
  <2>1. c.map \in Maps /\ c.told \in SUBSET Writes
    OBVIOUS
  <2>2. Merged(map[r], c.map) \in Maps
    BY <2>1 DEF Merged
  <2>3. QED
    BY <1>3, <2>1, <2>2 DEF Merge
<1>4. CASE UNCHANGED vars
  BY <1>4 DEF vars
<1>5. QED
  BY <1>1, <1>2, <1>3, <1>4 DEF Next

(* The state of every replica is well formed.                               *)
THEOREM TypeCorrect == Spec => []TypeOK
<1>1. Init => TypeOK
  BY DEF Init, TypeOK, Maps
<1>2. QED
  BY <1>1, TypeStep, PTL DEF Spec

(* insert keeps the last write, for every order of inserts.                 *)
LEMMA InsertedHolds ==
  ASSUME NEW m \in Maps, NEW writes \in SUBSET Writes, NEW w \in Writes, HoldsLast(m, writes)
  PROVE  HoldsLast(Inserted(m, w), writes \cup {w})
<1> DEFINE n == Inserted(m, w)
<1> SUFFICES ASSUME NEW k \in Keys
             PROVE  /\ n[k] = None => \A v \in writes \cup {w} : v.key # k
                    /\ n[k] # None =>
                         /\ n[k] \in writes \cup {w} /\ n[k].key = k
                         /\ \A v \in writes \cup {w} : v.key = k => ~Before(n[k].dot, v.dot)
  BY DEF HoldsLast
<1>1. /\ m[k] = None => \A v \in writes : v.key # k
      /\ m[k] # None => /\ m[k] \in writes /\ m[k].key = k
                        /\ \A v \in writes : v.key = k => ~Before(m[k].dot, v.dot)
  BY DEF HoldsLast
<1>2. w.dot \in Dots /\ w # None
  BY WriteTypes
<1>3. CASE k # w.key
  <2>1. n[k] = m[k]
    BY <1>3 DEF Inserted
  <2>2. QED
    BY <1>1, <1>3, <2>1
<1>4. CASE k = w.key /\ m[k] = None
  <2>1. n[k] = w
    BY <1>2, <1>4 DEF Inserted, Beats
  <2>2. ~Before(w.dot, w.dot)
    BY <1>2 DEF Before, Dots
  <2>3. QED
    BY <1>1, <1>2, <1>4, <2>1, <2>2
<1>5. CASE k = w.key /\ m[k] # None /\ Before(m[k].dot, w.dot)
  <2>1. n[k] = w
    BY <1>2, <1>5 DEF Inserted, Beats
  <2>2. ~Before(w.dot, m[k].dot)
    BY <1>1, <1>2, <1>5, WriteTypes, BeforeAsymmetric
  <2>3. \A v \in writes : v.key = k => ~Before(w.dot, v.dot)
    BY <1>1, <1>2, <1>5, <2>2, WriteTypes, NotBeforeTransitive
  <2>4. ~Before(w.dot, w.dot)
    BY <1>2 DEF Before, Dots
  <2>5. QED
    BY <1>2, <1>5, <2>1, <2>3, <2>4
<1>6. CASE k = w.key /\ m[k] # None /\ ~Before(m[k].dot, w.dot)
  <2>1. n[k] = m[k]
    BY <1>6 DEF Inserted, Beats
  <2>2. QED
    BY <1>1, <1>6, <2>1
<1>7. QED
  BY <1>3, <1>4, <1>5, <1>6

(* merge keeps the last write.                                              *)
LEMMA MergedHolds ==
  ASSUME NEW m \in Maps, NEW writes \in SUBSET Writes, HoldsLast(m, writes),
         NEW c \in Maps, NEW others \in SUBSET Writes, HoldsLast(c, others)
  PROVE  HoldsLast(Merged(m, c), writes \cup others)
<1> DEFINE n == Merged(m, c)
<1> SUFFICES ASSUME NEW k \in Keys
             PROVE  /\ n[k] = None => \A v \in writes \cup others : v.key # k
                    /\ n[k] # None =>
                         /\ n[k] \in writes \cup others /\ n[k].key = k
                         /\ \A v \in writes \cup others : v.key = k => ~Before(n[k].dot, v.dot)
  BY DEF HoldsLast
<1>1. /\ m[k] = None => \A v \in writes : v.key # k
      /\ m[k] # None => /\ m[k] \in writes /\ m[k].key = k
                        /\ \A v \in writes : v.key = k => ~Before(m[k].dot, v.dot)
  BY DEF HoldsLast
<1>2. /\ c[k] = None => \A v \in others : v.key # k
      /\ c[k] # None => /\ c[k] \in others /\ c[k].key = k
                           /\ \A v \in others : v.key = k => ~Before(c[k].dot, v.dot)
  BY DEF HoldsLast
<1>3. CASE c[k] = None
  <2>1. n[k] = m[k]
    BY <1>3 DEF Merged
  <2>2. QED
    BY <1>1, <1>2, <1>3, <2>1
<1>4. CASE c[k] # None /\ m[k] = None
  <2>1. n[k] = c[k]
    BY <1>4 DEF Merged, Beats
  <2>2. QED
    BY <1>1, <1>2, <1>4, <2>1
<1>5. CASE c[k] # None /\ m[k] # None /\ Before(m[k].dot, c[k].dot)
  <2>1. n[k] = c[k]
    BY <1>5 DEF Merged, Beats
  <2>2. ~Before(c[k].dot, m[k].dot)
    BY <1>1, <1>2, <1>5, WriteTypes, BeforeAsymmetric
  <2>3. \A v \in writes : v.key = k => ~Before(c[k].dot, v.dot)
    BY <1>1, <1>2, <1>5, <2>2, WriteTypes, NotBeforeTransitive
  <2>4. QED
    BY <1>2, <1>5, <2>1, <2>3
<1>6. CASE c[k] # None /\ m[k] # None /\ ~Before(m[k].dot, c[k].dot)
  <2>1. n[k] = m[k]
    BY <1>6 DEF Merged, Beats
  <2>2. \A v \in others : v.key = k => ~Before(m[k].dot, v.dot)
    BY <1>1, <1>2, <1>6, WriteTypes, NotBeforeTransitive
  <2>3. QED
    BY <1>1, <1>6, <2>1, <2>2
<1>7. QED
  BY <1>3, <1>4, <1>5, <1>6

LEMMA HeldStep == TypeOK /\ LastWriteHeld /\ [Next]_vars => LastWriteHeld'
<1> SUFFICES ASSUME TypeOK, LastWriteHeld, [Next]_vars PROVE LastWriteHeld'
  OBVIOUS
<1> USE DEF TypeOK, LastWriteHeld
<1>1. ASSUME NEW r \in Replicas, NEW w \in Writes, Insert(r, w) PROVE LastWriteHeld'
  <2>1. HoldsLast(Inserted(map[r], w), told[r] \cup {w})
    BY InsertedHolds
  <2>2. QED
    BY <1>1, <2>1 DEF Insert
<1>2. ASSUME NEW r \in Replicas, ToEntries(r) PROVE LastWriteHeld'
  BY <1>2 DEF ToEntries
<1>3. ASSUME NEW r \in Replicas, NEW c \in copies, Merge(r, c) PROVE LastWriteHeld'
  <2>1. c.map \in Maps /\ c.told \in SUBSET Writes
    OBVIOUS
  <2>2. HoldsLast(Merged(map[r], c.map), told[r] \cup c.told)
    BY <2>1, MergedHolds
  <2>3. QED
    BY <1>3, <2>2 DEF Merge
<1>4. CASE UNCHANGED vars
  BY <1>4 DEF vars
<1>5. QED
  BY <1>1, <1>2, <1>3, <1>4 DEF Next

(* What a replica holds of a key is, of all it was told of, the last write, *)
(* for every number of replicas, keys and writes.                           *)
THEOREM LastHeld == Spec => []LastWriteHeld
<1>1. Init => LastWriteHeld
  BY DEF Init, LastWriteHeld, HoldsLast
<1>2. QED
  BY <1>1, HeldStep, TypeCorrect, PTL DEF Spec

(* Two maps that hold the last of the same writes are the same.             *)
LEMMA SameMap ==
  ASSUME NEW m \in Maps, NEW n \in Maps, NEW writes \in SUBSET Writes,
         HoldsLast(m, writes), HoldsLast(n, writes)
  PROVE  m = n
<1> SUFFICES ASSUME NEW k \in Keys PROVE m[k] = n[k]
  BY DEF Maps
<1>1. CASE m[k] = None \/ n[k] = None
  BY <1>1 DEF HoldsLast
<1>2. CASE m[k] # None /\ n[k] # None
  <2>1. /\ m[k] \in Writes /\ n[k] \in Writes /\ m[k].key = n[k].key
        /\ ~Before(m[k].dot, n[k].dot) /\ ~Before(n[k].dot, m[k].dot)
    BY <1>2 DEF HoldsLast
  <2>2. m[k].dot = n[k].dot
    BY <2>1, WriteTypes, BeforeTotal
  <2>3. QED
    BY <2>1, <2>2, LwwAssumption
<1>3. QED
  BY <1>1, <1>2

(* Merging is commutative, associative and idempotent in its effect:        *)
(* replicas told of the same writes have the same map.                      *)
THEOREM Convergence == Spec => []Converged
<1>1. TypeOK /\ LastWriteHeld => Converged
  BY SameMap DEF TypeOK, LastWriteHeld, Converged
<1>2. QED
  BY <1>1, TypeCorrect, LastHeld, PTL

-----------------------------------------------------------------------------
FilesTypes ==
  /\ phase \in {"idle", "uploading", "posting"}
  /\ attempt \in Nat /\ jobs \in [Blob!AllParts -> {"todo", "sent", "accepted"}]
  /\ \A r \in net : r.kind = "part" => r.part \in Blob!AllParts
  /\ staged \in [Blob!AllParts -> Nat] /\ posts \in Nat
  /\ phase # "idle" => attempt # 0

(* While parts are uploaded, what was accepted is there still.              *)
AcceptedHeld ==
  phase = "uploading" =>
    \A p \in Blob!AllParts : jobs[p] = "accepted" => staged[p] = attempt \/ p[1] \in blobs

(* The last part of a file is accepted only with the file.                  *)
LastPromotes ==
  phase = "uploading" =>
    \A f \in Files : f \notin blobs => \E p \in Blob!PartsOf(f) : jobs[p] # "accepted"

(* A post is sent with its files stored.                                    *)
PostLast ==
  phase = "posting" \/ posts > 0 \/ (\E r \in net : r.kind = "post") => Files \subseteq blobs

FilesInv == FilesTypes /\ AcceptedHeld /\ LastPromotes /\ PostLast

LEMMA PartIsPart ==
  /\ \A f \in Files : Blob!PartsOf(f) \subseteq Blob!AllParts
  /\ \A f \in Files : \A p \in Blob!PartsOf(f) : p[1] = f
  /\ \A p \in Blob!AllParts : p[1] \in Files /\ p \in Blob!PartsOf(p[1])
  /\ \A f \in Files : Blob!PartsOf(f) # {}
<1> USE DEF Blob!PartsOf, Blob!AllParts
<1>1. PICK x : x \in Parts
  BY ClientAssumption DEF Blob!AttachmentsAssumption
<1>2. \A f \in Files : Blob!PartsOf(f) \subseteq Blob!AllParts
  OBVIOUS
<1>3. \A f \in Files : \A p \in Blob!PartsOf(f) : p[1] = f
  OBVIOUS
<1>4. \A p \in Blob!AllParts : p[1] \in Files /\ p \in Blob!PartsOf(p[1])
  OBVIOUS
<1>5. ASSUME NEW f \in Files PROVE Blob!PartsOf(f) # {}
  <2>1. <<f, x>> \in Blob!PartsOf(f)
    BY <1>1
  <2> QED BY <2>1
<1> QED
  BY <1>2, <1>3, <1>4, <1>5

(* A part arrives: what the provider has staged and promoted then, and what the *)
(* composer is told.                                                        *)
LEMMA StageKeeps ==
  ASSUME FilesInv, NEW r \in net, Blob!PartArrives(r)
  PROVE  FilesInv'
<1>1. /\ r.part \in Blob!AllParts /\ net' = net \ {r} /\ Blob!StagePart(r)
      /\ phase' = phase /\ attempt' = attempt /\ posts' = posts
  BY DEF Blob!PartArrives, FilesInv, FilesTypes
<1>2. PICK pruned \in SUBSET Blob!Old :
        LET rest  == Blob!Drop(pruned, staged)
            all   == [rest EXCEPT ![r.part] = attempt]
            file  == r.part[1]
            whole == \A p \in Blob!PartsOf(file) : all[p] # Blob!Unstaged
        IN \/ staged' = rest /\ blobs' = blobs /\ jobs' = jobs
           \/ staged' = all /\ blobs' = blobs /\ jobs' = jobs
           \/ whole /\ staged' = all /\ blobs' = blobs \cup {file} /\ jobs' = jobs
           \/ /\ IF whole THEN staged' = Blob!Drop(Blob!PartsOf(file), all) /\ blobs' = blobs \cup {file}
                          ELSE staged' = all /\ blobs' = blobs
              /\ \/ jobs' = jobs
                 \/ phase = "uploading" /\ jobs' = [jobs EXCEPT ![r.part] = "accepted"]
  BY <1>1 DEF Blob!StagePart
<1> DEFINE rest  == Blob!Drop(pruned, staged)
           all   == [rest EXCEPT ![r.part] = attempt]
           file  == r.part[1]
           whole == \A p \in Blob!PartsOf(file) : all[p] # Blob!Unstaged
           swept == Blob!Drop(Blob!PartsOf(file), all)
<1>3. /\ jobs \in [Blob!AllParts -> {"todo", "sent", "accepted"}]
      /\ staged \in [Blob!AllParts -> Nat] /\ attempt \in Nat
      /\ phase = "uploading" => attempt # 0
  BY DEF FilesInv, FilesTypes
<1>4. /\ file \in Files /\ r.part \in Blob!PartsOf(file)
      /\ Blob!PartsOf(file) \subseteq Blob!AllParts
  BY <1>1, PartIsPart
<1>5. /\ rest \in [Blob!AllParts -> Nat]
      /\ phase = "uploading" =>
           \A p \in Blob!AllParts : rest[p] = staged[p] \/ (staged[p] # attempt /\ rest[p] = 0)
  <2>1. rest = [p \in Blob!AllParts |-> IF p \in pruned THEN 0 ELSE staged[p]]
    BY DEF Blob!Drop, Blob!Unstaged
  <2>2. phase = "uploading" => \A p \in pruned : staged[p] # attempt
    BY <1>3 DEF Blob!Old
  <2> HIDE DEF rest
  <2>3. rest \in [Blob!AllParts -> Nat]
    BY <1>3, <2>1
  <2>4. ASSUME phase = "uploading", NEW p \in Blob!AllParts
        PROVE  rest[p] = staged[p] \/ (staged[p] # attempt /\ rest[p] = 0)
    <3>1. rest[p] = IF p \in pruned THEN 0 ELSE staged[p]
      BY <2>1, <2>4
    <3>2. p \in pruned => staged[p] # attempt
      BY <2>2, <2>4
    <3> QED BY <3>1, <3>2
  <2> QED BY <2>3, <2>4
<1> HIDE DEF rest
<1>6. /\ all \in [Blob!AllParts -> Nat] /\ all[r.part] = attempt
      /\ \A p \in Blob!AllParts : p # r.part => all[p] = rest[p]
  BY <1>1, <1>3, <1>5
<1> HIDE DEF all
<1>7. /\ swept \in [Blob!AllParts -> Nat]
      /\ \A p \in Blob!AllParts : p \notin Blob!PartsOf(file) => swept[p] = all[p]
  <2>1. swept = [p \in Blob!AllParts |-> IF p \in Blob!PartsOf(file) THEN 0 ELSE all[p]]
    BY DEF Blob!Drop, Blob!Unstaged
  <2> HIDE DEF swept
  <2> QED BY <1>6, <2>1
<1> HIDE DEF swept
<1>8. /\ staged' \in {rest, all, swept} /\ blobs \subseteq blobs' /\ blobs' \subseteq blobs \cup {file}
      /\ staged' = swept => file \in blobs' \/ staged' = all \/ staged' = rest
      /\ \/ jobs' = jobs
         \/ /\ phase = "uploading" /\ jobs' = [jobs EXCEPT ![r.part] = "accepted"]
            /\ whole => file \in blobs'
            /\ ~whole => staged' = all
            /\ file \in blobs' \/ staged' = all
  BY <1>2 DEF rest, all, swept
<1>9. FilesTypes'
  <2>1. staged' \in [Blob!AllParts -> Nat]
    BY <1>5, <1>6, <1>7, <1>8
  <2>2. jobs' \in [Blob!AllParts -> {"todo", "sent", "accepted"}]
    BY <1>1, <1>3, <1>8
  <2> QED BY <1>1, <2>1, <2>2 DEF FilesInv, FilesTypes
<1>10. AcceptedHeld'
  <2>1. ASSUME phase = "uploading", NEW p \in Blob!AllParts, jobs'[p] = "accepted"
        PROVE  staged'[p] = attempt \/ p[1] \in blobs'
    <3>1. CASE p = r.part /\ jobs' # jobs
      BY <1>6, <1>8, <3>1
    <3>2. CASE p # r.part \/ jobs' = jobs
      <4>1. jobs[p] = "accepted"
        BY <1>1, <1>3, <1>8, <2>1, <3>2
      <4>2. staged[p] = attempt \/ p[1] \in blobs
        BY <2>1, <4>1 DEF FilesInv, AcceptedHeld
      <4>3. CASE staged[p] = attempt
        <5>1. rest[p] = attempt /\ all[p] = attempt
          BY <1>5, <1>6, <2>1, <4>3
        <5>2. CASE p \in Blob!PartsOf(file)
          <6>1. p[1] = file
            BY <1>4, <5>2, PartIsPart
          <6> QED BY <1>8, <5>1, <6>1
        <5>3. CASE p \notin Blob!PartsOf(file)
          BY <1>7, <1>8, <5>1, <5>3
        <5> QED BY <5>2, <5>3
      <4> QED BY <1>8, <4>2, <4>3
    <3> QED BY <3>1, <3>2
  <2> QED BY <1>1, <2>1 DEF AcceptedHeld
<1>11. LastPromotes'
  <2>1. ASSUME phase = "uploading", NEW f \in Files, f \notin blobs'
        PROVE  \E p \in Blob!PartsOf(f) : jobs'[p] # "accepted"
    <3>1. PICK q \in Blob!PartsOf(f) : jobs[q] # "accepted"
      BY <1>8, <2>1 DEF FilesInv, LastPromotes
    <3>2. q \in Blob!AllParts /\ q[1] = f
      BY PartIsPart
    <3>3. CASE jobs' = jobs \/ q # r.part
      BY <1>1, <1>3, <1>8, <3>1, <3>2, <3>3
    <3>4. CASE jobs' # jobs /\ q = r.part
      <4>1. f = file /\ ~whole
        BY <1>8, <2>1, <3>2, <3>4
      <4>2. PICK p \in Blob!PartsOf(file) : all[p] = 0
        BY <4>1 DEF Blob!Unstaged
      <4>3. p \in Blob!AllParts /\ p[1] = file /\ p # r.part
        BY <1>3, <1>4, <1>6, <2>1, <4>2, PartIsPart
      <4>4. staged[p] # attempt
        BY <1>3, <1>5, <1>6, <2>1, <4>2, <4>3
      <4>5. jobs[p] # "accepted"
        BY <1>8, <2>1, <4>1, <4>3, <4>4 DEF FilesInv, AcceptedHeld
      <4>6. jobs'[p] = jobs[p]
        BY <1>3, <1>8, <4>3
      <4> QED BY <4>1, <4>2, <4>5, <4>6
    <3> QED BY <3>3, <3>4
  <2> QED BY <1>1, <2>1 DEF LastPromotes
<1>12. PostLast'
  BY <1>1, <1>8 DEF FilesInv, PostLast
<1> QED
  BY <1>9, <1>10, <1>11, <1>12 DEF FilesInv

LEMMA FilesStep == FilesInv /\ [Blob!Next]_fileVars => FilesInv'
<1> SUFFICES ASSUME FilesInv, [Blob!Next]_fileVars PROVE FilesInv'
  OBVIOUS
<1>0. /\ jobs \in [Blob!AllParts -> {"todo", "sent", "accepted"}] /\ attempt \in Nat
      /\ posts \in Nat
  BY DEF FilesInv, FilesTypes
<1>1. CASE Blob!Post
  <2>1. /\ phase' = "uploading" /\ attempt' = attempt + 1 /\ jobs' = [p \in Blob!AllParts |-> "todo"]
        /\ UNCHANGED <<net, staged, blobs, posts>>
    BY <1>1 DEF Blob!Post
  <2>2. FilesTypes' /\ AcceptedHeld' /\ PostLast'
    BY <1>0, <2>1 DEF FilesInv, FilesTypes, AcceptedHeld, PostLast
  <2>3. LastPromotes'
    BY <2>1, PartIsPart DEF LastPromotes
  <2> QED BY <2>2, <2>3 DEF FilesInv
<1>2. ASSUME NEW p \in Blob!AllParts, Blob!SendPart(p) PROVE FilesInv'
  <2> DEFINE request == [kind |-> "part", part |-> p, attempt |-> attempt]
  <2>1. /\ phase = "uploading" /\ jobs' = [jobs EXCEPT ![p] = "sent"] /\ net' = net \cup {request}
        /\ UNCHANGED <<phase, attempt, staged, blobs, posts>>
    BY <1>2 DEF Blob!SendPart, Blob!PartRequest
  <2>2. request.kind = "part" /\ request.part = p
    OBVIOUS
  <2> HIDE DEF request
  <2>3. /\ jobs' \in [Blob!AllParts -> {"todo", "sent", "accepted"}]
        /\ \A q \in Blob!AllParts : jobs'[q] = "accepted" => jobs[q] = "accepted"
    BY <1>0, <2>1
  <2>4. FilesTypes' /\ AcceptedHeld' /\ PostLast'
    BY <2>1, <2>2, <2>3 DEF FilesInv, FilesTypes, AcceptedHeld, PostLast
  <2>5. LastPromotes'
    BY <2>1, <2>3, PartIsPart DEF FilesInv, LastPromotes
  <2> QED BY <2>4, <2>5 DEF FilesInv
<1>3. CASE Blob!UploadFails
  BY <1>3 DEF Blob!UploadFails, FilesInv, FilesTypes, AcceptedHeld, LastPromotes, PostLast
<1>4. CASE Blob!UploadEnds
  <2>1. /\ phase = "uploading" /\ phase' = "posting" /\ Blob!Uploaded
        /\ net' = net \cup {Blob!PostRequest} /\ UNCHANGED <<attempt, jobs, staged, blobs, posts>>
    BY <1>4 DEF Blob!UploadEnds
  <2>2. Blob!PostRequest.kind = "post"
    BY DEF Blob!PostRequest
  <2>3. Files \subseteq blobs
    BY <2>1, PartIsPart DEF Blob!Uploaded, FilesInv, LastPromotes
  <2> QED
    BY <2>1, <2>2, <2>3 DEF FilesInv, FilesTypes, AcceptedHeld, LastPromotes, PostLast
<1>5. CASE Blob!PostFails
  BY <1>5 DEF Blob!PostFails, FilesInv, FilesTypes, AcceptedHeld, LastPromotes, PostLast
<1>6. ASSUME NEW r \in net, Blob!Loses(r) PROVE FilesInv'
  BY <1>6 DEF Blob!Loses, FilesInv, FilesTypes, AcceptedHeld, LastPromotes, PostLast
<1>7. ASSUME NEW r \in net, Blob!PartArrives(r) PROVE FilesInv'
  BY <1>7, StageKeeps
<1>8. ASSUME NEW r \in net, Blob!PostArrives(r) PROVE FilesInv'
  <2>1. /\ r.kind = "post" /\ net' = net \ {r} /\ posts' = posts + 1
        /\ phase' = phase \/ phase' = "idle"
        /\ UNCHANGED <<attempt, jobs, staged, blobs>>
    BY <1>8 DEF Blob!PostArrives
  <2>2. Files \subseteq blobs
    BY <2>1 DEF FilesInv, PostLast
  <2> QED
    BY <1>0, <2>1, <2>2 DEF FilesInv, FilesTypes, AcceptedHeld, LastPromotes, PostLast
<1>9. CASE UNCHANGED fileVars
  BY <1>9 DEF fileVars, FilesInv, FilesTypes, AcceptedHeld, LastPromotes, PostLast
<1> QED
  BY <1>1, <1>2, <1>3, <1>4, <1>5, <1>6, <1>7, <1>8, <1>9 DEF Blob!Next

LEMMA FilesInit == Blob!Init => FilesInv
  BY DEF Blob!Init, Blob!Unstaged, FilesInv, FilesTypes, AcceptedHeld, LastPromotes, PostLast

LEMMA FilesSound == FilesInv => Blob!AttachmentsStored
  BY DEF FilesInv, PostLast, Blob!AttachmentsStored

-----------------------------------------------------------------------------
(* identity: what keeps the user's key.                                     *)

Procedure ==
  [stage : {"idle", "migrate", "load", "adopt"},
   call : {"none", "getId", "setId", "getKey", "setKey"}, use : {"none", "wrap", "unwrap"},
   key : Nat, id : {0} \cup Identities, live : BOOLEAN]

Values == {0} \cup Identities \cup Nat \cup BOOLEAN

KeyTypes ==
  /\ plugin \in BOOLEAN /\ hasty \in BOOLEAN /\ refusals \in Nat
  /\ held \in [id : {0} \cup Identities, key : Nat]
  /\ copy \in [form : {"none", "plain", "wrapped"}, key : Nat, id : {0} \cup Identities]
  /\ shown \in {0} \cup Identities /\ mine \in {0} \cup Identities
  /\ proc \in [Key!Slots -> Procedure]
  /\ asked \in Seq(Key!Slots) /\ answers \in Seq([to : Key!Slots, value : Values])

(* A procedure waits for one call, and the fields it has fit the call; it   *)
(* wraps an identity that the keystore has.                                 *)
Fits(r) ==
  /\ r.stage = "idle" => r = Key!Idle
  /\ r.stage # "idle" => r.call # "none"
  /\ r.stage = "adopt" => r.call # "getId" /\ ~r.live
  /\ r.call = "setId" => r.id # 0
  /\ r.call \in {"getKey", "setKey"} => r.use # "none" /\ r.id # 0
  /\ r.use # "none" => held.id # 0

AnswerFits(a) ==
  /\ proc[a.to].call = "getId" => a.value \in {0} \cup Identities
  /\ proc[a.to].call = "getKey" => a.value \in Nat
  /\ proc[a.to].call \in {"setId", "setKey"} => a.value \in BOOLEAN

ProcsFit == /\ \A p \in Key!Slots : Fits(proc[p])
            /\ \A i \in 1..Len(answers) : AnswerFits(answers[i])

Waiting ==
  /\ \A i \in 1..Len(asked) : proc[asked[i]].stage # "idle"
  /\ \A i \in 1..Len(answers) : proc[answers[i].to].stage # "idle"
  /\ \A i, j \in 1..Len(asked) : asked[i] = asked[j] => i = j
  /\ \A i, j \in 1..Len(answers) : answers[i].to = answers[j].to => i = j
  /\ \A i \in 1..Len(asked), j \in 1..Len(answers) : asked[i] # answers[j].to

(* Without a keystore the cache has the identity.                           *)
NoPlugin ==
  ~plugin => /\ asked = <<>> /\ answers = <<>> /\ \A p \in Key!Slots : proc[p] = Key!Idle
             /\ held.id = 0 /\ copy.form # "wrapped" /\ shown = copy.id /\ mine = copy.id

(* What the keystore answered, or a cache or a procedure has because it     *)
(* answered so, it has.                                                     *)
HeldOnce ==
  /\ copy.form = "none" => copy.id = 0
  /\ copy.form # "none" => copy.id # 0
  /\ copy.form = "wrapped" => held.id # 0
  /\ \A i \in 1..Len(answers) :
       /\ proc[answers[i].to].call = "getId" /\ answers[i].value # 0 => held.id # 0
       /\ proc[answers[i].to].call = "setId" /\ answers[i].value = TRUE => held.id # 0
  /\ shown # 0 \/ mine # 0 => held.id # 0 \/ copy.form = "plain"

KeyBase == KeyTypes /\ ProcsFit /\ Waiting /\ NoPlugin /\ HeldOnce

(* While no call is refused: the i-th answer is that there is no identity;  *)
(* is a key of the cache; the i-th call stores an identity.                 *)
NotFound(i) == proc[answers[i].to].call = "getId" /\ answers[i].value = 0
KeyTold(i)  == \/ proc[answers[i].to].call = "getKey" /\ answers[i].value # 0
               \/ proc[answers[i].to].call = "setKey"
ToldKey(i)  == IF proc[answers[i].to].call = "getKey" THEN answers[i].value
               ELSE proc[answers[i].to].key
Stores(i)   == proc[asked[i]].call = "setId"

SomeNotFound == \E i \in 1..Len(answers) : NotFound(i)

Truthful ==
  /\ \A i \in 1..Len(answers) :
       proc[answers[i].to].call \in {"setId", "setKey"} => answers[i].value = TRUE
  /\ \A p \in Key!Slots : proc[p].use # "unwrap"

(* What was not found was looked for before anything was stored.            *)
NothingBefore ==
  /\ SomeNotFound => copy.form # "wrapped" /\ \A p \in Key!Slots : proc[p].use # "wrap"
  /\ \A i \in 1..Len(answers) : NotFound(i) => \A j \in 1..i : NotFound(j)

(* The last key told is the key held.                                       *)
LastKeyHeld ==
  \A i \in 1..Len(answers) :
    KeyTold(i) /\ (\A j \in 1..Len(answers) : j > i => ~KeyTold(j)) => ToldKey(i) = held.key

(* A procedure that will end by wrapping the identity.                      *)
Wraps(p) ==
  /\ proc[p].stage # "idle"
  /\ \A i \in 1..Len(answers) :
       answers[i].to = p /\ NotFound(i) => proc[p].stage # "load"

CacheFollows ==
  held.id # 0 => \/ \E p \in Key!Slots : Wraps(p)
                 \/ copy.form = "wrapped" /\ copy.key = held.key

(* The identity last stored is, or will be, the one last adopted; until one *)
(* is found the cache has it.                                               *)
LastStored ==
  /\ \A i \in 1..Len(asked) :
       Stores(i) /\ (\A j \in 1..Len(asked) : j > i => ~Stores(j)) => proc[asked[i]].id = mine
  /\ (\A i \in 1..Len(asked) : ~Stores(i)) => held.id \in {0, mine}
  /\ held.id = 0 \/ SomeNotFound => /\ copy.form # "wrapped" /\ copy.id = mine
                                    /\ shown \in {0, mine}

(* The view that loads, unless one is adopted meanwhile, loads the one last *)
(* adopted.                                                                 *)
LoadsMine(p) ==
  /\ shown = 0
  /\ proc[p].call \in {"setId", "getKey", "setKey"} => proc[p].id = mine
  /\ \A i \in 1..Len(answers) :
       answers[i].to = p /\ proc[p].call = "getId" => answers[i].value \in {0, mine}
  /\ \A n \in 1..Len(asked) :
       asked[n] = p /\ proc[p].call = "getId" =>
         /\ \A i \in 1..n : Stores(i) /\ (\A j \in 1..n : j > i => ~Stores(j))
                            => proc[asked[i]].id = mine
         /\ (\A i \in 1..n : ~Stores(i)) => held.id \in {0, mine}

ShowsMine ==
  /\ \A p, q \in Key!Slots : proc[p].live /\ proc[q].live => p = q
  /\ ~hasty => \A p \in Key!Slots : proc[p].live => LoadsMine(p)
  /\ ~hasty /\ (\A p \in Key!Slots : ~proc[p].live) => shown = mine

KeyTruth == Truthful /\ NothingBefore /\ LastKeyHeld /\ CacheFollows /\ LastStored /\ ShowsMine

(* Unless a kill took back what the keystore had answered.                  *)
KeyInv == gone \/ (KeyBase /\ (plugin /\ refusals = 0 => KeyTruth))

-----------------------------------------------------------------------------
(* The lists of calls and answers.                                          *)

LEMMA Longer ==
  ASSUME NEW T, NEW list \in Seq(T), NEW x \in T
  PROVE  /\ Append(list, x) \in Seq(T) /\ Len(Append(list, x)) = Len(list) + 1
         /\ \A i \in 1..Len(list) : Append(list, x)[i] = list[i]
         /\ Append(list, x)[Len(list) + 1] = x
  OBVIOUS

LEMMA Shorter ==
  ASSUME NEW T, NEW list \in Seq(T), list # <<>>
  PROVE  /\ Head(list) = list[1] /\ list[1] \in T /\ 1 \in 1..Len(list)
         /\ Tail(list) \in Seq(T) /\ Len(Tail(list)) = Len(list) - 1
         /\ \A i \in 1..Len(Tail(list)) : Tail(list)[i] = list[i + 1] /\ i + 1 \in 1..Len(list)
<1>1. Len(list) \in Nat \ {0} /\ Head(list) = list[1] /\ list[1] \in T
  BY EmptySeq, ElementOfSeq
<1>2. Tail(list) \in Seq(T) /\ Len(Tail(list)) = Len(list) - 1
  BY HeadTailProperties
<1>3. \A i \in 1..Len(Tail(list)) : Tail(list)[i] = list[i + 1]
  BY <1>1, <1>2
<1> QED
  BY <1>1, <1>2, <1>3

-----------------------------------------------------------------------------
(* A procedure goes on when its call is answered: to wait for the next, or  *)
(* to its end.                                                              *)
Reloading(p) ==
  [proc[p] EXCEPT !.stage = "load", !.call = "getId", !.id = 0, !.key = 0]
Onward(p)    == IF proc[p].stage = "migrate" THEN Reloading(p) ELSE Key!Idle
Storing(p, id) == [proc[p] EXCEPT !.call = "setId", !.id = id, !.key = 0]
Wrapping(p, use, key, id) ==
  [proc[p] EXCEPT !.call = "getKey", !.use = use, !.key = key, !.id = id]
Drawing(p, key) == [proc[p] EXCEPT !.call = "setKey", !.key = key]

Turns(p, next) ==
  /\ proc' = [proc EXCEPT ![p] = next]
  /\ asked' = (IF next = Key!Idle THEN asked ELSE Append(asked, p))

Shows(p, id) == shown' = (IF proc[p].stage = "load" /\ proc[p].live THEN id ELSE shown)

SeesId(p, v) ==
  /\ proc[p].call = "getId" /\ UNCHANGED <<copy, shown>>
  /\ \/ v = 0 /\ copy.form = "none" /\ Turns(p, Onward(p))
     \/ v = 0 /\ copy.form = "plain" /\ Turns(p, Storing(p, copy.id))
     \/ v = 0 /\ copy.form = "wrapped" /\ Turns(p, Wrapping(p, "unwrap", copy.key, copy.id))
     \/ v # 0 /\ proc[p].stage = "migrate" /\ Turns(p, Reloading(p))
     \/ v # 0 /\ proc[p].stage = "load" /\ Turns(p, Wrapping(p, "wrap", 0, v))
SeesStored(p, v) ==
  /\ proc[p].call = "setId"
  /\ \/ v /\ UNCHANGED <<copy, shown>> /\ Turns(p, Wrapping(p, "wrap", 0, proc[p].id))
     \/ ~v /\ copy' = Key!Plain(proc[p].id) /\ Turns(p, Onward(p)) /\ Shows(p, proc[p].id)
SeesKey(p, v) ==
  /\ proc[p].call = "getKey"
  /\ \/ /\ v # 0 /\ proc[p].use = "wrap" /\ copy' = Key!Wrapped(v, proc[p].id)
        /\ Turns(p, Onward(p)) /\ Shows(p, proc[p].id)
     \/ /\ v # 0 /\ proc[p].use = "unwrap" /\ UNCHANGED <<copy, shown>>
        /\ Turns(p, Storing(p, proc[p].id)) \/ Turns(p, Onward(p))
     \/ /\ v = 0 /\ UNCHANGED <<copy, shown>>
        /\ Turns(p, Drawing(p, Key!Min(WrapKeys \ Key!Drawn)))
SeesKeyStored(p, v) ==
  /\ proc[p].call = "setKey"
  /\ \/ /\ proc[p].use = "wrap" /\ Turns(p, Onward(p)) /\ Shows(p, proc[p].id)
        /\ copy' = (IF v THEN Key!Wrapped(proc[p].key, proc[p].id) ELSE Key!Empty)
     \/ proc[p].use = "unwrap" /\ UNCHANGED <<copy, shown>> /\ Turns(p, Onward(p))

Sees(p, v) == SeesId(p, v) \/ SeesStored(p, v) \/ SeesKey(p, v) \/ SeesKeyStored(p, v)

(* A key that is not in use can be drawn.                                   *)
LEMMA FreshKey ==
  ASSUME KeyTypes
  PROVE  Key!Min(WrapKeys \ Key!Drawn) \in WrapKeys
<1> DEFINE slots == Key!Slots
           keys == {proc[p].key : p \in slots}
           drawn == {held.key, disk.key, copy.key} \cup keys
<1>1. MaxProcs \in Nat /\ WrapKeys \subseteq Nat /\ Cardinality(WrapKeys) > MaxProcs + 3
  <2>1. Key!Cardinality(WrapKeys) = Cardinality(WrapKeys)
    BY DEF Key!Cardinality, Cardinality
  <2> QED BY <2>1, ClientAssumption DEF Key!IdentityAssumption
<1>2. IsFiniteSet(slots) /\ Cardinality(slots) = MaxProcs
  BY <1>1, FS_Interval DEF Key!Slots
<1>3. IsFiniteSet(keys) /\ Cardinality(keys) <= MaxProcs
  <2> DEFINE keyOf == [p \in slots |-> proc[p].key]
  <2> HIDE DEF slots
  <2>1. keyOf \in Surjection(slots, keys)
    BY DEF Surjection
  <2> HIDE DEF keys, keyOf
  <2>2. IsFiniteSet(keys) /\ Cardinality(keys) <= Cardinality(slots)
    BY <1>2, <2>1, FS_Surjection
  <2> QED BY <1>2, <2>2
<1> HIDE DEF keys
<1>4. IsFiniteSet(keys \cup {copy.key}) /\ Cardinality(keys \cup {copy.key}) <= MaxProcs + 1
  <2>1. /\ IsFiniteSet(keys \cup {copy.key})
        /\ Cardinality(keys \cup {copy.key})
             = IF copy.key \in keys THEN Cardinality(keys) ELSE Cardinality(keys) + 1
    BY <1>3, FS_AddElement
  <2>2. Cardinality(keys) \in Nat
    BY <1>3, FS_CardinalityType
  <2> QED BY <1>1, <1>3, <2>1, <2>2
<1>9. /\ IsFiniteSet(keys \cup {copy.key, disk.key})
      /\ Cardinality(keys \cup {copy.key, disk.key}) <= MaxProcs + 2
  <2> DEFINE some == keys \cup {copy.key}
  <2>1. keys \cup {copy.key, disk.key} = some \cup {disk.key}
    OBVIOUS
  <2>2. IsFiniteSet(some) /\ Cardinality(some) <= MaxProcs + 1
    BY <1>4
  <2> HIDE DEF some
  <2>3. /\ IsFiniteSet(some \cup {disk.key})
        /\ Cardinality(some \cup {disk.key})
             = IF disk.key \in some THEN Cardinality(some) ELSE Cardinality(some) + 1
    BY <2>2, FS_AddElement
  <2>4. Cardinality(some) \in Nat
    BY <2>2, FS_CardinalityType
  <2> QED BY <1>1, <2>1, <2>2, <2>3, <2>4
<1>5. IsFiniteSet(drawn) /\ Cardinality(drawn) <= MaxProcs + 3
  <2> DEFINE some == keys \cup {copy.key, disk.key}
  <2>1. drawn = some \cup {held.key}
    OBVIOUS
  <2>2. IsFiniteSet(some) /\ Cardinality(some) <= MaxProcs + 2
    BY <1>9
  <2> HIDE DEF some, drawn
  <2>3. /\ IsFiniteSet(some \cup {held.key})
        /\ Cardinality(some \cup {held.key})
             = IF held.key \in some THEN Cardinality(some) ELSE Cardinality(some) + 1
    BY <2>2, FS_AddElement
  <2>4. Cardinality(some) \in Nat
    BY <2>2, FS_CardinalityType
  <2> QED BY <1>1, <2>1, <2>2, <2>3, <2>4
<1>6. drawn = Key!Drawn
  BY DEF Key!Drawn, keys
<1> HIDE DEF drawn
<1>7. WrapKeys \ drawn # {}
  <2> SUFFICES ASSUME WrapKeys \subseteq drawn PROVE FALSE
    OBVIOUS
  <2>1. Cardinality(WrapKeys) <= Cardinality(drawn)
    BY <1>5, FS_Subset
  <2>2. Cardinality(drawn) \in Nat /\ Cardinality(WrapKeys) \in Nat
    BY <1>5, FS_Subset, FS_CardinalityType
  <2> QED BY <1>1, <1>5, <2>1, <2>2
<1>8. PICK k \in WrapKeys \ drawn : \A m \in WrapKeys \ drawn : k <= m
  <2>1. WrapKeys \ drawn \in SUBSET Nat
    BY <1>1
  <2> QED BY <1>7, <2>1, LeastNat
<1> QED
  BY <1>6, <1>8 DEF Key!Min

LEMMA IdleIs ==
  /\ Key!Idle \in Procedure /\ Key!Idle.stage = "idle" /\ Key!Idle.call = "none"
  /\ Key!Idle.use = "none" /\ ~Key!Idle.live /\ Key!Idle.id = 0
  BY DEF Key!Idle, Procedure

(* What Deliver does.                                                       *)
LEMMA DeliverSees ==
  ASSUME KeyBase, Key!Deliver
  PROVE  /\ answers # <<>> /\ answers' = Tail(answers) /\ Sees(answers[1].to, answers[1].value)
         /\ UNCHANGED <<plugin, held, refusals, mine, hasty>>
<1> DEFINE p == answers[1].to
           v == answers[1].value
<1>1. answers # <<>> /\ answers' = Tail(answers) /\ UNCHANGED <<plugin, held, refusals, mine, hasty>>
  BY DEF Key!Deliver
<1>2. Head(answers) = answers[1] /\ 1 \in 1..Len(answers) /\ p \in Key!Slots
  <2>1. answers \in Seq([to : Key!Slots, value : Values])
    BY DEF KeyBase, KeyTypes
  <2>2. Head(answers) = answers[1] /\ 1 \in 1..Len(answers)
        /\ answers[1] \in [to : Key!Slots, value : Values]
    BY <1>1, <2>1, Shorter
  <2> QED BY <2>2
<1>3. /\ proc[p] \in Procedure /\ proc[p].stage # "idle" /\ AnswerFits(answers[1])
  BY <1>2 DEF KeyBase, KeyTypes, Waiting, ProcsFit
<1>4. \/ proc[p].call = "getId"  /\ Key!GotId(p, v)
      \/ proc[p].call = "setId"  /\ Key!SetId(p, v)
      \/ proc[p].call = "getKey" /\ Key!GotKey(p, v)
      \/ proc[p].call = "setKey" /\ Key!SetKey(p, v)
  BY <1>2 DEF Key!Deliver
<1> HIDE DEF p, v
<1>5. ASSUME NEW next, next.stage # "idle", Key!Await(p, next) PROVE Turns(p, next)
  BY <1>5, IdleIs DEF Key!Await, Turns
<1>6. Key!End(p) => Turns(p, Key!Idle)
  BY DEF Key!End, Turns
<1>7. /\ Reloading(p).stage # "idle"
      /\ \A id : Storing(p, id).stage # "idle"
      /\ \A use, key, id : Wrapping(p, use, key, id).stage # "idle"
      /\ \A key : Drawing(p, key).stage # "idle"
  BY <1>3 DEF Reloading, Storing, Wrapping, Drawing, Procedure
<1>8. Key!Load(p) => Turns(p, Reloading(p))
  BY <1>5, <1>7 DEF Key!Load, Reloading
<1>9. \A id : Key!Persist(p, id) => Turns(p, Storing(p, id))
  BY <1>5, <1>7 DEF Key!Persist, Storing
<1>10. \A use, key, id : Key!CacheWrapKey(p, use, key, id) => Turns(p, Wrapping(p, use, key, id))
  BY <1>5, <1>7 DEF Key!CacheWrapKey, Wrapping
<1>11. Key!Absent(p) => Turns(p, Onward(p)) /\ UNCHANGED <<copy, shown>>
  BY <1>6, <1>8 DEF Key!Absent, Onward
<1>12. \A id : Key!Persisted(p, id) => Turns(p, Onward(p)) /\ Shows(p, id)
  BY <1>6, <1>8 DEF Key!Persisted, Onward, Shows
<1>13. \A key : Key!Await(p, [proc[p] EXCEPT !.call = "setKey", !.key = key])
                => Turns(p, Drawing(p, key))
  BY <1>5, <1>7 DEF Drawing
<1>14. Sees(p, v)
  <2>1. CASE proc[p].call = "getId" /\ Key!GotId(p, v)
    <3>1. CASE v = 0 /\ Key!Cached(p)
      BY <1>9, <1>10, <1>11, <2>1, <3>1 DEF Key!Cached, Sees, SeesId
    <3>2. CASE v # 0 /\ proc[p].stage = "migrate" /\ Key!Load(p) /\ UNCHANGED <<copy, shown>>
      BY <1>8, <2>1, <3>2 DEF Sees, SeesId
    <3>3. CASE v # 0 /\ proc[p].stage = "load" /\ Key!CacheWrapKey(p, "wrap", 0, v)
               /\ UNCHANGED <<copy, shown>>
      BY <1>10, <2>1, <3>3 DEF Sees, SeesId
    <3> QED BY <2>1, <3>1, <3>2, <3>3 DEF Key!GotId
  <2>2. CASE proc[p].call = "setId" /\ Key!SetId(p, v)
    BY <1>10, <1>12, <2>2 DEF Key!SetId, Sees, SeesStored
  <2>3. CASE proc[p].call = "getKey" /\ Key!GotKey(p, v)
    <3>1. CASE v # 0 /\ Key!HaveKey(p, v)
      BY <1>9, <1>11, <1>12, <2>3, <3>1 DEF Key!HaveKey, Sees, SeesKey
    <3>2. CASE v = 0
      BY <1>13, <2>3, <3>2 DEF Key!GotKey, Sees, SeesKey
    <3> QED BY <2>3, <3>1, <3>2 DEF Key!GotKey
  <2>4. CASE proc[p].call = "setKey" /\ Key!SetKey(p, v)
    BY <1>11, <1>12, <2>4 DEF Key!SetKey, Sees, SeesKeyStored
  <2> QED BY <1>4, <2>1, <2>2, <2>3, <2>4
<1> QED BY <1>1, <1>14 DEF p, v

(* What holds of the lists and the procedures after a call of p was         *)
(* answered.                                                                *)
Moved(p, next) ==
  /\ p \in Key!Slots /\ next \in Procedure
  /\ proc' \in [Key!Slots -> Procedure] /\ proc'[p] = next
  /\ \A q \in Key!Slots : q # p => proc'[q] = proc[q]
  /\ answers' \in Seq([to : Key!Slots, value : Values]) /\ Len(answers') \in Nat
  /\ Len(answers) = Len(answers') + 1
  /\ \A i \in 1..Len(answers') : /\ answers'[i] = answers[i + 1] /\ answers'[i].to # p
                                 /\ i + 1 \in 1..Len(answers) /\ answers'[i].to \in Key!Slots
  /\ asked' \in Seq(Key!Slots) /\ Len(asked) \in Nat
  /\ Len(asked') = (IF next = Key!Idle THEN Len(asked) ELSE Len(asked) + 1)
  /\ \A i \in 1..Len(asked) : asked'[i] = asked[i] /\ asked[i] # p /\ asked[i] \in Key!Slots
  /\ next # Key!Idle => asked'[Len(asked) + 1] = p

LEMMA TurnMoves ==
  ASSUME KeyBase, answers # <<>>, answers' = Tail(answers),
         NEW next \in Procedure, Turns(answers[1].to, next)
  PROVE  Moved(answers[1].to, next)
<1> DEFINE p == answers[1].to
           Ans == [to : Key!Slots, value : Values]
<1>0. /\ answers \in Seq(Ans) /\ asked \in Seq(Key!Slots)
      /\ proc \in [Key!Slots -> Procedure]
  BY DEF KeyBase, KeyTypes
<1>1. /\ answers[1] \in Ans /\ 1 \in 1..Len(answers)
      /\ answers' \in Seq(Ans) /\ Len(answers') = Len(answers) - 1
      /\ \A i \in 1..Len(answers') : answers'[i] = answers[i + 1] /\ i + 1 \in 1..Len(answers)
  <2> HIDE DEF Ans
  <2> QED BY <1>0, Shorter
<1>2. p \in Key!Slots
  BY <1>1
<1>3. Len(answers) \in Nat /\ Len(asked) \in Nat
  BY <1>0
<1>4. proc' \in [Key!Slots -> Procedure] /\ proc'[p] = next
      /\ \A q \in Key!Slots : q # p => proc'[q] = proc[q]
  BY <1>0, <1>2 DEF Turns
<1>5. \A i \in 1..Len(answers') : answers'[i].to # p /\ answers'[i].to \in Key!Slots
  <2>1. ASSUME NEW i \in 1..Len(answers') PROVE answers'[i].to # p /\ answers'[i].to \in Key!Slots
    <3>1. i + 1 \in 1..Len(answers) /\ i + 1 # 1 /\ answers'[i] = answers[i + 1]
      BY <1>1
    <3>2. answers[i + 1] \in Ans
      BY <1>0, <3>1, ElementOfSeq
    <3> QED BY <1>1, <3>1, <3>2 DEF KeyBase, Waiting
  <2> QED BY <2>1
<1>6. \A i \in 1..Len(asked) : asked[i] # p /\ asked[i] \in Key!Slots
  <2>1. \A i \in 1..Len(asked) : asked[i] \in Key!Slots
    BY <1>0, ElementOfSeq
  <2> QED BY <1>1, <2>1 DEF KeyBase, Waiting
<1>7. /\ asked' \in Seq(Key!Slots)
      /\ Len(asked') = (IF next = Key!Idle THEN Len(asked) ELSE Len(asked) + 1)
      /\ \A i \in 1..Len(asked) : asked'[i] = asked[i]
      /\ next # Key!Idle => asked'[Len(asked) + 1] = p
  <2>1. asked' = IF next = Key!Idle THEN asked ELSE Append(asked, p)
    BY DEF Turns
  <2> HIDE DEF p
  <2> QED BY <1>0, <1>2, <2>1, Longer
<1>8. Len(answers) = Len(answers') + 1 /\ Len(answers') \in Nat
  BY <1>1, <1>3
<1> HIDE DEF p
<1>9. Moved(p, next)
  BY <1>1, <1>2, <1>3, <1>4, <1>5, <1>6, <1>7, <1>8 DEF Moved
<1> QED BY <1>9 DEF p

LEMMA MovedKeeps ==
  ASSUME KeyBase, NEW p, NEW next, Moved(p, next), Fits(next),
         UNCHANGED <<plugin, held, refusals, mine, hasty>>,
         copy' \in [form : {"none", "plain", "wrapped"}, key : Nat, id : {0} \cup Identities],
         shown' \in {0} \cup Identities,
         plugin
  PROVE  KeyTypes' /\ ProcsFit' /\ Waiting' /\ NoPlugin'
<1>0. p \in Key!Slots /\ proc'[p] = next
  BY DEF Moved
<1>1. KeyTypes'
  BY DEF KeyBase, KeyTypes, Moved
<1>2. \A q \in Key!Slots : Fits(proc[q])'
  <2> SUFFICES ASSUME NEW q \in Key!Slots PROVE Fits(proc[q])'
    OBVIOUS
  <2>1. CASE q = p
    BY <1>0, <2>1 DEF Fits
  <2>2. CASE q # p
    <3>1. proc'[q] = proc[q]
      BY <2>2 DEF Moved
    <3>2. Fits(proc[q])
      BY DEF KeyBase, ProcsFit
    <3> QED BY <3>1, <3>2 DEF Fits
  <2> QED BY <2>1, <2>2
<1>3. ASSUME NEW i \in 1..Len(answers') PROVE AnswerFits(answers[i])'
  <2>1. /\ answers'[i] = answers[i + 1] /\ i + 1 \in 1..Len(answers)
        /\ proc'[answers'[i].to] = proc[answers'[i].to]
    BY DEF Moved
  <2>2. AnswerFits(answers[i + 1])
    BY <2>1 DEF KeyBase, ProcsFit
  <2> QED BY <2>1, <2>2 DEF AnswerFits
<1>4. \A i \in 1..Len(asked') : i \in 1..Len(asked) \/ (next # Key!Idle /\ i = Len(asked) + 1)
  BY DEF Moved
<1>5. next # Key!Idle => next.stage # "idle"
  BY DEF Fits
<1>6. Waiting'
  <2>1. \A i \in 1..Len(asked') : proc'[asked'[i]].stage # "idle"
    <3>1. \A i \in 1..Len(asked) : proc'[asked'[i]].stage # "idle"
      BY DEF Moved, KeyBase, Waiting
    <3> QED BY <1>4, <1>5, <3>1 DEF Moved
  <2>2. \A i \in 1..Len(answers') : proc'[answers'[i].to].stage # "idle"
    BY DEF Moved, KeyBase, Waiting
  <2>3. \A i, j \in 1..Len(asked') : asked'[i] = asked'[j] => i = j
    <3>1. \A i, j \in 1..Len(asked) : asked'[i] = asked'[j] => i = j
      BY DEF Moved, KeyBase, Waiting
    <3>2. \A i \in 1..Len(asked) : asked'[i] # p
      BY DEF Moved
    <3>3. next # Key!Idle => asked'[Len(asked) + 1] = p
      BY DEF Moved
    <3> QED BY <1>4, <3>1, <3>2, <3>3
  <2>4. \A i, j \in 1..Len(answers') : answers'[i].to = answers'[j].to => i = j
    <3>1. ASSUME NEW i \in 1..Len(answers'), NEW j \in 1..Len(answers'),
                 answers'[i].to = answers'[j].to
          PROVE  i = j
      <4>1. /\ i + 1 \in 1..Len(answers) /\ answers'[i] = answers[i + 1]
            /\ j + 1 \in 1..Len(answers) /\ answers'[j] = answers[j + 1]
        BY DEF Moved
      <4>2. answers[i + 1].to = answers[j + 1].to
        BY <3>1, <4>1
      <4>3. \A a, b \in 1..Len(answers) : answers[a].to = answers[b].to => a = b
        BY DEF KeyBase, Waiting
      <4>4. i + 1 = j + 1
        BY <4>1, <4>2, <4>3
      <4> QED BY <4>4
    <3> QED BY <3>1
  <2>5. \A i \in 1..Len(asked'), j \in 1..Len(answers') : asked'[i] # answers'[j].to
    <3>1. \A i \in 1..Len(asked), j \in 1..Len(answers') : asked'[i] # answers'[j].to
      BY DEF Moved, KeyBase, Waiting
    <3>2. \A j \in 1..Len(answers') : answers'[j].to # p
      BY DEF Moved
    <3> QED BY <1>4, <3>1, <3>2 DEF Moved
  <2> QED BY <2>1, <2>2, <2>3, <2>4, <2>5 DEF Waiting
<1> QED BY <1>1, <1>2, <1>3, <1>6 DEF ProcsFit, NoPlugin

(* Where a procedure goes on to is well formed, and so is what it leaves in *)
(* the cache and in the view.                                               *)
LEMMA SeesFits ==
  ASSUME KeyBase, NEW p \in Key!Slots, NEW v, Sees(p, v), proc[p].stage # "idle",
         proc[p].call = "getId" => v \in {0} \cup Identities,
         proc[p].call = "getKey" => v \in Nat,
         proc[p].call \in {"setId", "setKey"} => v \in BOOLEAN,
         proc[p].call = "getId" /\ v # 0 => held.id # 0,
         proc[p].call = "setId" /\ v = TRUE => held.id # 0
  PROVE  /\ \E next \in Procedure : Turns(p, next) /\ Fits(next)
         /\ copy' \in [form : {"none", "plain", "wrapped"}, key : Nat, id : {0} \cup Identities]
         /\ copy'.form = "none" => copy'.id = 0
         /\ copy'.form # "none" => copy'.id # 0
         /\ copy'.form = "wrapped" => held.id # 0
         /\ shown' \in {0} \cup Identities
         /\ copy.form = "plain" => held.id # 0 \/ copy'.form = "plain"
         /\ shown' # 0 => shown' = shown \/ held.id # 0 \/ copy'.form = "plain"
<1>0. /\ proc[p] \in Procedure /\ Fits(proc[p])
      /\ copy \in [form : {"none", "plain", "wrapped"}, key : Nat, id : {0} \cup Identities]
      /\ shown \in {0} \cup Identities
      /\ copy.form = "none" => copy.id = 0
      /\ copy.form # "none" => copy.id # 0
      /\ copy.form = "wrapped" => held.id # 0
      /\ proc[p].call # "none"
  BY DEF KeyBase, KeyTypes, ProcsFit, HeldOnce, Fits
<1>1. Onward(p) \in Procedure /\ Fits(Onward(p))
  BY <1>0, IdleIs DEF Onward, Reloading, Procedure, Fits
<1>2. Reloading(p) \in Procedure /\ Fits(Reloading(p))
  BY <1>0 DEF Reloading, Procedure, Fits
<1>3. ASSUME NEW id \in Identities, id # 0
      PROVE  Storing(p, id) \in Procedure /\ Fits(Storing(p, id))
  BY <1>0, <1>3 DEF Storing, Procedure, Fits
<1>4. ASSUME NEW use \in {"wrap", "unwrap"}, NEW key \in Nat, NEW id \in Identities, id # 0,
             held.id # 0
      PROVE  Wrapping(p, use, key, id) \in Procedure /\ Fits(Wrapping(p, use, key, id))
  BY <1>0, <1>4 DEF Wrapping, Procedure, Fits
<1>5. CASE SeesId(p, v)
  <2>1. copy' = copy /\ shown' = shown
    BY <1>5 DEF SeesId
  <2>2. \E next \in Procedure : Turns(p, next) /\ Fits(next)
    <3>1. CASE v = 0 /\ copy.form = "none" /\ Turns(p, Onward(p))
      BY <1>1, <3>1
    <3>2. CASE v = 0 /\ copy.form = "plain" /\ Turns(p, Storing(p, copy.id))
      BY <1>0, <1>3, <3>2
    <3>3. CASE v = 0 /\ copy.form = "wrapped" /\ Turns(p, Wrapping(p, "unwrap", copy.key, copy.id))
      BY <1>0, <1>4, <3>3
    <3>4. CASE v # 0 /\ proc[p].stage = "migrate" /\ Turns(p, Reloading(p))
      BY <1>2, <3>4
    <3>5. CASE v # 0 /\ proc[p].stage = "load" /\ Turns(p, Wrapping(p, "wrap", 0, v))
      <4>1. v \in Identities /\ held.id # 0 /\ 0 \in Nat
        BY <1>5, <3>5 DEF SeesId
      <4> QED BY <1>4, <3>5, <4>1
    <3> QED BY <1>5, <3>1, <3>2, <3>3, <3>4, <3>5 DEF SeesId
  <2> QED BY <1>0, <2>1, <2>2
<1>6. CASE SeesStored(p, v)
  <2>0. proc[p].id \in Identities /\ proc[p].id # 0 /\ v \in BOOLEAN /\ proc[p].call = "setId"
    BY <1>0, <1>6 DEF SeesStored, Fits, Procedure
  <2>1. CASE v = TRUE
    <3>1. copy' = copy /\ shown' = shown /\ Turns(p, Wrapping(p, "wrap", 0, proc[p].id))
      BY <1>6, <2>1 DEF SeesStored
    <3>2. held.id # 0 /\ 0 \in Nat
      BY <2>0, <2>1
    <3>3. \E next \in Procedure : Turns(p, next) /\ Fits(next)
      BY <1>4, <2>0, <3>1, <3>2
    <3> QED BY <1>0, <3>1, <3>3
  <2>2. CASE v = FALSE
    <3>1. copy' = Key!Plain(proc[p].id) /\ Turns(p, Onward(p)) /\ Shows(p, proc[p].id)
      BY <1>6, <2>2 DEF SeesStored
    <3> QED BY <1>0, <1>1, <2>0, <3>1 DEF Key!Plain, Shows
  <2> QED BY <2>0, <2>1, <2>2
<1>7. CASE SeesKey(p, v)
  <2>0. /\ proc[p].id \in Identities /\ proc[p].id # 0 /\ v \in Nat /\ held.id # 0
        /\ proc[p].call = "getKey"
    BY <1>0, <1>7 DEF SeesKey, Fits, Procedure
  <2>1. CASE v # 0 /\ proc[p].use = "wrap"
    <3>1. copy' = Key!Wrapped(v, proc[p].id) /\ Turns(p, Onward(p)) /\ Shows(p, proc[p].id)
      BY <1>7, <2>1 DEF SeesKey
    <3> QED BY <1>0, <1>1, <2>0, <3>1 DEF Key!Wrapped, Shows
  <2>2. CASE v # 0 /\ proc[p].use # "wrap"
    <3>1. copy' = copy /\ shown' = shown
          /\ (Turns(p, Storing(p, proc[p].id)) \/ Turns(p, Onward(p)))
      BY <1>7, <2>2 DEF SeesKey
    <3>2. \E next \in Procedure : Turns(p, next) /\ Fits(next)
      BY <1>1, <1>3, <2>0, <3>1
    <3> QED BY <1>0, <3>1, <3>2
  <2>3. CASE v = 0
    <3> DEFINE key == Key!Min(WrapKeys \ Key!Drawn)
    <3>1. copy' = copy /\ shown' = shown /\ Turns(p, Drawing(p, key))
      BY <1>7, <2>3 DEF SeesKey
    <3>2. key \in Nat
      BY FreshKey, ClientAssumption DEF KeyBase, Key!IdentityAssumption
    <3> HIDE DEF key
    <3>3. Drawing(p, key) \in Procedure /\ Fits(Drawing(p, key))
      BY <1>0, <2>0, <3>2 DEF Drawing, Procedure, Fits
    <3> QED BY <1>0, <3>1, <3>3
  <2> QED BY <2>1, <2>2, <2>3
<1>8. CASE SeesKeyStored(p, v)
  <2>0. /\ proc[p].id \in Identities /\ proc[p].id # 0 /\ v \in BOOLEAN /\ held.id # 0
        /\ proc[p].call = "setKey" /\ proc[p].key \in Nat
    BY <1>0, <1>8 DEF SeesKeyStored, Fits, Procedure
  <2>1. CASE proc[p].use = "wrap"
    <3>1. /\ Turns(p, Onward(p)) /\ Shows(p, proc[p].id)
          /\ copy' = IF v THEN Key!Wrapped(proc[p].key, proc[p].id) ELSE Key!Empty
      BY <1>8, <2>1 DEF SeesKeyStored
    <3> QED BY <1>0, <1>1, <2>0, <3>1 DEF Key!Wrapped, Key!Empty, Shows
  <2>2. CASE proc[p].use # "wrap"
    <3>1. copy' = copy /\ shown' = shown /\ Turns(p, Onward(p))
      BY <1>8, <2>2 DEF SeesKeyStored
    <3> QED BY <1>0, <1>1, <3>1
  <2> QED BY <2>1, <2>2
<1> QED BY <1>5, <1>6, <1>7, <1>8 DEF Sees

LEMMA DeliverBase == KeyBase /\ Key!Deliver => KeyBase'
<1> SUFFICES ASSUME KeyBase, Key!Deliver PROVE KeyBase'
  OBVIOUS
<1> DEFINE p == answers[1].to
           v == answers[1].value
<1>1. /\ answers # <<>> /\ answers' = Tail(answers) /\ Sees(p, v)
      /\ UNCHANGED <<plugin, held, refusals, mine, hasty>>
  BY DeliverSees
<1>2. 1 \in 1..Len(answers) /\ p \in Key!Slots /\ plugin
  <2>1. answers \in Seq([to : Key!Slots, value : Values])
    BY DEF KeyBase, KeyTypes
  <2>2. answers[1] \in [to : Key!Slots, value : Values] /\ 1 \in 1..Len(answers)
    BY <1>1, <2>1, Shorter
  <2> QED BY <1>1, <2>2 DEF KeyBase, KeyTypes, NoPlugin
<1>3. /\ proc[p].stage # "idle" /\ AnswerFits(answers[1])
      /\ proc[p].call = "getId" /\ v # 0 => held.id # 0
      /\ proc[p].call = "setId" /\ v = TRUE => held.id # 0
  BY <1>2 DEF KeyBase, Waiting, ProcsFit, HeldOnce
<1>4. /\ proc[p].call = "getId" => v \in {0} \cup Identities
      /\ proc[p].call = "getKey" => v \in Nat
      /\ proc[p].call \in {"setId", "setKey"} => v \in BOOLEAN
  BY <1>3 DEF AnswerFits
<1> HIDE DEF p, v
<1>5. /\ \E next \in Procedure : Turns(p, next) /\ Fits(next)
      /\ copy' \in [form : {"none", "plain", "wrapped"}, key : Nat, id : {0} \cup Identities]
      /\ copy'.form = "none" => copy'.id = 0
      /\ copy'.form # "none" => copy'.id # 0
      /\ copy'.form = "wrapped" => held.id # 0
      /\ shown' \in {0} \cup Identities
      /\ copy.form = "plain" => held.id # 0 \/ copy'.form = "plain"
      /\ shown' # 0 => shown' = shown \/ held.id # 0 \/ copy'.form = "plain"
  BY <1>1, <1>2, <1>3, <1>4, SeesFits
<1>6. PICK next \in Procedure : Turns(p, next) /\ Fits(next)
  BY <1>5
<1>7. Moved(p, next)
  BY <1>1, <1>6, TurnMoves DEF p
<1>8. KeyTypes' /\ ProcsFit' /\ Waiting' /\ NoPlugin'
  BY <1>1, <1>2, <1>5, <1>6, <1>7, MovedKeeps
<1>9. HeldOnce'
  <2>1. ASSUME NEW i \in 1..Len(answers')
        PROVE  /\ proc'[answers'[i].to].call = "getId" /\ answers'[i].value # 0 => held'.id # 0
               /\ proc'[answers'[i].to].call = "setId" /\ answers'[i].value = TRUE => held'.id # 0
    <3>1. /\ answers'[i] = answers[i + 1] /\ i + 1 \in 1..Len(answers)
          /\ proc'[answers'[i].to] = proc[answers'[i].to]
      BY <1>7 DEF Moved
    <3> QED BY <1>1, <3>1 DEF KeyBase, HeldOnce
  <2>2. shown' # 0 \/ mine' # 0 => held'.id # 0 \/ copy'.form = "plain"
    BY <1>1, <1>5 DEF KeyBase, HeldOnce
  <2> QED BY <1>1, <1>5, <2>1, <2>2 DEF HeldOnce
<1> QED BY <1>8, <1>9 DEF KeyBase

-----------------------------------------------------------------------------
(* The plugin serves the first call, or refuses it.                         *)
Handed(p, v) ==
  /\ p \in Key!Slots /\ p = asked[1] /\ proc' = proc /\ 1 \in 1..Len(asked)
  /\ asked' \in Seq(Key!Slots) /\ Len(asked') \in Nat /\ Len(asked) = Len(asked') + 1
  /\ \A i \in 1..Len(asked') : /\ asked'[i] = asked[i + 1] /\ i + 1 \in 1..Len(asked)
                               /\ asked'[i] # p /\ asked'[i] \in Key!Slots
  /\ answers' \in Seq([to : Key!Slots, value : Values])
  /\ Len(answers) \in Nat /\ Len(answers') = Len(answers) + 1
  /\ \A i \in 1..Len(answers) : /\ answers'[i] = answers[i] /\ answers[i].to # p
                                /\ answers[i].to \in Key!Slots
  /\ answers'[Len(answers) + 1] = [to |-> p, value |-> v]

LEMMA HandsOver ==
  ASSUME KeyBase, asked # <<>>, asked' = Tail(asked), NEW v \in Values,
         answers' = Append(answers, [to |-> asked[1], value |-> v]), proc' = proc
  PROVE  Handed(asked[1], v)
<1> DEFINE p == asked[1]
           Ans == [to : Key!Slots, value : Values]
           given == [to |-> p, value |-> v]
<1>0. answers \in Seq(Ans) /\ asked \in Seq(Key!Slots)
  BY DEF KeyBase, KeyTypes
<1>1. /\ p \in Key!Slots /\ 1 \in 1..Len(asked)
      /\ asked' \in Seq(Key!Slots) /\ Len(asked') = Len(asked) - 1
      /\ \A i \in 1..Len(asked') : asked'[i] = asked[i + 1] /\ i + 1 \in 1..Len(asked)
  BY <1>0, Shorter
<1>2. Len(answers) \in Nat /\ Len(asked) \in Nat
  BY <1>0
<1>3. given \in Ans
  BY <1>1
<1>4. /\ answers' \in Seq(Ans) /\ Len(answers') = Len(answers) + 1
      /\ \A i \in 1..Len(answers) : answers'[i] = answers[i]
      /\ answers'[Len(answers) + 1] = given
  <2>1. answers' = Append(answers, given)
    OBVIOUS
  <2> HIDE DEF Ans, given
  <2> QED BY <1>0, <1>3, <2>1, Longer
<1>5. \A i \in 1..Len(answers) : answers[i].to # p /\ answers[i].to \in Key!Slots
  <2>1. \A i \in 1..Len(answers) : answers[i] \in Ans
    BY <1>0, ElementOfSeq
  <2> QED BY <1>1, <2>1 DEF KeyBase, Waiting
<1>6. \A i \in 1..Len(asked') : asked'[i] # p /\ asked'[i] \in Key!Slots
  <2>1. ASSUME NEW i \in 1..Len(asked') PROVE asked'[i] # p /\ asked'[i] \in Key!Slots
    <3>1. i + 1 \in 1..Len(asked) /\ i + 1 # 1 /\ asked'[i] = asked[i + 1]
      BY <1>1
    <3>2. asked[i + 1] \in Key!Slots
      BY <1>0, <3>1, ElementOfSeq
    <3> QED BY <1>1, <3>1, <3>2 DEF KeyBase, Waiting
  <2> QED BY <2>1
<1>7. Len(asked) = Len(asked') + 1 /\ Len(asked') \in Nat
  BY <1>1, <1>2
<1> QED
  BY <1>1, <1>2, <1>4, <1>5, <1>6, <1>7 DEF Handed

LEMMA HandedBase ==
  ASSUME KeyBase, NEW p, NEW v, Handed(p, v),
         held' \in [id : {0} \cup Identities, key : Nat], held.id # 0 => held'.id # 0,
         refusals' \in Nat, UNCHANGED <<plugin, copy, shown, mine, hasty>>,
         proc[p].call = "getId" => v \in {0} \cup Identities /\ (v # 0 => held'.id # 0),
         proc[p].call = "getKey" => v \in Nat,
         proc[p].call \in {"setId", "setKey"} => v \in BOOLEAN,
         proc[p].call = "setId" /\ v = TRUE => held'.id # 0
  PROVE  KeyBase'
<1>0. plugin
  BY DEF KeyBase, NoPlugin, Handed
<1>1. KeyTypes'
  BY DEF KeyBase, KeyTypes, Handed
<1>2. \A q \in Key!Slots : Fits(proc[q])'
  BY DEF KeyBase, ProcsFit, Handed, Fits
<1>3. \A i \in 1..Len(answers') : i \in 1..Len(answers) \/ i = Len(answers) + 1
  BY DEF Handed
<1>4. \A i \in 1..Len(answers') : AnswerFits(answers[i])'
  <2>1. \A i \in 1..Len(answers) : AnswerFits(answers[i])'
    BY DEF Handed, KeyBase, ProcsFit, AnswerFits
  <2>2. ASSUME NEW i \in 1..Len(answers'), i = Len(answers) + 1 PROVE AnswerFits(answers[i])'
    <3>1. answers'[i].to = p /\ answers'[i].value = v /\ proc'[p] = proc[p]
      BY <2>2 DEF Handed
    <3> QED BY <3>1 DEF AnswerFits
  <2> QED BY <1>3, <2>1, <2>2
<1>5. Waiting'
  <2>1. \A i \in 1..Len(asked') : proc'[asked'[i]].stage # "idle"
    BY DEF Handed, KeyBase, Waiting
  <2>2. \A i \in 1..Len(answers') : proc'[answers'[i].to].stage # "idle"
    BY <1>3 DEF Handed, KeyBase, Waiting
  <2>3. \A i, j \in 1..Len(asked') : asked'[i] = asked'[j] => i = j
    <3>1. ASSUME NEW i \in 1..Len(asked'), NEW j \in 1..Len(asked'), asked'[i] = asked'[j]
          PROVE  i = j
      <4>1. /\ i + 1 \in 1..Len(asked) /\ asked'[i] = asked[i + 1]
            /\ j + 1 \in 1..Len(asked) /\ asked'[j] = asked[j + 1]
        BY DEF Handed
      <4>2. asked[i + 1] = asked[j + 1]
        BY <3>1, <4>1
      <4>3. \A a, b \in 1..Len(asked) : asked[a] = asked[b] => a = b
        BY DEF KeyBase, Waiting
      <4>4. i + 1 = j + 1
        BY <4>1, <4>2, <4>3
      <4> QED BY <4>4
    <3> QED BY <3>1
  <2>4. \A i, j \in 1..Len(answers') : answers'[i].to = answers'[j].to => i = j
    <3>1. \A i, j \in 1..Len(answers) : answers'[i].to = answers'[j].to => i = j
      BY DEF Handed, KeyBase, Waiting
    <3>2. \A i \in 1..Len(answers) : answers'[i].to # p
      BY DEF Handed
    <3>3. answers'[Len(answers) + 1].to = p
      BY DEF Handed
    <3> QED BY <1>3, <3>1, <3>2, <3>3
  <2>5. \A i \in 1..Len(asked'), j \in 1..Len(answers') : asked'[i] # answers'[j].to
    <3>1. ASSUME NEW i \in 1..Len(asked'), NEW j \in 1..Len(answers)
          PROVE  asked'[i] # answers'[j].to
      <4>1. i + 1 \in 1..Len(asked) /\ asked'[i] = asked[i + 1] /\ answers'[j] = answers[j]
        BY DEF Handed
      <4> QED BY <4>1 DEF KeyBase, Waiting
    <3>2. \A i \in 1..Len(asked') : asked'[i] # p
      BY DEF Handed
    <3> QED BY <1>3, <3>1, <3>2 DEF Handed
  <2> QED BY <2>1, <2>2, <2>3, <2>4, <2>5 DEF Waiting
<1>6. HeldOnce'
  <2>1. \A i \in 1..Len(answers') :
          /\ proc'[answers'[i].to].call = "getId" /\ answers'[i].value # 0 => held'.id # 0
          /\ proc'[answers'[i].to].call = "setId" /\ answers'[i].value = TRUE => held'.id # 0
    <3> SUFFICES ASSUME NEW i \in 1..Len(answers')
                 PROVE  /\ proc'[answers'[i].to].call = "getId" /\ answers'[i].value # 0 => held'.id # 0
                        /\ proc'[answers'[i].to].call = "setId" /\ answers'[i].value = TRUE => held'.id # 0
      OBVIOUS
    <3>1. CASE i \in 1..Len(answers)
      <4>1. answers'[i] = answers[i] /\ proc' = proc
        BY <3>1 DEF Handed
      <4> QED BY <3>1, <4>1 DEF KeyBase, HeldOnce
    <3>2. CASE i = Len(answers) + 1
      <4>1. answers'[i].to = p /\ answers'[i].value = v /\ proc' = proc
        BY <3>2 DEF Handed
      <4> QED BY <4>1
    <3> QED BY <1>3, <3>1, <3>2
  <2> QED BY <2>1 DEF KeyBase, HeldOnce
<1>7. NoPlugin'
  BY <1>0 DEF NoPlugin
<1> QED BY <1>1, <1>2, <1>4, <1>5, <1>6, <1>7 DEF KeyBase, ProcsFit

(* What the plugin holds and answers once it served the call of p.          *)
LEMMA ServeDoes ==
  ASSUME KeyBase, Key!Serve
  PROVE  LET p == asked[1]
             v == Key!Result(p)
         IN /\ Handed(p, v) /\ UNCHANGED <<plugin, copy, shown, refusals, mine, hasty>>
            /\ held' \in [id : {0} \cup Identities, key : Nat]
            /\ held'.id = IF proc[p].call = "setId" THEN proc[p].id ELSE held.id
            /\ held'.key = IF proc[p].call = "setKey" THEN proc[p].key ELSE held.key
            /\ proc[p].call = "getId" => v = held.id
            /\ proc[p].call = "getKey" => v = held.key
            /\ proc[p].call \in {"setId", "setKey"} => v = TRUE
            /\ proc[p].call = "setId" => proc[p].id # 0
<1> DEFINE p == asked[1]
           v == Key!Result(p)
<1>1. /\ asked # <<>> /\ UNCHANGED <<plugin, copy, shown, proc, refusals, mine, hasty>>
      /\ asked' = Tail(asked) /\ held' = Key!Effect(held, Head(asked))
      /\ answers' = Append(answers, [to |-> Head(asked), value |-> Key!Result(Head(asked))])
  BY DEF Key!Serve, Key!Answer
<1>2. Head(asked) = p /\ p \in Key!Slots /\ 1 \in 1..Len(asked)
  BY <1>1, Shorter DEF KeyBase, KeyTypes
<1>3. /\ proc[p] \in Procedure /\ Fits(proc[p]) /\ proc[p].stage # "idle"
      /\ held \in [id : {0} \cup Identities, key : Nat]
  BY <1>2 DEF KeyBase, KeyTypes, ProcsFit, Waiting
<1>4. /\ held' \in [id : {0} \cup Identities, key : Nat]
      /\ held'.id = IF proc[p].call = "setId" THEN proc[p].id ELSE held.id
      /\ held'.key = IF proc[p].call = "setKey" THEN proc[p].key ELSE held.key
  <2>1. held' = Key!Effect(held, p)
    BY <1>1, <1>2
  <2> HIDE DEF p
  <2> QED BY <1>3, <2>1 DEF Key!Effect, Procedure
<1>5. /\ proc[p].call = "getId" => v = held.id
      /\ proc[p].call = "getKey" => v = held.key
      /\ proc[p].call \in {"setId", "setKey"} => v = TRUE
  BY DEF Key!Result
<1>6. v \in Values
  <2>1. proc[p].call \in {"getId", "getKey", "setId", "setKey"}
    BY <1>3 DEF Fits, Procedure
  <2> HIDE DEF v, p
  <2>2. CASE proc[p].call = "getId"
    BY <1>3, <1>5, <2>2 DEF Values
  <2>3. CASE proc[p].call = "getKey"
    BY <1>3, <1>5, <2>3 DEF Values
  <2>4. CASE proc[p].call \in {"setId", "setKey"}
    <3>1. v = TRUE /\ TRUE \in BOOLEAN
      BY <1>5, <2>4
    <3> QED BY <3>1 DEF Values
  <2> QED BY <2>1, <2>2, <2>3, <2>4
<1>7. Handed(p, v)
  <2>1. /\ answers' = Append(answers, [to |-> asked[1], value |-> v]) /\ proc' = proc
        /\ asked' = Tail(asked) /\ asked # <<>>
    BY <1>1, <1>2
  <2> HIDE DEF v
  <2> QED BY <1>6, <2>1, HandsOver DEF p
<1>8. proc[p].call = "setId" => proc[p].id # 0
  BY <1>3 DEF Fits
<1> QED BY <1>1, <1>4, <1>5, <1>7, <1>8

LEMMA ServeBase == KeyBase /\ Key!Serve => KeyBase'
<1> SUFFICES ASSUME KeyBase, Key!Serve PROVE KeyBase'
  OBVIOUS
<1> DEFINE p == asked[1]
           v == Key!Result(p)
<1>1. /\ Handed(p, v) /\ UNCHANGED <<plugin, copy, shown, refusals, mine, hasty>>
      /\ held' \in [id : {0} \cup Identities, key : Nat]
      /\ held'.id = IF proc[p].call = "setId" THEN proc[p].id ELSE held.id
      /\ proc[p].call = "getId" => v = held.id
      /\ proc[p].call = "getKey" => v = held.key
      /\ proc[p].call \in {"setId", "setKey"} => v = TRUE
      /\ proc[p].call = "setId" => proc[p].id # 0
  BY ServeDoes
<1> HIDE DEF p, v
<1>2. held \in [id : {0} \cup Identities, key : Nat] /\ refusals' \in Nat
  BY <1>1 DEF KeyBase, KeyTypes
<1>3. held.id # 0 => held'.id # 0
  BY <1>1
<1>4. /\ proc[p].call = "getId" => v \in {0} \cup Identities /\ (v # 0 => held'.id # 0)
      /\ proc[p].call = "getKey" => v \in Nat
      /\ proc[p].call = "setId" /\ v = TRUE => held'.id # 0
  BY <1>1, <1>2
<1>5. proc[p].call \in {"setId", "setKey"} => v \in BOOLEAN
  <2>1. TRUE \in BOOLEAN
    OBVIOUS
  <2> QED BY <1>1, <2>1
<1> QED BY <1>1, <1>2, <1>3, <1>4, <1>5, HandedBase

LEMMA RefuseBase == KeyBase /\ Key!Refuse => KeyBase'
<1> SUFFICES ASSUME KeyBase, Key!Refuse PROVE KeyBase'
  OBVIOUS
<1> DEFINE p == asked[1]
           v == IF proc[p].call \in {"setId", "setKey"} THEN FALSE ELSE 0
<1>1. /\ asked # <<>> /\ UNCHANGED <<plugin, held, copy, shown, proc, mine, hasty>>
      /\ asked' = Tail(asked) /\ refusals' = refusals + 1 /\ Head(asked) = p
      /\ answers' = Append(answers, [to |-> Head(asked),
                     value |-> IF proc[Head(asked)].call \in {"setId", "setKey"} THEN FALSE ELSE 0])
  BY Shorter DEF Key!Refuse, Key!Answer, KeyBase, KeyTypes
<1>2. answers' = Append(answers, [to |-> asked[1], value |-> v])
  BY <1>1
<1>3. /\ proc[p].call \in {"setId", "setKey"} => v = FALSE
      /\ proc[p].call \notin {"setId", "setKey"} => v = 0
  OBVIOUS
<1> HIDE DEF v
<1>4. v \in Values
  <2>1. FALSE \in BOOLEAN
    OBVIOUS
  <2> QED BY <1>3, <2>1 DEF Values
<1>5. Handed(p, v)
  BY <1>1, <1>2, <1>4, HandsOver
<1> HIDE DEF p
<1>6. held \in [id : {0} \cup Identities, key : Nat] /\ refusals' \in Nat /\ held' = held
  BY <1>1 DEF KeyBase, KeyTypes
<1>7. /\ proc[p].call = "getId" => v \in {0} \cup Identities /\ (v # 0 => held'.id # 0)
      /\ proc[p].call = "getKey" => v \in Nat
  BY <1>3
<1>8. proc[p].call = "setId" /\ v = TRUE => held'.id # 0
  BY <1>3
<1>9. proc[p].call \in {"setId", "setKey"} => v \in BOOLEAN
  <2>1. FALSE \in BOOLEAN
    OBVIOUS
  <2> QED BY <1>3, <2>1
<1> QED BY <1>1, <1>5, <1>6, <1>7, <1>8, <1>9, HandedBase

-----------------------------------------------------------------------------
(* The user begins a procedure; those under way go on.                      *)
Same(r, other) ==
  /\ r.stage = other.stage /\ r.call = other.call /\ r.use = other.use
  /\ r.key = other.key /\ r.id = other.id /\ (r.live => other.live)

Spawned(p, start) ==
  /\ p \in Key!Slots /\ proc[p].stage = "idle" /\ start \in Procedure
  /\ proc' \in [Key!Slots -> Procedure] /\ proc'[p] = start
  /\ \A q \in Key!Slots : q # p => Same(proc'[q], proc[q])
  /\ \A q \in Key!Slots : q # p /\ proc[q] = Key!Idle => proc'[q] = Key!Idle
  /\ answers' = answers /\ Len(answers) \in Nat
  /\ \A i \in 1..Len(answers) : answers[i].to # p /\ answers[i].to \in Key!Slots
  /\ asked' \in Seq(Key!Slots) /\ Len(asked) \in Nat /\ Len(asked') = Len(asked) + 1
  /\ \A i \in 1..Len(asked) : asked'[i] = asked[i] /\ asked[i] # p /\ asked[i] \in Key!Slots
  /\ asked'[Len(asked) + 1] = p

LEMMA FreeSlot ==
  ASSUME Key!Busy # Key!Slots
  PROVE  Key!Min(Key!Slots \ Key!Busy) \in Key!Slots \ Key!Busy
<1> DEFINE free == Key!Slots \ Key!Busy
<1>1. MaxProcs \in Nat
  BY ClientAssumption DEF Key!IdentityAssumption
<1>2. free \in SUBSET Nat
  BY <1>1 DEF Key!Slots
<1>3. free # {}
  BY DEF Key!Busy
<1> HIDE DEF free
<1>4. PICK p \in free : \A q \in free : p <= q
  BY <1>2, <1>3, LeastNat
<1>5. Key!Min(free) \in free
  BY <1>4 DEF Key!Min
<1> QED BY <1>5 DEF free

LEMMA SpawnDoes ==
  ASSUME KeyBase, plugin, NEW start \in Procedure, NEW procs \in [Key!Slots -> Procedure],
         \A q \in Key!Slots : Same(procs[q], proc[q]),
         \A q \in Key!Slots : proc[q] = Key!Idle => procs[q] = Key!Idle,
         Key!Spawn(start, procs), answers' = answers
  PROVE  \E p \in Key!Slots : /\ Spawned(p, start)
                              /\ \A q \in Key!Slots : q # p => proc'[q] = procs[q]
<1> DEFINE p == Key!Min(Key!Slots \ Key!Busy)
           Ans == [to : Key!Slots, value : Values]
<1>1. /\ Key!Busy # Key!Slots /\ proc' = [procs EXCEPT ![p] = start]
      /\ asked' = Append(asked, p)
  BY DEF Key!Spawn
<1>2. p \in Key!Slots /\ proc[p] = Key!Idle
  BY <1>1, FreeSlot DEF Key!Busy
<1> HIDE DEF p
<1>3. asked \in Seq(Key!Slots) /\ answers \in Seq(Ans) /\ Len(asked) \in Nat /\ Len(answers) \in Nat
  BY DEF KeyBase, KeyTypes
<1>4. /\ asked' \in Seq(Key!Slots) /\ Len(asked') = Len(asked) + 1
      /\ \A i \in 1..Len(asked) : asked'[i] = asked[i]
      /\ asked'[Len(asked) + 1] = p
  BY <1>1, <1>2, <1>3, Longer
<1>5. proc[p].stage = "idle"
  BY <1>2, IdleIs
<1>6. \A i \in 1..Len(asked) : asked[i] # p /\ asked[i] \in Key!Slots
  <2>1. \A i \in 1..Len(asked) : asked[i] \in Key!Slots
    BY <1>3, ElementOfSeq
  <2> QED BY <1>5, <2>1 DEF KeyBase, Waiting
<1>7. \A i \in 1..Len(answers) : answers[i].to # p /\ answers[i].to \in Key!Slots
  <2>1. \A i \in 1..Len(answers) : answers[i] \in Ans
    BY <1>3, ElementOfSeq
  <2> QED BY <1>5, <2>1 DEF KeyBase, Waiting
<1>8. /\ proc' \in [Key!Slots -> Procedure] /\ proc'[p] = start
      /\ \A q \in Key!Slots : q # p => proc'[q] = procs[q]
  BY <1>1, <1>2
<1>9. Spawned(p, start)
  BY <1>2, <1>3, <1>4, <1>5, <1>6, <1>7, <1>8 DEF Spawned
<1> QED BY <1>2, <1>8, <1>9

LEMMA SpawnedBase ==
  ASSUME KeyBase, plugin, NEW p, NEW start, Spawned(p, start), Fits(start), start.stage # "idle",
         UNCHANGED <<plugin, held, refusals>>, hasty' \in BOOLEAN,
         copy' \in [form : {"none", "plain", "wrapped"}, key : Nat, id : {0} \cup Identities],
         shown' \in {0} \cup Identities, mine' \in {0} \cup Identities,
         copy'.form = "none" => copy'.id = 0, copy'.form # "none" => copy'.id # 0,
         copy'.form = "wrapped" => held.id # 0,
         shown' # 0 \/ mine' # 0 => held.id # 0 \/ copy'.form = "plain"
  PROVE  KeyBase'
<1>1. KeyTypes'
  BY DEF KeyBase, KeyTypes, Spawned
<1>2. ASSUME NEW q \in Key!Slots PROVE Fits(proc[q])'
  <2>1. CASE q = p
    BY <2>1 DEF Spawned, Fits
  <2>2. CASE q # p
    <3>1. Same(proc'[q], proc[q]) /\ Fits(proc[q]) /\ (proc[q] = Key!Idle => proc'[q] = Key!Idle)
      BY <2>2 DEF Spawned, KeyBase, ProcsFit
    <3> QED BY <3>1 DEF Same, Fits
  <2> QED BY <2>1, <2>2
<1>3. \A i \in 1..Len(answers) : Same(proc'[answers[i].to], proc[answers[i].to])
  BY DEF Spawned
<1>4. ASSUME NEW i \in 1..Len(answers') PROVE AnswerFits(answers[i])'
  <2>1. answers' = answers /\ AnswerFits(answers[i]) /\ Same(proc'[answers[i].to], proc[answers[i].to])
    BY <1>3 DEF Spawned, KeyBase, ProcsFit
  <2> QED BY <2>1 DEF AnswerFits, Same
<1>5. \A i \in 1..Len(asked') : i \in 1..Len(asked) \/ i = Len(asked) + 1
  BY DEF Spawned
<1>6. Waiting'
  <2>1. \A i \in 1..Len(asked') : proc'[asked'[i]].stage # "idle"
    BY <1>5 DEF Spawned, Same, KeyBase, Waiting
  <2>2. \A i \in 1..Len(answers') : proc'[answers'[i].to].stage # "idle"
    BY DEF Spawned, Same, KeyBase, Waiting
  <2>3. \A i, j \in 1..Len(asked') : asked'[i] = asked'[j] => i = j
    <3>1. \A i, j \in 1..Len(asked) : asked'[i] = asked'[j] => i = j
      BY DEF Spawned, KeyBase, Waiting
    <3>2. \A i \in 1..Len(asked) : asked'[i] # p
      BY DEF Spawned
    <3>3. asked'[Len(asked) + 1] = p
      BY DEF Spawned
    <3> QED BY <1>5, <3>1, <3>2, <3>3
  <2>4. \A i, j \in 1..Len(answers') : answers'[i].to = answers'[j].to => i = j
    BY DEF Spawned, KeyBase, Waiting
  <2>5. \A i \in 1..Len(asked'), j \in 1..Len(answers') : asked'[i] # answers'[j].to
    <3>1. \A i \in 1..Len(asked), j \in 1..Len(answers) : asked'[i] # answers[j].to
      BY DEF Spawned, KeyBase, Waiting
    <3>2. \A j \in 1..Len(answers) : answers[j].to # p
      BY DEF Spawned
    <3> QED BY <1>5, <3>1, <3>2 DEF Spawned
  <2> QED BY <2>1, <2>2, <2>3, <2>4, <2>5 DEF Waiting
<1>7. HeldOnce'
  <2>1. ASSUME NEW i \in 1..Len(answers')
        PROVE  /\ proc'[answers'[i].to].call = "getId" /\ answers'[i].value # 0 => held'.id # 0
               /\ proc'[answers'[i].to].call = "setId" /\ answers'[i].value = TRUE => held'.id # 0
    <3>1. answers' = answers /\ Same(proc'[answers[i].to], proc[answers[i].to])
      BY <1>3 DEF Spawned
    <3> QED BY <3>1 DEF Same, KeyBase, HeldOnce
  <2> QED BY <2>1 DEF HeldOnce
<1>8. NoPlugin'
  BY DEF NoPlugin
<1> QED BY <1>1, <1>2, <1>4, <1>6, <1>7, <1>8 DEF KeyBase, ProcsFit

Adopting(id) == [Key!Idle EXCEPT !.stage = "adopt", !.call = "setId", !.id = id]

LEMMA StartsFit ==
  /\ Key!Starting \in Procedure /\ Key!Starting.stage = "migrate" /\ Key!Starting.call = "getId"
  /\ Key!Starting.live /\ Fits(Key!Starting) /\ Key!Starting.use = "none"
  /\ Key!Starting # Key!Idle
  /\ \A id \in Identities :
       /\ Adopting(id) \in Procedure /\ Adopting(id).stage = "adopt" /\ Adopting(id).call = "setId"
       /\ ~Adopting(id).live /\ Adopting(id).use = "none" /\ Adopting(id).id = id
       /\ Fits(Adopting(id))
<1>1. \A id \in Identities : id # 0
  BY ClientAssumption DEF Key!IdentityAssumption
<1> QED BY <1>1 DEF Key!Starting, Adopting, Key!Idle, Procedure, Fits

LEMMA SameProcs ==
  ASSUME KeyTypes
  PROVE  \A q \in Key!Slots : Same(proc[q], proc[q])
  BY DEF KeyTypes, Same

LEMMA AdoptingSpawns ==
  ASSUME KeyBase, plugin, NEW id \in Identities, Key!Spawn(Adopting(id), proc), answers' = answers
  PROVE  \E p \in Key!Slots : /\ Spawned(p, Adopting(id))
                              /\ \A q \in Key!Slots : q # p => proc'[q] = proc[q]
<1>1. Adopting(id) \in Procedure /\ proc \in [Key!Slots -> Procedure]
  BY StartsFit DEF KeyBase, KeyTypes
<1>2. \A q \in Key!Slots : Same(proc[q], proc[q])
  BY SameProcs DEF KeyBase
<1> QED BY <1>1, <1>2, SpawnDoes

LEMMA AdoptBase ==
  ASSUME KeyBase, NEW id \in Identities, Key!Adopt(id)
  PROVE  KeyBase'
<1>1. /\ copy' = Key!Plain(id) /\ shown' = id /\ mine' = id
      /\ hasty' = (hasty \/ Key!Loading # {}) /\ UNCHANGED <<plugin, held, answers, refusals>>
      /\ Key!Spawn(Adopting(id), proc)
  BY DEF Key!Adopt, Adopting
<1>2. /\ copy' \in [form : {"none", "plain", "wrapped"}, key : Nat, id : {0} \cup Identities]
      /\ copy'.form = "plain" /\ copy'.id = id /\ id # 0
  BY <1>1, ClientAssumption DEF Key!Plain, Key!IdentityAssumption
<1>3. hasty' \in BOOLEAN
  BY <1>1 DEF KeyBase, KeyTypes
<1>4. CASE plugin
  <2>1. PICK p \in Key!Slots : Spawned(p, Adopting(id))
    BY <1>1, <1>4, AdoptingSpawns
  <2> QED BY <1>1, <1>2, <1>3, <1>4, <2>1, StartsFit, SpawnedBase
<1>5. CASE ~plugin
  <2>1. proc' = proc /\ asked' = asked
    BY <1>1, <1>5 DEF Key!Spawn
  <2>2. KeyTypes'
    BY <1>1, <1>2, <1>3, <2>1 DEF KeyBase, KeyTypes
  <2>3. ProcsFit' /\ Waiting'
    BY <1>1, <2>1 DEF KeyBase, ProcsFit, Waiting, Fits, AnswerFits
  <2>4. NoPlugin'
    BY <1>1, <1>2, <1>5, <2>1 DEF KeyBase, NoPlugin
  <2>5. HeldOnce'
    BY <1>1, <1>2, <1>5, <2>1 DEF KeyBase, NoPlugin, HeldOnce
  <2> QED BY <2>2, <2>3, <2>4, <2>5 DEF KeyBase
<1> QED BY <1>3, <1>4, <1>5 DEF KeyBase, KeyTypes

LEMMA CopyInviteBase ==
  ASSUME KeyBase, Key!CopyInvite
  PROVE  KeyBase'
<1>1. /\ shown # 0 /\ shown' = shown /\ mine' = shown
      /\ copy' = (IF plugin THEN copy ELSE Key!Plain(shown))
      /\ hasty' = (hasty \/ Key!Loading # {}) /\ UNCHANGED <<plugin, held, answers, refusals>>
      /\ Key!Spawn(Adopting(shown), proc)
  BY DEF Key!CopyInvite, Adopting
<1>2. shown \in Identities /\ hasty' \in BOOLEAN
  BY <1>1 DEF KeyBase, KeyTypes
<1>3. CASE plugin
  <2>1. PICK p \in Key!Slots : Spawned(p, Adopting(shown))
    BY <1>1, <1>2, <1>3, AdoptingSpawns
  <2>2. /\ copy' = copy
        /\ copy' \in [form : {"none", "plain", "wrapped"}, key : Nat, id : {0} \cup Identities]
        /\ shown' \in {0} \cup Identities /\ mine' \in {0} \cup Identities
        /\ copy'.form = "none" => copy'.id = 0
        /\ copy'.form # "none" => copy'.id # 0
        /\ copy'.form = "wrapped" => held.id # 0
        /\ shown' # 0 \/ mine' # 0 => held.id # 0 \/ copy'.form = "plain"
    BY <1>1, <1>3 DEF KeyBase, KeyTypes, HeldOnce
  <2>3. Fits(Adopting(shown)) /\ Adopting(shown).stage # "idle"
    BY <1>2, StartsFit
  <2> QED BY <1>1, <1>2, <1>3, <2>1, <2>2, <2>3, SpawnedBase
<1>4. CASE ~plugin
  <2>1. /\ proc' = proc /\ asked' = asked /\ copy' = Key!Plain(shown)
        /\ copy' \in [form : {"none", "plain", "wrapped"}, key : Nat, id : {0} \cup Identities]
        /\ copy'.form = "plain" /\ copy'.id = shown
    BY <1>1, <1>2, <1>4 DEF Key!Spawn, Key!Plain
  <2>2. KeyTypes'
    BY <1>1, <1>2, <2>1 DEF KeyBase, KeyTypes
  <2>3. ProcsFit' /\ Waiting'
    BY <1>1, <2>1 DEF KeyBase, ProcsFit, Waiting, Fits, AnswerFits
  <2>4. NoPlugin'
    BY <1>1, <1>4, <2>1 DEF KeyBase, NoPlugin
  <2>5. HeldOnce'
    BY <1>1, <1>4, <2>1 DEF KeyBase, NoPlugin, HeldOnce
  <2> QED BY <2>2, <2>3, <2>4, <2>5 DEF KeyBase
<1> QED BY <1>3, <1>4 DEF KeyBase, KeyTypes

Left == [q \in Key!Slots |-> [proc[q] EXCEPT !.live = FALSE]]

LEMMA LeftProcs ==
  ASSUME KeyTypes
  PROVE  /\ Left \in [Key!Slots -> Procedure]
         /\ \A q \in Key!Slots : Same(Left[q], proc[q]) /\ ~Left[q].live
         /\ \A q \in Key!Slots : proc[q] = Key!Idle => Left[q] = Key!Idle
<1>1. ASSUME NEW q \in Key!Slots
      PROVE  /\ Left[q] \in Procedure /\ Same(Left[q], proc[q]) /\ ~Left[q].live
             /\ proc[q] = Key!Idle => Left[q] = Key!Idle
  <2>1. proc[q] \in Procedure /\ Left[q] = [proc[q] EXCEPT !.live = FALSE]
    BY DEF KeyTypes, Left
  <2>2. Left[q] \in Procedure /\ Same(Left[q], proc[q]) /\ ~Left[q].live
    BY <2>1 DEF Same, Procedure
  <2>3. proc[q] = Key!Idle => Left[q] = Key!Idle
    <3>1. [Key!Idle EXCEPT !.live = FALSE] = Key!Idle
      <4>1. Key!Idle \in Procedure /\ Key!Idle.live = FALSE
        BY DEF Key!Idle, Procedure
      <4> QED BY <4>1 DEF Procedure
    <3> QED BY <2>1, <3>1
  <2> QED BY <2>2, <2>3
<1> QED BY <1>1 DEF Left

LEMMA MountBase ==
  ASSUME KeyBase, Key!Mount
  PROVE  KeyBase'
<1>1. /\ shown' = (IF plugin THEN 0 ELSE copy.id) /\ hasty' = FALSE
      /\ UNCHANGED <<plugin, held, copy, answers, refusals, mine>>
      /\ Key!Spawn(Key!Starting, Left)
  BY DEF Key!Mount, Left
<1>2. CASE plugin
  <2>1. PICK p \in Key!Slots : Spawned(p, Key!Starting)
    BY <1>1, <1>2, StartsFit, LeftProcs, SpawnDoes DEF KeyBase
  <2>2. /\ copy' \in [form : {"none", "plain", "wrapped"}, key : Nat, id : {0} \cup Identities]
        /\ shown' \in {0} \cup Identities /\ mine' \in {0} \cup Identities
        /\ copy'.form = "none" => copy'.id = 0
        /\ copy'.form # "none" => copy'.id # 0
        /\ copy'.form = "wrapped" => held.id # 0
        /\ shown' # 0 \/ mine' # 0 => held.id # 0 \/ copy'.form = "plain"
        /\ hasty' \in BOOLEAN
    BY <1>1, <1>2 DEF KeyBase, KeyTypes, HeldOnce
  <2> QED BY <1>1, <1>2, <2>1, <2>2, StartsFit, SpawnedBase
<1>3. CASE ~plugin
  <2>1. proc' = Left /\ asked' = asked
    BY <1>1, <1>3 DEF Key!Spawn
  <2>2. proc' = proc
    <3>1. \A q \in Key!Slots : Left[q] = proc[q]
      BY <1>3, LeftProcs DEF KeyBase, NoPlugin
    <3>2. Left \in [Key!Slots -> Procedure] /\ proc \in [Key!Slots -> Procedure]
      BY LeftProcs DEF KeyBase, KeyTypes
    <3> QED BY <2>1, <3>1, <3>2
  <2>3. shown' = copy.id /\ shown = copy.id
    BY <1>1, <1>3 DEF KeyBase, NoPlugin
  <2>4. KeyTypes'
    BY <1>1, <2>1, <2>2, <2>3 DEF KeyBase, KeyTypes
  <2>5. ProcsFit' /\ Waiting'
    BY <1>1, <2>1, <2>2 DEF KeyBase, ProcsFit, Waiting, Fits, AnswerFits
  <2>6. NoPlugin' /\ HeldOnce'
    BY <1>1, <1>3, <2>1, <2>2, <2>3 DEF KeyBase, NoPlugin, HeldOnce
  <2> QED BY <2>4, <2>5, <2>6 DEF KeyBase
<1> QED BY <1>2, <1>3 DEF KeyBase, KeyTypes

-----------------------------------------------------------------------------
(* The application starts again.                                            *)
LEMMA Greatest ==
  ASSUME NEW n \in Nat, NEW S \in SUBSET (1..n), S # {}
  PROVE  Key!Max(S) \in S /\ \A i \in S : Key!Max(S) >= i
<1> DEFINE Above == {m \in Nat : \A i \in S : i <= m}
<1>1. n \in Above
  OBVIOUS
<1>2. PICK m \in Above : \A k \in Above : m <= k
  <2>1. Above \in SUBSET Nat /\ Above # {}
    BY <1>1
  <2> HIDE DEF Above
  <2> QED BY <2>1, LeastNat
<1>3. m \in S
  <2> SUFFICES ASSUME m \notin S PROVE FALSE
    OBVIOUS
  <2>1. m \in Nat /\ \A i \in S : i <= m - 1
    BY <1>2
  <2>2. PICK i \in S : TRUE
    OBVIOUS
  <2>3. i \in 1..n /\ i <= m - 1
    BY <2>1, <2>2
  <2>4. m - 1 \in Nat
    BY <2>1, <2>3
  <2>5. m - 1 \in Above
    BY <2>1, <2>4
  <2> QED BY <1>2, <2>1, <2>5
<1>4. \A i \in S : m >= i
  BY <1>2
<1> DEFINE IsMax(j) == j \in S /\ \A i \in S : j >= i
<1>5. IsMax(m)
  BY <1>3, <1>4
<1>6. Key!Max(S) = CHOOSE j \in S : \A i \in S : j >= i
  BY DEF Key!Max
<1> QED BY <1>5, <1>6

LEMMA ServedFits ==
  ASSUME KeyBase, NEW k \in 0..Len(asked)
  PROVE  /\ Key!Served(k) \in [id : {0} \cup Identities, key : Nat]
         /\ held.id # 0 => Key!Served(k).id # 0
<1> DEFINE Of(call) == {i \in 1..k : proc[asked[i]].call = call}
           Latest(call) == proc[asked[Key!Max(Of(call))]]
           now == Key!Served(k)
<1>1. now = [id  |-> IF Of("setId") = {} THEN held.id ELSE Latest("setId").id,
             key |-> IF Of("setKey") = {} THEN held.key ELSE Latest("setKey").key]
  BY DEF Key!Served
<1>2. asked \in Seq(Key!Slots) /\ held \in [id : {0} \cup Identities, key : Nat] /\ k \in Nat
  BY DEF KeyBase, KeyTypes
<1>3. ASSUME NEW call \in {"setId", "setKey"}, Of(call) # {}
      PROVE  Latest(call) \in Procedure /\ Fits(Latest(call)) /\ Latest(call).call = call
  <2>1. Key!Max(Of(call)) \in Of(call)
    <3>1. Of(call) \in SUBSET (1..k)
      OBVIOUS
    <3> HIDE DEF Of
    <3> QED BY <1>2, <1>3, <3>1, Greatest
  <2>2. Key!Max(Of(call)) \in 1..Len(asked) /\ proc[asked[Key!Max(Of(call))]].call = call
    <3>1. PICK g, n : g = Key!Max(Of(call)) /\ n = Len(asked)
      OBVIOUS
    <3>2. g \in 1..k /\ proc[asked[g]].call = call
      BY <2>1, <3>1
    <3>3. n \in Nat /\ k \in 0..n
      BY <1>2, <3>1
    <3>4. g \in 1..n
      BY <3>2, <3>3
    <3> QED BY <3>1, <3>2, <3>4
  <2>3. asked[Key!Max(Of(call))] \in Key!Slots
    <3> HIDE DEF Of
    <3> QED BY <1>2, <2>2, ElementOfSeq
  <2> HIDE DEF Of
  <2> QED BY <2>2, <2>3 DEF KeyBase, KeyTypes, ProcsFit
<1> HIDE DEF Of, Latest
<1>4. /\ IF Of("setId") = {} THEN now.id = held.id ELSE now.id \in Identities /\ now.id # 0
      /\ IF Of("setKey") = {} THEN now.key = held.key ELSE now.key \in Nat
  <2>1. /\ now.id = IF Of("setId") = {} THEN held.id ELSE Latest("setId").id
        /\ now.key = IF Of("setKey") = {} THEN held.key ELSE Latest("setKey").key
    BY <1>1
  <2>2. Of("setId") # {} => Latest("setId").id \in Identities /\ Latest("setId").id # 0
    BY <1>3 DEF Fits, Procedure
  <2>3. Of("setKey") # {} => Latest("setKey").key \in Nat
    BY <1>3 DEF Procedure
  <2> QED BY <2>1, <2>2, <2>3
<1>5. now \in [id : {0} \cup Identities, key : Nat]
  <2>1. (IF Of("setId") = {} THEN held.id ELSE Latest("setId").id) \in {0} \cup Identities
    BY <1>1, <1>2, <1>4
  <2>2. (IF Of("setKey") = {} THEN held.key ELSE Latest("setKey").key) \in Nat
    BY <1>1, <1>2, <1>4
  <2> QED BY <1>1, <2>1, <2>2
<1> QED BY <1>4, <1>5

(* The state a start finds.                                                 *)
Started ==
  /\ proc = [p \in Key!Slots |-> IF plugin /\ p = 1 THEN Key!Starting ELSE Key!Idle]
  /\ asked = (IF plugin THEN <<1>> ELSE <<>>) /\ answers = <<>>
  /\ shown = (IF plugin THEN 0 ELSE copy.id)
  /\ hasty = FALSE /\ plugin \in BOOLEAN /\ refusals \in Nat
  /\ held \in [id : {0} \cup Identities, key : Nat]
  /\ copy \in [form : {"none", "plain", "wrapped"}, key : Nat, id : {0} \cup Identities]
  /\ copy.form = "none" => copy.id = 0
  /\ copy.form # "none" => copy.id # 0
  /\ copy.form = "wrapped" => held.id # 0
  /\ mine \in {0} \cup Identities /\ (mine # 0 => held.id # 0 \/ copy.form = "plain")
  /\ ~plugin => held.id = 0 /\ copy.form # "wrapped" /\ mine = copy.id

LEMMA StartedWell ==
  ASSUME Started
  PROVE  /\ 1 \in Key!Slots /\ proc \in [Key!Slots -> Procedure]
         /\ plugin => /\ proc[1] = Key!Starting /\ Len(asked) = 1 /\ asked[1] = 1
                      /\ \A q \in Key!Slots : q # 1 => proc[q] = Key!Idle
         /\ ~plugin => Len(asked) = 0 /\ \A q \in Key!Slots : proc[q] = Key!Idle
         /\ asked \in Seq(Key!Slots) /\ answers \in Seq([to : Key!Slots, value : Values])
         /\ Len(answers) = 0
<1>1. 1 \in Key!Slots
  BY ClientAssumption DEF Key!IdentityAssumption, Key!Slots
<1>2. Key!Idle \in Procedure /\ Key!Starting \in Procedure
  BY IdleIs, StartsFit
<1>3. <<1>> \in Seq(Key!Slots) /\ <<>> \in Seq(Key!Slots) /\ Len(<<1>>) = 1 /\ Len(<<>>) = 0
      /\ <<1>>[1] = 1
  BY <1>1
<1>4. answers \in Seq([to : Key!Slots, value : Values]) /\ Len(answers) = 0
  BY DEF Started
<1> QED BY <1>1, <1>2, <1>3, <1>4 DEF Started

LEMMA StartedBase == Started => KeyBase
<1> SUFFICES ASSUME Started PROVE KeyBase
  OBVIOUS
<1>1. mine \in {0} \cup Identities /\ (mine # 0 => held.id # 0 \/ copy.form = "plain")
  BY DEF Started
<1>2. KeyTypes
  BY <1>1, StartedWell DEF Started, KeyTypes
<1>3. ProcsFit
  <2>1. \A q \in Key!Slots : proc[q] \in {Key!Idle, Key!Starting}
    BY DEF Started
  <2>2. Fits(Key!Idle)
    BY IdleIs DEF Fits
  <2> QED BY <2>1, <2>2, StartsFit, StartedWell DEF ProcsFit
<1>4. Waiting
  <2>1. ASSUME NEW i \in 1..Len(asked)
        PROVE  i = 1 /\ asked[i] = 1 /\ proc[asked[i]] = Key!Starting
    <3>1. plugin \/ ~plugin
      OBVIOUS
    <3>2. plugin /\ Len(asked) = 1
      BY <3>1, StartedWell
    <3>3. i = 1
      BY <3>2
    <3> QED BY <3>2, <3>3, StartedWell
  <2> QED BY <2>1, StartedWell, StartsFit DEF Waiting
<1>5. NoPlugin
  BY StartedWell DEF Started, NoPlugin
<1>6. HeldOnce
  BY <1>1, StartedWell DEF Started, HeldOnce
<1> QED BY <1>2, <1>3, <1>4, <1>5, <1>6 DEF KeyBase

LEMMA InitStarted == Key!Init => Started /\ mine = Key!Loadable
<1> SUFFICES ASSUME Key!Init PROVE Started /\ mine = Key!Loadable
  OBVIOUS
<1>1. /\ copy \in [form : {"none", "plain", "wrapped"}, key : Nat, id : {0} \cup Identities]
      /\ copy.form = "none" => copy.id = 0
      /\ copy.form # "none" => copy.id # 0
      /\ copy.form # "wrapped"
  <2>1. \A id \in Identities : id # 0
    BY ClientAssumption DEF Key!IdentityAssumption
  <2> QED BY <2>1 DEF Key!Init, Key!Empty, Key!Plain
<1>2. held = [id |-> 0, key |-> 0]
  BY DEF Key!Init
<1>3. mine = Key!Loadable
  BY <1>1, <1>2 DEF Key!Init, Key!Loadable
<1>4. mine \in {0} \cup Identities /\ (mine # 0 => copy.form = "plain") /\ mine = copy.id
  <2>1. mine = copy.id
    BY DEF Key!Init
  <2> QED BY <1>1, <2>1
<1> QED BY <1>1, <1>2, <1>3, <1>4 DEF Key!Init, Started

(* Unless a store was cut off, the identity last adopted is the one loaded. *)
LEMMA RestartLoads ==
  ASSUME KeyBase, LastStored, NEW k \in 0..Len(asked), ~Key!CutOff(k), held' = Key!Served(k),
         UNCHANGED <<copy, mine>>
  PROVE  mine' = Key!Loadable'
<1> DEFINE Of == {i \in 1..k : Stores(i)}
<1>1. asked \in Seq(Key!Slots) /\ Len(asked) \in Nat /\ k \in Nat /\ k <= Len(asked)
  BY DEF KeyBase, KeyTypes
<1>2. held'.id = IF Of = {} THEN held.id ELSE proc[asked[Key!Max(Of)]].id
  BY DEF Key!Served, Stores
<1>3. ASSUME NEW i \in 1..Len(asked), i > k PROVE ~Stores(i)
  <2>1. i \in k + 1..Len(asked)
    BY <1>1, <1>3
  <2> QED BY <2>1 DEF Key!CutOff, Stores
<1>4. held'.id \in {0, mine} /\ (held'.id = 0 => held.id = 0)
  <2>1. CASE Of = {}
    <3>1. \A i \in 1..Len(asked) : ~Stores(i)
      <4>1. ASSUME NEW i \in 1..Len(asked) PROVE ~Stores(i)
        <5>1. i \in 1..k \/ i > k
          BY <1>1
        <5> QED BY <1>3, <2>1, <5>1
      <4> QED BY <4>1
    <3> QED BY <1>2, <2>1, <3>1 DEF LastStored
  <2>2. CASE Of # {}
    <3>1. Key!Max(Of) \in Of /\ \A i \in Of : Key!Max(Of) >= i
      <4>1. Of \in SUBSET (1..k)
        OBVIOUS
      <4> HIDE DEF Of
      <4> QED BY <1>1, <2>2, <4>1, Greatest
    <3>2. PICK m : m = Key!Max(Of)
      OBVIOUS
    <3>3. m \in 1..Len(asked) /\ m <= k /\ Stores(m) /\ \A i \in 1..k : Stores(i) => m >= i
      BY <1>1, <3>1, <3>2
    <3>4. ASSUME NEW j \in 1..Len(asked), j > m PROVE ~Stores(j)
      <4>1. CASE j > k
        BY <1>3, <4>1
      <4>2. CASE j <= k
        <5>1. j \in 1..k
          BY <1>1, <4>2
        <5>2. ~(m >= j)
          BY <3>3, <3>4
        <5> QED BY <3>3, <5>1, <5>2
      <4> QED BY <1>1, <4>1, <4>2
    <3>5. proc[asked[m]].id = mine
      BY <3>3, <3>4 DEF LastStored
    <3>6. held'.id = mine
      BY <1>2, <2>2, <3>2, <3>5
    <3>7. proc[asked[m]].id # 0
      <4>1. asked[m] \in Key!Slots
        BY <1>1, <3>3, ElementOfSeq
      <4> QED BY <3>3, <4>1 DEF KeyBase, ProcsFit, Fits, Stores
    <3> QED BY <3>5, <3>6, <3>7
  <2> QED BY <2>1, <2>2
<1>5. held.id = 0 => copy.form # "wrapped" /\ copy.id = mine
  BY DEF LastStored
<1>6. CASE held'.id = 0
  BY <1>4, <1>5, <1>6 DEF Key!Loadable
<1>7. CASE held'.id # 0
  BY <1>4, <1>7 DEF Key!Loadable
<1> QED BY <1>6, <1>7

LEMMA RestartStarted ==
  ASSUME KeyBase, Key!Restart, ~gone'
  PROVE  /\ Started' /\ UNCHANGED <<plugin, refusals>>
         /\ LastStored => mine' = Key!Loadable'
<1>1. /\ UNCHANGED <<plugin, copy, refusals>>
      /\ proc' = [p \in Key!Slots |-> IF plugin /\ p = 1 THEN Key!Starting ELSE Key!Idle]
      /\ asked' = (IF plugin THEN <<1>> ELSE <<>>) /\ answers' = <<>>
      /\ shown' = (IF plugin THEN 0 ELSE copy.id)
      /\ hasty' = FALSE
  BY DEF Key!Restart
<1>2. PICK k \in 0..Len(asked) :
        held' = Key!Served(k) /\ mine' = (IF Key!CutOff(k) THEN Key!Loadable' ELSE mine)
  BY DEF Key!Restart
<1>3. held' \in [id : {0} \cup Identities, key : Nat] /\ (held.id # 0 => held'.id # 0)
  BY <1>2, ServedFits
<1>4. ~plugin => held'.id = 0 /\ mine' = mine
  <2>1. ASSUME ~plugin PROVE held'.id = 0 /\ mine' = mine
    <3>1. asked = <<>> /\ held.id = 0
      BY <2>1 DEF KeyBase, NoPlugin
    <3>2. k = 0 /\ Len(asked) = 0
      BY <3>1
    <3>3. {i \in 1..k : proc[asked[i]].call = "setId"} = {} /\ ~Key!CutOff(k)
      BY <3>2 DEF Key!CutOff
    <3> QED BY <1>2, <3>1, <3>3 DEF Key!Served
  <2> QED BY <2>1
<1>5. /\ copy \in [form : {"none", "plain", "wrapped"}, key : Nat, id : {0} \cup Identities]
      /\ copy.form = "none" => copy.id = 0
      /\ copy.form # "none" => copy.id # 0
      /\ copy.form = "wrapped" => held.id # 0
      /\ plugin \in BOOLEAN /\ refusals \in Nat
      /\ mine \in {0} \cup Identities /\ (mine # 0 => held.id # 0 \/ copy.form = "plain")
      /\ ~plugin => copy.form # "wrapped" /\ mine = copy.id
  BY DEF KeyBase, KeyTypes, HeldOnce, NoPlugin
<1>6. /\ mine' \in {0} \cup Identities
      /\ mine' # 0 => held'.id # 0 \/ copy.form = "plain"
  <2>1. CASE mine' = mine
    BY <1>3, <1>5, <2>1
  <2>2. CASE mine' = Key!Loadable'
    <3>1. Key!Loadable' \in {held'.id, copy.id, 0}
      BY <1>1 DEF Key!Loadable
    <3>2. Key!Loadable' # 0 => held'.id # 0 \/ (copy.id # 0 /\ copy.form # "none")
      BY <1>1, <1>5 DEF Key!Loadable
    <3> QED BY <1>3, <1>5, <2>2, <3>1, <3>2
  <2> QED BY <1>2, <2>1, <2>2
<1>7. Started'
  BY <1>1, <1>3, <1>4, <1>5, <1>6 DEF Started
<1>8. ASSUME LastStored PROVE mine' = Key!Loadable'
  <2>1. CASE Key!CutOff(k)
    BY <1>2, <2>1
  <2>2. CASE ~Key!CutOff(k)
    BY <1>1, <1>2, <1>8, <2>2, RestartLoads
  <2> QED BY <2>1, <2>2
<1> QED BY <1>1, <1>7, <1>8

LEMMA BaseStep == KeyBase /\ [Key!Next]_keyVars /\ ~gone' => KeyBase'
<1> SUFFICES ASSUME KeyBase, [Key!Next]_keyVars, ~gone' PROVE KeyBase'
  OBVIOUS
<1>1. CASE Key!Restart
  <2>1. Started'
    BY <1>1, RestartStarted
  <2> QED BY <2>1, StartedBase, PTL
<1>2. CASE UNCHANGED keyVars \/ Key!WriteOut
  <2>1. UNCHANGED <<plugin, hasty, refusals, held, copy, shown, mine, proc, asked, answers>>
    BY <1>2 DEF keyVars, Key!WriteOut
  <2>2. KeyTypes'
    BY <2>1 DEF KeyBase, KeyTypes
  <2>3. ProcsFit'
    BY <2>1 DEF KeyBase, ProcsFit, Fits, AnswerFits
  <2>4. Waiting'
    BY <2>1 DEF KeyBase, Waiting
  <2>5. NoPlugin'
    BY <2>1 DEF KeyBase, NoPlugin
  <2>6. HeldOnce'
    BY <2>1 DEF KeyBase, HeldOnce
  <2> QED BY <2>2, <2>3, <2>4, <2>5, <2>6 DEF KeyBase
<1> QED BY <1>1, <1>2, DeliverBase, ServeBase, RefuseBase, CopyInviteBase, MountBase, AdoptBase
        DEF Key!Next

-----------------------------------------------------------------------------
(* While no call is refused.                                                *)
LEMMA SeesTruly ==
  ASSUME KeyBase, NEW p \in Key!Slots, NEW v, Sees(p, v), proc[p].use # "unwrap",
         SomeNotFound => copy.form # "wrapped",
         proc[p].call = "getId" /\ v = 0 => SomeNotFound,
         proc[p].call \in {"setId", "setKey"} => v = TRUE
  PROVE  \/ /\ proc[p].call = "getId" /\ v = 0 /\ copy.form = "none" /\ Turns(p, Onward(p))
            /\ copy' = copy /\ shown' = shown
         \/ /\ proc[p].call = "getId" /\ v = 0 /\ copy.form = "plain"
            /\ Turns(p, Storing(p, copy.id)) /\ copy' = copy /\ shown' = shown
         \/ /\ proc[p].call = "getId" /\ v # 0 /\ Turns(p, Reloading(p))
            /\ copy' = copy /\ shown' = shown
         \/ /\ proc[p].call = "getId" /\ v # 0 /\ Turns(p, Wrapping(p, "wrap", 0, v))
            /\ copy' = copy /\ shown' = shown
         \/ /\ proc[p].call = "setId" /\ Turns(p, Wrapping(p, "wrap", 0, proc[p].id))
            /\ copy' = copy /\ shown' = shown
         \/ /\ proc[p].call = "getKey" /\ v = 0 /\ copy' = copy /\ shown' = shown
            /\ Turns(p, Drawing(p, Key!Min(WrapKeys \ Key!Drawn)))
         \/ /\ \/ proc[p].call = "getKey" /\ v # 0 /\ copy' = Key!Wrapped(v, proc[p].id)
               \/ proc[p].call = "setKey" /\ copy' = Key!Wrapped(proc[p].key, proc[p].id)
            /\ proc[p].use = "wrap" /\ Turns(p, Onward(p)) /\ Shows(p, proc[p].id)
<1>1. CASE SeesId(p, v)
  BY <1>1 DEF SeesId
<1>2. CASE SeesStored(p, v)
  BY <1>2 DEF SeesStored
<1>3. CASE SeesKey(p, v)
  BY <1>3 DEF SeesKey
<1>4. CASE SeesKeyStored(p, v)
  BY <1>4 DEF SeesKeyStored
<1> QED BY <1>1, <1>2, <1>3, <1>4 DEF Sees

(* What Deliver does then, to a procedure that goes on to next.             *)
Told(p, v, next) ==
  \/ /\ proc[p].call = "getId" /\ v = 0 /\ copy.form = "none" /\ next = Onward(p)
     /\ copy' = copy /\ shown' = shown
  \/ /\ proc[p].call = "getId" /\ v = 0 /\ copy.form = "plain" /\ next = Storing(p, copy.id)
     /\ copy' = copy /\ shown' = shown
  \/ /\ proc[p].call = "getId" /\ v # 0 /\ next = Reloading(p)
     /\ copy' = copy /\ shown' = shown
  \/ /\ proc[p].call = "getId" /\ v # 0 /\ next = Wrapping(p, "wrap", 0, v)
     /\ copy' = copy /\ shown' = shown
  \/ /\ proc[p].call = "setId" /\ next = Wrapping(p, "wrap", 0, proc[p].id)
     /\ copy' = copy /\ shown' = shown
  \/ /\ proc[p].call = "getKey" /\ v = 0 /\ copy' = copy /\ shown' = shown
     /\ \E key \in Nat : next = Drawing(p, key)
  \/ /\ \/ proc[p].call = "getKey" /\ v # 0 /\ copy' = Key!Wrapped(v, proc[p].id)
        \/ proc[p].call = "setKey" /\ copy' = Key!Wrapped(proc[p].key, proc[p].id)
     /\ proc[p].use = "wrap" /\ next = Onward(p) /\ Shows(p, proc[p].id)

(* Of a procedure that goes on, what the proofs below tell apart.           *)
LEMMA NextIs ==
  ASSUME NEW p, proc[p] \in Procedure, proc[p].stage # "idle"
  PROVE  /\ Reloading(p).stage = "load" /\ Reloading(p).call = "getId"
         /\ Reloading(p).use = proc[p].use /\ (Reloading(p).live <=> proc[p].live)
         /\ proc[p].stage = "migrate" => Onward(p) = Reloading(p)
         /\ proc[p].stage # "migrate" => Onward(p) = Key!Idle
         /\ \A id : /\ Storing(p, id).stage = proc[p].stage /\ Storing(p, id).call = "setId"
                    /\ Storing(p, id).id = id /\ Storing(p, id).use = proc[p].use
                    /\ (Storing(p, id).live <=> proc[p].live)
         /\ \A use, key, id :
              /\ Wrapping(p, use, key, id).stage = proc[p].stage
              /\ Wrapping(p, use, key, id).call = "getKey"
              /\ Wrapping(p, use, key, id).id = id /\ Wrapping(p, use, key, id).use = use
              /\ (Wrapping(p, use, key, id).live <=> proc[p].live)
         /\ \A key : /\ Drawing(p, key).stage = proc[p].stage /\ Drawing(p, key).call = "setKey"
                     /\ Drawing(p, key).id = proc[p].id /\ Drawing(p, key).use = proc[p].use
                     /\ (Drawing(p, key).live <=> proc[p].live)
  BY DEF Reloading, Onward, Storing, Wrapping, Drawing, Procedure

(* The cache is wrapped.                                                    *)
Ends(p, v) ==
  /\ \/ proc[p].call = "getKey" /\ v # 0 /\ copy' = Key!Wrapped(v, proc[p].id)
     \/ proc[p].call = "setKey" /\ copy' = Key!Wrapped(proc[p].key, proc[p].id)
  /\ proc[p].use = "wrap" /\ Shows(p, proc[p].id)

LEMMA ToldIs ==
  ASSUME NEW p, NEW v, NEW next, proc[p] \in Procedure, proc[p].stage # "idle", Fits(proc[p]),
         Told(p, v, next)
  PROVE  /\ Ends(p, v) => next = Onward(p)
         /\ Ends(p, v) \/ (copy' = copy /\ shown' = shown)
         /\ next.live => proc[p].live
         /\ proc[p].use # "unwrap" => next.use # "unwrap"
         /\ proc[p].call = "getId" /\ v = 0 => next.use # "wrap" \/ proc[p].use = "wrap"
         /\ next = Key!Idle \/ (proc[p].live /\ ~next.live) =>
              /\ next = Key!Idle /\ proc[p].stage # "migrate"
              /\ Ends(p, v) \/ (proc[p].call = "getId" /\ v = 0 /\ copy.form = "none")
         /\ next.call = "getId" => next = Reloading(p)
         /\ next.call = "setId" => proc[p].call = "getId" /\ v = 0 /\ next.id = copy.id
         /\ next.call \in {"getKey", "setKey"} =>
              \/ proc[p].call = "getId" /\ v # 0 /\ next.id = v
              \/ proc[p].call \in {"setId", "getKey"} /\ next.id = proc[p].id
<1>1. /\ Reloading(p).stage = "load" /\ Reloading(p).call = "getId"
      /\ Reloading(p).use = proc[p].use /\ (Reloading(p).live <=> proc[p].live)
      /\ proc[p].stage = "migrate" => Onward(p) = Reloading(p)
      /\ proc[p].stage # "migrate" => Onward(p) = Key!Idle
      /\ \A id : /\ Storing(p, id).stage = proc[p].stage /\ Storing(p, id).call = "setId"
                 /\ Storing(p, id).id = id /\ Storing(p, id).use = proc[p].use
                 /\ (Storing(p, id).live <=> proc[p].live)
      /\ \A use, key, id :
           /\ Wrapping(p, use, key, id).stage = proc[p].stage
           /\ Wrapping(p, use, key, id).call = "getKey"
           /\ Wrapping(p, use, key, id).id = id /\ Wrapping(p, use, key, id).use = use
           /\ (Wrapping(p, use, key, id).live <=> proc[p].live)
      /\ \A key : /\ Drawing(p, key).stage = proc[p].stage /\ Drawing(p, key).call = "setKey"
                  /\ Drawing(p, key).id = proc[p].id /\ Drawing(p, key).use = proc[p].use
                  /\ (Drawing(p, key).live <=> proc[p].live)
  BY NextIs
<1>2. /\ Key!Idle.stage = "idle" /\ Key!Idle.call = "none" /\ Key!Idle.use = "none"
      /\ ~Key!Idle.live
  BY IdleIs
<1>3. CASE /\ proc[p].call = "getId" /\ v = 0 /\ copy.form = "none" /\ next = Onward(p)
           /\ copy' = copy /\ shown' = shown
  BY <1>1, <1>2, <1>3 DEF Ends
<1>4. CASE /\ proc[p].call = "getId" /\ v = 0 /\ copy.form = "plain" /\ next = Storing(p, copy.id)
           /\ copy' = copy /\ shown' = shown
  BY <1>1, <1>2, <1>4 DEF Ends
<1>5. CASE /\ proc[p].call = "getId" /\ v # 0 /\ next = Reloading(p)
           /\ copy' = copy /\ shown' = shown
  BY <1>1, <1>2, <1>5 DEF Ends
<1>6. CASE /\ proc[p].call = "getId" /\ v # 0 /\ next = Wrapping(p, "wrap", 0, v)
           /\ copy' = copy /\ shown' = shown
  BY <1>1, <1>2, <1>6 DEF Ends
<1>7. CASE /\ proc[p].call = "setId" /\ next = Wrapping(p, "wrap", 0, proc[p].id)
           /\ copy' = copy /\ shown' = shown
  BY <1>1, <1>2, <1>7 DEF Ends
<1>8. CASE /\ proc[p].call = "getKey" /\ v = 0 /\ copy' = copy /\ shown' = shown
           /\ \E key \in Nat : next = Drawing(p, key)
  BY <1>1, <1>2, <1>8 DEF Ends
<1>9. CASE Ends(p, v) /\ next = Onward(p)
  <2>1. proc[p].call \in {"getKey", "setKey"} /\ (proc[p].call = "getKey" => v # 0)
    BY <1>9 DEF Ends
  <2> QED BY <1>1, <1>2, <1>9, <2>1
<1> QED BY <1>3, <1>4, <1>5, <1>6, <1>7, <1>8, <1>9 DEF Told, Ends

LEMMA DeliverTells ==
  ASSUME KeyBase, Truthful, NothingBefore, Key!Deliver
  PROVE  LET p == answers[1].to
             v == answers[1].value
         IN /\ p \in Key!Slots /\ proc[p].stage # "idle" /\ 1 \in 1..Len(answers)
            /\ UNCHANGED <<plugin, held, refusals, mine, hasty>>
            /\ proc[p] \in Procedure /\ Fits(proc[p])
            /\ \E next \in Procedure : Told(p, v, next) /\ Moved(p, next) /\ Fits(next)
<1> DEFINE p == answers[1].to
           v == answers[1].value
<1>1. /\ answers # <<>> /\ answers' = Tail(answers) /\ Sees(p, v)
      /\ UNCHANGED <<plugin, held, refusals, mine, hasty>>
  BY DeliverSees
<1>2. 1 \in 1..Len(answers) /\ p \in Key!Slots
  <2>1. answers \in Seq([to : Key!Slots, value : Values])
    BY DEF KeyBase, KeyTypes
  <2>2. answers[1] \in [to : Key!Slots, value : Values] /\ 1 \in 1..Len(answers)
    BY <1>1, <2>1, Shorter
  <2> QED BY <2>2
<1>3. /\ proc[p] \in Procedure /\ Fits(proc[p]) /\ proc[p].stage # "idle"
      /\ proc[p].use # "unwrap" /\ (SomeNotFound => copy.form # "wrapped")
      /\ proc[p].call = "getId" /\ v = 0 => SomeNotFound
      /\ proc[p].call \in {"setId", "setKey"} => v = TRUE
  BY <1>2 DEF KeyBase, KeyTypes, ProcsFit, Waiting, Truthful, NothingBefore, SomeNotFound, NotFound
<1>4. \E next : Turns(p, next) /\ Told(p, v, next)
  <2>1. Key!Min(WrapKeys \ Key!Drawn) \in Nat
    BY FreshKey, ClientAssumption DEF KeyBase, Key!IdentityAssumption
  <2> HIDE DEF p, v
  <2> QED BY <1>1, <1>2, <1>3, <2>1, SeesTruly DEF Told
<1>5. PICK next : Turns(p, next) /\ Told(p, v, next)
  BY <1>4
<1>6. \E other \in Procedure : Turns(p, other) /\ Fits(other)
  <2>1. AnswerFits(answers[1]) /\ (proc[p].call = "getId" /\ v # 0 => held.id # 0)
        /\ (proc[p].call = "setId" /\ v = TRUE => held.id # 0)
    BY <1>2 DEF KeyBase, ProcsFit, HeldOnce
  <2>2. /\ proc[p].call = "getId" => v \in {0} \cup Identities
        /\ proc[p].call = "getKey" => v \in Nat
        /\ proc[p].call \in {"setId", "setKey"} => v \in BOOLEAN
    BY <2>1 DEF AnswerFits
  <2> HIDE DEF p, v
  <2> QED BY <1>1, <1>2, <1>3, <2>1, <2>2, SeesFits
<1>7. PICK other \in Procedure : Turns(p, other) /\ Fits(other)
  BY <1>6
<1>8. next = other
  <2>1. proc'[p] = next /\ proc'[p] = other
    BY <1>2, <1>5, <1>7 DEF Turns, KeyBase, KeyTypes
  <2> QED BY <2>1
<1>9. Moved(p, next)
  BY <1>1, <1>5, <1>7, <1>8, TurnMoves
<1> QED BY <1>1, <1>2, <1>3, <1>5, <1>7, <1>8, <1>9

LEMMA DeliverTruth ==
  ASSUME KeyBase, KeyTruth, Key!Deliver
  PROVE  KeyTruth'
<1>0. /\ \E q \in Key!Slots : q = answers[1].to
      /\ \E w : w = answers[1].value
  BY DeliverTells DEF KeyTruth
<1> PICK p \in Key!Slots : p = answers[1].to
  BY <1>0
<1> PICK v : v = answers[1].value
  BY <1>0
<1>1. /\ p \in Key!Slots /\ proc[p].stage # "idle" /\ 1 \in 1..Len(answers)
      /\ UNCHANGED <<plugin, held, refusals, mine, hasty>>
      /\ proc[p] \in Procedure /\ Fits(proc[p])
      /\ \E next \in Procedure : Told(p, v, next) /\ Moved(p, next) /\ Fits(next)
  BY DeliverTells DEF KeyTruth
<1>2. PICK next \in Procedure : Told(p, v, next) /\ Moved(p, next) /\ Fits(next)
  BY <1>1
<1>3. /\ proc[p].call = "getId" /\ v = 0 => NotFound(1)
      /\ (proc[p].call = "getKey" /\ v # 0) \/ proc[p].call = "setKey" => KeyTold(1)
      /\ ToldKey(1) = IF proc[p].call = "getKey" THEN v ELSE proc[p].key
  BY DEF NotFound, KeyTold, ToldKey
<1>4. \A i \in 1..Len(answers) : answers[i].to = p => i = 1
  BY <1>1 DEF KeyBase, Waiting
<1>5. /\ Ends(p, v) => next = Onward(p)
      /\ Ends(p, v) \/ (copy' = copy /\ shown' = shown)
      /\ next.live => proc[p].live
      /\ proc[p].use # "unwrap" => next.use # "unwrap"
      /\ proc[p].call = "getId" /\ v = 0 => next.use # "wrap" \/ proc[p].use = "wrap"
      /\ next = Key!Idle \/ (proc[p].live /\ ~next.live) =>
           /\ next = Key!Idle /\ proc[p].stage # "migrate"
           /\ Ends(p, v) \/ (proc[p].call = "getId" /\ v = 0 /\ copy.form = "none")
      /\ next.call = "getId" => next = Reloading(p)
      /\ next.call = "setId" => proc[p].call = "getId" /\ v = 0 /\ next.id = copy.id
      /\ next.call \in {"getKey", "setKey"} =>
           \/ proc[p].call = "getId" /\ v # 0 /\ next.id = v
           \/ proc[p].call \in {"setId", "getKey"} /\ next.id = proc[p].id
  BY <1>1, <1>2, ToldIs
<1>6. /\ proc' \in [Key!Slots -> Procedure] /\ proc'[p] = next
      /\ \A q \in Key!Slots : q # p => proc'[q] = proc[q]
      /\ Len(answers') \in Nat /\ Len(answers) = Len(answers') + 1
      /\ \A i \in 1..Len(answers') : /\ answers'[i] = answers[i + 1] /\ answers'[i].to # p
                                     /\ i + 1 \in 1..Len(answers) /\ answers'[i].to \in Key!Slots
                                     /\ proc'[answers'[i].to] = proc[answers[i + 1].to]
      /\ Len(asked) \in Nat
      /\ Len(asked') = (IF next = Key!Idle THEN Len(asked) ELSE Len(asked) + 1)
      /\ \A i \in 1..Len(asked) : /\ asked'[i] = asked[i] /\ asked[i] # p
                                  /\ proc'[asked'[i]] = proc[asked[i]]
      /\ next # Key!Idle => asked'[Len(asked) + 1] = p
  BY <1>2 DEF Moved
<1>7. \A i \in 1..Len(answers') :
        /\ NotFound(i)' = NotFound(i + 1) /\ KeyTold(i)' = KeyTold(i + 1)
        /\ ToldKey(i)' = ToldKey(i + 1)
  BY <1>6 DEF NotFound, KeyTold, ToldKey
<1>8. /\ \A i \in 1..Len(asked) : Stores(i)' = Stores(i)
      /\ \A i \in 1..Len(asked') : i \in 1..Len(asked) \/ (next # Key!Idle /\ i = Len(asked) + 1)
      /\ next # Key!Idle =>
           /\ Len(asked) + 1 \in 1..Len(asked')
           /\ \A i \in 1..Len(asked') : i = Len(asked) + 1 => Stores(i)' = (next.call = "setId")
  BY <1>6 DEF Stores
<1>9. SomeNotFound' => SomeNotFound /\ NotFound(1)
  <2>1. ASSUME NEW i \in 1..Len(answers'), NotFound(i)' PROVE SomeNotFound /\ NotFound(1)
    <3>1. NotFound(i + 1) /\ i + 1 \in 1..Len(answers) /\ 1 \in 1..i + 1
      BY <1>6, <1>7, <2>1
    <3> QED BY <3>1 DEF KeyTruth, NothingBefore, SomeNotFound
  <2> QED BY <2>1 DEF SomeNotFound
<1>10. next = Key!Idle \/ next.stage # "idle"
  BY <1>2 DEF Fits
<1>12. Ends(p, v) => held.id # 0 /\ ~SomeNotFound
  BY <1>1 DEF KeyTruth, NothingBefore, Fits, Ends
<1>13. next.use # "unwrap" /\ (proc[p].call = "getId" => ~Ends(p, v))
  BY <1>5 DEF KeyTruth, Truthful, Ends
<1>14. Truthful'
  <2>1. ASSUME NEW i \in 1..Len(answers'), proc'[answers'[i].to].call \in {"setId", "setKey"}
        PROVE  answers'[i].value = TRUE
    <3>1. /\ answers'[i] = answers[i + 1] /\ i + 1 \in 1..Len(answers)
          /\ proc'[answers'[i].to] = proc[answers[i + 1].to]
      BY <1>6
    <3>2. proc[answers[i + 1].to].call \in {"setId", "setKey"}
      BY <2>1, <3>1
    <3>3. answers[i + 1].value = TRUE
      BY <3>1, <3>2 DEF KeyTruth, Truthful
    <3> QED BY <3>1, <3>3
  <2>2. \A q \in Key!Slots : proc'[q].use # "unwrap"
    BY <1>6, <1>13 DEF KeyTruth, Truthful
  <2> QED BY <2>1, <2>2 DEF Truthful
<1>15. NothingBefore'
  <2>1. ASSUME SomeNotFound' PROVE copy'.form # "wrapped" /\ \A q \in Key!Slots : proc'[q].use # "wrap"
    <3>1. /\ NotFound(1) /\ copy.form # "wrapped" /\ \A q \in Key!Slots : proc[q].use # "wrap"
      BY <1>9, <2>1 DEF KeyTruth, NothingBefore
    <3>2. proc[p].call = "getId" /\ v = 0
      BY <1>1, <3>1 DEF NotFound
    <3>3. next.use # "wrap" /\ copy' = copy
      BY <1>1, <1>5, <1>13, <3>1, <3>2
    <3> QED BY <1>6, <3>1, <3>3
  <2>2. ASSUME NEW i \in 1..Len(answers'), NotFound(i)', NEW j \in 1..i PROVE NotFound(j)'
    <3>1. /\ NotFound(i + 1) /\ i + 1 \in 1..Len(answers) /\ j + 1 \in 1..i + 1
          /\ j \in 1..Len(answers')
      BY <1>6, <1>7, <2>2
    <3>2. NotFound(j + 1)
      BY <3>1 DEF KeyTruth, NothingBefore
    <3> QED BY <1>7, <3>1, <3>2
  <2> QED BY <2>1, <2>2 DEF NothingBefore
<1>16. LastKeyHeld'
  <2> SUFFICES ASSUME NEW i \in 1..Len(answers'), KeyTold(i)',
                      \A j \in 1..Len(answers') : j > i => ~KeyTold(j)'
               PROVE  ToldKey(i)' = held'.key
    BY DEF LastKeyHeld
  <2>1. KeyTold(i + 1) /\ i + 1 \in 1..Len(answers)
    BY <1>6, <1>7
  <2>2. ASSUME NEW j \in 1..Len(answers), j > i + 1 PROVE ~KeyTold(j)
    <3>1. j - 1 \in 1..Len(answers') /\ j - 1 > i /\ (j - 1) + 1 = j
      BY <1>6, <2>2
    <3>2. ~KeyTold(j - 1)' /\ KeyTold(j - 1)' = KeyTold((j - 1) + 1)
      BY <1>7, <3>1
    <3> QED BY <3>1, <3>2
  <2>3. ToldKey(i + 1) = held.key
    BY <2>1, <2>2 DEF KeyTruth, LastKeyHeld
  <2> QED BY <1>1, <1>7, <2>3
<1>17. CacheFollows'
  <2> SUFFICES ASSUME held.id # 0
               PROVE  \/ \E q \in Key!Slots : Wraps(q)'
                      \/ copy'.form = "wrapped" /\ copy'.key = held.key
    BY <1>1 DEF CacheFollows
  <2>1. CASE next # Key!Idle
    <3>1. proc'[p].stage # "idle" /\ \A i \in 1..Len(answers') : answers'[i].to # p
      BY <1>6, <1>10, <2>1
    <3>2. Wraps(p)'
      BY <3>1 DEF Wraps
    <3> QED BY <1>1, <3>2
  <2>2. ASSUME NEW q \in Key!Slots, q # p, Wraps(q) PROVE Wraps(q)'
    <3>1. ASSUME NEW i \in 1..Len(answers'), answers'[i].to = q, NotFound(i)'
          PROVE  proc'[q].stage # "load"
      BY <1>6, <1>7, <2>2, <3>1 DEF Wraps
    <3> QED BY <1>6, <2>2, <3>1 DEF Wraps
  <2>3. CASE next = Key!Idle /\ Ends(p, v)
    <3>1. copy'.form = "wrapped" /\ copy'.key = ToldKey(1) /\ KeyTold(1)
      BY <1>3, <2>3 DEF Key!Wrapped, Ends
    <3>2. CASE \A j \in 1..Len(answers) : j > 1 => ~KeyTold(j)
      BY <1>1, <3>1, <3>2 DEF KeyTruth, LastKeyHeld
    <3>3. ASSUME NEW j \in 1..Len(answers), j > 1, KeyTold(j)
          PROVE  \E q \in Key!Slots : Wraps(q)'
      <4>1. j - 1 \in 1..Len(answers') /\ (j - 1) + 1 = j
        BY <1>6, <3>3
      <4>0. answers'[j - 1] = answers[(j - 1) + 1] /\ answers'[j - 1].to \in Key!Slots
        BY <1>6, <4>1
      <4> PICK q \in Key!Slots : q = answers[j].to
        BY <4>1, <4>0
      <4>2. q \in Key!Slots /\ q # p
        <5>1. answers'[j - 1] = answers[j]
          BY <4>0, <4>1
        <5>2. answers'[j - 1].to # p
          BY <1>6, <4>1
        <5> QED BY <5>1, <5>2
      <4>3. proc[q].stage # "idle" /\ proc[q].call # "getId"
        BY <3>3 DEF KeyBase, Waiting, KeyTold
      <4>4. \A i \in 1..Len(answers) : answers[i].to = q => ~NotFound(i)
        BY <4>3 DEF NotFound
      <4>5. Wraps(q)
        BY <4>3, <4>4 DEF Wraps
      <4> QED BY <2>2, <4>2, <4>5
    <3> QED BY <3>1, <3>2, <3>3
  <2>4. CASE next = Key!Idle /\ ~Ends(p, v)
    <3>1. proc[p].call = "getId" /\ v = 0 /\ copy.form = "none" /\ proc[p].stage # "migrate"
      BY <1>5, <2>4
    <3>2. proc[p].stage = "load"
      BY <1>1, <3>1 DEF Fits, Procedure
    <3>3. ~Wraps(p)
      BY <1>1, <1>3, <3>1, <3>2 DEF Wraps
    <3>4. PICK q \in Key!Slots : Wraps(q)
      BY <3>1 DEF KeyTruth, CacheFollows
    <3> QED BY <2>2, <3>3, <3>4
  <2> QED BY <2>1, <2>3, <2>4
<1>18. next.call = "setId" => next.id = mine
  <2>1. NotFound(1) => SomeNotFound
    BY <1>1 DEF SomeNotFound
  <2>2. NotFound(1) => copy.id = mine
    BY <2>1 DEF KeyTruth, LastStored
  <2> QED BY <1>3, <1>5, <2>2
<1>19. LastStored'
  <2>1. ASSUME NEW i \in 1..Len(asked'), Stores(i)',
               \A j \in 1..Len(asked') : j > i => ~Stores(j)'
        PROVE  proc'[asked'[i]].id = mine
    <3>1. CASE i \in 1..Len(asked)
      <4>1. \A j \in 1..Len(asked) : j > i => ~Stores(j)
        BY <1>6, <1>8, <2>1
      <4> QED BY <1>6, <1>8, <2>1, <3>1, <4>1 DEF KeyTruth, LastStored
    <3>2. CASE next # Key!Idle /\ i = Len(asked) + 1
      <4>1. asked'[i] = p /\ proc'[p] = next /\ next.call = "setId"
        BY <1>6, <1>8, <2>1, <3>2
      <4> QED BY <1>18, <4>1
    <3> QED BY <1>8, <3>1, <3>2
  <2>2. (\A i \in 1..Len(asked') : ~Stores(i)') => held'.id \in {0, mine'}
    <3>1. ASSUME \A i \in 1..Len(asked') : ~Stores(i)' PROVE \A i \in 1..Len(asked) : ~Stores(i)
      BY <1>6, <1>8, <3>1
    <3> QED BY <1>1, <3>1 DEF KeyTruth, LastStored
  <2>3. held'.id = 0 \/ SomeNotFound' => /\ copy'.form # "wrapped" /\ copy'.id = mine'
                                         /\ shown' \in {0, mine'}
    BY <1>1, <1>5, <1>9, <1>12 DEF KeyTruth, LastStored
  <2> QED BY <1>1, <2>1, <2>2, <2>3 DEF LastStored
<1>20. ASSUME ~hasty, NEW q \in Key!Slots, q # p, proc'[q].live PROVE LoadsMine(q)'
  <2>1. proc'[q] = proc[q] /\ LoadsMine(q) /\ ~proc[p].live
    BY <1>1, <1>6, <1>20 DEF KeyTruth, ShowsMine
  <2>2. shown' = 0
    BY <1>5, <2>1 DEF LoadsMine, Shows, Ends
  <2>3. \A i \in 1..Len(answers') : answers'[i].to = q /\ proc'[q].call = "getId"
                                      => answers'[i].value \in {0, mine'}
    BY <1>1, <1>6, <2>1 DEF LoadsMine
  <2>4. ASSUME NEW n \in 1..Len(asked'), asked'[n] = q, proc'[q].call = "getId"
        PROVE  /\ \A i \in 1..n : Stores(i)' /\ (\A j \in 1..n : j > i => ~Stores(j)')
                                  => proc'[asked'[i]].id = mine'
               /\ (\A i \in 1..n : ~Stores(i)') => held'.id \in {0, mine'}
    <3>1. n \in 1..Len(asked) /\ asked[n] = q /\ proc[q].call = "getId"
      BY <1>6, <1>8, <1>20, <2>1, <2>4
    <3>2. \A i \in 1..n : i \in 1..Len(asked) /\ Stores(i)' = Stores(i)
                          /\ proc'[asked'[i]] = proc[asked[i]]
      BY <1>6, <1>8, <3>1
    <3> QED BY <1>1, <2>1, <3>1, <3>2 DEF LoadsMine
  <2>5. proc'[q].call \in {"setId", "getKey", "setKey"} => proc'[q].id = mine'
    BY <1>1, <2>1 DEF LoadsMine
  <2> QED BY <2>2, <2>3, <2>4, <2>5 DEF LoadsMine
<1>21. ASSUME ~hasty, next.live PROVE LoadsMine(p)'
  <2>1. proc[p].live /\ LoadsMine(p) /\ next # Key!Idle
    BY <1>1, <1>5, <1>21, IdleIs DEF KeyTruth, ShowsMine
  <2>2. shown' = 0
    <3>1. Ends(p, v) => proc[p].stage = "migrate"
      BY <1>5, <2>1 DEF Onward
    <3> QED BY <1>5, <2>1, <3>1 DEF LoadsMine, Shows, Ends
  <2>3. next.call \in {"setId", "getKey", "setKey"} => next.id = mine
    <3>1. proc[p].call = "getId" => v \in {0, mine}
      BY <1>1, <2>1 DEF LoadsMine
    <3>2. proc[p].call \in {"setId", "getKey", "setKey"} => proc[p].id = mine
      BY <2>1 DEF LoadsMine
    <3> QED BY <1>5, <1>18, <3>1, <3>2
  <2>4. ASSUME NEW n \in 1..Len(asked'), asked'[n] = p, next.call = "getId"
        PROVE  /\ \A i \in 1..n : Stores(i)' /\ (\A j \in 1..n : j > i => ~Stores(j)')
                                  => proc'[asked'[i]].id = mine'
               /\ (\A i \in 1..n : ~Stores(i)') => held'.id \in {0, mine'}
    <3>1. n = Len(asked) + 1
      BY <1>6, <1>8, <2>4
    <3>2. ~Stores(n)'
      BY <1>8, <2>1, <2>4, <3>1
    <3>3. ASSUME NEW i \in 1..n, Stores(i)', \A j \in 1..n : j > i => ~Stores(j)'
          PROVE  proc'[asked'[i]].id = mine'
      <4>1. i \in 1..Len(asked) /\ proc'[asked'[i]] = proc[asked[i]] /\ Stores(i)
        BY <1>6, <1>8, <3>1, <3>2, <3>3
      <4>2. \A j \in 1..Len(asked) : j > i => ~Stores(j)
        BY <1>6, <1>8, <3>1, <3>3
      <4> QED BY <1>1, <4>1, <4>2 DEF KeyTruth, LastStored
    <3>4. ASSUME \A i \in 1..n : ~Stores(i)' PROVE held'.id \in {0, mine'}
      <4>1. \A i \in 1..Len(asked) : ~Stores(i)
        BY <1>6, <1>8, <3>1, <3>4
      <4> QED BY <1>1, <4>1 DEF KeyTruth, LastStored
    <3> QED BY <3>3, <3>4
  <2>5. \A i \in 1..Len(answers') : answers'[i].to # p
    BY <1>6
  <2> QED BY <1>1, <1>6, <2>2, <2>3, <2>4, <2>5 DEF LoadsMine
<1>22. ShowsMine'
  <2>1. \A q, r \in Key!Slots : proc'[q].live /\ proc'[r].live => q = r
    <3>1. \A q \in Key!Slots : proc'[q].live => proc[q].live
      BY <1>5, <1>6
    <3> QED BY <3>1 DEF KeyTruth, ShowsMine
  <2>2. ~hasty' => \A q \in Key!Slots : proc'[q].live => LoadsMine(q)'
    BY <1>1, <1>6, <1>20, <1>21
  <2>3. ASSUME ~hasty, \A q \in Key!Slots : ~proc'[q].live PROVE shown' = mine
    <3>1. \A q \in Key!Slots : q # p => ~proc[q].live
      BY <1>6, <2>3
    <3>2. CASE ~proc[p].live
      <4>1. shown' = shown
        BY <1>5, <3>2 DEF Shows, Ends
      <4>2. \A q \in Key!Slots : ~proc[q].live
        BY <3>1, <3>2
      <4> QED BY <2>3, <4>1, <4>2 DEF KeyTruth, ShowsMine
    <3>3. CASE proc[p].live
      <4>1. ~next.live /\ LoadsMine(p)
        BY <1>1, <1>6, <2>3, <3>3 DEF KeyTruth, ShowsMine
      <4>2. proc[p].stage # "migrate"
        BY <1>5, <3>3, <4>1
      <4>3. proc[p].stage = "load"
        BY <1>1, <3>3, <4>2 DEF Fits, Procedure
      <4>4. CASE Ends(p, v)
        <5>1. proc[p].id = mine
          BY <4>1, <4>4 DEF LoadsMine, Ends
        <5> QED BY <3>3, <4>3, <4>4, <5>1 DEF Shows, Ends
      <4>5. CASE ~Ends(p, v)
        <5>1. proc[p].call = "getId" /\ v = 0 /\ copy.form = "none"
          BY <1>5, <3>3, <4>1, <4>5
        <5>2. copy.id = mine /\ copy.id = 0
          BY <1>1, <1>3, <5>1 DEF KeyTruth, LastStored, SomeNotFound, KeyBase, HeldOnce
        <5> QED BY <1>5, <4>1, <4>5, <5>2 DEF LoadsMine
      <4> QED BY <4>4, <4>5
    <3> QED BY <3>2, <3>3
  <2> QED BY <1>1, <2>1, <2>2, <2>3 DEF ShowsMine
<1> QED BY <1>14, <1>15, <1>16, <1>17, <1>19, <1>22 DEF KeyTruth

LEMMA ServeTruth ==
  ASSUME KeyBase, KeyTruth, Key!Serve
  PROVE  KeyTruth'
<1>0. /\ \E q \in Key!Slots : q = asked[1]
      /\ \E w : w = Key!Result(asked[1])
  BY ServeDoes DEF Handed
<1> PICK p \in Key!Slots : p = asked[1]
  BY <1>0
<1> PICK v : v = Key!Result(p)
  BY <1>0
<1>1. /\ Handed(p, v) /\ UNCHANGED <<plugin, copy, shown, refusals, mine, hasty>>
      /\ held'.id = IF proc[p].call = "setId" THEN proc[p].id ELSE held.id
      /\ held'.key = IF proc[p].call = "setKey" THEN proc[p].key ELSE held.key
      /\ proc[p].call = "getId" => v = held.id
      /\ proc[p].call = "getKey" => v = held.key
      /\ proc[p].call \in {"setId", "setKey"} => v = TRUE
      /\ proc[p].call = "setId" => proc[p].id # 0
  BY ServeDoes
<1>2. /\ proc' = proc /\ Len(answers) \in Nat /\ Len(answers') = Len(answers) + 1
      /\ \A i \in 1..Len(answers) : /\ answers'[i] = answers[i] /\ answers[i].to # p
                                    /\ answers[i].to \in Key!Slots
      /\ answers'[Len(answers) + 1].to = p /\ answers'[Len(answers) + 1].value = v
      /\ Len(asked') \in Nat /\ Len(asked) = Len(asked') + 1 /\ 1 \in 1..Len(asked)
      /\ \A i \in 1..Len(asked') : /\ asked'[i] = asked[i + 1] /\ i + 1 \in 1..Len(asked)
                                   /\ asked'[i] # p
  BY <1>1 DEF Handed
<1>3. proc[p].stage # "idle" /\ Fits(proc[p]) /\ proc[p] \in Procedure
  <2>1. proc[p].stage # "idle"
    <3>1. p = asked[1] /\ 1 \in 1..Len(asked)
      BY <1>2
    <3> QED BY <3>1 DEF KeyBase, Waiting
  <2>2. Fits(proc[p])
    BY DEF KeyBase, ProcsFit
  <2>3. proc[p] \in Procedure
    BY DEF KeyBase, KeyTypes
  <2> QED BY <2>1, <2>2, <2>3
<1>4. \A i \in 1..Len(answers') : i \in 1..Len(answers) \/ i = Len(answers) + 1
  BY <1>2
<1>5. /\ \A i \in 1..Len(answers) : /\ NotFound(i)' = NotFound(i) /\ KeyTold(i)' = KeyTold(i)
                                    /\ ToldKey(i)' = ToldKey(i)
      /\ Len(answers) + 1 \in 1..Len(answers')
      /\ \A i \in 1..Len(answers') : i = Len(answers) + 1 =>
           /\ NotFound(i)' <=> (proc[p].call = "getId" /\ v = 0)
           /\ KeyTold(i)' <=> ((proc[p].call = "getKey" /\ v # 0) \/ proc[p].call = "setKey")
           /\ ToldKey(i)' = IF proc[p].call = "getKey" THEN v ELSE proc[p].key
  <2>1. \A i \in 1..Len(answers) : /\ NotFound(i)' = NotFound(i) /\ KeyTold(i)' = KeyTold(i)
                                   /\ ToldKey(i)' = ToldKey(i)
    BY <1>2 DEF NotFound, KeyTold, ToldKey
  <2>2. ASSUME NEW i \in 1..Len(answers'), i = Len(answers) + 1
        PROVE  /\ NotFound(i)' <=> (proc[p].call = "getId" /\ v = 0)
               /\ KeyTold(i)' <=> ((proc[p].call = "getKey" /\ v # 0) \/ proc[p].call = "setKey")
               /\ ToldKey(i)' = IF proc[p].call = "getKey" THEN v ELSE proc[p].key
    <3>1. answers'[i].to = p /\ answers'[i].value = v /\ proc' = proc
      BY <1>2, <2>2
    <3> QED BY <3>1 DEF NotFound, KeyTold, ToldKey
  <2>3. Len(answers) + 1 \in 1..Len(answers')
    BY <1>2
  <2> QED BY <2>1, <2>2, <2>3
<1>6. \A i \in 1..Len(asked') : Stores(i)' = Stores(i + 1)
  BY <1>2 DEF Stores
<1>7. Stores(1) = (proc[p].call = "setId")
  BY DEF Stores
\* While nothing is stored, nothing was found.
<1>8. ASSUME held.id = 0
      PROVE  /\ copy.form # "wrapped" /\ \A q \in Key!Slots : proc[q].use # "wrap"
             /\ \A j \in 1..Len(answers) : NotFound(j)
  <2>1. copy.form # "wrapped" /\ \A q \in Key!Slots : Fits(proc[q]) /\ proc[q].use = "none"
    BY <1>8 DEF KeyBase, HeldOnce, ProcsFit, Fits, KeyTypes, Procedure
  <2>2. ASSUME NEW j \in 1..Len(answers) PROVE NotFound(j)
    <3>1. /\ answers[j].to \in Key!Slots /\ proc[answers[j].to].stage # "idle"
          /\ proc[answers[j].to].call = "getId" => answers[j].value = 0
          /\ proc[answers[j].to].call = "setId" => answers[j].value # TRUE
          /\ proc[answers[j].to].call = "setId" => answers[j].value = TRUE
      BY <1>2, <1>8 DEF KeyBase, Waiting, HeldOnce, KeyTruth, Truthful
    <3>2. proc[answers[j].to].call \notin {"getKey", "setKey", "none"}
      BY <2>1, <3>1 DEF Fits
    <3>3. proc[answers[j].to].call = "getId"
      BY <3>1, <3>2 DEF KeyBase, KeyTypes, Procedure
    <3> QED BY <3>1, <3>3 DEF NotFound
  <2> QED BY <2>1, <2>2
<1>9. SomeNotFound' => SomeNotFound \/ held.id = 0
  BY <1>1, <1>4, <1>5 DEF SomeNotFound
<1>10. Truthful'
  <2>1. \A i \in 1..Len(answers') :
          proc'[answers'[i].to].call \in {"setId", "setKey"} => answers'[i].value = TRUE
    BY <1>1, <1>2, <1>4 DEF KeyTruth, Truthful
  <2> QED BY <1>2, <2>1 DEF KeyTruth, Truthful
<1>11. NothingBefore'
  <2>1. SomeNotFound' => copy'.form # "wrapped" /\ \A q \in Key!Slots : proc'[q].use # "wrap"
    BY <1>1, <1>2, <1>8, <1>9 DEF KeyTruth, NothingBefore
  <2>2. ASSUME NEW i \in 1..Len(answers'), NotFound(i)', NEW j \in 1..i PROVE NotFound(j)'
    <3>1. CASE i \in 1..Len(answers)
      <4>1. j \in 1..Len(answers) /\ NotFound(i)
        BY <1>2, <1>5, <2>2, <3>1
      <4>2. NotFound(j)
        BY <2>2, <3>1, <4>1 DEF KeyTruth, NothingBefore
      <4> QED BY <1>5, <4>1, <4>2
    <3>2. CASE i = Len(answers) + 1
      <4>1. held.id = 0
        BY <1>1, <1>5, <2>2, <3>2
      <4>2. j \in 1..Len(answers) \/ j = i
        BY <1>2, <2>2, <3>2
      <4> QED BY <1>5, <1>8, <2>2, <4>1, <4>2
    <3> QED BY <1>4, <3>1, <3>2
  <2> QED BY <2>1, <2>2 DEF NothingBefore
<1>12. LastKeyHeld'
  <2> SUFFICES ASSUME NEW i \in 1..Len(answers'), KeyTold(i)',
                      \A j \in 1..Len(answers') : j > i => ~KeyTold(j)'
               PROVE  ToldKey(i)' = held'.key
    BY DEF LastKeyHeld
  <2>1. CASE i = Len(answers) + 1
    BY <1>1, <1>5, <2>1
  <2>2. CASE i \in 1..Len(answers)
    <3>1. \A j \in 1..Len(answers') : j = Len(answers) + 1 => ~KeyTold(j)'
      BY <1>2, <1>5, <2>2
    <3>2. \A j \in 1..Len(answers) : j > i => ~KeyTold(j)
      BY <1>2, <1>5, <2>2
    <3>3. ToldKey(i) = held.key
      BY <1>5, <2>2, <3>2 DEF KeyTruth, LastKeyHeld
    <3>4. proc[p].call # "setKey"
      <4>1. Len(answers) + 1 > i /\ Len(answers) + 1 \in 1..Len(answers')
        BY <1>2, <2>2
      <4> QED BY <1>5, <3>1, <4>1
    <3> QED BY <1>1, <1>5, <2>2, <3>3, <3>4
  <2> QED BY <1>4, <2>1, <2>2
<1>13. CacheFollows'
  <2> SUFFICES ASSUME held'.id # 0
               PROVE  \/ \E q \in Key!Slots : Wraps(q)'
                      \/ copy'.form = "wrapped" /\ copy'.key = held'.key
    BY DEF CacheFollows
  <2>1. CASE proc[p].call \in {"setId", "setKey"}
    <3>1. \A i \in 1..Len(answers') : answers'[i].to = p => ~NotFound(i)'
      BY <1>2, <1>4, <1>5, <2>1
    <3>2. Wraps(p)'
      BY <1>2, <1>3, <3>1 DEF Wraps
    <3> QED BY <3>2
  <2>2. CASE proc[p].call \notin {"setId", "setKey"}
    <3>1. held.id # 0 /\ held'.key = held.key /\ copy' = copy
      BY <1>1, <2>2
    <3>2. ASSUME NEW q \in Key!Slots, Wraps(q) PROVE Wraps(q)'
      <4>1. \A i \in 1..Len(answers') :
              answers'[i].to = q /\ NotFound(i)' => proc'[q].stage # "load"
        BY <1>1, <1>2, <1>4, <1>5, <3>1, <3>2 DEF Wraps
      <4> QED BY <1>2, <3>2, <4>1 DEF Wraps
    <3> QED BY <3>1, <3>2 DEF KeyTruth, CacheFollows
  <2> QED BY <2>1, <2>2
<1>14. ASSUME NEW i \in 1..Len(asked'), Stores(i)', NEW n \in 1..Len(asked), n >= i + 1,
              \A j \in 1..n - 1 : j > i => ~Stores(j)'
       PROVE  /\ Stores(i + 1) /\ proc'[asked'[i]] = proc[asked[i + 1]] /\ i + 1 \in 1..n
              /\ \A j \in 1..n : j > i + 1 => ~Stores(j)
  <2>1. ASSUME NEW j \in 1..n, j > i + 1 PROVE ~Stores(j)
    <3>1. j - 1 \in 1..n - 1 /\ j - 1 > i /\ j - 1 \in 1..Len(asked') /\ (j - 1) + 1 = j
      BY <1>2, <1>14, <2>1
    <3>2. ~Stores(j - 1)' /\ Stores(j - 1)' = Stores((j - 1) + 1)
      BY <1>6, <1>14, <3>1
    <3> QED BY <3>1, <3>2
  <2>2. i + 1 \in 1..n
    BY <1>2, <1>14
  <2> QED BY <1>2, <1>6, <1>14, <2>1, <2>2
\* With nothing more to store, the keystore has what the last call stores.
<1>15. ASSUME NEW n \in 1..Len(asked), \A j \in 1..n - 1 : ~Stores(j)'
       PROVE  \A j \in 1..n : j > 1 => ~Stores(j)
  <2>1. ASSUME NEW j \in 1..n, j > 1 PROVE ~Stores(j)
    <3>1. j - 1 \in 1..n - 1 /\ j - 1 \in 1..Len(asked') /\ (j - 1) + 1 = j
      BY <1>2, <1>15, <2>1
    <3>2. ~Stores(j - 1)' /\ Stores(j - 1)' = Stores((j - 1) + 1)
      BY <1>6, <1>15, <3>1
    <3> QED BY <3>1, <3>2
  <2> QED BY <2>1
<1>16. LastStored'
  <2>1. ASSUME NEW i \in 1..Len(asked'), Stores(i)',
               \A j \in 1..Len(asked') : j > i => ~Stores(j)'
        PROVE  proc'[asked'[i]].id = mine
    <3>1. Len(asked) \in 1..Len(asked) /\ Len(asked) >= i + 1 /\ Len(asked) - 1 = Len(asked')
      BY <1>2
    <3>2. /\ Stores(i + 1) /\ proc'[asked'[i]] = proc[asked[i + 1]] /\ i + 1 \in 1..Len(asked)
          /\ \A j \in 1..Len(asked) : j > i + 1 => ~Stores(j)
      BY <1>14, <2>1, <3>1
    <3> QED BY <3>2 DEF KeyTruth, LastStored
  <2>2. ASSUME \A i \in 1..Len(asked') : ~Stores(i)' PROVE held'.id \in {0, mine'}
    <3>1. Len(asked) \in 1..Len(asked) /\ Len(asked) - 1 = Len(asked')
      BY <1>2
    <3>2. \A j \in 1..Len(asked) : j > 1 => ~Stores(j)
      BY <1>15, <2>2, <3>1
    <3>3. CASE Stores(1)
      <4>1. proc[asked[1]].id = mine
        BY <1>2, <3>2, <3>3 DEF KeyTruth, LastStored
      <4> QED BY <1>1, <1>7, <3>3, <4>1
    <3>4. CASE ~Stores(1)
      <4>1. \A j \in 1..Len(asked) : ~Stores(j)
        BY <1>2, <3>2, <3>4
      <4> QED BY <1>1, <1>7, <3>4, <4>1 DEF KeyTruth, LastStored
    <3> QED BY <3>3, <3>4
  <2>3. held'.id = 0 \/ SomeNotFound' => /\ copy'.form # "wrapped" /\ copy'.id = mine'
                                         /\ shown' \in {0, mine'}
    BY <1>1, <1>9 DEF KeyTruth, LastStored
  <2> QED BY <1>1, <2>1, <2>2, <2>3 DEF LastStored
<1>17. ASSUME ~hasty, NEW q \in Key!Slots, proc'[q].live PROVE LoadsMine(q)'
  <2>1. LoadsMine(q) /\ proc'[q] = proc[q]
    BY <1>2, <1>17 DEF KeyTruth, ShowsMine
  <2>2. ASSUME NEW i \in 1..Len(answers'), answers'[i].to = q, proc'[q].call = "getId"
        PROVE  answers'[i].value \in {0, mine'}
    <3>1. CASE i \in 1..Len(answers)
      BY <1>1, <1>2, <2>1, <2>2, <3>1 DEF LoadsMine
    <3>2. CASE i = Len(answers) + 1
      <4>1. q = p /\ proc[p].call = "getId" /\ answers'[i].value = held.id
        BY <1>1, <1>2, <2>1, <2>2, <3>2
      <4>2. \A j \in 1..1 : ~Stores(j)
        <5>1. ~Stores(1)
          BY <1>7, <4>1
        <5> QED BY <5>1
      <4>3. held.id \in {0, mine}
        BY <1>2, <2>1, <4>1, <4>2 DEF LoadsMine
      <4> QED BY <1>1, <4>1, <4>3
    <3> QED BY <1>4, <3>1, <3>2
  <2>3. ASSUME NEW m \in 1..Len(asked'), asked'[m] = q, proc'[q].call = "getId"
        PROVE  /\ \A i \in 1..m : Stores(i)' /\ (\A j \in 1..m : j > i => ~Stores(j)')
                                  => proc'[asked'[i]].id = mine'
               /\ (\A i \in 1..m : ~Stores(i)') => held'.id \in {0, mine'}
    <3>1. m + 1 \in 1..Len(asked) /\ asked[m + 1] = q /\ proc[q].call = "getId" /\ (m + 1) - 1 = m
      BY <1>2, <2>1, <2>3
    <3>2. /\ \A i \in 1..m + 1 : Stores(i) /\ (\A j \in 1..m + 1 : j > i => ~Stores(j))
                                 => proc[asked[i]].id = mine
          /\ (\A i \in 1..m + 1 : ~Stores(i)) => held.id \in {0, mine}
      BY <2>1, <3>1 DEF LoadsMine
    <3>3. ASSUME NEW i \in 1..m, Stores(i)', \A j \in 1..m : j > i => ~Stores(j)'
          PROVE  proc'[asked'[i]].id = mine'
      <4>1. i \in 1..Len(asked') /\ m + 1 >= i + 1
        BY <1>2, <3>1, <3>3
      <4>2. /\ Stores(i + 1) /\ proc'[asked'[i]] = proc[asked[i + 1]] /\ i + 1 \in 1..m + 1
            /\ \A j \in 1..m + 1 : j > i + 1 => ~Stores(j)
        BY <1>14, <3>1, <3>3, <4>1
      <4> QED BY <1>1, <3>2, <4>2
    <3>4. ASSUME \A i \in 1..m : ~Stores(i)' PROVE held'.id \in {0, mine'}
      <4>1. \A j \in 1..m + 1 : j > 1 => ~Stores(j)
        BY <1>15, <3>1, <3>4
      <4>2. CASE Stores(1)
        <5>1. 1 \in 1..m + 1
          BY <1>2, <3>1
        <5>2. proc[asked[1]].id = mine
          BY <3>2, <4>1, <4>2, <5>1
        <5> QED BY <1>1, <1>7, <4>2, <5>2
      <4>3. CASE ~Stores(1)
        <5>1. \A j \in 1..m + 1 : ~Stores(j)
          BY <4>1, <4>3
        <5> QED BY <1>1, <1>7, <3>2, <4>3, <5>1
      <4> QED BY <4>2, <4>3
    <3> QED BY <3>3, <3>4
  <2>4. shown' = 0 /\ (proc'[q].call \in {"setId", "getKey", "setKey"} => proc'[q].id = mine')
    BY <1>1, <2>1 DEF LoadsMine
  <2> QED BY <2>2, <2>3, <2>4 DEF LoadsMine
<1>18. ShowsMine'
  BY <1>1, <1>2, <1>17 DEF KeyTruth, ShowsMine
<1> QED BY <1>10, <1>11, <1>12, <1>13, <1>16, <1>18 DEF KeyTruth

(* The user begins a procedure: to start, or to store what is adopted.      *)
LEMMA SpawnedTruth ==
  ASSUME KeyBase, KeyTruth, NEW p, NEW start, Spawned(p, start), start.stage # "idle",
         start.use = "none", start.call = "getId" \/ (start.call = "setId" /\ start.id = mine'),
         start.call = "getId" => mine' = mine, held' = held,
         copy' = copy \/ copy'.form # "wrapped",
         held.id = 0 \/ SomeNotFound => /\ copy'.form # "wrapped" /\ copy'.id = mine'
                                        /\ shown' \in {0, mine'}
  PROVE  /\ Truthful' /\ NothingBefore' /\ LastKeyHeld' /\ CacheFollows' /\ LastStored'
         /\ start.call = "getId" /\ shown' = 0 => LoadsMine(p)'
<1>1. /\ p \in Key!Slots /\ answers' = answers /\ proc'[p] = start
      /\ \A i \in 1..Len(answers) : /\ answers[i].to # p /\ answers[i].to \in Key!Slots
                                    /\ Same(proc'[answers[i].to], proc[answers[i].to])
      /\ \A q \in Key!Slots : q # p => Same(proc'[q], proc[q])
      /\ Len(asked) \in Nat /\ Len(asked') = Len(asked) + 1
      /\ \A i \in 1..Len(asked) : /\ asked'[i] = asked[i] /\ asked[i] # p
                                  /\ Same(proc'[asked'[i]], proc[asked[i]])
      /\ asked'[Len(asked) + 1] = p
  BY DEF Spawned
<1>2. \A i \in 1..Len(answers) : /\ NotFound(i)' = NotFound(i) /\ KeyTold(i)' = KeyTold(i)
                                 /\ ToldKey(i)' = ToldKey(i)
  BY <1>1 DEF Same, NotFound, KeyTold, ToldKey
<1>3. \A i \in 1..Len(asked) : Stores(i)' = Stores(i) /\ proc'[asked'[i]].id = proc[asked[i]].id
  BY <1>1 DEF Same, Stores
<1>4. /\ \A i \in 1..Len(asked') : i \in 1..Len(asked) \/ i = Len(asked) + 1
      /\ Len(asked) + 1 \in 1..Len(asked')
      /\ \A i \in 1..Len(asked') : i = Len(asked) + 1 => (Stores(i)' <=> start.call = "setId")
  <2>1. ASSUME NEW i \in 1..Len(asked'), i = Len(asked) + 1
        PROVE  Stores(i)' <=> start.call = "setId"
    <3>1. proc'[asked'[i]] = start
      BY <1>1, <2>1
    <3> QED BY <3>1 DEF Stores
  <2> QED BY <1>1, <2>1
<1>5. SomeNotFound' => SomeNotFound
  BY <1>1, <1>2 DEF SomeNotFound
<1>6. Truthful'
  <2>1. \A i \in 1..Len(answers') :
          proc'[answers'[i].to].call \in {"setId", "setKey"} => answers'[i].value = TRUE
    BY <1>1 DEF Same, KeyTruth, Truthful
  <2>2. \A q \in Key!Slots : proc'[q].use # "unwrap"
    BY <1>1 DEF Same, KeyTruth, Truthful
  <2> QED BY <2>1, <2>2 DEF Truthful
<1>7. NothingBefore'
  <2>1. SomeNotFound' => copy'.form # "wrapped" /\ \A q \in Key!Slots : proc'[q].use # "wrap"
    BY <1>1, <1>5 DEF Same, KeyTruth, NothingBefore
  <2>2. \A i \in 1..Len(answers') : NotFound(i)' => \A j \in 1..i : NotFound(j)'
    BY <1>1, <1>2 DEF KeyTruth, NothingBefore, KeyBase, KeyTypes
  <2> QED BY <2>1, <2>2 DEF NothingBefore
<1>8. LastKeyHeld'
  BY <1>1, <1>2 DEF KeyTruth, LastKeyHeld
<1>9. CacheFollows'
  <2>1. Wraps(p)'
    BY <1>1 DEF Wraps
  <2> QED BY <1>1, <2>1 DEF CacheFollows
<1>10. LastStored'
  <2>1. ASSUME NEW i \in 1..Len(asked'), Stores(i)',
               \A j \in 1..Len(asked') : j > i => ~Stores(j)'
        PROVE  proc'[asked'[i]].id = mine'
    <3>1. CASE i = Len(asked) + 1
      <4>1. start.call = "setId" /\ proc'[asked'[i]] = start
        BY <1>1, <1>4, <2>1, <3>1
      <4> QED BY <4>1
    <3>2. CASE i \in 1..Len(asked)
      <4>1. Len(asked) + 1 > i /\ start.call # "setId"
        BY <1>1, <1>4, <2>1, <3>2
      <4>2. \A j \in 1..Len(asked) : j > i => ~Stores(j)
        BY <1>1, <1>3, <2>1
      <4>3. proc[asked[i]].id = mine
        BY <1>3, <2>1, <3>2, <4>2 DEF KeyTruth, LastStored
      <4> QED BY <1>3, <3>2, <4>1, <4>3
    <3> QED BY <1>4, <3>1, <3>2
  <2>2. ASSUME \A i \in 1..Len(asked') : ~Stores(i)' PROVE held'.id \in {0, mine'}
    <3>1. start.call # "setId" /\ \A i \in 1..Len(asked) : ~Stores(i)
      BY <1>1, <1>3, <1>4, <2>2
    <3> QED BY <3>1 DEF KeyTruth, LastStored
  <2> QED BY <1>5, <2>1, <2>2 DEF LastStored
<1>11. ASSUME start.call = "getId", shown' = 0 PROVE LoadsMine(p)'
  <2>1. ASSUME NEW n \in 1..Len(asked'), asked'[n] = p
        PROVE  /\ \A i \in 1..n : Stores(i)' /\ (\A j \in 1..n : j > i => ~Stores(j)')
                                  => proc'[asked'[i]].id = mine'
               /\ (\A i \in 1..n : ~Stores(i)') => held'.id \in {0, mine'}
    <3>1. n = Len(asked) + 1 /\ n = Len(asked')
      BY <1>1, <1>4, <2>1
    <3> QED BY <1>10, <3>1 DEF LastStored
  <2>2. \A i \in 1..Len(answers') : answers'[i].to # p
    BY <1>1
  <2> QED BY <1>1, <1>11, <2>1, <2>2 DEF LoadsMine
<1> QED BY <1>6, <1>7, <1>8, <1>9, <1>10, <1>11

(* One adopted while nothing loads is the one shown.                        *)
LEMMA AdoptedShown ==
  ASSUME KeyTypes, ShowsMine, NEW p, NEW start, Spawned(p, start), ~start.live,
         \A q \in Key!Slots : q # p => proc'[q] = proc[q],
         hasty' = (hasty \/ Key!Loading # {}), shown' = mine'
  PROVE  ShowsMine'
<1>1. \A q \in Key!Slots : proc'[q].live => proc[q].live /\ q # p
  BY DEF Spawned
<1>2. \A q, r \in Key!Slots : proc'[q].live /\ proc'[r].live => q = r
  BY <1>1 DEF ShowsMine
<1>3. ~hasty' => \A q \in Key!Slots : ~proc'[q].live
  <2>1. ASSUME ~hasty', NEW q \in Key!Slots, proc'[q].live PROVE FALSE
    <3>1. proc[q].live /\ proc[q] # Key!Idle
      BY <1>1, <2>1, IdleIs
    <3>2. q \in Key!Loading
      BY <3>1 DEF Key!Loading, Key!Busy
    <3> QED BY <2>1, <3>2
  <2> QED BY <2>1
<1> QED BY <1>2, <1>3 DEF ShowsMine

LEMMA AdoptTruth ==
  ASSUME KeyBase, KeyTruth, plugin, NEW id \in Identities, Key!Adopt(id)
  PROVE  KeyTruth'
<1>1. /\ copy' = Key!Plain(id) /\ shown' = id /\ mine' = id
      /\ hasty' = (hasty \/ Key!Loading # {}) /\ UNCHANGED <<plugin, held, answers, refusals>>
      /\ Key!Spawn(Adopting(id), proc)
  BY DEF Key!Adopt, Adopting
<1>2. PICK p \in Key!Slots : /\ Spawned(p, Adopting(id))
                             /\ \A q \in Key!Slots : q # p => proc'[q] = proc[q]
  BY <1>1, AdoptingSpawns
<1>3. copy'.form = "plain" /\ copy'.id = id
  BY <1>1 DEF Key!Plain
<1>4. /\ Adopting(id).stage = "adopt" /\ Adopting(id).call = "setId" /\ Adopting(id).id = id
      /\ Adopting(id).use = "none" /\ ~Adopting(id).live
  BY StartsFit
<1>5. /\ Truthful' /\ NothingBefore' /\ LastKeyHeld' /\ CacheFollows' /\ LastStored'
  BY <1>1, <1>2, <1>3, <1>4, SpawnedTruth
<1>6. ShowsMine'
  BY <1>1, <1>2, <1>4, AdoptedShown DEF KeyBase, KeyTruth
<1> QED BY <1>5, <1>6 DEF KeyTruth

LEMMA CopyInviteTruth ==
  ASSUME KeyBase, KeyTruth, plugin, Key!CopyInvite
  PROVE  KeyTruth'
<1>1. /\ shown # 0 /\ shown' = shown /\ mine' = shown /\ copy' = copy
      /\ hasty' = (hasty \/ Key!Loading # {}) /\ UNCHANGED <<plugin, held, answers, refusals>>
      /\ Key!Spawn(Adopting(shown), proc)
  BY DEF Key!CopyInvite, Adopting
<1>2. shown \in Identities
  BY <1>1 DEF KeyBase, KeyTypes
<1>3. PICK p \in Key!Slots : /\ Spawned(p, Adopting(shown))
                             /\ \A q \in Key!Slots : q # p => proc'[q] = proc[q]
  BY <1>1, <1>2, AdoptingSpawns
<1>4. /\ Adopting(shown).stage = "adopt" /\ Adopting(shown).call = "setId"
      /\ Adopting(shown).id = shown /\ Adopting(shown).use = "none" /\ ~Adopting(shown).live
  BY <1>2, StartsFit
<1>5. held.id = 0 \/ SomeNotFound => /\ copy'.form # "wrapped" /\ copy'.id = mine'
                                     /\ shown' \in {0, mine'}
  BY <1>1 DEF KeyTruth, LastStored
<1>6. /\ Truthful' /\ NothingBefore' /\ LastKeyHeld' /\ CacheFollows' /\ LastStored'
  BY <1>1, <1>3, <1>4, <1>5, SpawnedTruth
<1>7. ShowsMine'
  BY <1>1, <1>3, <1>4, AdoptedShown DEF KeyBase, KeyTruth
<1> QED BY <1>6, <1>7 DEF KeyTruth

LEMMA MountTruth ==
  ASSUME KeyBase, KeyTruth, plugin, Key!Mount
  PROVE  KeyTruth'
<1>1. /\ shown' = 0 /\ hasty' = FALSE
      /\ UNCHANGED <<plugin, held, copy, answers, refusals, mine>>
      /\ Key!Spawn(Key!Starting, Left)
  BY DEF Key!Mount, Left
<1>2. PICK p \in Key!Slots : /\ Spawned(p, Key!Starting)
                             /\ \A q \in Key!Slots : q # p => proc'[q] = Left[q]
  BY <1>1, StartsFit, LeftProcs, SpawnDoes DEF KeyBase
<1>3. held.id = 0 \/ SomeNotFound => /\ copy'.form # "wrapped" /\ copy'.id = mine'
                                     /\ shown' \in {0, mine'}
  BY <1>1 DEF KeyTruth, LastStored
<1>4. /\ Key!Starting.stage = "migrate" /\ Key!Starting.call = "getId"
      /\ Key!Starting.use = "none" /\ Key!Starting.live
  BY StartsFit
<1>5. /\ Truthful' /\ NothingBefore' /\ LastKeyHeld' /\ CacheFollows' /\ LastStored'
      /\ LoadsMine(p)'
  BY <1>1, <1>2, <1>3, <1>4, SpawnedTruth
<1>6. \A q \in Key!Slots : proc'[q].live <=> q = p
  BY <1>2, <1>4, LeftProcs DEF KeyBase, Spawned
<1>7. ShowsMine'
  BY <1>2, <1>5, <1>6 DEF ShowsMine
<1> QED BY <1>5, <1>7 DEF KeyTruth

LEMMA StartedTruth ==
  ASSUME Started, plugin, mine = Key!Loadable
  PROVE  KeyTruth
<1>1. /\ 1 \in Key!Slots /\ proc[1] = Key!Starting /\ Len(asked) = 1 /\ asked[1] = 1
      /\ \A q \in Key!Slots : q # 1 => proc[q] = Key!Idle
      /\ Len(answers) = 0
  BY StartedWell
<1>2. /\ Key!Starting.stage = "migrate" /\ Key!Starting.call = "getId"
      /\ Key!Starting.use = "none" /\ Key!Starting.live
      /\ Key!Idle.use = "none" /\ ~Key!Idle.live
  BY StartsFit, IdleIs
<1>3. /\ \A i \in 1..Len(answers) : FALSE
      /\ ~SomeNotFound
  BY <1>1 DEF SomeNotFound
<1>4. \A i \in 1..Len(asked) : i = 1 /\ ~Stores(i)
  BY <1>1, <1>2 DEF Stores
<1>5. held.id \in {0, mine} /\ (held.id = 0 => copy.form # "wrapped" /\ copy.id = mine)
      /\ shown = 0
  BY DEF Started, Key!Loadable
<1>6. \A q \in Key!Slots : proc[q].use = "none" /\ (proc[q].live <=> q = 1)
  BY <1>1, <1>2
<1>7. Truthful /\ NothingBefore /\ LastKeyHeld
  BY <1>3, <1>6 DEF Truthful, NothingBefore, LastKeyHeld
<1>8. CacheFollows
  <2>1. Wraps(1)
    BY <1>1, <1>2, <1>3 DEF Wraps
  <2> QED BY <1>1, <2>1 DEF CacheFollows
<1>9. LastStored
  BY <1>3, <1>4, <1>5 DEF LastStored
<1>10. LoadsMine(1)
  <2>1. \A n \in 1..Len(asked) : \A i \in 1..n : ~Stores(i)
    <3>1. ASSUME NEW n \in 1..Len(asked), NEW i \in 1..n PROVE ~Stores(i)
      BY <1>1, <1>4
    <3> QED BY <3>1
  <2> QED BY <1>1, <1>2, <1>3, <1>5, <2>1 DEF LoadsMine
<1>11. ShowsMine
  BY <1>1, <1>6, <1>10 DEF ShowsMine
<1> QED BY <1>7, <1>8, <1>9, <1>11 DEF KeyTruth

LEMMA KeyStep == KeyInv /\ [Key!Next]_keyVars => KeyInv'
<1> SUFFICES ASSUME KeyInv, [Key!Next]_keyVars, ~gone' PROVE KeyInv'
  BY DEF KeyInv
<1>0. ~gone
  BY DEF keyVars, Key!Next, Key!Deliver, Key!Serve, Key!Refuse, Key!WriteOut, Key!CopyInvite,
         Key!Mount, Key!Adopt, Key!Restart
<1>1. KeyBase /\ KeyBase'
  BY <1>0, BaseStep DEF KeyInv
<1>2. ASSUME plugin', refusals' = 0 PROVE KeyTruth'
  <2>1. CASE Key!Restart
    <3>1. Started' /\ UNCHANGED <<plugin, refusals>> /\ (LastStored => mine' = Key!Loadable')
      BY <1>1, <2>1, RestartStarted
    <3>2. LastStored
      <4>1. plugin /\ refusals = 0
        BY <1>2, <3>1
      <4> QED BY <1>0, <4>1 DEF KeyInv, KeyTruth
    <3>3. mine' = Key!Loadable'
      BY <3>1, <3>2
    <3>4. (mine = Key!Loadable)'
      BY <3>3
    <3> QED BY <1>2, <3>1, <3>4, StartedTruth, PTL
  <2>2. CASE Key!Refuse
    <3>1. refusals' = refusals + 1 /\ refusals \in Nat
      BY <1>1, <2>2 DEF Key!Refuse, KeyBase, KeyTypes
    <3> QED BY <1>2, <3>1
  <2>3. CASE UNCHANGED keyVars \/ Key!WriteOut
    <3>0. UNCHANGED <<plugin, refusals, hasty>>
      BY <2>3 DEF keyVars, Key!WriteOut
    <3>1. KeyTruth
      BY <1>0, <1>2, <3>0 DEF KeyInv
    <3>2. UNCHANGED <<proc, asked, answers, held, copy, shown, mine>>
      BY <2>3 DEF keyVars, Key!WriteOut
    <3>3. Truthful'
      BY <3>1, <3>2 DEF KeyTruth, Truthful
    <3>4. NothingBefore'
      BY <3>1, <3>2 DEF KeyTruth, NothingBefore, SomeNotFound, NotFound
    <3>5. LastKeyHeld'
      BY <3>1, <3>2 DEF KeyTruth, LastKeyHeld, KeyTold, ToldKey
    <3>6. CacheFollows'
      BY <3>0, <3>1, <3>2 DEF KeyTruth, CacheFollows, Wraps, KeyTold, NotFound, SomeNotFound
    <3>7. LastStored'
      BY <3>0, <3>1, <3>2 DEF KeyTruth, LastStored, Stores, SomeNotFound, NotFound
    <3>8. ShowsMine'
      BY <3>0, <3>1, <3>2 DEF KeyTruth, ShowsMine, LoadsMine, Stores, SomeNotFound, NotFound
    <3> QED BY <3>3, <3>4, <3>5, <3>6, <3>7, <3>8 DEF KeyTruth
  <2>4. CASE Key!Deliver \/ Key!Serve \/ Key!CopyInvite \/ Key!Mount
             \/ \E id \in Identities : Key!Adopt(id)
    <3>1. plugin /\ refusals = 0
      BY <1>2, <2>4 DEF Key!Deliver, Key!Serve, Key!CopyInvite, Key!Mount, Key!Adopt
    <3>2. KeyTruth
      BY <1>0, <3>1 DEF KeyInv
    <3> QED BY <1>1, <2>4, <3>1, <3>2, DeliverTruth, ServeTruth, CopyInviteTruth, MountTruth,
               AdoptTruth
  <2> QED BY <2>1, <2>2, <2>3, <2>4 DEF Key!Next
<1> QED BY <1>1, <1>2 DEF KeyInv

LEMMA KeyStart == Key!Init => KeyInv
  BY InitStarted, StartedBase, StartedTruth DEF KeyInv

LEMMA KeySound == KeyInv => Key!Recoverable /\ Key!AdoptedStored
<1> SUFFICES ASSUME KeyInv PROVE Key!Recoverable /\ Key!AdoptedStored
  OBVIOUS
<1>1. Key!Recoverable
  <2>1. ASSUME ~gone, mine # 0 PROVE Key!Loadable # 0
    <3>1. held.id # 0 \/ (copy.form = "plain" /\ copy.id # 0)
      BY <2>1 DEF KeyInv, KeyBase, HeldOnce
    <3> QED BY <3>1 DEF Key!Loadable
  <2> QED BY <2>1 DEF Key!Recoverable
<1>2. ASSUME ~gone, Key!Busy = {}, refusals = 0
      PROVE  /\ Key!Loadable = mine
             /\ ~hasty => shown = mine
             /\ plugin /\ held.id # 0 => copy.form = "wrapped" /\ copy.key = held.key
  <2>1. \A q \in Key!Slots : proc[q].stage = "idle" /\ ~proc[q].live
    BY <1>2, IdleIs DEF Key!Busy
  <2>2. CASE ~plugin
    BY <1>2, <2>2 DEF KeyInv, KeyBase, NoPlugin, Key!Loadable
  <2>3. CASE plugin
    <3>1. KeyTruth
      BY <1>2, <2>3 DEF KeyInv
    <3>2. \A i \in 1..Len(asked) : FALSE
      <4>1. \A i \in 1..Len(asked) : asked[i] \in Key!Slots
        BY <1>2, ElementOfSeq DEF KeyInv, KeyBase, KeyTypes
      <4> QED BY <1>2, <2>1, <4>1 DEF KeyInv, KeyBase, Waiting
    <3>3. \A q \in Key!Slots : ~Wraps(q)
      BY <2>1 DEF Wraps
    <3>4. held.id \in {0, mine}
      BY <3>1, <3>2 DEF KeyTruth, LastStored
    <3>5. held.id = 0 => copy.form # "wrapped" /\ copy.id = mine
      BY <3>1 DEF KeyTruth, LastStored
    <3>6. ~hasty => shown = mine
      BY <2>1, <3>1 DEF KeyTruth, ShowsMine
    <3>7. held.id # 0 => copy.form = "wrapped" /\ copy.key = held.key
      BY <3>1, <3>3 DEF KeyTruth, CacheFollows
    <3> QED BY <3>4, <3>5, <3>6, <3>7 DEF Key!Loadable
  <2> QED BY <1>2, <2>2, <2>3 DEF KeyInv, KeyBase, KeyTypes
<1> QED BY <1>1, <1>2 DEF Key!AdoptedStored

-----------------------------------------------------------------------------
(* dms: what keeps the user's mail.                                         *)

(* A list of messages that were sent, and one in the order they were.       *)
Sent(s)   == s \in Seq(Nat) /\ \A i \in 1..Len(s) : s[i] \in 1..stored
Rising(s) == \A i, j \in 1..Len(s) : i < j => s[i] < s[j]

(* A history: no message twice, those of others in order, all once cached.  *)
Single(s)  == \A i, j \in 1..Len(s) : s[i] = s[j] => i = j
InOrder(s) == \A i, j \in 1..Len(s) :
                i < j /\ s[i] \notin own /\ s[j] \notin own => s[i] <= s[j]
History(s) == /\ s \in Seq(Nat) /\ Len(s) <= MaxKept /\ Single(s) /\ InOrder(s)
              /\ \A i \in 1..Len(s) : s[i] \in kept

Requests == [kind : {"tick", "check", "send"}, view : Nat, served : BOOLEAN, ids : Seq(Nat)]

MailTypes ==
  /\ stored \in 0..MaxDms /\ garbled \subseteq 1..stored /\ own \subseteq 1..stored
  /\ kept \subseteq 1..stored /\ lost \subseteq 1..stored
  /\ Sent(mailbox) /\ wire \in Seq(Requests) /\ Len(wire) <= MaxOut
  /\ view \in 1..MaxViews /\ mounted \in BOOLEAN /\ stopped \in BOOLEAN
  /\ chain \in {"timer", "poll", "ended"}
  /\ dms \in [1..MaxViews -> Seq(Nat)]

(* The provider serves the first request; the answer of a poll is what came *)
(* before all that is in the mailbox.                                       *)
WireServed ==
  \A i \in 1..Len(wire) :
    /\ wire[i].view \in 1..view
    /\ wire[i].served => i = 1
    /\ ~wire[i].served => wire[i].ids = <<>>
    /\ Sent(wire[i].ids) /\ Rising(wire[i].ids)
    /\ \A k \in 1..Len(wire[i].ids) :
         IF wire[i].kind = "send" THEN wire[i].ids[k] \in own
         ELSE \A j \in 1..Len(mailbox) : wire[i].ids[k] < mailbox[j]

(* A message is received after those that the history holds of others.      *)
After(x) == /\ \A j \in 1..Len(mailbox) : x < mailbox[j]
            /\ \A i \in 1..Len(wire) : wire[i].kind # "send" =>
                 \A k \in 1..Len(wire[i].ids) : x < wire[i].ids[k]
Received == \A v \in 1..MaxViews : \A i \in 1..Len(dms[v]) :
              dms[v][i] \notin own => After(dms[v][i])

Accounted(m) ==
  \/ m \in own \cup garbled \cup lost \cup kept
  \/ \E j \in 1..Len(mailbox) : mailbox[j] = m
  \/ \E i \in 1..Len(wire) : i = 1 /\ \E k \in 1..Len(wire[i].ids) : wire[i].ids[k] = m
  \/ Cardinality({n \in kept : n > m}) >= MaxKept

MailInv == /\ MailTypes /\ Rising(mailbox) /\ WireServed /\ Received
           /\ History(cache) /\ \A v \in 1..MaxViews : History(dms[v])
           /\ \A m \in 1..stored : Accounted(m)

(* The elements of a list, and what a filter leaves of it.                  *)
LEMMA ElemsAre ==
  ASSUME NEW T, NEW s \in Seq(T)
  PROVE  Dms!Elems(s) = {s[i] : i \in 1..Len(s)} /\ \A x : x \in Dms!Elems(s) <=> \E i \in 1..Len(s) : s[i] = x
<1>1. DOMAIN s = 1..Len(s)
  OBVIOUS
<1> QED BY <1>1 DEF Dms!Elems

LEMMA SameKept == \A list, S : Dms!Kept(list, S) = Kept(list, S)
  BY DEF Dms!Kept, Kept

-----------------------------------------------------------------------------
(* addDmRecord, and an answer's messages added one after another.           *)

Adds(f, records, ms, m) ==
  f = [n \in 0..m |-> IF n = 0 THEN records ELSE Dms!AddDmRecord(f[n - 1], ms[n])]

LEMMA AddsExists ==
  ASSUME NEW records, NEW ms, NEW m \in Nat
  PROVE  \E f : Adds(f, records, ms, m)
<1> DEFINE Bad == {n \in Nat : ~\E f : Adds(f, records, ms, n)}
<1> SUFFICES ASSUME Bad # {} PROVE FALSE
  OBVIOUS
<1>1. PICK n \in Bad : \A k \in Bad : n <= k
  <2>1. Bad \in SUBSET Nat
    OBVIOUS
  <2> HIDE DEF Bad
  <2> QED BY <2>1, LeastNat
<1>2. n \in Nat /\ ~\E f : Adds(f, records, ms, n)
  BY <1>1
<1>3. CASE n = 0
  <2>1. Adds([k \in 0..0 |-> records], records, ms, 0)
    BY DEF Adds
  <2> QED
    BY <1>2, <1>3, <2>1
<1>4. CASE n # 0
  <2>1. n - 1 \in Nat /\ n - 1 \notin Bad
    BY <1>1, <1>2, <1>4
  <2>2. PICK f : Adds(f, records, ms, n - 1)
    BY <2>1
  <2> DEFINE next == Dms!AddDmRecord(f[n - 1], ms[n])
             g == [k \in 0..n |-> IF k = n THEN next ELSE f[k]]
  <2>3. ASSUME NEW k \in 0..n
        PROVE  g[k] = IF k = 0 THEN records ELSE Dms!AddDmRecord(g[k - 1], ms[k])
    <3>1. CASE k = n
      <4>1. k - 1 \in 0..n /\ k - 1 # n /\ k # 0
        BY <1>2, <1>4, <3>1
      <4>2. g[k - 1] = f[n - 1] /\ g[k] = next
        BY <3>1, <4>1
      <4> HIDE DEF g
      <4> QED
        BY <3>1, <4>1, <4>2
    <3>2. CASE k # n
      <4>1. k \in 0..n - 1 /\ g[k] = f[k]
        BY <1>2, <3>2
      <4>2. f[k] = IF k = 0 THEN records ELSE Dms!AddDmRecord(f[k - 1], ms[k])
        BY <2>2, <4>1 DEF Adds
      <4>3. k # 0 => k - 1 \in 0..n /\ k - 1 # n
        BY <1>2, <3>2
      <4>4. k # 0 => g[k - 1] = f[k - 1]
        BY <4>3
      <4> HIDE DEF g
      <4> QED
        BY <4>1, <4>2, <4>4
    <3> QED
      BY <3>1, <3>2
  <2>4. g = [k \in 0..n |-> g[k]]
    OBVIOUS
  <2> HIDE DEF g
  <2>5. Adds(g, records, ms, n)
    BY <2>3, <2>4 DEF Adds
  <2> QED
    BY <1>2, <2>5
<1> QED
  BY <1>3, <1>4

LEMMA AddedIs ==
  ASSUME NEW records, NEW ms \in Seq(Nat)
  PROVE  \E f : Adds(f, records, ms, Len(ms)) /\ Dms!AddDmRecords(records, ms) = f[Len(ms)]
<1>1. Len(ms) \in Nat
  OBVIOUS
<1>2. \E f : Adds(f, records, ms, Len(ms))
  BY <1>1, AddsExists
<1> DEFINE chosen == CHOOSE f : Adds(f, records, ms, Len(ms))
<1>3. Adds(chosen, records, ms, Len(ms))
  BY <1>2
<1>4. Dms!AddDmRecords(records, ms) = chosen[Len(ms)]
  BY DEF Dms!AddDmRecords, Adds
<1> QED
  BY <1>3, <1>4

(* The records after one message more: it is last, unless they had it, and  *)
(* the others are in their order; the first is dropped when they are full.  *)
OneMore(t, s, x) ==
  \/ t = s /\ \E i \in 1..Len(s) : s[i] = x
  \/ /\ t \in Seq(Nat) /\ Len(t) = Len(s) + 1 /\ Len(t) <= MaxKept
     /\ t[Len(t)] = x /\ \A i \in 1..Len(s) : t[i] = s[i] /\ s[i] # x
  \/ /\ t \in Seq(Nat) /\ Len(t) = Len(s) /\ Len(s) = MaxKept /\ t[Len(t)] = x
     /\ \A i \in 1..Len(s) - 1 : t[i] = s[i + 1]
     /\ \A i \in 1..Len(s) : s[i] # x

LEMMA AddedOne ==
  ASSUME NEW s \in Seq(Nat), Len(s) <= MaxKept, NEW x \in Nat, NEW t, t = Dms!AddDmRecord(s, x)
  PROVE  OneMore(t, s, x)
<1>0. MaxKept \in Nat \ {0}
  BY ClientAssumption DEF Dms!MessagesAssumption
<1>1. CASE x \in Dms!Elems(s)
  <2>1. \E i \in 1..Len(s) : s[i] = x
    BY <1>1, ElemsAre
  <2>2. t = s
    BY <1>1 DEF Dms!AddDmRecord
  <2> QED BY <2>1, <2>2 DEF OneMore
<1>2. CASE x \notin Dms!Elems(s)
  <2>1. \A i \in 1..Len(s) : s[i] # x
    BY <1>2, ElemsAre
  <2> DEFINE next == Append(s, x)
  <2>2. /\ next \in Seq(Nat) /\ Len(next) = Len(s) + 1 /\ next[Len(s) + 1] = x
        /\ \A i \in 1..Len(s) : next[i] = s[i]
    BY Longer
  <2>3. t = IF Len(next) > MaxKept THEN Tail(next) ELSE next
    BY <1>2 DEF Dms!AddDmRecord, next
  <2> HIDE DEF next
  <2>4. Len(s) \in Nat
    OBVIOUS
  <2>5. CASE Len(next) > MaxKept
    <3>1. next # <<>> /\ Len(s) = MaxKept
      BY <1>0, <2>2, <2>4, <2>5
    <3>2. /\ Tail(next) \in Seq(Nat) /\ Len(Tail(next)) = Len(next) - 1
          /\ \A i \in 1..Len(Tail(next)) : Tail(next)[i] = next[i + 1] /\ i + 1 \in 1..Len(next)
      BY <2>2, <3>1, Shorter
    <3>3. t = Tail(next) /\ Len(t) = Len(s)
      BY <2>2, <2>3, <2>4, <2>5, <3>2
    <3>4. t[Len(t)] = x
      BY <1>0, <2>2, <2>4, <3>1, <3>2, <3>3
    <3>5. \A i \in 1..Len(s) - 1 : t[i] = s[i + 1]
      BY <2>2, <2>4, <3>2, <3>3
    <3> QED BY <2>1, <3>1, <3>2, <3>3, <3>4, <3>5 DEF OneMore
  <2>6. CASE ~(Len(next) > MaxKept)
    BY <1>0, <2>1, <2>2, <2>3, <2>4, <2>6 DEF OneMore
  <2> QED BY <2>5, <2>6
<1> QED BY <1>1, <1>2


(* The records t are s with the first n messages of ms added.               *)
AddedTo(t, s, ms, n) ==
  /\ t \in Seq(Nat) /\ Len(t) <= MaxKept /\ Single(t) /\ InOrder(t)
  /\ \A j \in 1..Len(t) : \/ \E i \in 1..Len(s) : s[i] = t[j]
                          \/ \E k \in 1..n : ms[k] = t[j]
  /\ \A k \in 1..n :
       \/ \E i \in 1..Len(s) : s[i] = ms[k]
       \/ \E j \in 1..Len(t) : t[j] = ms[k] /\ \A l \in 1..Len(t) : l > j => ms[k] < t[l]
       \/ Len(t) = MaxKept /\ \A l \in 1..Len(t) : ms[k] < t[l]

LEMMA AddedNext ==
  ASSUME NEW s \in Seq(Nat), NEW ms \in Seq(Nat), Rising(ms), NEW n \in 1..Len(ms),
         \A k \in 1..Len(ms) : ms[k] \notin own =>
           \A i \in 1..Len(s) : s[i] \notin own => s[i] < ms[k],
         NEW t, AddedTo(t, s, ms, n - 1), NEW x \in Nat, x = ms[n], NEW u, u = Dms!AddDmRecord(t, x)
  PROVE  AddedTo(u, s, ms, n)
<1>0. /\ \A i \in 1..Len(s) : s[i] \in Nat
      /\ \A k \in 1..Len(ms) : ms[k] \in Nat
      /\ \A j \in 1..Len(t) : t[j] \in Nat
  BY ElementOfSeq DEF AddedTo
<1>1. t \in Seq(Nat) /\ Len(t) <= MaxKept /\ Single(t) /\ InOrder(t) /\ x \in Nat /\ n \in Nat
  BY ElementOfSeq DEF AddedTo
<1>2. \A k \in 1..n - 1 : k \in 1..Len(ms) /\ ms[k] < x /\ ms[k] \in Nat
  BY ElementOfSeq DEF Rising
<1>3. \A j \in 1..Len(t) : \/ \E i \in 1..Len(s) : s[i] = t[j]
                           \/ \E k \in 1..n - 1 : ms[k] = t[j]
  BY DEF AddedTo
<1>4. \A k \in 1..n - 1 :
       \/ \E i \in 1..Len(s) : s[i] = ms[k]
       \/ \E j \in 1..Len(t) : t[j] = ms[k] /\ \A l \in 1..Len(t) : l > j => ms[k] < t[l]
       \/ Len(t) = MaxKept /\ \A l \in 1..Len(t) : ms[k] < t[l]
  BY DEF AddedTo
<1>5. x \notin own => \A j \in 1..Len(t) : t[j] \notin own => t[j] < x
  BY <1>0, <1>1, <1>2, <1>3
<1>6. CASE u = t /\ \E i \in 1..Len(t) : t[i] = x
  <2>1. \E i \in 1..Len(s) : s[i] = x
    <3>1. PICK j \in 1..Len(t) : t[j] = x
      BY <1>6
    <3>2. ASSUME NEW k \in 1..n - 1, ms[k] = t[j] PROVE FALSE
      <4>1. ms[k] < x /\ ms[k] = x
        BY <1>2, <3>1, <3>2
      <4> QED BY <4>1
    <3> QED BY <1>3, <3>1, <3>2
  <2>2. \A k \in 1..n : k = n \/ k \in 1..n - 1
    BY <1>1
  <2>3. \A k \in 1..n - 1 : k \in 1..n
    BY <1>1
  <2>4. \A j \in 1..Len(u) : \/ \E i \in 1..Len(s) : s[i] = u[j]
                             \/ \E k \in 1..n : ms[k] = u[j]
    BY <1>3, <1>6, <2>3
  <2>5. ASSUME NEW k \in 1..n
        PROVE  \/ \E i \in 1..Len(s) : s[i] = ms[k]
               \/ \E j \in 1..Len(u) : u[j] = ms[k] /\ \A l \in 1..Len(u) : l > j => ms[k] < u[l]
               \/ Len(u) = MaxKept /\ \A l \in 1..Len(u) : ms[k] < u[l]
    <3>1. CASE k = n
      BY <2>1, <3>1
    <3>2. CASE k \in 1..n - 1
      BY <1>4, <1>6, <3>2
    <3> QED BY <2>2, <3>1, <3>2
  <2> QED BY <1>1, <1>6, <2>4, <2>5 DEF AddedTo
<1>7. CASE /\ u \in Seq(Nat) /\ Len(u) = Len(t) + 1 /\ Len(u) <= MaxKept
           /\ u[Len(u)] = x /\ \A i \in 1..Len(t) : u[i] = t[i] /\ t[i] # x
  <2>0. Len(t) \in Nat /\ \A i \in 1..Len(u) : i \in 1..Len(t) \/ i = Len(u)
    <3>1. PICK a, b : a = Len(t) /\ b = Len(u)
      OBVIOUS
    <3>2. a \in Nat /\ b = a + 1
      BY <1>1, <1>7, <3>1
    <3>3. \A i \in 1..b : i \in 1..a \/ i = b
      BY <3>2
    <3> QED BY <3>1, <3>2, <3>3
  <2>1. Single(u)
    <3> SUFFICES ASSUME NEW i \in 1..Len(u), NEW j \in 1..Len(u), u[i] = u[j] PROVE i = j
      BY DEF Single
    <3>1. \A a \in 1..Len(t) : u[a] = t[a] /\ t[a] # x
      BY <1>7
    <3>2. u[Len(u)] = x /\ Single(t)
      BY <1>1, <1>7
    <3>3. CASE i \in 1..Len(t) /\ j \in 1..Len(t)
      BY <3>1, <3>2, <3>3 DEF Single
    <3>4. CASE i = Len(u) \/ j = Len(u)
      BY <2>0, <3>1, <3>2, <3>4
    <3> QED BY <2>0, <3>3, <3>4
  <2>2. InOrder(u)
    <3> SUFFICES ASSUME NEW i \in 1..Len(u), NEW j \in 1..Len(u), i < j,
                        u[i] \notin own, u[j] \notin own
                 PROVE  u[i] <= u[j]
      BY DEF InOrder
    <3>1. i \in 1..Len(t)
      BY <1>7, <2>0
    <3>2. u[i] = t[i] /\ t[i] \in Nat
      BY <1>0, <1>7, <3>1
    <3>3. CASE j \in 1..Len(t)
      <4>1. u[j] = t[j]
        BY <1>7, <3>3
      <4> QED BY <1>1, <3>1, <3>2, <3>3, <4>1 DEF InOrder
    <3>4. CASE j = Len(u)
      <4>1. u[j] = x
        BY <1>7, <3>4
      <4>2. t[i] < x
        BY <1>5, <3>1, <3>2, <4>1
      <4> QED BY <3>2, <4>1, <4>2
    <3> QED BY <2>0, <3>3, <3>4
  <2>3. ASSUME NEW j \in 1..Len(u)
        PROVE  \/ \E i \in 1..Len(s) : s[i] = u[j]
               \/ \E k \in 1..n : ms[k] = u[j]
    <3>1. n \in 1..n /\ \A k \in 1..n - 1 : k \in 1..n
      BY <1>1
    <3> QED BY <1>3, <1>7, <2>0, <3>1
  <2>4. ASSUME NEW k \in 1..n
        PROVE  \/ \E i \in 1..Len(s) : s[i] = ms[k]
               \/ \E j \in 1..Len(u) : u[j] = ms[k] /\ \A l \in 1..Len(u) : l > j => ms[k] < u[l]
               \/ Len(u) = MaxKept /\ \A l \in 1..Len(u) : ms[k] < u[l]
    <3>1. CASE k = n
      <4>1. Len(u) \in 1..Len(u) /\ \A l \in 1..Len(u) : ~(l > Len(u))
        <5>1. PICK b : b = Len(u)
          OBVIOUS
        <5>2. b \in Nat \ {0}
          BY <1>7, <2>0, <5>1
        <5>3. b \in 1..b /\ \A l \in 1..b : ~(l > b)
          BY <5>2
        <5> QED BY <5>1, <5>3
      <4> QED BY <1>7, <3>1, <4>1
    <3>2. CASE k \in 1..n - 1
      <4>1. CASE \E i \in 1..Len(s) : s[i] = ms[k]
        BY <4>1
      <4>2. ASSUME NEW j \in 1..Len(t), t[j] = ms[k], \A l \in 1..Len(t) : l > j => ms[k] < t[l]
            PROVE  j \in 1..Len(u) /\ u[j] = ms[k] /\ \A l \in 1..Len(u) : l > j => ms[k] < u[l]
        <5>1. ms[k] < x
          BY <1>2, <3>2
        <5>2. j \in 1..Len(u) /\ u[j] = ms[k]
          <6>1. j \in 1..Len(u)
            BY <1>7, <2>0
          <6>2. u[j] = t[j]
            BY <1>7
          <6> QED BY <4>2, <6>1, <6>2
        <5>3. ASSUME NEW l \in 1..Len(u), l > j PROVE ms[k] < u[l]
          <6>1. CASE l \in 1..Len(t)
            <7>1. u[l] = t[l]
              BY <1>7, <6>1
            <7> QED BY <4>2, <5>3, <6>1, <7>1
          <6>2. CASE l = Len(u)
            <7>1. u[l] = x
              BY <1>7, <6>2
            <7> QED BY <5>1, <7>1
          <6> QED BY <2>0, <6>1, <6>2
        <5> QED BY <5>2, <5>3
      <4>3. CASE Len(t) = MaxKept
        BY <1>7, <2>0, <4>3, ClientAssumption DEF Dms!MessagesAssumption
      <4>4. CASE \E j \in 1..Len(t) : t[j] = ms[k] /\ \A l \in 1..Len(t) : l > j => ms[k] < t[l]
        <5>1. PICK j \in 1..Len(t) : t[j] = ms[k] /\ \A l \in 1..Len(t) : l > j => ms[k] < t[l]
          BY <4>4
        <5>2. j \in 1..Len(u) /\ u[j] = ms[k] /\ \A l \in 1..Len(u) : l > j => ms[k] < u[l]
          BY <4>2, <5>1
        <5> QED BY <5>2
      <4>5. \/ \E i \in 1..Len(s) : s[i] = ms[k]
            \/ \E j \in 1..Len(t) : t[j] = ms[k] /\ \A l \in 1..Len(t) : l > j => ms[k] < t[l]
            \/ Len(t) = MaxKept
        BY <1>4, <3>2
      <4> QED BY <4>1, <4>3, <4>4, <4>5
    <3>3. k = n \/ k \in 1..n - 1
      BY <1>1
    <3> QED BY <3>1, <3>2, <3>3
  <2> QED BY <1>7, <2>1, <2>2, <2>3, <2>4 DEF AddedTo
<1>8. CASE /\ u \in Seq(Nat) /\ Len(u) = Len(t) /\ Len(t) = MaxKept /\ u[Len(u)] = x
           /\ \A i \in 1..Len(t) - 1 : u[i] = t[i + 1]
           /\ \A i \in 1..Len(t) : t[i] # x
  <2>0. /\ Len(t) \in Nat /\ Len(u) \in 1..Len(u)
        /\ \A i \in 1..Len(u) : (i \in 1..Len(t) - 1 /\ i + 1 \in 1..Len(t)) \/ i = Len(u)
        /\ MaxKept \in Nat \ {0}
    BY <1>1, <1>8, ClientAssumption DEF Dms!MessagesAssumption
  <2>9. ASSUME NEW l \in 1..Len(t) - 1 PROVE u[l] = t[l + 1] /\ l + 1 \in 1..Len(t)
    <3>1. PICK a : a = Len(t)
      OBVIOUS
    <3>2. a \in Nat /\ l \in 1..a - 1
      BY <2>0, <3>1
    <3>3. l + 1 \in 1..a
      BY <3>2
    <3> QED BY <1>8, <3>1, <3>3
  <2>1. Single(u)
    <3> SUFFICES ASSUME NEW i \in 1..Len(u), NEW j \in 1..Len(u), u[i] = u[j] PROVE i = j
      BY DEF Single
    <3>1. CASE i = Len(u) \/ j = Len(u)
      <4>1. \A l \in 1..Len(u) : l = Len(u) \/ u[l] # x
        <5> SUFFICES ASSUME NEW l \in 1..Len(u), l # Len(u) PROVE u[l] # x
          OBVIOUS
        <5>1. l \in 1..Len(t) - 1 /\ l + 1 \in 1..Len(t)
          BY <2>0
        <5>2. u[l] = t[l + 1] /\ t[l + 1] # x
          BY <1>8, <5>1
        <5> QED BY <5>2
      <4>2. u[Len(u)] = x
        BY <1>8
      <4> QED BY <3>1, <4>1, <4>2
    <3>2. CASE i # Len(u) /\ j # Len(u)
      BY <1>1, <1>8, <2>0, <3>2 DEF Single
    <3> QED BY <3>1, <3>2
  <2>2. InOrder(u)
    <3> SUFFICES ASSUME NEW i \in 1..Len(u), NEW j \in 1..Len(u), i < j,
                        u[i] \notin own, u[j] \notin own
                 PROVE  u[i] <= u[j]
      BY DEF InOrder
    <3>1. i \in 1..Len(t) - 1 /\ i + 1 \in 1..Len(t)
      BY <1>8, <2>0
    <3>2. u[i] = t[i + 1] /\ t[i + 1] \in Nat
      BY <1>0, <1>8, <3>1
    <3>3. CASE j \in 1..Len(t) - 1
      <4>1. u[j] = t[j + 1]
        BY <1>8, <3>3
      <4>2. j + 1 \in 1..Len(t) /\ i + 1 < j + 1
        BY <2>0, <3>3
      <4> QED BY <1>1, <3>1, <3>2, <4>1, <4>2 DEF InOrder
    <3>4. CASE j = Len(u)
      <4>1. u[j] = x
        BY <1>8, <3>4
      <4>2. t[i + 1] < x
        BY <1>5, <3>1, <3>2, <4>1
      <4> QED BY <3>2, <4>1, <4>2
    <3> QED BY <2>0, <3>3, <3>4
  <2>3. ASSUME NEW j \in 1..Len(u)
        PROVE  \/ \E i \in 1..Len(s) : s[i] = u[j]
               \/ \E k \in 1..n : ms[k] = u[j]
    <3>1. n \in 1..n /\ \A k \in 1..n - 1 : k \in 1..n
      BY <1>1
    <3>2. CASE j = Len(u)
      BY <1>8, <3>1, <3>2
    <3>3. CASE j \in 1..Len(t) - 1
      <4>1. u[j] = t[j + 1] /\ j + 1 \in 1..Len(t)
        BY <2>9, <3>3
      <4> QED BY <1>3, <3>1, <4>1
    <3> QED BY <2>0, <3>2, <3>3
  <2>4. ASSUME NEW k \in 1..n
        PROVE  \/ \E i \in 1..Len(s) : s[i] = ms[k]
               \/ \E j \in 1..Len(u) : u[j] = ms[k] /\ \A l \in 1..Len(u) : l > j => ms[k] < u[l]
               \/ Len(u) = MaxKept /\ \A l \in 1..Len(u) : ms[k] < u[l]
    <3>1. CASE k = n
      <4>1. \A l \in 1..Len(u) : ~(l > Len(u))
        BY <1>8, <2>0
      <4> QED BY <1>8, <2>0, <3>1, <4>1
    <3>2. CASE k \in 1..n - 1
      <4>0. ms[k] < x
        BY <1>2, <3>2
      <4>1. CASE \E i \in 1..Len(s) : s[i] = ms[k]
        BY <4>1
      <4>2. ASSUME NEW j \in 1..Len(t), t[j] = ms[k], \A l \in 1..Len(t) : l > j => ms[k] < t[l]
            PROVE  \/ \E i \in 1..Len(u) : u[i] = ms[k] /\ \A l \in 1..Len(u) : l > i => ms[k] < u[l]
                   \/ Len(u) = MaxKept /\ \A l \in 1..Len(u) : ms[k] < u[l]
        <5>1. CASE j = 1
          <6>1. ASSUME NEW l \in 1..Len(u) PROVE ms[k] < u[l]
            <7>1. CASE l \in 1..Len(t) - 1
              <8>1. u[l] = t[l + 1] /\ l + 1 \in 1..Len(t) /\ l + 1 > j
                <9>1. l + 1 > j
                  BY <5>1, <7>1
                <9> QED BY <2>9, <7>1, <9>1
              <8> QED BY <4>2, <8>1
            <7>2. CASE l = Len(u)
              BY <1>8, <4>0, <7>2
            <7> QED BY <2>0, <7>1, <7>2
          <6> QED BY <1>8, <6>1
        <5>2. CASE j # 1
          <6>1. j - 1 \in 1..Len(u) /\ j - 1 \in 1..Len(t) - 1 /\ (j - 1) + 1 = j
            BY <1>8, <5>2
          <6>2. u[j - 1] = ms[k]
            BY <1>8, <4>2, <6>1
          <6>3. ASSUME NEW l \in 1..Len(u), l > j - 1 PROVE ms[k] < u[l]
            <7>1. CASE l \in 1..Len(t) - 1
              <8>1. u[l] = t[l + 1] /\ l + 1 \in 1..Len(t) /\ l + 1 > j
                <9>1. l + 1 > j
                  BY <6>3, <7>1
                <9> QED BY <2>9, <7>1, <9>1
              <8> QED BY <4>2, <8>1
            <7>2. CASE l = Len(u)
              BY <1>8, <4>0, <7>2
            <7> QED BY <2>0, <7>1, <7>2
          <6> QED BY <6>1, <6>2, <6>3
        <5> QED BY <5>1, <5>2
      <4>3. CASE \A l \in 1..Len(t) : ms[k] < t[l]
        <5>1. ASSUME NEW l \in 1..Len(u) PROVE ms[k] < u[l]
          <6>1. CASE l \in 1..Len(t) - 1
            <7>1. u[l] = t[l + 1] /\ l + 1 \in 1..Len(t)
              BY <2>9, <6>1
            <7> QED BY <4>3, <7>1
          <6>2. CASE l = Len(u)
            BY <1>8, <4>0, <6>2
          <6> QED BY <2>0, <6>1, <6>2
        <5> QED BY <1>8, <5>1
      <4> QED BY <1>4, <3>2, <4>1, <4>2, <4>3
    <3>3. k = n \/ k \in 1..n - 1
      BY <1>1
    <3> QED BY <3>1, <3>2, <3>3
  <2>5. u \in Seq(Nat) /\ Len(u) <= MaxKept
    BY <1>8, <2>0
  <2>6. \A j \in 1..Len(u) : \/ \E i \in 1..Len(s) : s[i] = u[j]
                             \/ \E k \in 1..n : ms[k] = u[j]
    BY <2>3
  <2>7. \A k \in 1..n :
          \/ \E i \in 1..Len(s) : s[i] = ms[k]
          \/ \E j \in 1..Len(u) : u[j] = ms[k] /\ \A l \in 1..Len(u) : l > j => ms[k] < u[l]
          \/ Len(u) = MaxKept /\ \A l \in 1..Len(u) : ms[k] < u[l]
    BY <2>4
  <2> QED BY <2>1, <2>2, <2>5, <2>6, <2>7, Zenon DEF AddedTo
<1>9. OneMore(u, t, x)
  BY <1>1, AddedOne
<1> QED BY <1>6, <1>7, <1>8, <1>9, Zenon DEF OneMore

LEMMA AddedAll ==
  ASSUME NEW s \in Seq(Nat), Len(s) <= MaxKept, Single(s), InOrder(s),
         NEW ms \in Seq(Nat), Rising(ms),
         \A k \in 1..Len(ms) : ms[k] \notin own =>
           \A i \in 1..Len(s) : s[i] \notin own => s[i] < ms[k]
  PROVE  AddedTo(Dms!AddDmRecords(s, ms), s, ms, Len(ms))
<1>1. PICK f : Adds(f, s, ms, Len(ms)) /\ Dms!AddDmRecords(s, ms) = f[Len(ms)]
  BY AddedIs
<1> DEFINE Bad == {n \in 0..Len(ms) : ~AddedTo(f[n], s, ms, n)}
<1> SUFFICES ASSUME Bad # {} PROVE FALSE
  BY <1>1
<1>2. PICK n \in Bad : \A k \in Bad : n <= k
  <2>1. Bad \in SUBSET Nat
    OBVIOUS
  <2> HIDE DEF Bad
  <2> QED BY <2>1, LeastNat
<1>3. n \in 0..Len(ms) /\ ~AddedTo(f[n], s, ms, n) /\ Len(ms) \in Nat
  BY <1>2
<1>4. f[n] = IF n = 0 THEN s ELSE Dms!AddDmRecord(f[n - 1], ms[n])
  BY <1>1, <1>3 DEF Adds
<1>5. AddedTo(s, s, ms, 0)
  BY DEF AddedTo
<1>6. n # 0
  BY <1>3, <1>4, <1>5
<1>7. n \in 1..Len(ms) /\ n - 1 \in 0..Len(ms) /\ n - 1 \notin Bad
  BY <1>2, <1>3, <1>6
<1>8. AddedTo(f[n - 1], s, ms, n - 1)
  BY <1>7
<1> HIDE DEF Bad
<1>9. AddedTo(f[n], s, ms, n)
  BY <1>4, <1>6, <1>7, <1>8, AddedNext, ElementOfSeq
<1> QED BY <1>3, <1>9


-----------------------------------------------------------------------------
(* More is kept, so more of it is newer than a message.                     *)
LEMMA MoreNewer ==
  ASSUME NEW old \in SUBSET Nat, NEW new \in SUBSET Nat, old \subseteq new,
         NEW top \in Nat, new \subseteq 1..top, NEW m,
         Cardinality({n \in old : n > m}) >= MaxKept
  PROVE  Cardinality({n \in new : n > m}) >= MaxKept
<1> DEFINE A == {n \in old : n > m}
           B == {n \in new : n > m}
<1>1. IsFiniteSet(1..top)
  BY FS_Interval
<1>2. A \subseteq B /\ B \subseteq 1..top
  OBVIOUS
<1> HIDE DEF A, B
<1>3. IsFiniteSet(B)
  BY <1>1, <1>2, FS_Subset
<1>4. IsFiniteSet(A) /\ Cardinality(A) <= Cardinality(B)
  BY <1>2, <1>3, FS_Subset
<1>5. Cardinality(A) \in Nat /\ Cardinality(B) \in Nat
  BY <1>3, <1>4, FS_CardinalityType
<1>6. MaxKept \in Nat
  BY ClientAssumption DEF Dms!MessagesAssumption
<1>7. Cardinality(A) >= MaxKept
  BY DEF A
<1>8. Cardinality(B) >= MaxKept
  BY <1>4, <1>5, <1>6, <1>7
<1> QED BY <1>8 DEF B

(* As many messages as a list without repetitions has places.               *)
LEMMA PlacesCount ==
  ASSUME NEW s \in Seq(Nat), Single(s), NEW top \in Nat, NEW S \in SUBSET (1..top),
         \A i \in 1..Len(s) : s[i] \in S
  PROVE  Cardinality(S) >= Len(s)
<1> DEFINE I == 1..Len(s)
           at == [i \in I |-> s[i]]
<1>0. Len(s) \in Nat
  OBVIOUS
<1>1. IsFiniteSet(I) /\ Cardinality(I) = Len(s)
  BY <1>0, FS_Interval
<1>2. IsFiniteSet(S) /\ Cardinality(S) \in Nat
  <2>1. IsFiniteSet(1..top)
    BY FS_Interval
  <2> QED BY <2>1, FS_Subset, FS_CardinalityType
<1>3. at \in Injection(I, S)
  BY DEF Injection, IsInjective, Single
<1> HIDE DEF I, at
<1>4. Cardinality(I) <= Cardinality(S)
  BY <1>2, <1>3, FS_Injection
<1> QED BY <1>0, <1>1, <1>2, <1>4

-----------------------------------------------------------------------------
(* store_dm.                                                                *)
LEMMA StoreDmDoes ==
  ASSUME MailTypes, Rising(mailbox), NEW to \in BOOLEAN, Dms!StoreDm(to)
  PROVE  /\ stored' = stored + 1 /\ stored' \in 0..MaxDms
         /\ mailbox' \in Seq(Nat) /\ Rising(mailbox')
         /\ \A j \in 1..Len(mailbox') : \/ \E i \in 1..Len(mailbox) : mailbox'[j] = mailbox[i]
                                        \/ mailbox'[j] = stored + 1
         /\ lost \subseteq lost' /\ lost' \subseteq 1..stored
         /\ \A i \in 1..Len(mailbox) : \/ mailbox[i] \in lost'
                                       \/ \E j \in 1..Len(mailbox') : mailbox'[j] = mailbox[i]
         /\ to => \E j \in 1..Len(mailbox') : mailbox'[j] = stored + 1
<1>0. /\ stored \in Nat /\ MaxDms \in Nat /\ mailbox \in Seq(Nat) /\ Len(mailbox) \in Nat
      /\ \A i \in 1..Len(mailbox) : mailbox[i] \in 1..stored
      /\ lost \subseteq 1..stored
  BY ClientAssumption DEF MailTypes, Sent, Dms!MessagesAssumption
<1>1. stored < MaxDms /\ stored' = stored + 1
  BY DEF Dms!StoreDm
<1>2. PICK k \in 0..Len(mailbox) :
        /\ mailbox' = SubSeq(mailbox, k + 1, Len(mailbox))
                        \o (IF to THEN <<stored + 1>> ELSE <<>>)
        /\ lost' = lost \cup Dms!Elems(SubSeq(mailbox, 1, k))
  BY DEF Dms!StoreDm
<1>3. PICK young : young = SubSeq(mailbox, k + 1, Len(mailbox))
  OBVIOUS
<1>4. PICK aged : aged = SubSeq(mailbox, 1, k)
  OBVIOUS
<1>5. /\ young \in Seq(Nat) /\ Len(young) = Len(mailbox) - k
      /\ \A i \in 1..Len(mailbox) - k : young[i] = mailbox[k + i]
  BY <1>0, <1>3, SubSeqProperties
<1>5a. Len(young) \in Nat
  BY <1>0, <1>5
<1>6. /\ aged \in Seq(Nat) /\ Len(aged) = k /\ \A i \in 1..k : aged[i] = mailbox[i]
  BY <1>0, <1>4, SubSeqProperties
<1>7. PICK added : added = IF to THEN <<stored + 1>> ELSE <<>>
  OBVIOUS
<1>8. /\ added \in Seq(Nat) /\ Len(added) \in Nat
      /\ to => Len(added) = 1 /\ added[1] = stored + 1
      /\ ~to => Len(added) = 0
  BY <1>0, <1>7
<1>9. /\ mailbox' \in Seq(Nat) /\ Len(mailbox') = Len(young) + Len(added)
      /\ \A i \in 1..Len(young) : mailbox'[i] = young[i]
      /\ \A i \in 1..Len(added) : mailbox'[Len(young) + i] = added[i]
  <2>1. mailbox' = young \o added
    BY <1>2, <1>3, <1>7
  <2>2. /\ mailbox' \in Seq(Nat) /\ Len(mailbox') = Len(young) + Len(added)
        /\ \A i \in 1..Len(young) + Len(added) :
             mailbox'[i] = IF i <= Len(young) THEN young[i] ELSE added[i - Len(young)]
    BY <1>5, <1>8, <2>1, ConcatProperties
  <2>3. Len(young) \in Nat
    BY <1>0, <1>5
  <2>4. \A i \in 1..Len(young) : i \in 1..Len(young) + Len(added) /\ i <= Len(young)
    BY <1>8, <2>3
  <2>5. \A i \in 1..Len(added) : /\ Len(young) + i \in 1..Len(young) + Len(added)
                                 /\ ~(Len(young) + i <= Len(young))
                                 /\ (Len(young) + i) - Len(young) = i
    BY <1>8, <2>3
  <2> QED BY <2>2, <2>4, <2>5
<1>10. \A j \in 1..Len(mailbox') :
         \/ j \in 1..Len(young) /\ k + j \in 1..Len(mailbox) /\ mailbox'[j] = mailbox[k + j]
         \/ to /\ j = Len(young) + 1 /\ mailbox'[j] = stored + 1
  <2> SUFFICES ASSUME NEW j \in 1..Len(mailbox')
               PROVE \/ j \in 1..Len(young) /\ k + j \in 1..Len(mailbox) /\ mailbox'[j] = mailbox[k + j]
                     \/ to /\ j = Len(young) + 1 /\ mailbox'[j] = stored + 1
    OBVIOUS
  <2>1. CASE j \in 1..Len(young)
    BY <1>0, <1>5, <1>9, <2>1
  <2>2. CASE j \notin 1..Len(young)
    <3>1. to /\ j = Len(young) + 1 /\ 1 \in 1..Len(added)
      <4>1. j \in 1..Len(young) + Len(added) /\ Len(young) \in Nat
        <5>1. Len(mailbox') = Len(young) + Len(added)
          BY <1>9
        <5> QED BY <1>5a, <5>1
      <4>2. Len(added) \in Nat /\ (Len(added) = 1 \/ Len(added) = 0)
        BY <1>8
      <4>3. Len(added) # 0 /\ j = Len(young) + Len(added)
        <5>1. j > Len(young)
          BY <2>2, <4>1, <4>2
        <5>2. j \in Nat /\ j <= Len(young) + Len(added)
          BY <4>1, <4>2
        <5>3. Len(young) \in Nat
          BY <4>1
        <5>4. Len(added) # 0
          BY <5>1, <5>2, <5>3
        <5>5. Len(added) = 1
          BY <4>2, <5>4
        <5>6. j = Len(young) + 1
          BY <5>1, <5>2, <5>3, <5>5
        <5> QED BY <5>4, <5>5, <5>6
      <4>4. to
        BY <1>8, <4>3
      <4>5. Len(added) = 1
        BY <4>2, <4>3
      <4> QED BY <4>3, <4>4, <4>5
    <3> QED BY <1>8, <1>9, <3>1
  <2> QED BY <2>1, <2>2
<1>11. Rising(mailbox')
  <2> SUFFICES ASSUME NEW i \in 1..Len(mailbox'), NEW j \in 1..Len(mailbox'), i < j
               PROVE  mailbox'[i] < mailbox'[j]
    BY DEF Rising
  <2>1. i \in 1..Len(young)
    <3>1. i \in Nat /\ j \in Nat /\ Len(young) \in Nat
      BY <1>0, <1>5, <1>9
    <3>2. i \in 1..Len(young) \/ (i = Len(young) + 1 /\ j = Len(young) + 1) \/ j \in 1..Len(young)
      BY <1>10
    <3> QED BY <3>1, <3>2
  <2>2. k + i \in 1..Len(mailbox) /\ mailbox'[i] = mailbox[k + i]
    BY <1>0, <1>5, <1>9, <2>1
  <2>3. CASE j \in 1..Len(young) /\ k + j \in 1..Len(mailbox) /\ mailbox'[j] = mailbox[k + j]
    <3>1. k + i < k + j
      BY <1>0
    <3> QED BY <2>2, <2>3, <3>1 DEF Rising
  <2>4. CASE mailbox'[j] = stored + 1
    BY <1>0, <2>2, <2>4
  <2> QED BY <1>10, <2>3, <2>4
<1>12. \A j \in 1..Len(mailbox') : \/ \E i \in 1..Len(mailbox) : mailbox'[j] = mailbox[i]
                                   \/ mailbox'[j] = stored + 1
  BY <1>10
<1>13. \A x : x \in lost' <=> x \in lost \/ \E i \in 1..k : mailbox[i] = x
  <2>1. \A x : x \in Dms!Elems(aged) <=> \E i \in 1..k : aged[i] = x
    BY <1>6, ElemsAre
  <2> QED BY <1>2, <1>4, <1>6, <2>1
<1>14. lost \subseteq lost' /\ lost' \subseteq 1..stored
  <2>1. \A i \in 1..k : i \in 1..Len(mailbox)
    BY <1>0
  <2> QED BY <1>0, <1>13, <2>1
<1>15. ASSUME NEW i \in 1..Len(mailbox)
       PROVE  mailbox[i] \in lost' \/ \E j \in 1..Len(mailbox') : mailbox'[j] = mailbox[i]
  <2>1. CASE i \in 1..k
    BY <1>13, <2>1
  <2>2. CASE i \notin 1..k
    <3>1. i - k \in 1..Len(young) /\ k + (i - k) = i /\ i - k \in 1..Len(mailbox')
      BY <1>0, <1>5, <1>8, <1>9, <2>2
    <3>2. mailbox'[i - k] = mailbox[i]
      BY <1>5, <1>9, <3>1
    <3> QED BY <3>1, <3>2
  <2> QED BY <2>1, <2>2
<1>16. ASSUME to PROVE \E j \in 1..Len(mailbox') : mailbox'[j] = stored + 1
  <2>1. Len(young) + 1 \in 1..Len(mailbox') /\ 1 \in 1..Len(added)
    <3>1. Len(added) = 1 /\ Len(young) \in Nat /\ Len(mailbox') = Len(young) + 1
      <4>1. Len(added) = 1
        BY <1>8, <1>16
      <4> QED BY <1>5a, <1>9, <4>1
    <3> QED BY <3>1
  <2>2. mailbox'[Len(young) + 1] = stored + 1
    BY <1>8, <1>9, <1>16, <2>1
  <2> QED BY <2>1, <2>2
<1>17. stored' \in 0..MaxDms
  BY <1>0, <1>1
<1> QED BY <1>1, <1>9, <1>11, <1>12, <1>14, <1>15, <1>16, <1>17


-----------------------------------------------------------------------------
(* The steps.                                                               *)

(* A message stays accounted for.                                           *)
LEMMA AccountedStays ==
  ASSUME MailTypes, NEW m, Accounted(m),
         kept \subseteq kept', kept' \subseteq 1..stored', stored' \in Nat,
         own \subseteq own', garbled \subseteq garbled', lost \subseteq lost',
         (\E j \in 1..Len(mailbox) : mailbox[j] = m) \/
         (\E i \in 1..Len(wire) : i = 1 /\ \E k \in 1..Len(wire[i].ids) : wire[i].ids[k] = m)
           => Accounted(m)'
  PROVE  Accounted(m)'
<1>1. CASE m \in own \cup garbled \cup lost \cup kept
  BY <1>1 DEF Accounted
<1>2. CASE Cardinality({n \in kept : n > m}) >= MaxKept
  <2>1. kept \in SUBSET Nat /\ kept' \in SUBSET Nat
    <3>1. 1..stored' \in SUBSET Nat
      OBVIOUS
    <3> QED BY <3>1
  <2>2. Cardinality({n \in kept' : n > m}) >= MaxKept
    BY <1>2, <2>1, MoreNewer
  <2> QED BY <2>2 DEF Accounted
<1> QED BY <1>1, <1>2 DEF Accounted

(* The first request is served with a list of messages.                     *)
LEMMA ServedFirst ==
  ASSUME wire \in Seq(Requests), wire # <<>>, NEW ids \in Seq(Nat),
         wire' = [wire EXCEPT ![1].served = TRUE, ![1].ids = ids]
  PROVE  /\ wire' \in Seq(Requests) /\ Len(wire') = Len(wire) /\ 1 \in 1..Len(wire)
         /\ wire'[1].kind = wire[1].kind /\ wire'[1].view = wire[1].view
         /\ wire'[1].served /\ wire'[1].ids = ids
         /\ \A i \in 1..Len(wire) : i # 1 => wire'[i] = wire[i]
<1>1. Len(wire) \in Nat \ {0} /\ wire[1] \in Requests
  BY EmptySeq, ElementOfSeq
<1>2. PICK r : r = [wire[1] EXCEPT !.served = TRUE, !.ids = ids]
  OBVIOUS
<1>3. r \in Requests /\ r.kind = wire[1].kind /\ r.view = wire[1].view /\ r.served /\ r.ids = ids
  BY <1>1, <1>2 DEF Requests
<1>4. wire' = [wire EXCEPT ![1] = r]
  BY <1>1, <1>2
<1>5. 1 \in 1..Len(wire)
  BY <1>1
<1>6. /\ wire' \in Seq(Requests) /\ Len(wire') = Len(wire) /\ wire'[1] = r
      /\ \A i \in 1..Len(wire) : i # 1 => wire'[i] = wire[i]
  <2>1. /\ [wire EXCEPT ![1] = r] \in Seq(Requests)
        /\ Len([wire EXCEPT ![1] = r]) = Len(wire)
        /\ \A i \in 1..Len(wire) : [wire EXCEPT ![1] = r][i] = IF i = 1 THEN r ELSE wire[i]
    BY <1>3, <1>5, ExceptSeq
  <2> QED BY <1>4, <1>5, <2>1
<1> QED BY <1>3, <1>5, <1>6

(* A request is handed over behind the others.                              *)
LEMMA AskStep ==
  ASSUME MailInv, NEW kind \in {"tick", "check", "send"}, Dms!Ask(kind),
         UNCHANGED <<mailbox, stored, garbled, own, view, dms, cache, kept, lost>>,
         mounted' \in BOOLEAN, stopped' \in BOOLEAN, chain' \in {"timer", "poll", "ended"}
  PROVE  MailInv'
<1>0. /\ wire \in Seq(Requests) /\ Len(wire) \in Nat /\ view \in Nat /\ MaxOut \in Nat
      /\ Len(wire) < MaxOut
  BY ClientAssumption DEF MailInv, MailTypes, Dms!MessagesAssumption, Dms!Ask
<1>1. PICK r : r = [kind |-> kind, view |-> view, served |-> FALSE, ids |-> <<>>]
  OBVIOUS
<1>2. r \in Requests /\ r.kind = kind /\ r.view = view /\ ~r.served /\ r.ids = <<>>
  BY <1>0, <1>1 DEF Requests
<1>3. /\ wire' \in Seq(Requests) /\ Len(wire') = Len(wire) + 1
      /\ \A i \in 1..Len(wire) : wire'[i] = wire[i]
      /\ wire'[Len(wire) + 1] = r
  BY <1>0, <1>1, <1>2, Longer DEF Dms!Ask
<1>4. \A i \in 1..Len(wire') : \/ i \in 1..Len(wire) /\ wire'[i] = wire[i]
                               \/ wire'[i] = r
  BY <1>0, <1>3
<1>5. MailTypes'
  BY <1>0, <1>3 DEF MailInv, MailTypes, Sent
<1>6. WireServed'
  <2> SUFFICES ASSUME NEW i \in 1..Len(wire')
               PROVE  /\ wire'[i].view \in 1..view
                      /\ wire'[i].served => i = 1
                      /\ ~wire'[i].served => wire'[i].ids = <<>>
                      /\ Sent(wire'[i].ids) /\ Rising(wire'[i].ids)
                      /\ \A k \in 1..Len(wire'[i].ids) :
                           IF wire'[i].kind = "send" THEN wire'[i].ids[k] \in own
                           ELSE \A j \in 1..Len(mailbox) : wire'[i].ids[k] < mailbox[j]
    BY DEF WireServed, Sent, Rising
  <2>1. CASE i \in 1..Len(wire) /\ wire'[i] = wire[i]
    BY <2>1 DEF MailInv, WireServed
  <2>2. CASE wire'[i] = r
    <3>1. view \in 1..view
      BY ClientAssumption DEF MailInv, MailTypes, Dms!MessagesAssumption
    <3>2. <<>> \in Seq(Nat) /\ 1..Len(<<>>) = {}
      OBVIOUS
    <3>3. Sent(<<>>) /\ Rising(<<>>)
      BY <3>2 DEF Sent, Rising
    <3> QED BY <1>2, <2>2, <3>1, <3>2, <3>3
  <2> QED BY <1>4, <2>1, <2>2
<1>7. Received'
  <2>1. \A i \in 1..Len(wire') : wire'[i].kind # "send" =>
          (i \in 1..Len(wire) /\ wire'[i] = wire[i]) \/ wire'[i].ids = <<>>
    BY <1>2, <1>4
  <2> SUFFICES ASSUME NEW v \in 1..MaxViews, NEW n \in 1..Len(dms[v]), dms[v][n] \notin own,
                      NEW i \in 1..Len(wire'), wire'[i].kind # "send",
                      NEW k \in 1..Len(wire'[i].ids)
               PROVE  dms[v][n] < wire'[i].ids[k]
    BY DEF MailInv, Received, After
  <2>2. i \in 1..Len(wire) /\ wire'[i] = wire[i]
    BY <2>1
  <2> QED BY <2>2 DEF MailInv, Received, After
<1>8. History(cache)' /\ \A v \in 1..MaxViews : History(dms[v])'
  BY DEF MailInv, History, InOrder, Single
<1>9. ASSUME NEW m \in 1..stored PROVE Accounted(m)'
  <2>1. Accounted(m)
    BY DEF MailInv
  <2>2. CASE \E i \in 1..Len(wire) : i = 1 /\ \E k \in 1..Len(wire[i].ids) : wire[i].ids[k] = m
    <3>1. 1 \in 1..Len(wire') /\ wire'[1] = wire[1]
      BY <1>0, <1>3, <2>2
    <3> QED BY <2>2, <3>1 DEF Accounted
  <2>3. CASE ~\E i \in 1..Len(wire) : i = 1 /\ \E k \in 1..Len(wire[i].ids) : wire[i].ids[k] = m
    BY <2>1, <2>3 DEF Accounted
  <2> QED BY <2>2, <2>3
<1>10. Rising(mailbox)' /\ stored' = stored
  BY DEF MailInv, Rising
<1> QED BY <1>5, <1>6, <1>7, <1>8, <1>9, <1>10 DEF MailInv


(* The first request is done with: none of the others was served.           *)
LEMMA PopStep ==
  ASSUME MailInv, wire # <<>>, wire' = Tail(wire),
         UNCHANGED <<mailbox, stored, garbled, own, view, mounted>>,
         stopped' \in BOOLEAN, chain' \in {"timer", "poll", "ended"},
         dms' \in [1..MaxViews -> Seq(Nat)], History(cache)',
         \A v \in 1..MaxViews : History(dms[v])',
         kept \subseteq kept', kept' \subseteq 1..stored,
         lost \subseteq lost', lost' \subseteq 1..stored,
         \A v \in 1..MaxViews : \A n \in 1..Len(dms'[v]) : dms'[v][n] \notin own =>
           \A j \in 1..Len(mailbox) : dms'[v][n] < mailbox[j],
         \A k \in 1..Len(wire[1].ids) :
           \/ wire[1].ids[k] \in own \cup garbled \cup lost' \cup kept'
           \/ Cardinality({n \in kept' : n > wire[1].ids[k]}) >= MaxKept
  PROVE  MailInv'
<1>0. /\ wire \in Seq(Requests) /\ Len(wire) \in Nat /\ MaxOut \in Nat /\ Len(wire) <= MaxOut
      /\ stored \in Nat
  BY ClientAssumption DEF MailInv, MailTypes, Dms!MessagesAssumption
<1>1. /\ wire' \in Seq(Requests) /\ Len(wire') = Len(wire) - 1
      /\ \A i \in 1..Len(wire') : wire'[i] = wire[i + 1] /\ i + 1 \in 1..Len(wire)
  BY <1>0, Shorter
<1>2. ASSUME NEW i \in 1..Len(wire')
      PROVE  /\ wire'[i].view \in 1..view /\ ~wire'[i].served /\ wire'[i].ids = <<>>
  <2>1. wire'[i] = wire[i + 1] /\ i + 1 \in 1..Len(wire) /\ i + 1 # 1
    BY <1>0, <1>1
  <2> QED BY <2>1 DEF MailInv, WireServed
<1>3. <<>> \in Seq(Nat) /\ 1..Len(<<>>) = {}
  OBVIOUS
<1>4. MailTypes'
  <2>1. Len(wire') <= MaxOut
    BY <1>0, <1>1
  <2> QED BY <1>1, <2>1 DEF MailInv, MailTypes, Sent
<1>5. WireServed'
  <2> SUFFICES ASSUME NEW i \in 1..Len(wire')
               PROVE  /\ wire'[i].view \in 1..view
                      /\ wire'[i].served => i = 1
                      /\ ~wire'[i].served => wire'[i].ids = <<>>
                      /\ Sent(wire'[i].ids) /\ Rising(wire'[i].ids)
                      /\ \A k \in 1..Len(wire'[i].ids) :
                           IF wire'[i].kind = "send" THEN wire'[i].ids[k] \in own
                           ELSE \A j \in 1..Len(mailbox) : wire'[i].ids[k] < mailbox[j]
    BY DEF WireServed, Sent, Rising
  <2>1. Sent(<<>>) /\ Rising(<<>>)
    BY <1>3 DEF Sent, Rising
  <2> QED BY <1>2, <1>3, <2>1
<1>6. Received'
  <2>1. \A i \in 1..Len(wire') : 1..Len(wire'[i].ids) = {}
    BY <1>2, <1>3
  <2> QED BY <2>1 DEF Received, After
<1>7. ASSUME NEW m \in 1..stored PROVE Accounted(m)'
  <2>1. Accounted(m)
    BY DEF MailInv
  <2>2. CASE \E i \in 1..Len(wire) : i = 1 /\ \E k \in 1..Len(wire[i].ids) : wire[i].ids[k] = m
    BY <2>2 DEF Accounted
  <2>3. CASE \E j \in 1..Len(mailbox) : mailbox[j] = m
    BY <2>3 DEF Accounted
  <2> QED BY <1>0, <2>1, <2>2, <2>3, AccountedStays DEF MailInv
<1>8. Rising(mailbox)' /\ stored' = stored
  BY DEF MailInv, Rising
<1> QED BY <1>4, <1>5, <1>6, <1>7, <1>8 DEF MailInv

(* The answer is recorded, or finds nobody.                                 *)
LEMMA RecordStep ==
  ASSUME MailInv, wire # <<>>, wire' = Tail(wire),
         UNCHANGED <<mailbox, stored, garbled, own, view, mounted>>,
         stopped' \in BOOLEAN, chain' \in {"timer", "poll", "ended"},
         NEW ms \in Seq(Nat), Rising(ms),
         \A k \in 1..Len(ms) : \E i \in 1..Len(wire[1].ids) : wire[1].ids[i] = ms[k],
         \A i \in 1..Len(wire[1].ids) :
           \/ wire[1].ids[i] \in garbled
           \/ \E k \in 1..Len(ms) : wire[1].ids[i] = ms[k],
         Dms!RecordDms(Head(wire), ms)
  PROVE  MailInv'
<1> DEFINE r == wire[1]
<1>0. /\ wire \in Seq(Requests) /\ stored \in Nat /\ Len(wire) \in Nat /\ 1 \in 1..Len(wire)
      /\ Head(wire) = r /\ r \in Requests
  <2>1. wire \in Seq(Requests) /\ stored \in Nat
    BY ClientAssumption DEF MailInv, MailTypes, Dms!MessagesAssumption
  <2> QED BY <2>1, Shorter
<1>1. /\ r.view \in 1..MaxViews /\ Sent(r.ids) /\ Rising(r.ids)
      /\ \A k \in 1..Len(r.ids) :
           IF r.kind = "send" THEN r.ids[k] \in own
           ELSE \A j \in 1..Len(mailbox) : r.ids[k] < mailbox[j]
  <2>1. r.view \in 1..view /\ view \in 1..MaxViews /\ MaxViews \in Nat
    BY <1>0, ClientAssumption DEF MailInv, MailTypes, WireServed, Dms!MessagesAssumption
  <2>2. r.view \in 1..MaxViews
    BY <2>1
  <2> QED BY <1>0, <2>2 DEF MailInv, WireServed
<1>2. \A k \in 1..Len(ms) : ms[k] \in 1..stored
  BY <1>1 DEF Sent
<1>3. \A x : x \in Dms!Elems(ms) <=> \E k \in 1..Len(ms) : ms[k] = x
  BY ElemsAre
<1>4. CASE /\ ~Dms!Mine(r) /\ lost' = lost \cup Dms!Elems(ms)
           /\ UNCHANGED <<dms, cache, kept>>
  <2>1. lost' \subseteq 1..stored
    BY <1>2, <1>3, <1>4 DEF MailInv, MailTypes
  <2>2. \A k \in 1..Len(r.ids) : r.ids[k] \in own \cup garbled \cup lost' \cup kept'
    BY <1>3, <1>4
  <2>3. History(cache)' /\ \A v \in 1..MaxViews : History(dms[v])'
    BY <1>4 DEF MailInv, History, InOrder, Single
  <2>4. \A v \in 1..MaxViews : \A n \in 1..Len(dms'[v]) : dms'[v][n] \notin own =>
           \A j \in 1..Len(mailbox) : dms'[v][n] < mailbox[j]
    BY <1>4 DEF MailInv, Received, After
  <2>5. dms' \in [1..MaxViews -> Seq(Nat)] /\ kept \subseteq kept' /\ kept' \subseteq 1..stored
    BY <1>4 DEF MailInv, MailTypes
  <2> QED BY <1>4, <2>1, <2>2, <2>3, <2>4, <2>5, PopStep
<1>5. CASE LET next == Dms!AddDmRecords(dms[r.view], ms)
           IN /\ dms' = [dms EXCEPT ![r.view] = next]
              /\ IF next # dms[r.view] \/ r.kind = "send"
                 THEN cache' = next /\ kept' = kept \cup Dms!Elems(next)
                 ELSE UNCHANGED <<cache, kept>>
              /\ lost' = lost
  <2>0. PICK s : s = dms[r.view]
    OBVIOUS
  <2>1. PICK t : t = Dms!AddDmRecords(s, ms)
    OBVIOUS
  <2>2. /\ dms' = [dms EXCEPT ![r.view] = t] /\ lost' = lost
        /\ \/ cache' = t /\ kept' = kept \cup Dms!Elems(t)
           \/ t = s /\ UNCHANGED <<cache, kept>>
    BY <1>5, <2>0, <2>1
  <2>3. /\ s \in Seq(Nat) /\ Len(s) <= MaxKept /\ Single(s) /\ InOrder(s)
        /\ \A i \in 1..Len(s) : s[i] \in kept
    BY <1>1, <2>0 DEF MailInv, History
  <2>4. ASSUME NEW k \in 1..Len(ms), ms[k] \notin own
        PROVE  /\ \A i \in 1..Len(s) : s[i] \notin own => s[i] < ms[k]
               /\ \A j \in 1..Len(mailbox) : ms[k] < mailbox[j]
    <3>1. PICK i \in 1..Len(r.ids) : r.ids[i] = ms[k]
      OBVIOUS
    <3>2. r.kind # "send"
      BY <1>1, <2>4, <3>1
    <3>3. \A j \in 1..Len(mailbox) : ms[k] < mailbox[j]
      BY <1>1, <3>1, <3>2
    <3>4. ASSUME NEW n \in 1..Len(s), s[n] \notin own PROVE s[n] < ms[k]
      <4>1. After(s[n])
        BY <1>1, <2>0, <3>4 DEF MailInv, Received
      <4>2. s[n] < r.ids[i]
        BY <1>0, <3>1, <3>2, <4>1 DEF After
      <4> QED BY <3>1, <4>2
    <3> QED BY <3>3, <3>4
  <2>5. AddedTo(t, s, ms, Len(ms))
    BY <2>1, <2>3, <2>4, AddedAll
  <2>6. /\ t \in Seq(Nat) /\ Len(t) <= MaxKept /\ Single(t) /\ InOrder(t)
        /\ \A j \in 1..Len(t) : \/ \E i \in 1..Len(s) : s[i] = t[j]
                                \/ \E k \in 1..Len(ms) : ms[k] = t[j]
    BY <2>5 DEF AddedTo
  <2>7. \A x : x \in Dms!Elems(t) <=> \E i \in 1..Len(t) : t[i] = x
    BY <2>6, ElemsAre
  <2>8. kept \subseteq kept' /\ \A i \in 1..Len(t) : t[i] \in kept'
    BY <2>2, <2>3, <2>7
  <2>9. kept \subseteq 1..stored /\ kept' \subseteq 1..stored
    <3>1. kept \subseteq 1..stored
      BY DEF MailInv, MailTypes
    <3>2. \A j \in 1..Len(t) : t[j] \in 1..stored
      BY <1>2, <2>3, <2>6, <3>1
    <3> QED BY <2>2, <2>7, <3>1, <3>2
  <2>10. History(t)'
    BY <2>6, <2>8 DEF History, Single, InOrder
  <2>11. \A v \in 1..MaxViews : dms'[v] = IF v = r.view THEN t ELSE dms[v]
    BY <1>1, <2>2 DEF MailInv, MailTypes
  <2>12. \A v \in 1..MaxViews : History(dms[v])'
    <3>1. \A v \in 1..MaxViews : History(dms[v])
      BY DEF MailInv
    <3> SUFFICES ASSUME NEW v \in 1..MaxViews PROVE History(dms[v])'
      OBVIOUS
    <3>2. CASE v = r.view
      <4>1. dms'[v] = t
        BY <2>11, <3>2
      <4> QED BY <2>10, <4>1 DEF History, Single, InOrder
    <3>3. CASE v # r.view
      BY <2>8, <2>11, <3>1, <3>3 DEF History, Single, InOrder
    <3> QED BY <3>2, <3>3
  <2>13. History(cache)'
    <3>1. CASE cache' = t
      BY <2>10, <3>1 DEF History, Single, InOrder
    <3>2. CASE UNCHANGED <<cache, kept>>
      BY <3>2 DEF MailInv, History, Single, InOrder
    <3> QED BY <2>2, <3>1, <3>2
  <2>14. \A v \in 1..MaxViews : \A n \in 1..Len(dms'[v]) : dms'[v][n] \notin own =>
           \A j \in 1..Len(mailbox) : dms'[v][n] < mailbox[j]
    <3>1. \A v \in 1..MaxViews : \A n \in 1..Len(dms[v]) : dms[v][n] \notin own =>
            \A j \in 1..Len(mailbox) : dms[v][n] < mailbox[j]
      BY DEF MailInv, Received, After
    <3>2. ASSUME NEW n \in 1..Len(t), t[n] \notin own, NEW j \in 1..Len(mailbox)
          PROVE  t[n] < mailbox[j]
      <4>1. CASE \E i \in 1..Len(s) : s[i] = t[n]
        BY <1>1, <2>0, <3>1, <3>2, <4>1
      <4>2. CASE \E k \in 1..Len(ms) : ms[k] = t[n]
        BY <2>4, <3>2, <4>2
      <4> QED BY <2>6, <4>1, <4>2
    <3> QED BY <2>11, <3>1, <3>2
  <2>15. ASSUME NEW i \in 1..Len(r.ids)
         PROVE  \/ r.ids[i] \in own \cup garbled \cup lost' \cup kept'
                \/ Cardinality({n \in kept' : n > r.ids[i]}) >= MaxKept
    <3>1. CASE r.ids[i] \in garbled
      BY <3>1
    <3>2. ASSUME NEW k \in 1..Len(ms), r.ids[i] = ms[k]
          PROVE  \/ r.ids[i] \in kept'
                 \/ Cardinality({n \in kept' : n > r.ids[i]}) >= MaxKept
      <4>1. \/ \E j \in 1..Len(s) : s[j] = ms[k]
            \/ \E j \in 1..Len(t) : t[j] = ms[k]
            \/ Len(t) = MaxKept /\ \A l \in 1..Len(t) : ms[k] < t[l]
        BY <2>5 DEF AddedTo
      <4>2. CASE (\E j \in 1..Len(s) : s[j] = ms[k]) \/ (\E j \in 1..Len(t) : t[j] = ms[k])
        BY <2>3, <2>8, <3>2, <4>2
      <4>3. CASE Len(t) = MaxKept /\ \A l \in 1..Len(t) : ms[k] < t[l]
        <5> DEFINE S == {n \in kept' : n > ms[k]}
        <5>1. S \in SUBSET (1..stored)
          BY <2>9
        <5>2. \A l \in 1..Len(t) : t[l] \in S
          <6>1. \A l \in 1..Len(t) : t[l] > ms[k]
            <7>1. \A l \in 1..Len(t) : t[l] \in Nat
              BY <2>6, ElementOfSeq
            <7>2. ms[k] \in Nat
              BY ElementOfSeq
            <7> QED BY <4>3, <7>1, <7>2
          <6> QED BY <2>8, <6>1
        <5> HIDE DEF S
        <5>3. Cardinality(S) >= Len(t)
          BY <1>0, <2>6, <5>1, <5>2, PlacesCount
        <5> QED BY <3>2, <4>3, <5>3 DEF S
      <4> QED BY <4>1, <4>2, <4>3
    <3> QED BY <3>1, <3>2
  <2>16. dms' \in [1..MaxViews -> Seq(Nat)] /\ lost \subseteq lost' /\ lost' \subseteq 1..stored
    BY <1>1, <2>2, <2>6 DEF MailInv, MailTypes
  <2> QED BY <2>8, <2>9, <2>12, <2>13, <2>14, <2>15, <2>16, PopStep
<1>6. Dms!RecordDms(r, ms)
  BY <1>0
<1> QED BY <1>4, <1>5, <1>6 DEF Dms!RecordDms


(* Some of the naturals are naturals.                                       *)
LEMMA SomeNaturals ==
  ASSUME NEW S, NEW k \in Seq(Nat \cap S)
  PROVE  k \in Seq(Nat) /\ Len(k) \in Nat
<1>1. Len(k) \in Nat /\ k = [i \in 1..Len(k) |-> k[i]]
  OBVIOUS
<1>2. \A i \in 1..Len(k) : k[i] \in Nat
  BY ElementOfSeq
<1>3. k \in [1..Len(k) -> Nat]
  BY <1>1, <1>2
<1> QED BY <1>1, <1>3, SeqDef

(* What is kept of a rising list is rising.                                 *)
LEMMA KeptRising ==
  ASSUME NEW list \in Seq(Nat), Rising(list), NEW S
  PROVE  Rising(Kept(list, S))
<1> DEFINE Rises(l) == Rising(l) => Rising(Kept(l, S))
           Wrong == {l \in Seq(Nat) : ~Rises(l)}
<1> SUFFICES ASSUME Wrong # {} PROVE FALSE
  OBVIOUS
<1>1. \/ <<>> \in Wrong
      \/ \E l \in Seq(Nat), x \in Nat : l \notin Wrong /\ Append(l, x) \in Wrong
  <2>1. Wrong \in SUBSET Seq(Nat)
    OBVIOUS
  <2> HIDE DEF Wrong
  <2> QED BY <2>1, LeastList
<1>2. Rises(<<>>)
  <2>1. Kept(<<>>, S) = <<>>
    BY KeptEmpty
  <2>2. Rising(<<>>)
    BY DEF Rising
  <2> QED BY <2>1, <2>2
<1>3. ASSUME NEW l \in Seq(Nat), NEW x \in Nat, Rises(l) PROVE Rises(Append(l, x))
  <2> SUFFICES ASSUME Rising(Append(l, x)) PROVE Rising(Kept(Append(l, x), S))
    OBVIOUS
  <2>1. PICK n : n = Append(l, x)
    OBVIOUS
  <2>2. /\ n \in Seq(Nat) /\ Len(n) = Len(l) + 1 /\ n[Len(l) + 1] = x /\ Len(l) \in Nat
        /\ \A i \in 1..Len(l) : n[i] = l[i]
    BY <2>1, Longer
  <2>3. \A i \in 1..Len(l) : l[i] < x
    <3> SUFFICES ASSUME NEW i \in 1..Len(l) PROVE l[i] < x
      OBVIOUS
    <3>1. i \in 1..Len(n) /\ Len(l) + 1 \in 1..Len(n) /\ i < Len(l) + 1
      BY <2>2
    <3>2. n[i] < n[Len(l) + 1]
      BY <2>1, <3>1 DEF Rising
    <3> QED BY <2>2, <3>2
  <2>4. Rising(l)
    <3> SUFFICES ASSUME NEW i \in 1..Len(l), NEW j \in 1..Len(l), i < j PROVE l[i] < l[j]
      BY DEF Rising
    <3>1. i \in 1..Len(n) /\ j \in 1..Len(n)
      BY <2>2
    <3>2. n[i] < n[j]
      BY <2>1, <3>1 DEF Rising
    <3> QED BY <2>2, <3>2
  <2>5. PICK k : k = Kept(l, S)
    OBVIOUS
  <2>6. Rising(k)
    BY <1>3, <2>4, <2>5
  <2>7. k \in Seq(Nat) /\ Len(k) \in Nat
    <3>1. k \in Seq(Nat \cap S)
      BY <2>5, KeptSeq
    <3> QED BY <3>1, SomeNaturals
  <2>8. \A j \in 1..Len(k) : k[j] < x
    <3> SUFFICES ASSUME NEW j \in 1..Len(k) PROVE k[j] < x
      OBVIOUS
    <3>1. j \in 1..Len(Kept(l, S))
      BY <2>5
    <3>2. PICK i \in 1..Len(l) : l[i] = Kept(l, S)[j]
      BY <3>1, KeptFrom
    <3> QED BY <2>3, <2>5, <3>2
  <2>9. Kept(Append(l, x), S) = IF x \in S THEN Append(k, x) ELSE k
    BY <2>5, KeptAppend
  <2>10. CASE x \notin S
    BY <2>6, <2>9, <2>10
  <2>11. CASE x \in S
    <3>1. PICK m : m = Append(k, x)
      OBVIOUS
    <3>2. /\ m \in Seq(Nat) /\ Len(m) = Len(k) + 1 /\ m[Len(k) + 1] = x
          /\ \A i \in 1..Len(k) : m[i] = k[i]
      BY <2>7, <3>1, Longer
    <3>3. Rising(m)
      <4> SUFFICES ASSUME NEW i \in 1..Len(m), NEW j \in 1..Len(m), i < j PROVE m[i] < m[j]
        BY DEF Rising
      <4>1. i \in 1..Len(k) /\ m[i] = k[i]
        <5>1. PICK a, b : a = Len(k) /\ b = Len(m)
          OBVIOUS
        <5>2. a \in Nat /\ b = a + 1 /\ i \in 1..b /\ j \in 1..b
          BY <2>7, <3>2, <5>1
        <5>3. i \in 1..a
          BY <5>2
        <5> QED BY <3>2, <5>1, <5>3
      <4>2. CASE j \in 1..Len(k)
        <5>1. m[j] = k[j]
          BY <3>2, <4>2
        <5> QED BY <2>6, <4>1, <4>2, <5>1 DEF Rising
      <4>3. CASE j = Len(k) + 1
        <5>1. k[i] < x
          BY <2>8, <4>1
        <5>2. m[j] = x
          BY <3>2, <4>3
        <5> QED BY <4>1, <5>1, <5>2
      <4>4. Len(k) \in Nat /\ Len(m) = Len(k) + 1
        BY <2>7, <3>2
      <4>5. CASE j <= Len(k)
        BY <4>2, <4>4, <4>5
      <4>6. CASE ~(j <= Len(k))
        BY <4>3, <4>4, <4>6
      <4> QED BY <4>5, <4>6
    <3> QED BY <2>9, <2>11, <3>1, <3>3
  <2> QED BY <2>10, <2>11
<1> QED
  BY <1>1, <1>2, <1>3

LEMMA PollAnsweredStep == ASSUME MailInv, Dms!PollAnswered PROVE MailInv'
<1> DEFINE r == wire[1]
           opens == Dms!Messages \ garbled
<1>1. /\ wire # <<>> /\ wire' = Tail(wire) /\ UNCHANGED <<mailbox, stored, garbled, own, view, mounted>>
      /\ stopped' \in BOOLEAN /\ chain' \in {"timer", "poll", "ended"}
      /\ Dms!RecordDms(Head(wire), Dms!Kept(Head(wire).ids, opens))
  BY DEF Dms!PollAnswered, Dms!PollEnds, MailInv, MailTypes, Dms!provider
<1>2. wire \in Seq(Requests) /\ 1 \in 1..Len(wire) /\ Head(wire) = r
  BY <1>1, Shorter DEF MailInv, MailTypes
<1>3. r.ids \in Seq(Nat) /\ Rising(r.ids) /\ \A k \in 1..Len(r.ids) : r.ids[k] \in 1..stored
  BY <1>2 DEF MailInv, WireServed, Sent
<1>4. PICK ms : ms = Kept(r.ids, opens)
  OBVIOUS
<1>5. Dms!RecordDms(Head(wire), ms)
  BY <1>1, <1>2, <1>4, SameKept
<1>6. ms \in Seq(Nat)
  <2>1. ms \in Seq(Nat \cap opens)
    BY <1>3, <1>4, KeptSeq
  <2> QED BY <2>1, SomeNaturals
<1>7. Rising(ms)
  BY <1>3, <1>4, KeptRising
<1>8. ASSUME NEW k \in 1..Len(ms) PROVE \E i \in 1..Len(r.ids) : r.ids[i] = ms[k]
  <2> HIDE DEF r, opens
  <2>1. PICK ids, set : ids = r.ids /\ set = opens
    OBVIOUS
  <2>2. ids \in Seq(Nat) /\ ms = Kept(ids, set) /\ k \in 1..Len(Kept(ids, set))
    BY <1>3, <1>4, <2>1
  <2>3. \E i \in 1..Len(ids) : ids[i] = Kept(ids, set)[k]
    BY <2>2, KeptFrom
  <2> QED BY <2>1, <2>2, <2>3
<1>9. ASSUME NEW i \in 1..Len(r.ids)
      PROVE  r.ids[i] \in garbled \/ \E k \in 1..Len(ms) : r.ids[i] = ms[k]
  <2>1. r.ids[i] \in Dms!Messages
    <3>1. stored \in 0..MaxDms /\ MaxDms \in Nat /\ r.ids[i] \in 1..stored
      BY <1>3, ClientAssumption DEF MailInv, MailTypes, Dms!MessagesAssumption
    <3> QED BY <3>1 DEF Dms!Messages
  <2>2. CASE r.ids[i] \in opens
    <3>1. PICK ids \in Seq(Nat) : ids = r.ids
      BY <1>3
    <3>2. PICK j \in 1..Len(Kept(ids, opens)) :
            Kept(ids, opens)[j] = ids[i] /\ Len(Kept(ids, opens)) - j <= Len(ids) - i
      <4>1. i \in 1..Len(ids) /\ ids[i] \in opens
        BY <2>2, <3>1
      <4> HIDE DEF opens
      <4> QED BY <4>1, KeptPlace
    <3> QED BY <1>4, <3>1, <3>2
  <2> QED BY <2>1, <2>2
<1> HIDE DEF opens
<1> QED BY <1>1, <1>5, <1>6, <1>7, <1>8, <1>9, RecordStep

LEMMA SendAnsweredStep == ASSUME MailInv, Dms!SendAnswered PROVE MailInv'
<1>1. /\ wire # <<>> /\ wire' = Tail(wire) /\ UNCHANGED <<mailbox, stored, garbled, own, view, mounted>>
      /\ stopped' \in BOOLEAN /\ chain' \in {"timer", "poll", "ended"}
      /\ Dms!RecordDms(Head(wire), Head(wire).ids)
  BY DEF Dms!SendAnswered, MailInv, MailTypes, Dms!provider
<1>2. wire \in Seq(Requests) /\ 1 \in 1..Len(wire) /\ Head(wire) = wire[1]
  BY <1>1, Shorter DEF MailInv, MailTypes
<1>3. PICK ms : ms = wire[1].ids
  OBVIOUS
<1>4. ms \in Seq(Nat) /\ Rising(ms) /\ Dms!RecordDms(Head(wire), ms)
  BY <1>1, <1>2, <1>3 DEF MailInv, WireServed, Sent
<1> QED BY <1>1, <1>3, <1>4, RecordStep

(* A request that came to nothing.                                          *)
LEMMA LostStep ==
  ASSUME MailInv, wire # <<>>, wire' = Tail(wire),
         UNCHANGED <<mailbox, stored, garbled, own, view, mounted, dms, cache, kept>>,
         stopped' \in BOOLEAN, chain' \in {"timer", "poll", "ended"},
         lost \subseteq lost', lost' \subseteq 1..stored,
         \A k \in 1..Len(wire[1].ids) : wire[1].ids[k] \in own \cup lost'
  PROVE  MailInv'
<1>1. History(cache)' /\ \A v \in 1..MaxViews : History(dms[v])'
  BY DEF MailInv, History, InOrder, Single
<1>2. \A v \in 1..MaxViews : \A n \in 1..Len(dms'[v]) : dms'[v][n] \notin own =>
        \A j \in 1..Len(mailbox) : dms'[v][n] < mailbox[j]
  BY DEF MailInv, Received, After
<1>3. dms' \in [1..MaxViews -> Seq(Nat)] /\ kept \subseteq kept' /\ kept' \subseteq 1..stored
  BY DEF MailInv, MailTypes
<1> QED BY <1>1, <1>2, <1>3, PopStep

LEMMA FailedSteps ==
  ASSUME MailInv, Dms!PollFails \/ Dms!PollRefused \/ Dms!SendFails
  PROVE  MailInv'
<1> DEFINE r == wire[1]
<1>1. /\ wire # <<>> /\ wire' = Tail(wire)
      /\ UNCHANGED <<mailbox, stored, garbled, own, view, mounted, dms, cache, kept>>
      /\ stopped' \in BOOLEAN /\ chain' \in {"timer", "poll", "ended"}
  <2>1. stopped \in BOOLEAN /\ chain \in {"timer", "poll", "ended"}
    BY DEF MailInv, MailTypes
  <2>2. CASE Dms!PollFails
    BY <2>1, <2>2 DEF Dms!PollFails, Dms!PollEnds, Dms!provider
  <2>3. CASE Dms!PollRefused
    BY <2>1, <2>3 DEF Dms!PollRefused, Dms!PollEnds, Dms!provider, Dms!history
  <2>4. CASE Dms!SendFails
    BY <2>1, <2>4 DEF Dms!SendFails, Dms!provider, Dms!client, Dms!history
  <2> QED BY <2>2, <2>3, <2>4
<1>2. wire \in Seq(Requests) /\ 1 \in 1..Len(wire) /\ Head(wire) = r
  BY <1>1, Shorter DEF MailInv, MailTypes
<1>3. /\ Sent(r.ids) /\ (~r.served => r.ids = <<>>)
      /\ r.kind = "send" => \A k \in 1..Len(r.ids) : r.ids[k] \in own
  BY <1>2 DEF MailInv, WireServed
<1>4. lost \subseteq 1..stored
  BY DEF MailInv, MailTypes
<1>5. CASE Dms!PollFails
  <2>1. lost' = lost \cup Dms!Elems(r.ids)
    BY <1>2, <1>5 DEF Dms!PollFails
  <2>2. \A x : x \in Dms!Elems(r.ids) <=> \E k \in 1..Len(r.ids) : r.ids[k] = x
    BY <1>3, ElemsAre DEF Sent
  <2>3. lost' \subseteq 1..stored /\ \A k \in 1..Len(r.ids) : r.ids[k] \in lost'
    BY <1>3, <1>4, <2>1, <2>2 DEF Sent
  <2> QED BY <1>1, <2>1, <2>3, LostStep
<1>6. CASE Dms!PollRefused
  <2>1. lost' = lost /\ r.ids = <<>>
    BY <1>2, <1>3, <1>6 DEF Dms!PollRefused, Dms!history
  <2>2. 1..Len(r.ids) = {}
    BY <2>1
  <2> QED BY <1>1, <1>4, <2>1, <2>2, LostStep
<1>7. CASE Dms!SendFails
  <2>1. lost' = lost /\ r.kind = "send"
    BY <1>2, <1>7 DEF Dms!SendFails, Dms!history
  <2> QED BY <1>1, <1>3, <1>4, <2>1, LostStep
<1> QED BY <1>5, <1>6, <1>7


-----------------------------------------------------------------------------
(* The provider stores a message of another, or of the user.                *)
LEMMA StoredKeeps ==
  ASSUME MailInv, NEW to \in BOOLEAN, Dms!StoreDm(to),
         UNCHANGED <<view, mounted, dms, chain, stopped, cache, kept>>,
         own \subseteq own', own' \subseteq own \cup {stored + 1},
         garbled \subseteq garbled', garbled' \subseteq garbled \cup {stored + 1}
  PROVE  /\ stored' = stored + 1 /\ stored \in Nat /\ stored' \in 0..MaxDms
         /\ garbled' \subseteq 1..stored' /\ own' \subseteq 1..stored'
         /\ kept' \subseteq 1..stored' /\ lost' \subseteq 1..stored'
         /\ lost \subseteq lost'
         /\ Sent(mailbox)' /\ Rising(mailbox)'
         /\ History(cache)' /\ \A v \in 1..MaxViews : History(dms[v])'
         /\ \A x \in 1..stored : (\A j \in 1..Len(mailbox) : x < mailbox[j])
              => \A j \in 1..Len(mailbox') : x < mailbox'[j]
         /\ \A j \in 1..Len(mailbox) : \/ mailbox[j] \in lost'
                                       \/ \E i \in 1..Len(mailbox') : mailbox'[i] = mailbox[j]
         /\ to => \E j \in 1..Len(mailbox') : mailbox'[j] = stored + 1
         /\ \A x \in 1..stored : x \in own' => x \in own
         /\ \A m \in 1..stored' : m \in 1..stored \/ m = stored + 1
<1>0. /\ stored \in Nat /\ garbled \subseteq 1..stored /\ own \subseteq 1..stored
      /\ kept \subseteq 1..stored /\ lost \subseteq 1..stored /\ Sent(mailbox) /\ Rising(mailbox)
      /\ MailTypes
  BY ClientAssumption DEF MailInv, MailTypes, Dms!MessagesAssumption
<1>1. /\ stored' = stored + 1 /\ stored' \in 0..MaxDms
      /\ mailbox' \in Seq(Nat) /\ Rising(mailbox')
      /\ \A j \in 1..Len(mailbox') : \/ \E i \in 1..Len(mailbox) : mailbox'[j] = mailbox[i]
                                     \/ mailbox'[j] = stored + 1
      /\ lost \subseteq lost' /\ lost' \subseteq 1..stored
      /\ \A i \in 1..Len(mailbox) : \/ mailbox[i] \in lost'
                                    \/ \E j \in 1..Len(mailbox') : mailbox'[j] = mailbox[i]
      /\ to => \E j \in 1..Len(mailbox') : mailbox'[j] = stored + 1
  BY <1>0, StoreDmDoes
<1>2. /\ \A x \in 1..stored : x \in 1..stored' /\ x # stored + 1 /\ x < stored + 1
      /\ stored + 1 \in 1..stored'
      /\ \A m \in 1..stored' : m \in 1..stored \/ m = stored + 1
  BY <1>0, <1>1
<1>3. /\ garbled' \subseteq 1..stored' /\ own' \subseteq 1..stored'
      /\ kept' \subseteq 1..stored' /\ lost' \subseteq 1..stored'
  BY <1>0, <1>1, <1>2
<1>4. Sent(mailbox)' /\ Rising(mailbox)'
  <2>1. \A j \in 1..Len(mailbox') : mailbox'[j] \in 1..stored'
    BY <1>0, <1>1, <1>2 DEF Sent
  <2> QED BY <1>1, <2>1 DEF Sent, Rising
<1>5. \A x \in 1..stored : x \in own' => x \in own
  BY <1>2
<1>6. ASSUME NEW s, History(s) PROVE History(s)'
  <2>1. \A i \in 1..Len(s) : s[i] \in 1..stored
    BY <1>0, <1>6 DEF History
  <2>2. \A i \in 1..Len(s) : s[i] \notin own' => s[i] \notin own
    OBVIOUS
  <2> QED BY <1>6, <2>2 DEF History, Single, InOrder
<1>7. History(cache)' /\ \A v \in 1..MaxViews : History(dms[v])'
  <2>1. \A s : History(s) => History(s)'
    BY <1>6
  <2>2. History(cache) /\ \A v \in 1..MaxViews : History(dms[v])
    BY DEF MailInv
  <2> QED BY <2>1, <2>2 DEF History, Single, InOrder
<1>8. \A x \in 1..stored : (\A j \in 1..Len(mailbox) : x < mailbox[j])
              => \A j \in 1..Len(mailbox') : x < mailbox'[j]
  BY <1>1, <1>2
<1> QED BY <1>0, <1>1, <1>2, <1>3, <1>4, <1>5, <1>7, <1>8

LEMMA PeerSendsStep == ASSUME MailInv, NEW opens \in BOOLEAN, Dms!PeerSends(opens) PROVE MailInv'
<1>0. /\ Dms!StoreDm(TRUE) /\ UNCHANGED <<wire, view, mounted, dms, chain, stopped, cache, kept>>
      /\ own' = own /\ garbled \subseteq garbled' /\ garbled' \subseteq garbled \cup {stored + 1}
  BY DEF Dms!PeerSends, Dms!client
<1>1. /\ stored' = stored + 1 /\ stored \in Nat /\ stored' \in 0..MaxDms
      /\ garbled' \subseteq 1..stored' /\ own' \subseteq 1..stored'
      /\ kept' \subseteq 1..stored' /\ lost' \subseteq 1..stored'
      /\ lost \subseteq lost'
      /\ Sent(mailbox)' /\ Rising(mailbox)'
      /\ History(cache)' /\ \A v \in 1..MaxViews : History(dms[v])'
      /\ \A x \in 1..stored : (\A j \in 1..Len(mailbox) : x < mailbox[j])
           => \A j \in 1..Len(mailbox') : x < mailbox'[j]
      /\ \A j \in 1..Len(mailbox) : \/ mailbox[j] \in lost'
                                    \/ \E i \in 1..Len(mailbox') : mailbox'[i] = mailbox[j]
      /\ \E j \in 1..Len(mailbox') : mailbox'[j] = stored + 1
      /\ \A m \in 1..stored' : m \in 1..stored \/ m = stored + 1
  BY <1>0, StoredKeeps
<1>2. MailTypes'
  BY <1>0, <1>1 DEF MailInv, MailTypes
<1>3. WireServed'
  <2> SUFFICES ASSUME NEW i \in 1..Len(wire)
               PROVE  /\ wire[i].view \in 1..view
                      /\ wire[i].served => i = 1
                      /\ ~wire[i].served => wire[i].ids = <<>>
                      /\ Sent(wire[i].ids)' /\ Rising(wire[i].ids)
                      /\ \A k \in 1..Len(wire[i].ids) :
                           IF wire[i].kind = "send" THEN wire[i].ids[k] \in own
                           ELSE \A j \in 1..Len(mailbox') : wire[i].ids[k] < mailbox'[j]
    BY <1>0 DEF WireServed, Sent, Rising
  <2>1. Sent(wire[i].ids)
    BY DEF MailInv, WireServed
  <2>2. Sent(wire[i].ids)'
    <3>1. 1..stored \subseteq 1..stored'
      BY <1>1
    <3> QED BY <1>0, <2>1, <3>1 DEF Sent
  <2>3. \A k \in 1..Len(wire[i].ids) : wire[i].ids[k] \in 1..stored
    BY <2>1 DEF Sent
  <2> QED BY <1>1, <2>2, <2>3 DEF MailInv, WireServed
<1>4. Received'
  <2>1. \A v \in 1..MaxViews : \A n \in 1..Len(dms[v]) : dms[v][n] \in 1..stored
    BY DEF MailInv, MailTypes, History
  <2> SUFFICES ASSUME NEW v \in 1..MaxViews, NEW n \in 1..Len(dms[v]), dms[v][n] \notin own
               PROVE  After(dms[v][n])'
    BY <1>0 DEF Received
  <2>2. After(dms[v][n])
    BY DEF MailInv, Received
  <2>3. \A j \in 1..Len(mailbox') : dms[v][n] < mailbox'[j]
    <3>1. dms[v][n] \in 1..stored
      BY <2>1
    <3> QED BY <1>1, <2>2, <3>1 DEF After
  <2> QED BY <1>0, <2>2, <2>3 DEF After
<1>5. ASSUME NEW m \in 1..stored' PROVE Accounted(m)'
  <2>1. CASE m = stored + 1
    BY <1>1, <2>1 DEF Accounted
  <2>2. CASE m \in 1..stored
    <3>1. Accounted(m)
      BY <2>2 DEF MailInv
    <3>2. (\E j \in 1..Len(mailbox) : mailbox[j] = m) => Accounted(m)'
      BY <1>1 DEF Accounted
    <3>3. (\E i \in 1..Len(wire) : i = 1 /\ \E k \in 1..Len(wire[i].ids) : wire[i].ids[k] = m)
            => Accounted(m)'
      BY <1>0 DEF Accounted
    <3>4. MailTypes /\ stored' \in Nat /\ kept \subseteq kept'
      BY <1>0, <1>1 DEF MailInv
    <3> QED BY <1>0, <1>1, <3>1, <3>2, <3>3, <3>4, AccountedStays
  <2> QED BY <1>1, <2>1, <2>2
<1> QED BY <1>1, <1>2, <1>3, <1>4, <1>5 DEF MailInv


LEMMA ServePollStep == ASSUME MailInv, Dms!ServePoll PROVE MailInv'
<1>0. /\ wire # <<>> /\ Head(wire).kind # "send" /\ ~Head(wire).served /\ mailbox' = <<>>
      /\ wire' = [wire EXCEPT ![1].served = TRUE, ![1].ids = mailbox]
      /\ UNCHANGED <<stored, garbled, own, view, mounted, dms, chain, stopped, cache, kept, lost>>
  BY DEF Dms!ServePoll, Dms!FetchDms, Dms!client, Dms!history
<1>1. /\ wire \in Seq(Requests) /\ Sent(mailbox) /\ Rising(mailbox) /\ stored \in Nat
      /\ mailbox \in Seq(Nat)
  BY ClientAssumption DEF MailInv, MailTypes, Sent, Dms!MessagesAssumption
<1>2. /\ wire' \in Seq(Requests) /\ Len(wire') = Len(wire) /\ 1 \in 1..Len(wire)
      /\ wire'[1].kind = wire[1].kind /\ wire'[1].view = wire[1].view
      /\ wire'[1].served /\ wire'[1].ids = mailbox
      /\ \A i \in 1..Len(wire) : i # 1 => wire'[i] = wire[i]
  BY <1>0, <1>1, ServedFirst
<1>3. Head(wire) = wire[1] /\ wire[1].ids = <<>>
  <2>1. Head(wire) = wire[1]
    BY <1>0, <1>1, Shorter
  <2> QED BY <1>0, <1>2, <2>1 DEF MailInv, WireServed
<1>4. <<>> \in Seq(Nat) /\ 1..Len(<<>>) = {}
  OBVIOUS
<1>5. MailTypes'
  BY <1>0, <1>2, <1>4 DEF MailInv, MailTypes, Sent
<1>6. WireServed'
  <2> SUFFICES ASSUME NEW i \in 1..Len(wire)
               PROVE  /\ wire'[i].view \in 1..view
                      /\ wire'[i].served => i = 1
                      /\ ~wire'[i].served => wire'[i].ids = <<>>
                      /\ Sent(wire'[i].ids) /\ Rising(wire'[i].ids)
                      /\ \A k \in 1..Len(wire'[i].ids) :
                           wire'[i].kind = "send" => wire'[i].ids[k] \in own
    <3>1. mailbox' = <<>> /\ Len(wire') = Len(wire) /\ UNCHANGED <<stored, own, view>>
      BY <1>0, <1>2
    <3>2. \A k : k \notin 1..Len(mailbox')
      BY <1>4, <3>1
    <3> QED BY <3>1, <3>2 DEF WireServed, Sent, Rising
  <2>1. CASE i = 1
    BY <1>0, <1>1, <1>2, <1>3, <2>1 DEF MailInv, WireServed
  <2>2. CASE i # 1
    BY <1>2, <2>2 DEF MailInv, WireServed
  <2> QED BY <2>1, <2>2
<1>7. Received'
  <2> SUFFICES ASSUME NEW v \in 1..MaxViews, NEW n \in 1..Len(dms[v]), dms[v][n] \notin own,
                      NEW i \in 1..Len(wire), wire'[i].kind # "send",
                      NEW k \in 1..Len(wire'[i].ids)
               PROVE  dms[v][n] < wire'[i].ids[k]
    BY <1>0, <1>2, <1>4 DEF Received, After
  <2>1. After(dms[v][n])
    BY DEF MailInv, Received
  <2>2. CASE i = 1
    BY <1>2, <2>1, <2>2 DEF After
  <2>3. CASE i # 1
    BY <1>2, <2>1, <2>3 DEF After
  <2> QED BY <2>2, <2>3
<1>8. History(cache)' /\ \A v \in 1..MaxViews : History(dms[v])'
  BY <1>0 DEF MailInv, History, InOrder, Single
<1>9. ASSUME NEW m \in 1..stored PROVE Accounted(m)'
  <2>1. Accounted(m)
    BY DEF MailInv
  <2>2. (\E j \in 1..Len(mailbox) : mailbox[j] = m) => Accounted(m)'
    BY <1>2 DEF Accounted
  <2>3. ~\E i \in 1..Len(wire) : i = 1 /\ \E k \in 1..Len(wire[i].ids) : wire[i].ids[k] = m
    BY <1>3, <1>4
  <2> QED BY <1>0, <2>1, <2>2, <2>3 DEF Accounted
<1>10. Rising(mailbox)'
  BY <1>0, <1>4 DEF Rising
<1> QED BY <1>0, <1>5, <1>6, <1>7, <1>8, <1>9, <1>10 DEF MailInv

LEMMA ServeSendStep == ASSUME MailInv, Dms!ServeSend PROVE MailInv'
<1>0. /\ wire # <<>> /\ Head(wire).kind = "send" /\ ~Head(wire).served
      /\ \E to \in BOOLEAN : Dms!StoreDm(to)
      /\ own' = own \cup {stored + 1}
      /\ wire' = [wire EXCEPT ![1].served = TRUE, ![1].ids = <<stored + 1>>]
      /\ UNCHANGED <<garbled, view, mounted, dms, chain, stopped, cache, kept>>
  BY DEF Dms!ServeSend, Dms!client
<1>1. /\ stored' = stored + 1 /\ stored \in Nat /\ stored' \in 0..MaxDms
      /\ garbled' \subseteq 1..stored' /\ own' \subseteq 1..stored'
      /\ kept' \subseteq 1..stored' /\ lost' \subseteq 1..stored'
      /\ lost \subseteq lost'
      /\ Sent(mailbox)' /\ Rising(mailbox)'
      /\ History(cache)' /\ \A v \in 1..MaxViews : History(dms[v])'
      /\ \A x \in 1..stored : (\A j \in 1..Len(mailbox) : x < mailbox[j])
           => \A j \in 1..Len(mailbox') : x < mailbox'[j]
      /\ \A j \in 1..Len(mailbox) : \/ mailbox[j] \in lost'
                                    \/ \E i \in 1..Len(mailbox') : mailbox'[i] = mailbox[j]
      /\ \A x \in 1..stored : x \in own' => x \in own
      /\ \A m \in 1..stored' : m \in 1..stored \/ m = stored + 1
  <2>1. PICK to \in BOOLEAN : Dms!StoreDm(to)
    BY <1>0
  <2> QED BY <1>0, <2>1, StoredKeeps
<1>2. PICK ids : ids = <<stored + 1>>
  OBVIOUS
<1>3. ids \in Seq(Nat) /\ 1..Len(ids) = {1} /\ ids[1] = stored + 1 /\ stored + 1 \in 1..stored'
  BY <1>1, <1>2
<1>4. /\ wire' \in Seq(Requests) /\ Len(wire') = Len(wire) /\ 1 \in 1..Len(wire)
      /\ wire'[1].kind = wire[1].kind /\ wire'[1].view = wire[1].view
      /\ wire'[1].served /\ wire'[1].ids = ids
      /\ \A i \in 1..Len(wire) : i # 1 => wire'[i] = wire[i]
  <2>1. wire \in Seq(Requests)
    BY DEF MailInv, MailTypes
  <2> QED BY <1>0, <1>2, <1>3, <2>1, ServedFirst
<1>5. Head(wire) = wire[1] /\ wire[1].ids = <<>> /\ wire[1].kind = "send"
  <2>1. Head(wire) = wire[1]
    BY <1>0, Shorter DEF MailInv, MailTypes
  <2> QED BY <1>0, <1>4, <2>1 DEF MailInv, WireServed
<1>6. MailTypes'
  BY <1>0, <1>1, <1>4 DEF MailInv, MailTypes
<1>7. ASSUME NEW i \in 1..Len(wire), i # 1
      PROVE  /\ wire'[i].view \in 1..view /\ ~wire'[i].served /\ wire'[i].ids = <<>>
  BY <1>4, <1>7 DEF MailInv, WireServed
<1>8. <<>> \in Seq(Nat) /\ 1..Len(<<>>) = {}
  OBVIOUS
<1>9. WireServed'
  <2> SUFFICES ASSUME NEW i \in 1..Len(wire)
               PROVE  /\ wire'[i].view \in 1..view
                      /\ wire'[i].served => i = 1
                      /\ ~wire'[i].served => wire'[i].ids = <<>>
                      /\ wire'[i].ids \in Seq(Nat)
                      /\ \A k \in 1..Len(wire'[i].ids) : wire'[i].ids[k] \in 1..stored'
                      /\ Rising(wire'[i].ids)
                      /\ \A k \in 1..Len(wire'[i].ids) :
                           IF wire'[i].kind = "send" THEN wire'[i].ids[k] \in own'
                           ELSE \A j \in 1..Len(mailbox') : wire'[i].ids[k] < mailbox'[j]
    <3>1. Len(wire') = Len(wire) /\ view' = view
      BY <1>0, <1>4
    <3> QED BY <3>1 DEF WireServed, Sent, Rising
  <2>1. CASE i = 1
    <3>1. wire[1].view \in 1..view
      BY <1>4 DEF MailInv, WireServed
    <3>2. Rising(ids)
      BY <1>3 DEF Rising
    <3> QED BY <1>0, <1>3, <1>4, <1>5, <2>1, <3>1, <3>2
  <2>2. CASE i # 1
    <3>1. Rising(<<>>)
      BY <1>8 DEF Rising
    <3> QED BY <1>7, <1>8, <2>2, <3>1
  <2> QED BY <2>1, <2>2
<1>10. Received'
  <2> SUFFICES ASSUME NEW v \in 1..MaxViews, NEW n \in 1..Len(dms[v]), dms[v][n] \notin own'
               PROVE  /\ \A j \in 1..Len(mailbox') : dms[v][n] < mailbox'[j]
                      /\ \A i \in 1..Len(wire) : wire'[i].kind # "send" =>
                           \A k \in 1..Len(wire'[i].ids) : dms[v][n] < wire'[i].ids[k]
    BY <1>0, <1>4 DEF Received, After
  <2>1. dms[v][n] \in 1..stored
    BY DEF MailInv, MailTypes, History
  <2>2. After(dms[v][n])
    BY <1>0 DEF MailInv, Received
  <2>3. \A j \in 1..Len(mailbox') : dms[v][n] < mailbox'[j]
    BY <1>1, <2>1, <2>2 DEF After
  <2>4. ASSUME NEW i \in 1..Len(wire), wire'[i].kind # "send" PROVE 1..Len(wire'[i].ids) = {}
    <3>1. i # 1
      BY <1>4, <1>5, <2>4
    <3> QED BY <1>7, <1>8, <3>1
  <2> QED BY <2>3, <2>4
<1>11. ASSUME NEW m \in 1..stored' PROVE Accounted(m)'
  <2>1. CASE m = stored + 1
    BY <1>0, <2>1 DEF Accounted
  <2>2. CASE m \in 1..stored
    <3>1. Accounted(m)
      BY <2>2 DEF MailInv
    <3>2. (\E j \in 1..Len(mailbox) : mailbox[j] = m) => Accounted(m)'
      BY <1>1 DEF Accounted
    <3>3. ~\E i \in 1..Len(wire) : i = 1 /\ \E k \in 1..Len(wire[i].ids) : wire[i].ids[k] = m
      BY <1>5, <1>8
    <3>4. MailTypes /\ stored' \in Nat /\ kept \subseteq kept' /\ own \subseteq own'
      BY <1>0, <1>1 DEF MailInv
    <3> QED BY <1>0, <1>1, <3>1, <3>2, <3>3, <3>4, AccountedStays
  <2> QED BY <1>1, <2>1, <2>2
<1> QED BY <1>1, <1>6, <1>9, <1>10, <1>11 DEF MailInv

(* The state of the provider and the histories stay.                        *)
LEMMA IdleStep ==
  ASSUME MailInv,
         UNCHANGED <<mailbox, stored, garbled, own, wire, dms, cache, kept, lost>>,
         view' \in view..MaxViews, mounted' \in BOOLEAN, stopped' \in BOOLEAN,
         chain' \in {"timer", "poll", "ended"}
  PROVE  MailInv'
<1>0. view \in 1..MaxViews /\ MaxViews \in Nat
  BY ClientAssumption DEF MailInv, MailTypes, Dms!MessagesAssumption
<1>1. view' \in 1..MaxViews /\ 1..view \subseteq 1..view'
  BY <1>0
<1>2. MailTypes'
  BY <1>1 DEF MailInv, MailTypes, Sent
<1>3. WireServed'
  BY <1>1 DEF MailInv, WireServed, Sent, Rising
<1>4. Received' /\ Rising(mailbox)'
  BY DEF MailInv, Received, After, Rising
<1>5. History(cache)' /\ \A v \in 1..MaxViews : History(dms[v])'
  BY DEF MailInv, History, InOrder, Single
<1>6. \A m \in 1..stored' : Accounted(m)'
  BY DEF MailInv, Accounted
<1> QED BY <1>2, <1>3, <1>4, <1>5, <1>6 DEF MailInv

LEMMA MailStep == MailInv /\ [Dms!Next]_dmVars => MailInv'
<1> SUFFICES ASSUME MailInv, [Dms!Next]_dmVars PROVE MailInv'
  OBVIOUS
<1>0. /\ mounted \in BOOLEAN /\ stopped \in BOOLEAN /\ chain \in {"timer", "poll", "ended"}
      /\ view \in 1..MaxViews /\ MaxViews \in Nat /\ view \in view..MaxViews
  BY ClientAssumption DEF MailInv, MailTypes, Dms!MessagesAssumption
<1>1. ASSUME NEW opens \in BOOLEAN, Dms!PeerSends(opens) PROVE MailInv'
  BY <1>1, PeerSendsStep
<1>2. CASE Dms!ServePoll
  BY <1>2, ServePollStep
<1>3. CASE Dms!ServeSend
  BY <1>3, ServeSendStep
<1>4. CASE Dms!Tick
  <2>1. /\ UNCHANGED <<mailbox, stored, garbled, own, view, mounted, dms, stopped, cache, kept, lost>>
        /\ \/ chain' = "ended" /\ wire' = wire
           \/ chain' = "poll" /\ Dms!Ask("tick")
    BY <1>4 DEF Dms!Tick, Dms!provider, Dms!history
  <2>2. CASE chain' = "ended" /\ wire' = wire
    BY <1>0, <2>1, <2>2, IdleStep
  <2>3. CASE chain' = "poll" /\ Dms!Ask("tick")
    BY <1>0, <2>1, <2>3, AskStep
  <2> QED BY <2>1, <2>2, <2>3
<1>5. CASE Dms!Check
  <2>1. /\ UNCHANGED <<mailbox, stored, garbled, own, view, mounted, dms, chain, cache, kept, lost>>
        /\ stopped' = FALSE /\ Dms!Ask("check")
    BY <1>5 DEF Dms!Check, Dms!provider, Dms!history
  <2> QED BY <1>0, <2>1, AskStep
<1>6. CASE Dms!Send
  <2>1. /\ UNCHANGED <<mailbox, stored, garbled, own, view, mounted, dms, chain, stopped,
                       cache, kept, lost>>
        /\ Dms!Ask("send")
    BY <1>6 DEF Dms!Send, Dms!provider, Dms!client, Dms!history
  <2> QED BY <1>0, <2>1, AskStep
<1>7. CASE Dms!PollAnswered
  BY <1>7, PollAnsweredStep
<1>8. CASE Dms!PollFails \/ Dms!PollRefused \/ Dms!SendFails
  BY <1>8, FailedSteps
<1>9. CASE Dms!SendAnswered
  BY <1>9, SendAnsweredStep
<1>10. CASE Dms!Leave
  <2>1. /\ UNCHANGED <<mailbox, stored, garbled, own, wire, view, dms, chain, stopped, cache, kept, lost>>
        /\ mounted' = FALSE
    BY <1>10 DEF Dms!Leave, Dms!provider, Dms!history
  <2> QED BY <1>0, <2>1, IdleStep
<1>11. CASE Dms!Open
  <2>1. /\ UNCHANGED <<mailbox, stored, garbled, own, wire, dms, cache, kept, lost>>
        /\ view < MaxViews /\ view' = view + 1 /\ mounted' = TRUE
        /\ chain' = "timer" /\ stopped' = FALSE
    BY <1>11 DEF Dms!Open, Dms!provider, Dms!history
  <2>2. view' \in view..MaxViews
    BY <1>0, <2>1
  <2> QED BY <2>1, <2>2, IdleStep
<1>12. CASE UNCHANGED dmVars
  <2>1. UNCHANGED <<mailbox, stored, garbled, own, wire, view, mounted, dms, chain, stopped,
                    cache, kept, lost>>
    BY <1>12 DEF dmVars
  <2> QED BY <1>0, <2>1, IdleStep
<1> QED
  BY <1>1, <1>2, <1>3, <1>4, <1>5, <1>6, <1>7, <1>8, <1>9, <1>10, <1>11, <1>12 DEF Dms!Next

LEMMA MailStart == Dms!Init => MailInv
<1> SUFFICES ASSUME Dms!Init PROVE MailInv
  OBVIOUS
<1>1. /\ mailbox = <<>> /\ stored = 0 /\ garbled = {} /\ own = {} /\ wire = <<>>
      /\ view = 1 /\ mounted = TRUE /\ chain = "timer" /\ stopped = FALSE
      /\ dms = [v \in 1..MaxViews |-> <<>>] /\ cache = <<>> /\ kept = {} /\ lost = {}
  BY DEF Dms!Init
<1>2. /\ <<>> \in Seq(Nat) /\ <<>> \in Seq(Requests) /\ Len(<<>>) = 0 /\ 1..Len(<<>>) = {}
      /\ 1..0 = {}
  OBVIOUS
<1>3. MaxViews \in Nat \ {0} /\ MaxDms \in Nat /\ MaxOut \in Nat /\ MaxKept \in Nat
  BY ClientAssumption DEF Dms!MessagesAssumption
<1>4. MailTypes
  <2>1. dms \in [1..MaxViews -> Seq(Nat)] /\ Sent(mailbox) /\ wire \in Seq(Requests)
    BY <1>1, <1>2 DEF Sent
  <2>2. stored \in 0..MaxDms /\ view \in 1..MaxViews /\ Len(wire) <= MaxOut
    BY <1>1, <1>2, <1>3
  <2>3. garbled \subseteq 1..stored /\ own \subseteq 1..stored /\ kept \subseteq 1..stored
        /\ lost \subseteq 1..stored
    BY <1>1
  <2> QED BY <1>1, <2>1, <2>2, <2>3 DEF MailTypes
<1>5. WireServed /\ Received /\ Rising(mailbox)
  BY <1>1, <1>2 DEF WireServed, Received, Rising
<1>6. History(<<>>)
  BY <1>2, <1>3 DEF History, Single, InOrder
<1> QED BY <1>1, <1>2, <1>4, <1>5, <1>6 DEF MailInv

(* What the invariant says in the words of the component.                   *)
LEMMA MailSound ==
  ASSUME MailInv
  PROVE  Dms!NothingDropped /\ Dms!RecordedOnce /\ Dms!ArrivalOrder /\ Dms!TypeOK
<1> DEFINE Lists == {cache} \cup {dms[v] : v \in 1..MaxViews}
<1>1. \A s \in Lists : History(s)
  BY DEF MailInv
<1>2. \A s \in Lists : DOMAIN s = 1..Len(s)
  BY <1>1 DEF History
<1> HIDE DEF Lists
<1>3. \A s \in Lists : \A i, j \in DOMAIN s : s[i] = s[j] => i = j
  BY <1>1, <1>2 DEF History, Single
<1>4. \A s \in Lists : \A i, j \in DOMAIN s :
        i < j /\ {s[i], s[j]} \cap own = {} => s[i] <= s[j]
  BY <1>1, <1>2 DEF History, InOrder
<1>5. ASSUME NEW s, s \in Seq(Nat) PROVE \A x : x \in Dms!Elems(s) <=> \E i \in 1..Len(s) : s[i] = x
  BY <1>5, ElemsAre
<1>6. /\ MailTypes /\ stored \in Nat /\ wire \in Seq(Requests) /\ Sent(mailbox)
      /\ \A i \in 1..Len(wire) : wire[i].ids \in Seq(Nat)
  BY ClientAssumption DEF MailInv, MailTypes, WireServed, Sent, Dms!MessagesAssumption
<1>7. ASSUME NEW m \in 1..stored
      PROVE  \/ m \in own \cup garbled \cup lost \cup kept
             \/ m \in Dms!Elems(mailbox)
             \/ wire # <<>> /\ m \in Dms!Elems(Head(wire).ids)
             \/ Dms!Cardinality({n \in kept : n > m}) >= MaxKept
  <2>1. Accounted(m)
    BY DEF MailInv
  <2>2. CASE \E j \in 1..Len(mailbox) : mailbox[j] = m
    BY <1>5, <1>6, <2>2 DEF Sent
  <2>3. CASE \E i \in 1..Len(wire) : i = 1 /\ \E k \in 1..Len(wire[i].ids) : wire[i].ids[k] = m
    <3>1. wire # <<>> /\ 1 \in 1..Len(wire)
      BY <2>3
    <3>2. Head(wire) = wire[1]
      BY <1>6, <3>1, Shorter
    <3>3. m \in Dms!Elems(wire[1].ids)
      BY <1>5, <1>6, <2>3
    <3> QED BY <3>1, <3>2, <3>3
  <2>4. Dms!Cardinality({n \in kept : n > m}) = Cardinality({n \in kept : n > m})
    BY DEF Dms!Cardinality, Cardinality
  <2> QED BY <2>1, <2>2, <2>3, <2>4 DEF Accounted
<1>8. \A s \in Lists : Len(s) <= MaxKept /\ Dms!Elems(s) \subseteq 1..stored
  <2> SUFFICES ASSUME NEW s \in Lists PROVE Len(s) <= MaxKept /\ Dms!Elems(s) \subseteq 1..stored
    OBVIOUS
  <2>1. s \in Seq(Nat) /\ Len(s) <= MaxKept /\ \A i \in 1..Len(s) : s[i] \in kept
    BY <1>1 DEF History
  <2>2. kept \subseteq 1..stored
    BY <1>6 DEF MailTypes
  <2> QED BY <1>5, <2>1, <2>2
<1>9. Dms!Elems(mailbox) \subseteq 1..stored
  BY <1>5, <1>6 DEF Sent
<1>10. \A i \in DOMAIN wire :
         /\ wire[i].kind \in {"tick", "check", "send"} /\ wire[i].view \in 1..view
         /\ wire[i].served => i = 1
  <2>1. DOMAIN wire = 1..Len(wire)
    BY <1>6
  <2>2. \A i \in 1..Len(wire) : wire[i] \in Requests
    BY <1>6, ElementOfSeq
  <2> QED BY <2>1, <2>2 DEF MailInv, WireServed, Requests
<1>11. Dms!TypeOK
  BY <1>6, <1>8, <1>9, <1>10 DEF Dms!TypeOK, MailTypes, Lists
<1> QED BY <1>3, <1>4, <1>7, <1>11
        DEF Dms!NothingDropped, Dms!RecordedOnce, Dms!ArrivalOrder, Lists

-----------------------------------------------------------------------------
(* The component a behaviour is about keeps its invariant; the others stand.*)
ClientInv == /\ focus = "dms" => MailInv
             /\ focus = "files" => FilesInv
             /\ focus = "identity" => KeyInv

LEMMA ClientStart == ClientInit => ClientInv
  BY MailStart, FilesInit, KeyStart DEF ClientInit, ClientInv

LEMMA ClientFocus ==
  ASSUME [ClientNext]_clientVars
  PROVE  /\ focus' = focus
         /\ focus = "dms" => [Dms!Next]_dmVars
         /\ focus = "files" => [Blob!Next]_fileVars
         /\ focus = "identity" => [Key!Next]_keyVars
<1>1. CASE UNCHANGED clientVars
  BY <1>1 DEF clientVars
<1>2. CASE ClientNext
  <2>1. focus' = focus
    BY <1>2 DEF ClientNext
  <2>2. CASE focus = "files"
    BY <1>2, <2>1, <2>2 DEF ClientNext
  <2>3. CASE focus = "identity"
    BY <1>2, <2>1, <2>3 DEF ClientNext
  <2>4. CASE focus = "dms"
    BY <1>2, <2>1, <2>4 DEF ClientNext
  <2> QED BY <2>1, <2>2, <2>3, <2>4
<1> QED BY <1>1, <1>2

LEMMA ClientStep == ClientInv /\ [ClientNext]_clientVars => ClientInv'
  BY ClientFocus, MailStep, FilesStep, KeyStep DEF ClientInv

(* A message for the user waits at the provider, is in the answer under way *)
(* or was saved, unless it expired, does not open, came with more than the  *)
(* history holds, or its answer came back to nobody; no history records one *)
(* twice, and it has those of others in the order they were sent, however   *)
(* polls, sends and openings of the community overlap                       *)
(* (useDirectMessages.ts and the mailbox of the provider).                  *)
THEOREM MailAlwaysKept == ClientSpec => []MailKept
<1>1. ClientInv => MailKept
  BY MailSound DEF ClientInv, MailKept
<1> QED BY ClientStart, ClientStep, <1>1, PTL DEF ClientSpec

(* A post reaches the provider only with every file it names stored, however*)
(* its parts were lost, doubled, delayed, pruned or sent again by a second  *)
(* try (composer.ts, and the staging of the provider).                      *)
THEOREM FilesAlwaysStored == ClientSpec => []AttachmentsStored
<1>1. ClientInv => AttachmentsStored
  BY FilesSound DEF ClientInv, AttachmentsStored
<1> QED BY ClientStart, ClientStep, <1>1, PTL DEF ClientSpec

(* A user with an identity can load some identity at every start, wherever  *)
(* a crash, a refusing keystore or procedures at once left the key, the     *)
(* wrapped cache and the plain one.  That it is the one adopted last is     *)
(* proved only where the keystore refused nothing and had stored it before  *)
(* the application was killed: then, once nothing is under way, that one is *)
(* loaded - and shown, unless the view still loaded another when it was     *)
(* adopted - and the cache is wrapped by the key that the keystore holds.   *)
(* All of it unless a kill took back what the keystore had answered         *)
(* (useIdentitySession.ts and identityStore.ts).                            *)
THEOREM KeysAlwaysKept == ClientSpec => []KeysKept
<1>1. ClientInv => KeysKept
  BY KeySound DEF ClientInv, KeysKept
<1> QED BY ClientStart, ClientStep, <1>1, PTL DEF ClientSpec
=============================================================================
