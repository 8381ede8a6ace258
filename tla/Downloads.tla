----------------------------- MODULE Downloads ------------------------------
(***************************************************************************)
(* Downloads that resume: transferRanges (web/src/application/              *)
(* downloadTransfer.ts, ranges.ts), the shelf (downloads.ts) and the        *)
(* handlers of App.tsx that run a transfer for an entry of the shelf or for *)
(* a media document to keep offline (portalMediaCache.ts).                  *)
(*                                                                          *)
(* The document may be replaced on the server at any moment: between two    *)
(* ranges of a transfer, after its HEAD, or between two attempts.  A byte   *)
(* is told apart by the version it belongs to and its offset.               *)
(*                                                                          *)
(* The catch of saveDownloadAgain stores the validator of the HEAD also     *)
(* when no byte of that version came, and the bytes retained before stay.   *)
(* Such bytes are marked, in parts and in the transfer that goes on with    *)
(* them: older is a ghost, which no action reads to decide anything.        *)
(***************************************************************************)
EXTENDS FiniteSets, Lists

CONSTANTS Entries,      \* entries of the shelf
          Media,        \* documents saved for offline use, of the same server
          Size,         \* Size[v]: the length of version v of the document
          Chunk,        \* bytes of one range response (a mixnet-sized chunk)
          MaxBytes,     \* maxBytes of a transfer
          MaxChunks,    \* DEFAULT_MAX_DOWNLOAD_CHUNKS
          MaxRetained,  \* MAX_RETAINED_DOWNLOAD_BYTES
          None

DownloadsAssumption ==
  /\ Entries \cap Media = {} /\ None \notin Nat
  /\ Size \in Seq(Nat \ {0}) /\ Size # <<>>
  /\ Chunk \in Nat \ {0} /\ MaxBytes \in Nat \ {0} /\ MaxChunks \in Nat \ {0}
  /\ MaxRetained \in Nat

VARIABLES
  version,   \* the document the server has
  tags,      \* does the server send ETags, and honour If-Range?
  shelf,     \* downloads: [status, total, etag] of an entry, or None
  parts,     \* downloadPartsRef: [entry, bytes, older] of what is retained, the latest last
  work,      \* the transfer under way for an entry or a media document, or None
  saved      \* ghost: the file the last step saved, [bytes, older], or None

vars == <<version, tags, shelf, parts, work, saved>>

Bytes(v) == [i \in 1..Size[v] |-> <<v, i>>]
Etag(v)  == IF tags THEN v ELSE None
Or(a, b) == IF a # None THEN a ELSE b

Init ==
  /\ version = 1 /\ tags \in BOOLEAN
  /\ shelf = [e \in Entries |-> None]
  /\ parts = <<>>
  /\ work  = [w \in Entries \cup Media |-> None]
  /\ saved = None

Replace ==
  /\ version < Len(Size) /\ version' = version + 1
  /\ saved' = None /\ UNCHANGED <<tags, shelf, parts, work>>
-----------------------------------------------------------------------------
(* The shelf.                                                              *)

PartOf(e) == IF \E i \in DOMAIN parts : parts[i].entry = e
             THEN (CHOOSE p \in Elems(parts) : p.entry = e).bytes ELSE <<>>
OlderPart(e) == \E i \in DOMAIN parts : parts[i].entry = e /\ parts[i].older
Without(e) == Kept(parts, {p \in Elems(parts) : p.entry # e})

(* saveCurrentPage puts a page that is shown on the shelf, whole.           *)
AddDownload(e) ==
  /\ shelf[e] = None /\ work[e] = None /\ PartOf(e) = <<>>    \* a new id
  /\ shelf' = [shelf EXCEPT ![e] = [status |-> "saved", total |-> Size[version],
                                    etag |-> Etag(version)]]
  /\ saved' = None /\ UNCHANGED <<version, tags, parts, work>>

RemoveDownload(e) ==
  /\ shelf[e] # None
  /\ shelf' = [shelf EXCEPT ![e] = None]
  /\ parts' = Without(e)
  /\ saved' = None /\ UNCHANGED <<version, tags, work>>

ClearDownloads ==
  /\ \E e \in Entries : shelf[e] # None
  /\ shelf' = [e \in Entries |-> None] /\ parts' = <<>>
  /\ saved' = None /\ UNCHANGED <<version, tags, work>>

UpdateDownload(e, status, total, etag) ==
  shelf' = IF shelf[e] = None THEN shelf
           ELSE [shelf EXCEPT ![e] = [status |-> status, total |-> total, etag |-> etag]]

(* retainPartialDownload: the oldest bytes of other entries go when there   *)
(* are too many.  Without a byte it retains nothing, and what there was is  *)
(* now under the validator of the transfer that got none.                   *)
Amount(list) ==
  LET first[n \in 0..Len(list)] == IF n = 0 THEN 0 ELSE first[n - 1] + Len(list[n].bytes)
  IN first[Len(list)]
Bounded(list) ==
  LET from(i) == SubSeq(list, i, Len(list))
  IN from(CHOOSE i \in DOMAIN list :
            /\ Amount(from(i)) <= MaxRetained \/ i = Len(list)
            /\ \A j \in 1..i - 1 : ~(Amount(from(j)) <= MaxRetained))
Marked(e) ==
  [i \in DOMAIN parts |-> [parts[i] EXCEPT !.older = @ \/ parts[i].entry = e]]
Retain(e, t) ==
  parts' = IF t.bytes = <<>> THEN Marked(e)
           ELSE Bounded(Append(Without(e), [entry |-> e, bytes |-> t.bytes, older |-> t.older]))
-----------------------------------------------------------------------------
(* saveDownloadAgain, as far as the transfer.  The entry is the one the     *)
(* click saw.                                                               *)

SaveAgain(e) ==
  /\ shelf[e] # None /\ shelf[e].status # "pending" /\ work[e] = None
  /\ work' = [work EXCEPT ![e] = [step |-> "head", entry |-> shelf[e], bytes |-> <<>>,
                                  older |-> FALSE, total |-> None, etag |-> None, hops |-> 0]]
  /\ UpdateDownload(e, "pending", shelf[e].total, shelf[e].etag)
  /\ saved' = None /\ UNCHANGED <<version, tags, parts>>

(* The bytes retained are of use if they belong to the same validator, or   *)
(* if one is not known.                                                     *)
AlwaysKeeps(e, etag) == \* mutant: the validators are not compared
  IF work[e].entry.status \in {"partial", "failed"} THEN PartOf(e) ELSE <<>>
Reusable(e, etag) ==
  LET entry == work[e].entry
      same  == entry.etag = None \/ etag = None \/ entry.etag = etag
  IN IF entry.status \in {"partial", "failed"} /\ same THEN PartOf(e) ELSE <<>>

HeadAnswered(e, known) ==
  LET entry == work[e].entry
      total == Or(IF known THEN Size[version] ELSE None, entry.total)
      etag  == Or(IF known THEN Etag(version) ELSE None, entry.etag)
  IN /\ work[e] # None /\ work[e].step = "head"
     /\ work' = [work EXCEPT ![e] =
          [step |-> "get", entry |-> entry, bytes |-> Reusable(e, etag),
           older |-> Reusable(e, etag) # <<>> /\ OlderPart(e),
           total |-> total, etag |-> etag, hops |-> 0]]
     /\ UpdateDownload(e, "pending", total, etag)
     /\ saved' = None /\ UNCHANGED <<version, tags, parts>>

(* cacheMediaForUrl: a transfer from the start; the total is the one the    *)
(* page was shown with, which may be of an earlier version.                 *)
SaveMedia(m) ==
  /\ work[m] = None
  /\ \E total \in {None} \cup {Size[v] : v \in 1..version} :
       work' = [work EXCEPT ![m] = [step |-> "get", entry |-> None, bytes |-> <<>>,
                                    older |-> FALSE, total |-> total, etag |-> None, hops |-> 0]]
  /\ saved' = None /\ UNCHANGED <<version, tags, shelf, parts>>
-----------------------------------------------------------------------------
(* transferRanges: one range request after the other.                       *)

Cut(t) == IF t.total # None /\ Len(t.bytes) > t.total THEN SubSeq(t.bytes, 1, t.total) ELSE t.bytes

Finished(w, t) ==
  /\ saved' = [bytes |-> Cut(t), older |-> t.older]
  /\ work' = [work EXCEPT ![w] = None]
  /\ IF w \in Entries
     THEN UpdateDownload(w, "saved", t.total, t.etag) /\ parts' = Without(w)
     ELSE UNCHANGED <<shelf, parts>>

Failed(w, t) ==
  /\ work' = [work EXCEPT ![w] = None]
  /\ IF w \in Entries
     THEN /\ UpdateDownload(w, IF t.bytes = <<>> THEN "failed" ELSE "partial",
                            Or(t.total, work[w].total), Or(t.etag, work[w].etag))
          /\ Retain(w, t)
     ELSE UNCHANGED <<shelf, parts>>
  /\ saved' = None

Enough(t) == t.total # None /\ Len(t.bytes) >= t.total
Getting(w) == work[w] # None /\ work[w].step = "get"
Asks(w) == Getting(w) /\ ~(work[w].hops = 0 /\ Enough(work[w])) /\ work[w].hops < MaxChunks

(* Nothing is missing, or too much has been asked for.                      *)
NothingToFetch(w) ==
  /\ Getting(w) /\ ~Asks(w)
  /\ IF work[w].hops = 0 THEN Finished(w, work[w]) ELSE Failed(w, work[w])
  /\ UNCHANGED <<version, tags>>

(* A validator that an answer has replaces the one before.                  *)
Answered(t, bytes, older) ==
  [t EXCEPT !.bytes = bytes, !.older = older, !.total = Size[version],
            !.etag = Or(Etag(version), @), !.hops = @ + 1]

(* A 206: the bytes from the offset asked for.                              *)
IfRange(t) == IF t.bytes = <<>> THEN None ELSE t.etag
Matches(t) == IfRange(t) = None \/ ~tags \/ IfRange(t) = Etag(version)

LesserOf(m, n) == IF m <= n THEN m ELSE n
RangeOf(t) == SubSeq(Bytes(version), Len(t.bytes) + 1, LesserOf(Len(t.bytes) + Chunk, Size[version]))

AppendRange(t, body) == Answered(t, t.bytes \o body, t.older)

(* A 200 has the whole document, and takes the place of what there was.     *)
TakeWhole(t) == Answered(t, Bytes(version), FALSE)

Took(w, t) ==
  IF Len(t.bytes) > MaxBytes THEN Failed(w, t)
  ELSE IF Enough(t) THEN Finished(w, t)
  ELSE work' = [work EXCEPT ![w] = t] /\ saved' = None /\ UNCHANGED <<shelf, parts>>

RangeAnswered(w) ==
  /\ Asks(w) /\ Matches(work[w]) /\ Len(work[w].bytes) < Size[version]
  /\ Took(w, AppendRange(work[w], RangeOf(work[w])))
  /\ UNCHANGED <<version, tags>>

(* The server ignores Range, or the document is not the one of If-Range.    *)
WholeAnswered(w) ==
  /\ Asks(w)
  /\ Took(w, TakeWhole(work[w]))
  /\ UNCHANGED <<version, tags>>

(* 416: the document has become shorter than the offset.                    *)
RangeRefused(w) ==
  /\ Asks(w) /\ Matches(work[w]) /\ Len(work[w].bytes) >= Size[version]
  /\ IF Enough(work[w]) THEN Finished(w, work[w]) ELSE Failed(w, work[w])
  /\ UNCHANGED <<version, tags>>

RequestFails(w) ==
  /\ Asks(w)
  /\ Failed(w, work[w])
  /\ UNCHANGED <<version, tags>>

(* The shelf is in local storage; the bytes are not.                        *)
Restart ==
  /\ parts' = <<>> /\ work' = [w \in DOMAIN work |-> None]
  /\ saved' = None /\ UNCHANGED <<version, tags, shelf>>

Next ==
  \/ Replace \/ ClearDownloads \/ Restart
  \/ \E e \in Entries : AddDownload(e) \/ RemoveDownload(e) \/ SaveAgain(e)
                        \/ HeadAnswered(e, TRUE) \/ HeadAnswered(e, FALSE)
  \/ \E m \in Media : SaveMedia(m)
  \/ \E w \in DOMAIN work : NothingToFetch(w) \/ RangeAnswered(w) \/ WholeAnswered(w)
                            \/ RangeRefused(w) \/ RequestFails(w)
-----------------------------------------------------------------------------
TypeOK ==
  /\ version \in DOMAIN Size /\ tags \in BOOLEAN
  /\ \A e \in Entries : shelf[e] # None =>
       shelf[e].status \in {"pending", "partial", "saved", "failed"}
  /\ \A i, j \in DOMAIN parts : parts[i].entry = parts[j].entry => i = j
  /\ Len(parts) > 1 => Amount(parts) <= MaxRetained
  /\ \A w \in DOMAIN work : work[w] # None =>
       work[w].step \in {"head", "get"} /\ work[w].hops \in 0..MaxChunks

(* A file that is saved has every byte in its place, and when the server    *)
(* sends validators it is one version of the document, whole: whatever was  *)
(* replaced between the ranges and attempts it was put together from, and   *)
(* wherever these broke off.  Except for one that goes on with bytes that   *)
(* were retained when another attempt failed without a byte of its own.     *)
SavedWhole ==
  saved # None =>
    /\ \A i \in DOMAIN saved.bytes : saved.bytes[i][2] = i
    /\ tags /\ ~saved.older => \E v \in DOMAIN Size : saved.bytes = Bytes(v)

(* "Resume only when the retained bytes belong to the same validator"       *)
(* (App.tsx), also after such an attempt.                                   *)
ResumedWhole ==
  saved # None /\ tags => \E v \in DOMAIN Size : saved.bytes = Bytes(v)
=============================================================================
