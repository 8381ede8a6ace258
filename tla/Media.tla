------------------------------- MODULE Media --------------------------------
(***************************************************************************)
(* Media and PDF documents of the active tab.  The player asks a path of    *)
(* the service worker for ranges (web/public/sw.js); the worker passes each *)
(* request on to the app's windows, and the one that knows the token in the *)
(* path fetches the bytes through the mixnet (mediaBridge.ts) and posts     *)
(* them back.  A document saved for offline reading is played from a blob   *)
(* instead (useOfflineMedia.ts, portalMediaCache.ts).                       *)
(*                                                                          *)
(* Bytes are counted in units, and stand for the version they are of.       *)
(***************************************************************************)
EXTENDS FiniteSets, Lists

CONSTANTS Urls, Size,       \* documents, Size[u] units long
          Tagged,           \* those whose origins send an ETag and honour If-Range
          MaxTokens, MaxAsks, MaxVersion, MaxWorkers, MaxSaves,   \* bounds
          MaxChunk, MaxHops, None

Views == [url : Urls, token : Nat, reading : BOOLEAN, created : Urls \cup {None},
          id : Nat, offline : Urls \cup {None}]

MediaAssumption ==
  /\ Size \in [Urls -> Nat \ {0}] /\ Tagged \subseteq Urls /\ MaxHops \in Nat \ {0}
  /\ None \notin Urls \cup Views \cup Nat

VARIABLES
  view,      \* the mounted MediaView or PdfView, or None
  sessions,  \* MediaSessionRegistry: token -> [url, etag]
  tokens,    \* tokens given out so far
  blobs,     \* urls of the documents whose object URLs are alive
  store,     \* the offline cache: urls saved
  saving,    \* downloads for it that run: [url, by] with the view that waits
  version,   \* of the documents at their origins
  worker,    \* which service worker controls the page
  asked,     \* requests of the player, in order: [token, url, start, end, worker]
  pending,   \* mediaPending of the workers
  inbox,     \* requests passed on to the app
  jobs,      \* respond() in the app: request -> [url, etag, offset, parts, hops]
  chunks,    \* answers posted to the worker
  got        \* the answer the player received in the last step, or None

vars == <<view, sessions, tokens, blobs, store, saving, version, worker, asked, pending,
          inbox, jobs, chunks, got>>
viewVars   == <<view, sessions, tokens, blobs>>
bridgeVars == <<asked, pending, inbox, jobs, chunks>>

Init ==
  /\ view = None /\ sessions = <<>> /\ tokens = 0 /\ blobs = {} /\ store = {} /\ saving = {}
  /\ version = [u \in Urls |-> 0] /\ worker = 1
  /\ asked = <<>> /\ pending = {} /\ inbox = {} /\ jobs = <<>> /\ chunks = {} /\ got = None

With(f, k, v)  == [x \in DOMAIN f \cup {k} |-> IF x = k THEN v ELSE f[x]]
Without(f, k)  == [x \in DOMAIN f \ {k} |-> f[x]]
-----------------------------------------------------------------------------
(* The view.  Its effects run when it is shown and when its url changes;    *)
(* their cleanups before that and when it goes.                             *)

(* useStreamUrl: a session for as long as the view shows the document.      *)
EndSession  == IF view = None THEN sessions ELSE Without(sessions, view.token)
(* useOfflineMedia: the object URL this run of the effect made is revoked.  *)
Revoked == IF view = None \/ view.created = None THEN blobs ELSE blobs \ {view.created}

(* The ETag that comes with a tab's content: the origin's when the tab was  *)
(* loaded, or none, as with a document embedded in a page.                  *)
KnownTags(u) == {None} \cup (IF u \in Tagged THEN 0..version[u] ELSE {})
Register(u) ==
  /\ tokens < MaxTokens /\ tokens' = tokens + 1
  /\ \E etag \in KnownTags(u) :
       sessions' = With(EndSession, tokens + 1, [url |-> u, etag |-> etag])

(* The tab shown next has another document, so the same view goes on with a *)
(* new url: what was shown offline stays until a saved copy is found.       *)
Switch(u) ==
  /\ u \in Urls /\ (view # None => view.url # u)
  /\ Register(u) /\ blobs' = Revoked
  /\ view' = [url |-> u, token |-> tokens + 1, reading |-> TRUE, created |-> None,
              id |-> IF view = None THEN tokens + 1 ELSE view.id,
              offline |-> IF view = None THEN None ELSE view.offline]
  /\ UNCHANGED <<store, saving, version, worker, bridgeVars>> /\ got' = None

(* The same document with another ETag, length or title: a new session.     *)
Redescribe ==
  /\ view # None /\ Register(view.url) /\ view' = [view EXCEPT !.token = tokens + 1]
  /\ UNCHANGED <<blobs, store, saving, version, worker, bridgeVars>> /\ got' = None

Leave ==
  /\ view # None /\ view' = None /\ sessions' = EndSession /\ blobs' = Revoked
  /\ UNCHANGED <<tokens, store, saving, version, worker, bridgeVars>> /\ got' = None

(* The offline cache answers; of an earlier effect it is not listened to.   *)
Loaded ==
  /\ view # None /\ view.reading
  /\ LET found == view.url \in store
     IN /\ view' = [view EXCEPT !.reading = FALSE,
                                !.created = IF found THEN view.url ELSE @,
                                !.offline = IF found THEN view.url ELSE @]
        /\ blobs' = blobs \cup (IF found THEN {view.url} ELSE {})
  /\ UNCHANGED <<sessions, tokens, store, saving, version, worker, bridgeVars>> /\ got' = None

(* "Save for offline": the button is there while nothing offline is shown,  *)
(* and works while this view is not saving already.                         *)
Save ==
  /\ view # None /\ view.offline = None /\ Cardinality(saving) < MaxSaves
  /\ \A s \in saving : s.by # view.id
  /\ saving' = saving \cup {[url |-> view.url, by |-> view.id]}
  /\ UNCHANGED <<viewVars, store, version, worker, bridgeVars>> /\ got' = None

(* The download ends, or fails; then the effect of that view runs again.    *)
Saved(s, ok) ==
  /\ s \in saving /\ saving' = saving \ {s}
  /\ store' = IF ok THEN store \cup {s.url} ELSE store
  /\ IF ok /\ view # None /\ view.id = s.by
     THEN /\ view' = [view EXCEPT !.reading = TRUE, !.created = None]
          /\ blobs' = Revoked
     ELSE UNCHANGED <<view, blobs>>
  /\ UNCHANGED <<sessions, tokens, version, worker, bridgeVars>> /\ got' = None
-----------------------------------------------------------------------------
(* The worker.                                                             *)

(* handleMediaRequest: the player wants the units from start on.            *)
Request(start, end) ==
  /\ view # None /\ view.offline = None /\ Len(asked) < MaxAsks
  /\ start < Size[view.url]
  /\ asked' = Append(asked, [token |-> view.token, url |-> view.url, start |-> start,
                             end |-> end, worker |-> worker])
  /\ pending' = pending \cup {Len(asked) + 1} /\ inbox' = inbox \cup {Len(asked) + 1}
  /\ UNCHANGED <<viewVars, store, saving, version, worker, jobs, chunks>> /\ got' = None

(* An answer goes to the worker in control by then, which may not be the    *)
(* one that asked; and a request it gave up has no use for it.              *)
Deliver(c) ==
  /\ c \in chunks /\ chunks' = chunks \ {c}
  /\ IF c.id \in pending /\ asked[c.id].worker = worker
     THEN pending' = pending \ {c.id} /\ got' = c
     ELSE UNCHANGED pending /\ got' = None
  /\ UNCHANGED <<viewVars, store, saving, version, worker, asked, inbox, jobs>>

(* After 120 s the request is answered with 504.                            *)
GiveUp(id) ==
  /\ id \in pending /\ pending' = pending \ {id}
  /\ UNCHANGED <<viewVars, store, saving, version, worker, asked, inbox, jobs, chunks>>
  /\ got' = None

(* skipWaiting, clients.claim: a new worker takes over.                     *)
Replace ==
  /\ worker < MaxWorkers /\ worker' = worker + 1
  /\ UNCHANGED <<viewVars, store, saving, version, bridgeVars>> /\ got' = None
-----------------------------------------------------------------------------
(* The app.                                                                *)

(* respond: a token that is not known here may be another window's.         *)
Respond(id) ==
  /\ id \in inbox /\ inbox' = inbox \ {id}
  /\ LET token == asked[id].token
     IN jobs' = IF token \notin DOMAIN sessions THEN jobs
                ELSE With(jobs, id, [url |-> sessions[token].url, etag |-> sessions[token].etag,
                                     offset |-> asked[id].start, parts |-> <<>>, hops |-> 0])
  /\ UNCHANGED <<viewVars, store, saving, version, worker, asked, pending, chunks>>
  /\ got' = None

Answer(id, status, start, parts) ==
  [id |-> id, url |-> jobs[id].url, status |-> status, start |-> start, parts |-> parts]
Post(c) == chunks' = chunks \cup {c} /\ jobs' = Without(jobs, c.id)

(* if-range: past the start an origin whose ETag is known is asked to go on *)
(* with the same version only, and answers with all of the new one          *)
(* otherwise.  Where no ETag is known nothing is asked, and what comes next *)
(* may be of another version than what came before.                         *)
NoCondition(job) == FALSE   \* mutant: if-range is not sent
Refused(job)     == job.offset > 0 /\ job.etag \notin {None, version[job.url]}

(* fetchWindow, one range request: 206.  It goes on to the end asked for,   *)
(* which may lie past that of the document: then the last request fails.    *)
Continues(job, ask) ==
  /\ ask.end # None /\ job.offset <= ask.end
  /\ job.offset - ask.start < MaxChunk /\ job.hops < MaxHops
Part(id) ==
  /\ id \in DOMAIN jobs /\ ~Refused(jobs[id])
  /\ \E n \in 1..(Size[jobs[id].url] - jobs[id].offset) :
     LET job  == jobs[id]
         v    == version[job.url]
         next == [job EXCEPT !.etag = IF job.url \in Tagged THEN v ELSE @,
                             !.offset = @ + n, !.hops = @ + 1,
                             !.parts = @ \o [i \in 1..n |-> v]]
     IN IF Continues(next, asked[id])
        THEN jobs' = [jobs EXCEPT ![id] = next] /\ UNCHANGED chunks
        ELSE Post(Answer(id, 206, asked[id].start, next.parts))
  /\ UNCHANGED <<viewVars, store, saving, version, worker, asked, pending, inbox>>
  /\ got' = None

(* 200: all of the document, whatever came before; or an error.             *)
Whole(id) ==
  /\ id \in DOMAIN jobs
  /\ LET u == jobs[id].url
     IN Post(Answer(id, 200, 0, [i \in 1..Size[u] |-> version[u]]))
  /\ UNCHANGED <<viewVars, store, saving, version, worker, asked, pending, inbox>>
  /\ got' = None

Fails(id) ==
  /\ id \in DOMAIN jobs /\ Post(Answer(id, 502, 0, <<>>))
  /\ UNCHANGED <<viewVars, store, saving, version, worker, asked, pending, inbox>>
  /\ got' = None

Publish(u) ==
  /\ version[u] < MaxVersion /\ version' = [version EXCEPT ![u] = @ + 1]
  /\ UNCHANGED <<viewVars, store, saving, worker, bridgeVars>> /\ got' = None

Next ==
  \/ \E u \in Urls : Switch(u) \/ Publish(u)
  \/ \E s \in saving, ok \in BOOLEAN : Saved(s, ok)
  \/ Redescribe \/ Leave \/ Loaded \/ Save \/ Replace
  \/ \E u \in Urls : \E start \in 0..Size[u] : \E end \in (start..Size[u]) \cup {None} :
       view # None /\ view.url = u /\ Request(start, end)
  \/ \E id \in 1..MaxAsks : \/ GiveUp(id) \/ Respond(id)
                            \/ Part(id) \/ Whole(id) \/ Fails(id)
  \/ \E c \in chunks : Deliver(c)
-----------------------------------------------------------------------------
TypeOK ==
  /\ view # None => view.url \in Urls /\ view.token \in 1..tokens
  /\ DOMAIN sessions \subseteq 1..tokens /\ blobs \cup store \subseteq Urls
  /\ pending \cup inbox \cup DOMAIN jobs \subseteq 1..Len(asked)
  /\ \A id \in DOMAIN jobs : jobs[id].offset <= Size[jobs[id].url]
  /\ worker \in 1..MaxWorkers

(* What the player receives are the units it asked for, of the document its *)
(* path stood for when it asked, whatever was shown or published, and       *)
(* whichever worker took over, while the parts came in; an answer is of no  *)
(* use to any other request.  They are of one version if the origin sends   *)
(* ETags, also when the session that the answer began with knew none, or an *)
(* old one; of an origin without, the code may join two.                    *)
AnswerBelongs ==
  got # None => /\ got.url = asked[got.id].url
                /\ got.url \in Tagged => Cardinality(Elems(got.parts)) <= 1
                /\ got.status = 206 => /\ got.start = asked[got.id].start
                                       /\ got.start + Len(got.parts) <= Size[got.url]

(* Sessions and object URLs go with the view that made them: none is left   *)
(* behind however views, reads of the cache and saves overlap.              *)
Released ==
  /\ DOMAIN sessions \subseteq (IF view = None THEN {} ELSE {view.token})
  /\ blobs \subseteq (IF view = None THEN {} ELSE {view.created} \cap Urls)
=============================================================================
