------------------------------ MODULE Clearnet ------------------------------
(***************************************************************************)
(* Requests to the clearnet (web/src/application/clearnet.ts) with what a   *)
(* browser adds to them: cookies (cookies.ts), credentials (auth.ts), the   *)
(* redirects followed by hand, and the validators of a page kept in the     *)
(* document cache (documentCache.ts, httpHeaders.ts, loadInto of App.tsx).  *)
(*                                                                          *)
(* Calls overlap and share the jar, the credentials and the cache.  A call  *)
(* is a chain of requests; between two of them the others run.              *)
(***************************************************************************)
EXTENDS Lists, SequencesExt, FiniteSets

CONSTANTS Urls,
          Host,         \* Host[u]: its host, which with its scheme is its origin
          Secure,       \* Secure[u]: is it https?
          Within,       \* pairs <<h, d>>: host h is d or below d
          Covers,       \* pairs <<u, p>>: cookie path p covers the path of url u
          Offers,       \* what Set-Cookie may say: [name, domain, path, secure, life]
          Session,      \* the life of a cookie without expiry
          Moves,        \* Moves[u]: the urls document u may redirect to, u for itself
          MayMove,      \* may a server change where it redirects to?
          Protected,    \* documents that ask for a password
          Passwords, Right, \* those the user types; the right one
          Calls,
          MaxRedirects, MaxCookies,
          MaxPages,     \* entries the document cache has room for
          MaxVersion, MaxNow, \* bounds: versions of a document, ticks of the clock
          None

ClearnetAssumption ==
  /\ None \notin Urls \cup Passwords /\ Protected \subseteq Urls
  /\ Moves \in [Urls -> SUBSET Urls] /\ \A u \in Urls : Moves[u] # {}
  /\ Session \notin Nat /\ \A o \in Offers : o.life \in Nat \cup {Session}
  /\ MayMove \in BOOLEAN
  /\ MaxRedirects \in Nat /\ MaxCookies \in Nat \ {0} /\ MaxPages \in Nat \ {0}
  /\ MaxVersion \in Nat /\ MaxNow \in Nat

VARIABLES
  jar,     \* cookieJarRef: the cookies, the oldest first
  disk,    \* the jar in local storage
  creds,   \* credentialsRef: the latest last
  pages,   \* documentCacheRef: pages kept by url, the latest used last
  broken,  \* clearnetConditionalBrokenRef
  calls,   \* the requests under way
  shown,   \* the page the last step showed, if it showed one
  docs,    \* the servers' documents: [ver, to]
  now

vars == <<jar, disk, creds, pages, broken, calls, shown, docs, now>>

Cookie ==
  [name : {o.name : o \in Offers}, path : {o.path : o \in Offers}, hostOnly : BOOLEAN,
   secure : {o.secure : o \in Offers}, until : Nat \cup {Session}, from : Urls,
   domain : {o.domain : o \in Offers} \cup {Host[u] : u \in Urls}]
Page == [at : Urls, ver : 0..MaxVersion, tag : 0..MaxVersion]
Call == [first : Urls, at : Urls, hops : 0..MaxRedirects, cond : {None} \cup Page,
         cookies : SUBSET Cookie, word : {None} \cup Passwords]

NullAssumption == None \notin Page \cup Call

Origin(u) == <<Host[u], Secure[u]>>
-----------------------------------------------------------------------------
(* cookies.ts                                                              *)

Purge(list) == Kept(list, {c \in ToSet(list) : c.until = Session \/ c.until > now})

Newest(list) ==
  IF Len(list) > MaxCookies THEN SubSeq(list, Len(list) - MaxCookies + 1, Len(list)) ELSE list

DomainMatches(h, c) == IF c.hostOnly THEN h = c.domain ELSE <<h, c.domain>> \in Within

Matching(list, u) ==
  {c \in ToSet(Purge(list)) : /\ DomainMatches(Host[u], c)
                              /\ <<u, c.path>> \in Covers
                              /\ c.secure => Secure[u]}

SameCookie(a, b) ==
  a.name = b.name /\ a.domain = b.domain /\ a.path = b.path /\ a.hostOnly = b.hostOnly

(* A cookie for another domain is refused, one of the same name, domain and *)
(* path replaced, one that has expired only removed.                        *)
CookieFrom(u, o) ==
  [name |-> o.name, hostOnly |-> o.domain = None, path |-> o.path, secure |-> o.secure,
   domain |-> IF o.domain = None THEN Host[u] ELSE o.domain,
   until |-> IF o.life = Session THEN Session ELSE now + o.life,
   from |-> u]                                        \* ghost: who set it

SetFromHeader(list, u, o) ==
  LET cookie == CookieFrom(u, o)
      others == Kept(list, {c \in ToSet(list) : ~SameCookie(c, cookie)})
  IN IF o.domain # None /\ <<Host[u], o.domain>> \notin Within THEN list
     ELSE IF cookie.until # Session /\ cookie.until <= now THEN Purge(others)
     ELSE Newest(Append(others, cookie))

SaveJar(list) == disk' = Purge(list)
-----------------------------------------------------------------------------
(* auth.ts: the credentials of a scope and realm; a request takes the       *)
(* latest of its scope.                                                     *)

SetCredential(u, realm, word) ==
  creds' = Append(Kept(creds, {c \in ToSet(creds) : ~(c.scope = Origin(u) /\ c.realm = realm)}),
                  [scope |-> Origin(u), realm |-> realm, word |-> word])

CredentialsOf(u) == Kept(creds, {c \in ToSet(creds) : c.scope = Origin(u)})
AuthorizationFor(u) == IF CredentialsOf(u) = <<>> THEN None ELSE Last(CredentialsOf(u)).word
-----------------------------------------------------------------------------
(* clearnet.ts: one request of a chain, with the headers its url calls for  *)
(* and those the call was given.                                            *)

Request(call, u, list) ==
  [call EXCEPT !.at = u, !.cookies = Matching(list, u), !.word = AuthorizationFor(u)]

Carried(call, u, list) == \* mutant: a redirect carries the headers of the request before
  [call EXCEPT !.at = u]
NextHop(call, u, list) == Request([call EXCEPT !.hops = @ + 1], u, list)

Init ==
  /\ jar = <<>> /\ disk = <<>> /\ creds = <<>>
  /\ pages = <<>> /\ broken = FALSE
  /\ calls = [c \in Calls |-> None] /\ shown = None
  /\ docs \in [Urls -> [ver : {0}, to : Urls]] /\ \A u \in Urls : docs[u].to \in Moves[u]
  /\ now = 0

(* documentCache.ts: a page kept, or looked up, becomes the latest; the one  *)
(* not used for longest goes when there are too many.                       *)
Others(u) == Kept(pages, {e \in ToSet(pages) : e.url # u})
PageOf(u) == IF \E i \in DOMAIN pages : pages[i].url = u
             THEN (CHOOSE e \in ToSet(pages) : e.url = u).page ELSE None
Recent(u, page) ==
  LET all == Append(Others(u), [url |-> u, page |-> page])
  IN IF Len(all) > MaxPages THEN Tail(all) ELSE all
LookUp(u) == pages' = IF PageOf(u) = None THEN pages ELSE Recent(u, PageOf(u))

(* loadInto: a page kept is shown at once, unless the load is forced; then  *)
(* its validators go with the request.                                      *)
Conditional(u) == IF broken THEN None ELSE PageOf(u)

\* Calls are alike: the next one has the first number that is free.
Load(c, u, force) ==
  /\ calls[c] = None /\ \A d \in 1..c - 1 : calls[d] # None
  /\ LookUp(u)
  /\ IF PageOf(u) # None /\ ~force
     THEN shown' = PageOf(u) /\ UNCHANGED calls
     ELSE /\ calls' = [calls EXCEPT ![c] =
                 Request([first |-> u, at |-> u, hops |-> 0, cond |-> Conditional(u),
                          cookies |-> {}, word |-> None], u, jar)]
          /\ shown' = None
  /\ UNCHANGED <<jar, disk, creds, broken, docs, now>>

(* Every answer may set a cookie, for the url that gave it, and that before *)
(* anything else is made of it: the jars there may be then.                 *)
JarsAfter(c) ==
  IF calls[c] = None THEN {} ELSE {jar} \cup {SetFromHeader(jar, calls[c].at, o) : o \in Offers}

Ends(c, list) ==
  /\ calls' = [calls EXCEPT ![c] = None]
  /\ jar' = list /\ SaveJar(list)

Redirects(call) == docs[call.at].to # call.at
Refuses(call)   == call.at \in Protected /\ call.word # Right

(* The tags of two documents may be the same.                               *)
Tag(u)           == docs[u].ver
Unmodified(call) == call.cond # None /\ call.cond.tag = Tag(call.at)

Redirected(c, list) ==
  LET call == calls[c] IN
  /\ call # None /\ Redirects(call)
  /\ IF call.hops >= MaxRedirects
     THEN Ends(c, list)
     ELSE /\ calls' = [calls EXCEPT ![c] = NextHop(call, docs[call.at].to, list)]
          /\ jar' = list /\ UNCHANGED disk
  /\ shown' = None /\ UNCHANGED <<creds, pages, broken, docs, now>>

(* 401: the user is asked, and the load is over; it begins anew, forced.    *)
AsksAuth(c, list) ==
  LET call == calls[c] IN
  /\ call # None /\ ~Redirects(call) /\ Refuses(call)
  /\ Ends(c, list)
  /\ shown' = None /\ UNCHANGED <<creds, pages, broken, docs, now>>

Served(call) == call # None /\ ~Redirects(call) /\ ~Refuses(call)

(* The page that was kept when the load began is shown again.               *)
NotModified(c, list) ==
  LET call == calls[c] IN
  /\ Served(call) /\ Unmodified(call)
  /\ shown' = call.cond
  /\ Ends(c, list)
  /\ UNCHANGED <<creds, pages, broken, docs, now>>

(* The transport may be unable to deliver a 304: then no request carries    *)
(* validators any more, this one is repeated from its first url.            *)
Unrepresentable(c, list) ==
  LET call == calls[c] IN
  /\ Served(call) /\ Unmodified(call) /\ list = jar
  /\ broken' = TRUE
  /\ SaveJar(list)
  /\ calls' = [calls EXCEPT ![c] =
       Request([call EXCEPT !.hops = 0, !.cond = None], call.first, list)]
  /\ shown' = None /\ UNCHANGED <<jar, creds, pages, docs, now>>

Keep(c, page) == pages' = Recent(calls[c].first, page)

Arrives(c, list) ==
  LET call == calls[c]
      page == [at |-> call.at, ver |-> docs[call.at].ver, tag |-> Tag(call.at)]
  IN /\ Served(call) /\ ~Unmodified(call)
     /\ shown' = page
     /\ Keep(c, page)
     /\ Ends(c, list)
     /\ UNCHANGED <<creds, broken, docs, now>>

(* A request that fails ends the call; what earlier hops set is saved.      *)
FailsUnsaved(c) == \* mutant: the jar is saved only after a call that succeeded
  /\ calls[c] # None
  /\ calls' = [calls EXCEPT ![c] = None]
  /\ shown' = None /\ UNCHANGED <<jar, disk, creds, pages, broken, docs, now>>
Fails(c) ==
  /\ calls[c] # None
  /\ Ends(c, jar)
  /\ shown' = None /\ UNCHANGED <<creds, pages, broken, docs, now>>

(* onAuthSubmit stores what the user typed for the url that asked.          *)
SignIn(u, word) ==
  /\ u \in Protected
  /\ SetCredential(u, None, word)
  /\ shown' = None /\ UNCHANGED <<jar, disk, pages, broken, calls, docs, now>>

(* The servers, the clock, and a new start of the app.                      *)
Changes(u) ==
  /\ docs[u].ver < MaxVersion
  /\ \E to \in IF MayMove THEN Moves[u] ELSE {docs[u].to} :
       docs' = [docs EXCEPT ![u] = [ver |-> @.ver + 1, to |-> to]]
  /\ shown' = None /\ UNCHANGED <<jar, disk, creds, pages, broken, calls, now>>

Tick ==
  /\ now < MaxNow /\ now' = now + 1
  /\ shown' = None /\ UNCHANGED <<jar, disk, creds, pages, broken, calls, docs>>

Restart ==
  /\ jar' = Purge(Newest(disk)) /\ UNCHANGED disk
  /\ creds' = <<>> /\ broken' = FALSE
  /\ pages' = <<>>
  /\ calls' = [c \in Calls |-> None] /\ shown' = None
  /\ UNCHANGED <<docs, now>>

Next ==
  \* with no page kept, a load is the same forced or not
  \/ \E c \in Calls, u \in Urls :
       \E force \in IF PageOf(u) = None THEN {FALSE} ELSE BOOLEAN : Load(c, u, force)
  \/ \E c \in Calls : \E list \in JarsAfter(c) :
       \/ Redirected(c, list) \/ AsksAuth(c, list)
       \/ NotModified(c, list) \/ Unrepresentable(c, list) \/ Arrives(c, list)
  \/ \E c \in Calls : Fails(c)
  \/ \E u \in Urls, word \in Passwords : SignIn(u, word)
  \/ \E u \in Urls : Changes(u)
  \/ Tick \/ Restart
-----------------------------------------------------------------------------
TypeOK ==
  /\ jar \in Seq(Cookie) /\ Len(jar) <= MaxCookies
  /\ disk \in Seq(Cookie) /\ Len(disk) <= MaxCookies
  /\ creds \in Seq([scope : {Origin(u) : u \in Urls}, realm : {None}, word : Passwords])
  /\ pages \in Seq([url : Urls, page : Page]) /\ Len(pages) <= MaxPages
  /\ calls \in [Calls -> {None} \cup Call] /\ shown \in {None} \cup Page
  /\ docs \in [Urls -> [ver : 0..MaxVersion, to : Urls]]
  /\ broken \in BOOLEAN /\ now \in 0..MaxNow

(* A request that goes out, the first of a call or one that follows a       *)
(* redirect, carries the cookies and the password of its own url: every     *)
(* cookie was set by a host of the domain it is for, by a server that has   *)
(* not taken it back since, and the password is the latest typed for that   *)
(* origin.  (clearnetFetch makes the headers anew for every hop.)           *)
BelongTo(call) ==
  /\ \A k \in call.cookies :
       /\ k.until = Session \/ k.until > now
       /\ IF k.hostOnly THEN Host[k.from] = Host[call.at]
          ELSE <<Host[k.from], k.domain>> \in Within /\ <<Host[call.at], k.domain>> \in Within
       /\ \A j \in call.cookies : SameCookie(j, k) => j = k
  /\ call.word = AuthorizationFor(call.at)

HeadersBelong ==
  \A c \in Calls : calls'[c] # None /\ calls'[c] # calls[c] => BelongTo(calls'[c])

(* While no request is under way, storage has the cookies of the jar: also  *)
(* those a hop set before a later hop failed.                               *)
JarSaved == (\A c \in Calls : calls[c] = None) => Purge(disk) = Purge(jar)

(* A load that asked the servers shows the page they have: one shown again  *)
(* upon a 304 is the page of the document that was asked, and unchanged.    *)
ShownIsCurrent ==
  \A c \in Calls :
    calls[c] # None /\ calls'[c] = None /\ shown' # None =>
      shown'.at = calls[c].at /\ shown'.ver = docs[calls[c].at].ver
=============================================================================
