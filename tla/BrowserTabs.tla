---------------------------- MODULE BrowserTabs ----------------------------
(***************************************************************************)
(* The browser's tabs: the document model of web/src/application/browser.ts *)
(* and the handlers of adapters/driving/shell/App.tsx that load documents   *)
(* into it.                                                                 *)
(*                                                                          *)
(* Several tabs load at once.  A load that ends changes the tab list by an  *)
(* updater, applied to whatever the list is by then; a click runs a handler *)
(* made by the last render, which sees the list of that render (seen) and   *)
(* may replace the whole list by one computed from it.  React may come to   *)
(* render the end of a load only after the next click, whose handler then   *)
(* writes over what it was not shown; stale tells that this has happened.   *)
(*                                                                          *)
(* A document is named by its url.  What tells one load from another is its *)
(* tab and its token, and the abort signal of the navigation it belongs to. *)
(***************************************************************************)
EXTENDS Integers, FiniteSets, Lists

CONSTANTS Urls,
          ServiceOf,    \* ServiceOf[u]: the Nym service of u; None on the clearnet
          RedirectsTo,  \* RedirectsTo[u]: where the service of u may redirect it
          AddressOf,    \* AddressOf[u]: that service, or the clearnet origin
          Roots,        \* urls whose path is /
          Typed,        \* urls the user enters, or follows from a document
          PortalLinks,  \* urls of the workspace links
          Ids,          \* tab ids (newTabId)
          MaxTabs, MaxHistory, MaxRedirects,
          MaxCached,    \* entries the document cache has room for
          MaxNav,       \* bound: navigations between two restarts
          None

Services == {ServiceOf[u] : u \in Urls} \ {None}

BrowserAssumption ==
  /\ None \notin Urls \cup Ids \cup Services
  /\ RedirectsTo \in [Urls -> SUBSET Urls]
  /\ Typed \cup PortalLinks \subseteq Urls
  /\ MaxTabs \in Nat \ {0} /\ MaxHistory \in Nat \ {0}
  /\ MaxRedirects \in Nat /\ MaxCached \in Nat /\ MaxNav \in Nat \ {0}

VARIABLES
  tabs,     \* the tab list, every queued update applied
  seen,     \* the tab list of the last render
  card,     \* the sign-in card of the last render
  active,   \* activeTabId
  seq,      \* navigationSeqRef
  control,  \* abortRef: the token of the AbortController kept for each tab, or 0
  loads,    \* the loadInto calls under way
  cache,    \* urls in the document cache
  prompt,   \* authPrompt
  stale     \* has a click written over what its render did not show?

vars == <<tabs, seen, card, active, seq, control, loads, cache, prompt, stale>>
-----------------------------------------------------------------------------
(* browser.ts: one tab.                                                    *)

NewBrowserTab(id) ==
  [id |-> id, url |-> None, service |-> None, content |-> None, failed |-> FALSE,
   loading |-> FALSE, history |-> <<>>, index |-> 0, token |-> 0]

(* Push: what lies ahead is dropped, an entry is not repeated, the oldest   *)
(* entries go when there are too many.                                      *)
Pushed(tab, u) ==
  LET kept == SubSeq(tab.history, 1, tab.index)
  IN IF kept # <<>> /\ kept[Len(kept)] = u THEN kept ELSE Append(kept, u)

Newest(h) ==
  IF Len(h) > MaxHistory THEN SubSeq(h, Len(h) - MaxHistory + 1, Len(h)) ELSE h

PushEntry(tab, u) ==
  LET history == Newest(Pushed(tab, u))
  IN [history |-> history, index |-> Len(history)]

KeepsEntry(tab, u) == [history |-> tab.history, index |-> tab.index]

(* A load that is not in the history takes the place of the current entry.  *)
ReplaceEntry(tab, u) ==
  IF tab.index \in DOMAIN tab.history
  THEN [history |-> [tab.history EXCEPT ![tab.index] = u], index |-> tab.index]
  ELSE [history |-> <<u>>, index |-> 1]

(* move: Push, Replace, or the index of a history entry.                    *)
Push    == 0
Replace == -1

HistoryAfter(tab, u, move) ==
  CASE move = Push    -> PushEntry(tab, u)
    [] move = Replace -> ReplaceEntry(tab, u)
    [] OTHER -> [history |-> tab.history,
                 index |-> IF move <= Len(tab.history) THEN move ELSE Len(tab.history)]

NavigateTab(tab, u, move, token) ==
  LET same == tab.url = u
      to   == HistoryAfter(tab, u, move)
  IN [tab EXCEPT !.url = u,
                 !.service = IF same /\ ServiceOf[u] # None THEN @ ELSE None,
                 !.content = IF same THEN @ ELSE None,
                 !.failed = FALSE, !.loading = TRUE, !.token = token,
                 !.history = to.history, !.index = to.index]

(* The page of u arrives.  The service bound is the one of the tab's url.   *)
ApplyPage(tab, token, u) ==
  IF tab.token # token THEN tab
  ELSE [tab EXCEPT !.content = u, !.failed = FALSE, !.loading = FALSE,
                   !.service = IF tab.url = None THEN None ELSE ServiceOf[tab.url]]

FailPage(tab, token) ==
  IF tab.token # token THEN tab
  ELSE [tab EXCEPT !.loading = FALSE, !.failed = TRUE]

SettlePage(tab, token) ==
  IF tab.token # token THEN tab ELSE [tab EXCEPT !.loading = FALSE]

StopPage(tab) == [tab EXCEPT !.loading = FALSE, !.token = @ + 1]
-----------------------------------------------------------------------------
(* browser.ts: the list of tabs.                                           *)

IdsOf(list) == {list[i].id : i \in DOMAIN list}
TabOf(list, id) == list[CHOOSE i \in DOMAIN list : list[i].id = id]

(* setTabs((prev) => prev.map((tab) => (tab.id === id ? f(tab) : tab)))     *)
MapTab(list, id, f(_)) ==
  [i \in DOMAIN list |-> IF list[i].id = id THEN f(list[i]) ELSE list[i]]

FreshIds == {id \in Ids : /\ id \notin IdsOf(tabs) \cup IdsOf(seen)
                          /\ \A l \in loads : l.tab # id}

(* Closing the only tab leaves a blank one; closing the active one makes    *)
(* its neighbour active.                                                    *)
CloseBrowserTab(list, id, fresh) ==
  LET next == Kept(list, {tab \in Elems(list) : tab.id # id})
      at   == CHOOSE i \in DOMAIN list : list[i].id = id
  IN IF next = <<>>
     THEN [tabs |-> <<NewBrowserTab(fresh)>>, active |-> fresh]
     ELSE [tabs |-> next,
           active |-> IF active # id THEN active
                      ELSE next[IF at <= Len(next) THEN at ELSE Len(next)].id]

(* Serialised and restored: urls, histories and bound services survive.     *)
Restored(list) ==
  [i \in DOMAIN list |-> [list[i] EXCEPT !.content = None, !.failed = FALSE,
                                         !.loading = FALSE, !.token = 0]]

ActiveTab == IF active \in IdsOf(seen) THEN TabOf(seen, active) ELSE seen[1]
-----------------------------------------------------------------------------
(* App.tsx: loading.  The list a handler starts from is given, because a    *)
(* handler may have replaced it in the same event.                          *)

Init ==
  /\ \E id \in Ids : tabs = <<NewBrowserTab(id)>> /\ active = id
  /\ seen = tabs
  /\ seq = 0
  /\ control = [id \in Ids |-> 0]
  /\ loads = {} /\ cache = {}
  /\ prompt = None /\ card = None /\ stale = FALSE

(* An update queued by an event handler is rendered with the event; one     *)
(* queued by a load that ends, when React comes to it.                      *)
RenderNow   == seen' = tabs' /\ card' = prompt'
RenderLater == UNCHANGED <<seen, card>>

(* What a handler takes over from the list of its render, and writes back.  *)
WritesBack(shown, is) == stale' = (stale \/ shown # is)

Aborted(id) ==
  {[l EXCEPT !.aborted = @ \/ (l.tab = id /\ l.token = control[id])] : l \in loads}

DropPrompt(id) ==
  prompt' = IF prompt # None /\ prompt.tab = id THEN None ELSE prompt

(* beginNavigation and the synchronous part of loadInto: the navigation     *)
(* before is aborted; a document in the cache is shown at once, unless the  *)
(* load is forced.                                                          *)
BeginNavigation(list, id, u, move, force) ==
  LET token == seq + 1
      hit   == u \in cache /\ ~force
  IN /\ seq < MaxNav
     /\ seq' = token
     /\ control' = [control EXCEPT ![id] = token]
     /\ tabs' = MapTab(list, id, LAMBDA tab :
                  LET to == NavigateTab(tab, u, move, token)
                  IN IF hit THEN ApplyPage(to, token, u) ELSE to)
     /\ loads' = Aborted(id) \cup
                  (IF hit THEN {} ELSE {[tab |-> id, token |-> token, url |-> u, hops |-> 0,
                                         cached |-> u \in cache, aborted |-> FALSE]})
     /\ UNCHANGED cache

Navigate(list, id, u, move, force) ==
  BeginNavigation(list, id, u, move, force) /\ DropPrompt(id)

(* A page goes into the cache; the least recently used one may have to go.  *)
Remember(u) ==
  cache' \in {c \in SUBSET (cache \cup {u}) :
                /\ u \in c /\ Cardinality(c) <= MaxCached
                /\ Cardinality(cache \cup {u}) <= MaxCached => c = cache \cup {u}}

RunningOrNot(l) == l \in loads

(* Every await of loadInto is followed by a look at the signal.             *)
Running(l) == l \in loads /\ ~l.aborted

(* The page, or the HEAD probe that shows it can be streamed.               *)
LoadArrives(l) ==
  /\ Running(l)
  /\ tabs' = MapTab(tabs, l.tab, LAMBDA tab : ApplyPage(tab, l.token, l.url))
  /\ Remember(l.url)
  /\ loads' = loads \ {l}
  /\ RenderLater
  /\ UNCHANGED <<active, seq, control, prompt, stale>>

(* 304: the copy the load found in the cache when it began.                 *)
LoadNotModified(l) ==
  /\ Running(l) /\ l.cached
  /\ tabs' = MapTab(tabs, l.tab, LAMBDA tab : ApplyPage(tab, l.token, l.url))
  /\ loads' = loads \ {l}
  /\ RenderLater
  /\ UNCHANGED <<active, seq, control, cache, prompt, stale>>

LoadFails(l) ==
  /\ Running(l)
  /\ tabs' = MapTab(tabs, l.tab, LAMBDA tab : FailPage(tab, l.token))
  /\ loads' = loads \ {l}
  /\ RenderLater
  /\ UNCHANGED <<active, seq, control, cache, prompt, stale>>

(* A Nym service redirects: a nested loadInto, with the same token.         *)
LoadRedirects(l) ==
  /\ Running(l) /\ l.hops < MaxRedirects
  /\ \E u \in RedirectsTo[l.url] :
       LET hit == u \in cache
       IN /\ tabs' = MapTab(tabs, l.tab, LAMBDA tab :
                        LET to == NavigateTab(tab, u, Replace, l.token)
                        IN IF hit THEN ApplyPage(to, l.token, u) ELSE to)
          /\ loads' = (loads \ {l}) \cup
                (IF hit THEN {} ELSE {[l EXCEPT !.url = u, !.hops = @ + 1, !.cached = FALSE]})
  /\ RenderLater
  /\ UNCHANGED <<active, seq, control, cache, prompt, stale>>

(* 401: the tab settles and the one sign-in card is its.                    *)
LoadAsksAuth(l) ==
  /\ Running(l)
  /\ tabs' = MapTab(tabs, l.tab, LAMBDA tab : SettlePage(tab, l.token))
  /\ prompt' = [tab |-> l.tab, url |-> l.url]
  /\ loads' = loads \ {l}
  /\ RenderLater
  /\ UNCHANGED <<active, seq, control, cache, stale>>

(* A load whose signal was aborted returns without touching its tab.        *)
LoadAborted(l) ==
  /\ l \in loads /\ l.aborted
  /\ loads' = loads \ {l}
  /\ UNCHANGED <<tabs, seen, card, active, seq, control, cache, prompt, stale>>

Render ==
  /\ <<seen, card>> # <<tabs, prompt>>
  /\ seen' = tabs /\ card' = prompt
  /\ UNCHANGED <<tabs, active, seq, control, loads, cache, prompt, stale>>
-----------------------------------------------------------------------------
(* App.tsx: the user.                                                      *)

(* An address, a link of a document, or one that the system hands over,     *)
(* which is no click in the app and is rendered later.                      *)
GoTo(u) ==
  /\ Navigate(tabs, ActiveTab.id, u, Push, FALSE)
  /\ RenderNow \/ RenderLater
  /\ UNCHANGED <<active, stale>>

(* Back (delta -1) and forward (delta 1): the entry of the rendered tab.    *)
Step(delta) ==
  LET tab == ActiveTab
      at  == tab.index + delta
  IN /\ at \in DOMAIN tab.history
     /\ Navigate(tabs, tab.id, tab.history[at], at, FALSE)
     /\ WritesBack(tab.history, TabOf(tabs, tab.id).history)
     /\ RenderNow
     /\ UNCHANGED active

ReloadTab(tab) == Navigate(tabs, tab.id, tab.url, Replace, TRUE)

Reload ==
  /\ ActiveTab.url # None /\ ~ActiveTab.loading
  /\ ReloadTab(ActiveTab)
  /\ RenderNow
  /\ UNCHANGED <<active, stale>>

Stop ==
  LET id == ActiveTab.id
  IN /\ ActiveTab.loading
     /\ loads' = Aborted(id)
     /\ control' = [control EXCEPT ![id] = 0]
     /\ DropPrompt(id)
     /\ tabs' = MapTab(tabs, id, StopPage)
     /\ RenderNow
     /\ UNCHANGED <<active, seq, cache, stale>>

(* Selecting a restored tab, which has no document yet, loads it.           *)
SelectTab(id) ==
  /\ id \in IdsOf(seen) /\ id # active
  /\ active' = id
  /\ LET tab == TabOf(seen, id)
     IN IF tab.url # None /\ tab.content = None /\ ~tab.loading /\ ~tab.failed
        THEN ReloadTab(tab)
        ELSE UNCHANGED <<tabs, seq, control, loads, cache, prompt>>
  /\ RenderNow
  /\ UNCHANGED stale

UncappedNewTab ==
  /\ \E id \in FreshIds :
       tabs' = Append(seen, NewBrowserTab(id)) /\ active' = id
  /\ UNCHANGED <<seq, control, loads, cache, prompt>>
  /\ WritesBack(seen, tabs) /\ RenderNow

NewTab ==
  /\ IF Len(seen) >= MaxTabs
     THEN tabs' = seen /\ active' = seen[Len(seen)].id
     ELSE \E id \in FreshIds :
            tabs' = Append(seen, NewBrowserTab(id)) /\ active' = id
  /\ UNCHANGED <<seq, control, loads, cache, prompt>>
  /\ WritesBack(seen, tabs) /\ RenderNow

CloseTab(id) ==
  /\ id \in IdsOf(seen)
  /\ loads' = Aborted(id)
  /\ control' = [control EXCEPT ![id] = 0]
  /\ DropPrompt(id)
  /\ \E fresh \in FreshIds :
       LET next == CloseBrowserTab(seen, id, fresh)
       IN tabs' = next.tabs /\ active' = next.active
  /\ WritesBack(seen, tabs) /\ RenderNow
  /\ UNCHANGED <<seq, cache>>

(* openPortalWorkspace: a tab of that service or origin, which goes to the  *)
(* url of a link with a path; else a blank one, else a new one, else the    *)
(* active one.                                                              *)
OpenWorkspace(u) ==
  LET same  == {i \in DOMAIN seen : /\ seen[i].url # None
                                    /\ AddressOf[seen[i].url] = AddressOf[u]}
      blank == {i \in DOMAIN seen : seen[i].url = None /\ ~seen[i].loading}
      First(S) == seen[CHOOSE i \in S : \A j \in S : i <= j]
  IN /\ \/ /\ same # {}
           /\ active' = First(same).id
           /\ LET tab == First(same)
              IN IF u \notin Roots /\ tab.url # u
                 THEN Navigate(tabs, tab.id, u, Push, FALSE)
                 ELSE IF tab.content = None /\ ~tab.loading /\ ~tab.failed
                 THEN ReloadTab(tab)
                 ELSE UNCHANGED <<tabs, seq, control, loads, cache, prompt>>
           /\ UNCHANGED stale
        \/ /\ same = {} /\ blank # {}
           /\ active' = First(blank).id
           /\ Navigate(tabs, First(blank).id, u, Push, FALSE)
           /\ UNCHANGED stale
        \/ /\ same = {} /\ blank = {} /\ Len(seen) < MaxTabs
           /\ \E id \in FreshIds :
                /\ active' = id
                /\ Navigate(Append(seen, NewBrowserTab(id)), id, u, Push, FALSE)
           /\ WritesBack(seen, tabs)
        \/ /\ same = {} /\ blank = {} /\ Len(seen) >= MaxTabs
           /\ Navigate(tabs, ActiveTab.id, u, Push, FALSE)
           /\ UNCHANGED <<active, stale>>
     /\ RenderNow

(* The card is shown on the tab that asked, while that tab is active.  What *)
(* else asked meanwhile is not answered either.                             *)
AuthSubmit ==
  /\ card # None /\ card.tab = active
  /\ BeginNavigation(tabs, card.tab, card.url, Replace, TRUE)
  /\ prompt' = None
  /\ RenderNow
  /\ UNCHANGED <<active, stale>>

AuthCancel ==
  /\ card # None /\ card.tab = active
  /\ prompt' = None /\ UNCHANGED tabs
  /\ RenderNow
  /\ UNCHANGED <<active, seq, control, loads, cache, stale>>

(* After an in-place reconnect the visible document is loaded again.        *)
Reconnected ==
  /\ ActiveTab.url # None
  /\ ReloadTab(ActiveTab)
  /\ RenderLater
  /\ UNCHANGED <<active, stale>>

(* The page is left and started again: the last rendered list was saved,    *)
(* and the active tab's document is loaded.                                 *)
Restart ==
  LET list == Restored(seen)
      tab  == TabOf(list, active)
      load == tab.url # None
  IN /\ tabs' = MapTab(list, active, LAMBDA t :
                  IF load THEN NavigateTab(t, t.url, Replace, 1) ELSE t)
     /\ seq' = IF load THEN 1 ELSE 0
     /\ control' = [id \in Ids |-> IF load /\ id = active THEN 1 ELSE 0]
     /\ loads' = IF load THEN {[tab |-> active, token |-> 1, url |-> tab.url, hops |-> 0,
                                cached |-> FALSE, aborted |-> FALSE]}
                 ELSE {}
     /\ cache' = {} /\ prompt' = None
     /\ RenderNow
     /\ UNCHANGED <<active, stale>>
-----------------------------------------------------------------------------
Next ==
  \/ \E l \in loads :
       \/ LoadArrives(l) \/ LoadNotModified(l) \/ LoadFails(l)
       \/ LoadRedirects(l) \/ LoadAsksAuth(l) \/ LoadAborted(l)
  \/ \E u \in Typed : GoTo(u)
  \/ \E u \in PortalLinks : OpenWorkspace(u)
  \/ \E delta \in {-1, 1} : Step(delta)
  \/ \E id \in Ids : SelectTab(id) \/ CloseTab(id)
  \/ Reload \/ Stop \/ NewTab \/ AuthSubmit \/ AuthCancel
  \/ Reconnected \/ Restart \/ Render

Spec == Init /\ [][Next]_vars
-----------------------------------------------------------------------------
TabType ==
  [id : Ids, url : Urls \cup {None}, service : Services \cup {None},
   content : Urls \cup {None}, failed : BOOLEAN, loading : BOOLEAN,
   history : UNION {[1..n -> Urls] : n \in 0..MaxHistory}, index : 0..MaxHistory, token : Nat]

LoadType == [tab : Ids, token : Nat, url : Urls, hops : 0..MaxRedirects,
             cached : BOOLEAN, aborted : BOOLEAN]

(* Every variable keeps its type; there is always a tab, never more than    *)
(* MAX_TABS, no two share an id, and the active one is among them.          *)
TypeOK ==
  /\ \A list \in {tabs, seen} :
       /\ Len(list) \in 1..MaxTabs
       /\ \A i \in DOMAIN list : list[i] \in TabType
       /\ Cardinality(IdsOf(list)) = Len(list)
  /\ active \in IdsOf(tabs)
  /\ seq \in 0..MaxNav /\ control \in [Ids -> 0..MaxNav]
  /\ loads \subseteq LoadType /\ cache \subseteq Urls
  /\ {prompt, card} \subseteq {None} \cup [tab : Ids, url : Urls]
  /\ stale \in BOOLEAN

(* A tab never shows a document under the url of another: not a slow one    *)
(* after the user went elsewhere, nor one that was redirected; and the      *)
(* service bound to a tab (Social talks to it) is the one of its url.       *)
ContentBelongs ==
  \A i \in DOMAIN tabs :
    LET tab == tabs[i]
    IN /\ tab.content # None => tab.content = tab.url
       /\ tab.service # None => tab.url # None /\ ServiceOf[tab.url] = tab.service

(* The history index points at the url the tab shows, whatever mixture of   *)
(* pushes, redirects, steps back and forth, reloads and restarts came.      *)
HistoryPoints ==
  \A i \in DOMAIN tabs :
    LET tab == tabs[i]
    IN IF tab.url = None THEN tab.history = <<>>
       ELSE tab.index \in DOMAIN tab.history /\ tab.history[tab.index] = tab.url

(* A tab is loading exactly while a load that may still write to it runs,   *)
(* so the button that stops it neither stays for ever nor vanishes early.   *)
LoadingMeansLoad ==
  \A i \in DOMAIN tabs :
    tabs[i].loading <=> \E l \in loads : /\ ~l.aborted /\ l.tab = tabs[i].id
                                         /\ l.token = tabs[i].token

(* The sign-in card belongs to a tab that still shows the url that asked    *)
(* for it and loads nothing else.                                           *)
PromptBelongs ==
  prompt # None => \E i \in DOMAIN tabs : /\ tabs[i].id = prompt.tab
                                          /\ tabs[i].url = prompt.url
                                          /\ ~tabs[i].loading

(* navToken is a "monotonic guard for async results": no result of an older *)
(* navigation takes a tab back to it.  (A restart numbers from 1 again.)    *)
NewestWins ==
  seq' > 1 => \A i \in DOMAIN tabs, j \in DOMAIN tabs' :
                tabs[i].id = tabs'[j].id => tabs'[j].token >= tabs[i].token
=============================================================================
