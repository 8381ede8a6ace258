--------------------------- MODULE BrowsingProofs ---------------------------
(* Theorems about reading through the mixnet.                               *)
(*   tabs:      no load disturbs a tab that does not wait for it.  Of the   *)
(*              loads of a tab only one was not aborted: the one its token  *)
(*              and its controller belong to.                               *)
(*   loader:    a document shown is self-contained.  What stays live is an  *)
(*              import by a string; everything else is put in its place or  *)
(*              made inert by the step that takes it from the list.         *)
(*   media:     answers belong to their requests.  A path stands for one    *)
(*              document as long as it has a session, and the units of a    *)
(*              fetch are of the version that its next request names.       *)
(*   downloads: a file that is saved is whole.  The bytes retained for an   *)
(*              entry, and those of a transfer, are of the version that its *)
(*              validator names, and have the total of that version.        *)
EXTENDS Browsing, ListProofs, FiniteSetTheorems
-----------------------------------------------------------------------------
(* tabs: what tells the loads of a tab apart.                               *)

(* A tab shows what it has loaded of its url, and its history points there. *)
Sound(tab) ==
  /\ tab.content # None => tab.content = tab.url
  /\ tab.service # None => tab.url # None /\ ServiceOf[tab.url] = tab.service
  /\ tab.index \in 0..Len(tab.history)
  /\ IF tab.url = None THEN tab.history = <<>>
     ELSE tab.index # 0 /\ tab.history[tab.index] = tab.url

TabList(list) ==
  /\ list \in Seq(Tabs!TabType) /\ Len(list) \in 1..MaxTabs
  /\ \A i, j \in 1..Len(list) : list[i].id = list[j].id => i = j
  /\ \A i \in 1..Len(list) : Sound(list[i])

(* A load that was not aborted is the one its tab waits for, and the tab    *)
(* has its controller; a tab waits for nothing else.  A tab has the number  *)
(* of its last load, or the next one if it was stopped.  The card is on a   *)
(* tab that waits for nothing.                                              *)
Awaits(tab, l) ==
  tab.id = l.tab /\ tab.token = l.token /\ tab.loading /\ tab.url = l.url
Orderly(list) ==
  /\ TabList(list)
  /\ \A l \in loads : ~l.aborted => /\ l.token = control[l.tab]
                                    /\ \E i \in 1..Len(list) : Awaits(list[i], l)
  /\ \A i \in 1..Len(list) : /\ list[i].token <= seq + 1
                             /\ list[i].loading => /\ list[i].token <= seq
                                                   /\ \E l \in loads : ~l.aborted /\ Awaits(list[i], l)
  /\ prompt # None => \E i \in 1..Len(list) : /\ list[i].id = prompt.tab
                                              /\ list[i].url = prompt.url /\ ~list[i].loading

OneLoad == \A l, m \in loads : l.tab = m.tab => l = m \/ l.aborted \/ m.aborted

TabTypes ==
  /\ seq \in 0..MaxNav /\ control \in [Ids -> 0..MaxNav]
  /\ loads \subseteq Tabs!LoadType /\ cached \subseteq Urls
  /\ prompt = None \/ prompt \in [tab : Ids, url : Urls]

(* A render changes no tab's place.                                         *)
SamePlaces(l, m) == Len(l) = Len(m) /\ \A i \in 1..Len(m) : l[i].id = m[i].id

(* A tab that was rendered as loading was not stopped since.                *)
Waited == \A i \in 1..Len(tabs) : seen[i].loading => tabs[i].token <= seq

(* What holds as long as no click wrote over what its render did not show.  *)
TabsInv ==
  /\ Orderly(tabs) /\ OneLoad /\ TabTypes
  /\ TabList(seen) /\ SamePlaces(seen, tabs) /\ Waited
  /\ card = None \/ card \in [tab : Ids, url : Urls]
  /\ \E i \in 1..Len(tabs) : tabs[i].id = active

-----------------------------------------------------------------------------
(* One tab.                                                                 *)

LEMMA TabsAssumption == Tabs!BrowserAssumption
  BY BrowsingAssumption

LEMMA HistoryType ==
  /\ \A h \in Seq(Urls) : Len(h) <= MaxHistory => h \in UNION {[1..n -> Urls] : n \in 0..MaxHistory}
  /\ \A h \in UNION {[1..n -> Urls] : n \in 0..MaxHistory} :
       h \in Seq(Urls) /\ Len(h) \in 0..MaxHistory
<1>0. MaxHistory \in Nat
  BY TabsAssumption DEF Tabs!BrowserAssumption
<1>1. ASSUME NEW h \in Seq(Urls), Len(h) <= MaxHistory
      PROVE  h \in UNION {[1..n -> Urls] : n \in 0..MaxHistory}
  <2>1. h \in [1..Len(h) -> Urls] /\ Len(h) \in 0..MaxHistory
    BY <1>0, <1>1
  <2> QED BY <2>1
<1>2. ASSUME NEW h \in UNION {[1..n -> Urls] : n \in 0..MaxHistory}
      PROVE  h \in Seq(Urls) /\ Len(h) \in 0..MaxHistory
  <2>1. PICK n \in 0..MaxHistory : h \in [1..n -> Urls]
    OBVIOUS
  <2>2. n \in Nat
    BY <1>0
  <2>3. h \in Seq(Urls) /\ Len(h) = n
    BY <2>1, <2>2, SeqDef, LenProperties
  <2> QED BY <2>3
<1> QED BY <1>1, <1>2

(* The fields of a tab.                                                     *)
LEMMA TabFields ==
  ASSUME NEW t \in Tabs!TabType
  PROVE  /\ t.id \in Ids /\ t.url \in Urls \cup {None} /\ t.service \in Tabs!Services \cup {None}
         /\ t.content \in Urls \cup {None} /\ t.failed \in BOOLEAN /\ t.loading \in BOOLEAN
         /\ t.history \in Seq(Urls) /\ Len(t.history) \in 0..MaxHistory
         /\ t.index \in 0..MaxHistory /\ t.token \in Nat
<1>1. t.history \in UNION {[1..n -> Urls] : n \in 0..MaxHistory}
  BY DEF Tabs!TabType
<1> QED BY <1>1, HistoryType DEF Tabs!TabType

LEMMA NewTabSound ==
  ASSUME NEW id \in Ids
  PROVE  LET t == Tabs!NewBrowserTab(id)
         IN /\ t \in Tabs!TabType /\ Sound(t) /\ t.id = id /\ t.url = None
            /\ t.token = 0 /\ ~t.loading
<1>1. <<>> \in Seq(Urls) /\ Len(<<>>) = 0 /\ MaxHistory \in Nat
  BY TabsAssumption DEF Tabs!BrowserAssumption
<1>2. <<>> \in UNION {[1..n -> Urls] : n \in 0..MaxHistory}
  BY <1>1, HistoryType
<1> QED BY <1>1, <1>2 DEF Tabs!NewBrowserTab, Tabs!TabType, Sound

(* An entry that is pushed is the last one.                                 *)
LEMMA PushedLast ==
  ASSUME NEW t \in Tabs!TabType, Sound(t), NEW u \in Urls
  PROVE  LET to == Tabs!PushEntry(t, u)
         IN /\ to.history \in Seq(Urls) /\ Len(to.history) \in 1..MaxHistory
            /\ to.index = Len(to.history) /\ to.history[to.index] = u
<1>0. MaxHistory \in Nat \ {0}
  BY TabsAssumption DEF Tabs!BrowserAssumption
<1>1. t.history \in Seq(Urls) /\ Len(t.history) \in 0..MaxHistory /\ t.index \in 0..Len(t.history)
  BY TabFields DEF Sound
<1>2. PICK base : base = SubSeq(t.history, 1, t.index)
  OBVIOUS
<1>3. base \in Seq(Urls) /\ Len(base) = t.index /\ Len(base) \in Nat
  BY <1>1, <1>2
<1>4. PICK h : h = Tabs!Pushed(t, u)
  OBVIOUS
<1>5. h \in Seq(Urls) /\ Len(h) \in Nat \ {0} /\ h[Len(h)] = u
  <2>1. CASE base # <<>> /\ base[Len(base)] = u
    <3>1. h = base
      BY <1>2, <1>4, <2>1 DEF Tabs!Pushed
    <3>2. Len(base) # 0
      BY <1>3, <2>1, EmptySeq
    <3> QED BY <1>3, <2>1, <3>1, <3>2
  <2>2. CASE ~(base # <<>> /\ base[Len(base)] = u)
    <3>1. h = Append(base, u)
      BY <1>2, <1>4, <2>2 DEF Tabs!Pushed
    <3> QED BY <1>3, <3>1
  <2> QED BY <2>1, <2>2
<1>6. PICK n : n = Tabs!Newest(h)
  OBVIOUS
<1>7. n \in Seq(Urls) /\ Len(n) \in 1..MaxHistory /\ n[Len(n)] = u
  <2>1. CASE Len(h) > MaxHistory
    <3>1. n = SubSeq(h, Len(h) - MaxHistory + 1, Len(h))
      BY <1>6, <2>1 DEF Tabs!Newest
    <3> QED BY <1>0, <1>5, <2>1, <3>1
  <2>2. CASE ~(Len(h) > MaxHistory)
    <3>1. n = h
      BY <1>6, <2>2 DEF Tabs!Newest
    <3> QED BY <1>0, <1>5, <2>2, <3>1
  <2> QED BY <2>1, <2>2
<1>8. Tabs!PushEntry(t, u) = [history |-> n, index |-> Len(n)]
  BY <1>4, <1>6 DEF Tabs!PushEntry
<1> QED BY <1>7, <1>8

(* A load that begins.  An entry of the history is gone to as it is.        *)
Moves(t, u, move) ==
  \/ move \in {Tabs!Push, Tabs!Replace}
  \/ move \in 1..Len(t.history) /\ t.history[move] = u

LEMMA HistorySound ==
  ASSUME NEW t \in Tabs!TabType, Sound(t), NEW u \in Urls, NEW move, Moves(t, u, move)
  PROVE  LET to == Tabs!HistoryAfter(t, u, move)
         IN /\ to.history \in Seq(Urls) /\ Len(to.history) \in 1..MaxHistory
            /\ to.index \in 1..Len(to.history) /\ to.history[to.index] = u
<1>0. MaxHistory \in Nat \ {0}
  BY TabsAssumption DEF Tabs!BrowserAssumption
<1>1. t.history \in Seq(Urls) /\ Len(t.history) \in 0..MaxHistory /\ t.index \in 0..Len(t.history)
  BY TabFields DEF Sound
<1>2. CASE move = Tabs!Push
  <2>1. Tabs!HistoryAfter(t, u, move) = Tabs!PushEntry(t, u)
    BY <1>2 DEF Tabs!HistoryAfter, Tabs!Push, Tabs!Replace
  <2> QED BY <2>1, PushedLast
<1>3. CASE move = Tabs!Replace
  <2>1. Tabs!HistoryAfter(t, u, move) = Tabs!ReplaceEntry(t, u)
    BY <1>3 DEF Tabs!HistoryAfter, Tabs!Push, Tabs!Replace
  <2>2. CASE t.index \in DOMAIN t.history
    <3>1. Tabs!ReplaceEntry(t, u) = [history |-> [t.history EXCEPT ![t.index] = u], index |-> t.index]
      BY <2>2 DEF Tabs!ReplaceEntry
    <3>2. t.index \in 1..Len(t.history)
      BY <1>1, <2>2
    <3>3. PICK h : h = [t.history EXCEPT ![t.index] = u]
      OBVIOUS
    <3>4. h \in Seq(Urls) /\ Len(h) = Len(t.history) /\ h[t.index] = u
      BY <1>1, <3>2, <3>3
    <3> QED BY <1>1, <2>1, <3>1, <3>2, <3>3, <3>4
  <2>3. CASE t.index \notin DOMAIN t.history
    <3>1. Tabs!ReplaceEntry(t, u) = [history |-> <<u>>, index |-> 1]
      BY <2>3 DEF Tabs!ReplaceEntry
    <3>2. <<u>> \in Seq(Urls) /\ Len(<<u>>) = 1 /\ <<u>>[1] = u
      OBVIOUS
    <3> QED BY <1>0, <2>1, <3>1, <3>2
  <2> QED BY <2>2, <2>3
<1>4. CASE move \in 1..Len(t.history) /\ t.history[move] = u
  <2>1. Tabs!HistoryAfter(t, u, move) = [history |-> t.history, index |-> move]
    BY <1>1, <1>4 DEF Tabs!HistoryAfter, Tabs!Push, Tabs!Replace
  <2> QED BY <1>1, <1>4, <2>1
<1> QED BY <1>2, <1>3, <1>4 DEF Moves

LEMMA NavigateSound ==
  ASSUME NEW t \in Tabs!TabType, Sound(t), NEW u \in Urls, NEW move, Moves(t, u, move),
         NEW token \in Nat
  PROVE  LET to == Tabs!NavigateTab(t, u, move, token)
         IN /\ to \in Tabs!TabType /\ Sound(to) /\ to.id = t.id /\ to.url = u
            /\ to.token = token /\ to.loading
<1>1. PICK h, n : h = Tabs!HistoryAfter(t, u, move).history /\ n = Tabs!HistoryAfter(t, u, move).index
  OBVIOUS
<1>2. /\ h \in Seq(Urls) /\ Len(h) \in 1..MaxHistory /\ n \in 1..Len(h) /\ h[n] = u
  BY <1>1, HistorySound
<1>3. MaxHistory \in Nat /\ u # None
  BY TabsAssumption DEF Tabs!BrowserAssumption
<1>4. h \in UNION {[1..k -> Urls] : k \in 0..MaxHistory} /\ n \in 0..MaxHistory
  BY <1>2, <1>3, HistoryType
<1>5. PICK to : to = Tabs!NavigateTab(t, u, move, token)
  OBVIOUS
<1>6. to = [id |-> t.id, url |-> u,
            service |-> IF t.url = u /\ ServiceOf[u] # None THEN t.service ELSE None,
            content |-> IF t.url = u THEN t.content ELSE None,
            failed |-> FALSE, loading |-> TRUE, history |-> h, index |-> n, token |-> token]
  BY <1>1, <1>5 DEF Tabs!NavigateTab, Tabs!TabType
<1>7. to \in Tabs!TabType
  BY <1>4, <1>6, TabFields DEF Tabs!TabType
<1>8. Sound(to)
  BY <1>2, <1>3, <1>6 DEF Sound
<1> QED BY <1>5, <1>6, <1>7, <1>8

(* The page a tab waits for arrives.                                        *)
LEMMA ApplySound ==
  ASSUME NEW t \in Tabs!TabType, Sound(t), t.url # None
  PROVE  LET to == Tabs!ApplyPage(t, t.token, t.url)
         IN /\ to \in Tabs!TabType /\ Sound(to) /\ to.id = t.id /\ to.url = t.url
            /\ to.token = t.token /\ ~to.loading
<1>1. PICK to : to = Tabs!ApplyPage(t, t.token, t.url)
  OBVIOUS
<1>2. to = [id |-> t.id, url |-> t.url, service |-> ServiceOf[t.url], content |-> t.url,
            failed |-> FALSE, loading |-> FALSE, history |-> t.history, index |-> t.index,
            token |-> t.token]
  BY <1>1 DEF Tabs!ApplyPage, Tabs!TabType
<1>3. ServiceOf[t.url] \in Tabs!Services \cup {None}
  BY TabFields DEF Tabs!Services
<1>4. t.history \in UNION {[1..k -> Urls] : k \in 0..MaxHistory}
  BY DEF Tabs!TabType
<1>5. to \in Tabs!TabType
  BY <1>2, <1>3, <1>4, TabFields DEF Tabs!TabType
<1>6. Sound(to)
  BY <1>2 DEF Sound
<1> QED BY <1>1, <1>2, <1>5, <1>6

(* A tab that stops loading, with the number it had or another.             *)
StillTab(t, failed, token) ==
  [id |-> t.id, url |-> t.url, service |-> t.service, content |-> t.content,
   failed |-> failed, loading |-> FALSE, history |-> t.history, index |-> t.index,
   token |-> token]

LEMMA StillSound ==
  ASSUME NEW t \in Tabs!TabType, Sound(t), NEW failed \in BOOLEAN, NEW token \in Nat
  PROVE  LET to == StillTab(t, failed, token)
         IN /\ to \in Tabs!TabType /\ Sound(to) /\ to.id = t.id /\ to.url = t.url
            /\ to.token = token /\ ~to.loading
<1>1. PICK to : to = StillTab(t, failed, token)
  OBVIOUS
<1>2. to = [id |-> t.id, url |-> t.url, service |-> t.service, content |-> t.content,
            failed |-> failed, loading |-> FALSE, history |-> t.history, index |-> t.index,
            token |-> token]
  BY <1>1 DEF StillTab
<1>3. t.history \in UNION {[1..k -> Urls] : k \in 0..MaxHistory}
  BY DEF Tabs!TabType
<1>4. to \in Tabs!TabType
  BY <1>2, <1>3, TabFields DEF Tabs!TabType
<1>5. Sound(to)
  BY <1>2 DEF Sound
<1> QED BY <1>1, <1>2, <1>4, <1>5


-----------------------------------------------------------------------------
(* The list.                                                                *)

Changed(new, list, k, t) ==
  /\ TabList(new) /\ SamePlaces(new, list) /\ new[k] = t
  /\ \A i \in 1..Len(list) : i # k => new[i] = list[i]

LEMMA InList ==
  ASSUME NEW list, TabList(list), NEW i \in 1..Len(list)
  PROVE  list[i] \in Tabs!TabType /\ Sound(list[i])
BY ElementOfSeq DEF TabList

LEMMA ListChanged ==
  ASSUME NEW list, TabList(list), NEW k \in 1..Len(list),
         NEW t \in Tabs!TabType, Sound(t), t.id = list[k].id,
         NEW new, new = [i \in DOMAIN list |-> IF list[i].id = t.id THEN t ELSE list[i]]
  PROVE  Changed(new, list, k, t)
<1>1. list \in Seq(Tabs!TabType) /\ Len(list) \in Nat /\ DOMAIN list = 1..Len(list)
  BY DEF TabList
<1>2. \A i \in 1..Len(list) : list[i] \in Tabs!TabType /\ Sound(list[i])
  BY InList
<1>3. \A i \in 1..Len(list) : list[i].id = t.id <=> i = k
  BY DEF TabList
<1>4. \A i \in 1..Len(list) : new[i] = IF i = k THEN t ELSE list[i]
  BY <1>1, <1>3
<1>5. new \in [1..Len(list) -> Tabs!TabType]
  BY <1>1, <1>2
<1>6. new \in Seq(Tabs!TabType) /\ Len(new) = Len(list)
  BY <1>1, <1>5, SeqDef, LenProperties
<1>7. \A i \in 1..Len(list) : new[i].id = list[i].id /\ Sound(new[i])
  BY <1>2, <1>4
<1>8. TabList(new)
  BY <1>6, <1>7 DEF TabList
<1> QED BY <1>4, <1>6, <1>7, <1>8 DEF Changed, SamePlaces

(* The loads of a tab that are aborted.                                     *)
LEMMA AbortedAre ==
  ASSUME NEW list, Orderly(list), TabTypes, NEW id \in Ids
  PROVE  /\ Tabs!Aborted(id) \subseteq Tabs!LoadType
         /\ \A l \in Tabs!LoadType :
              ~l.aborted => (l \in Tabs!Aborted(id) <=> l \in loads /\ l.tab # id)
<1>1. \A l \in loads : l \in Tabs!LoadType
  BY DEF TabTypes
<1>2. \A l \in loads : ~l.aborted => l.token = control[l.tab]
  BY DEF Orderly
<1>3. ASSUME NEW m \in loads, NEW l, l = [m EXCEPT !.aborted = @ \/ (m.tab = id /\ m.token = control[id])]
      PROVE  /\ l \in Tabs!LoadType
             /\ ~l.aborted => l = m /\ m.tab # id
             /\ m.tab # id => l = m
  <2>0. m \in Tabs!LoadType
    BY <1>1
  <2>1. l = [tab |-> m.tab, token |-> m.token, url |-> m.url, hops |-> m.hops, cached |-> m.cached,
             aborted |-> m.aborted \/ (m.tab = id /\ m.token = control[id])]
    BY <1>3, <2>0 DEF Tabs!LoadType
  <2>2. m = [tab |-> m.tab, token |-> m.token, url |-> m.url, hops |-> m.hops, cached |-> m.cached,
             aborted |-> m.aborted] /\ m.aborted \in BOOLEAN
    BY <2>0 DEF Tabs!LoadType
  <2>3. l \in Tabs!LoadType
    BY <2>0, <2>1 DEF Tabs!LoadType
  <2>4. l.aborted = (m.aborted \/ (m.tab = id /\ m.token = control[id]))
    BY <2>1
  <2>5. m.tab # id => l = m
    BY <2>1, <2>2
  <2>6. ~l.aborted => m.tab # id
    BY <1>2, <2>4
  <2> QED BY <2>3, <2>5, <2>6
<1>4. Tabs!Aborted(id) = {[m EXCEPT !.aborted = @ \/ (m.tab = id /\ m.token = control[id])] : m \in loads}
  BY DEF Tabs!Aborted
<1>5. Tabs!Aborted(id) \subseteq Tabs!LoadType
  BY <1>3, <1>4
<1>6. ASSUME NEW l \in Tabs!LoadType, ~l.aborted, l \in Tabs!Aborted(id)
      PROVE  l \in loads /\ l.tab # id
  <2>1. PICK m \in loads : l = [m EXCEPT !.aborted = @ \/ (m.tab = id /\ m.token = control[id])]
    BY <1>4, <1>6
  <2>2. l = m /\ m.tab # id
    BY <1>3, <1>6, <2>1
  <2> QED BY <2>2
<1>7. ASSUME NEW l \in loads, l.tab # id
      PROVE  l \in Tabs!Aborted(id)
  <2>1. l = [l EXCEPT !.aborted = @ \/ (l.tab = id /\ l.token = control[id])]
    BY <1>3, <1>7
  <2> QED BY <1>4, <2>1
<1> QED BY <1>5, <1>6, <1>7

(* A tab begins a load, of a document in the cache or not.                  *)
LEMMA NavigateKeeps ==
  ASSUME NEW list, Orderly(list), OneLoad, TabTypes, NEW k \in 1..Len(list),
         NEW u \in Urls, NEW move, Moves(list[k], u, move), NEW force \in BOOLEAN,
         Tabs!BeginNavigation(list, list[k].id, u, move, force),
         Tabs!DropPrompt(list[k].id) \/ prompt' = None
  PROVE  /\ Orderly(tabs)' /\ OneLoad' /\ TabTypes' /\ SamePlaces(tabs', list)
         /\ \A i \in 1..Len(list) : tabs'[i].token >= list[i].token
         /\ \A i \in 1..Len(list) : tabs'[i].token = list[i].token \/ tabs'[i].token <= seq'
         /\ seq' = seq + 1
<1>1. PICK id, token, hit : id = list[k].id /\ token = seq + 1 /\ hit = (u \in cached /\ ~force)
  OBVIOUS
<1>2. TabList(list) /\ list[k] \in Tabs!TabType /\ Sound(list[k]) /\ id \in Ids /\ u # None
  BY <1>1, InList, TabFields, TabsAssumption DEF Orderly, Tabs!BrowserAssumption
<1>3. /\ seq \in Nat /\ MaxNav \in Nat /\ token \in Nat /\ token \in 0..MaxNav /\ seq < token
      /\ seq' = token /\ hit \in BOOLEAN
  BY <1>1, TabsAssumption DEF TabTypes, Tabs!BeginNavigation, Tabs!BrowserAssumption
<1>4. PICK t : t = Tabs!NavigateTab(list[k], u, move, token)
  OBVIOUS
<1>5. /\ t \in Tabs!TabType /\ Sound(t) /\ t.id = id /\ t.url = u /\ t.token = token /\ t.loading
  BY <1>1, <1>2, <1>3, <1>4, NavigateSound
<1>6. PICK to : to = IF hit THEN Tabs!ApplyPage(t, token, u) ELSE t
  OBVIOUS
<1>7. /\ to \in Tabs!TabType /\ Sound(to) /\ to.id = id /\ to.url = u /\ to.token = token
      /\ to.loading <=> ~hit
  BY <1>2, <1>5, <1>6, ApplySound
<1>8. tabs' = [i \in DOMAIN list |-> IF list[i].id = to.id THEN to ELSE list[i]]
  <2>1. \A i \in DOMAIN list : list[i].id = id => list[i] = list[k]
    <3>1. DOMAIN list = 1..Len(list)
      BY <1>2 DEF TabList
    <3> QED BY <1>1, <1>2, <3>1 DEF TabList
  <2>2. tabs' = [i \in DOMAIN list |-> IF list[i].id = id
           THEN (IF hit THEN Tabs!ApplyPage(Tabs!NavigateTab(list[i], u, move, token), token, u)
                 ELSE Tabs!NavigateTab(list[i], u, move, token))
           ELSE list[i]]
    BY <1>1 DEF Tabs!BeginNavigation, Tabs!MapTab
  <2>3. \A i \in DOMAIN list : list[i].id = id =>
           (IF hit THEN Tabs!ApplyPage(Tabs!NavigateTab(list[i], u, move, token), token, u)
            ELSE Tabs!NavigateTab(list[i], u, move, token)) = to
    BY <1>4, <1>6, <2>1
  <2> QED BY <1>7, <2>2, <2>3
<1>9. Changed(tabs', list, k, to)
  BY <1>1, <1>2, <1>7, <1>8, ListChanged
<1>10. PICK new : new = [tab |-> id, token |-> token, url |-> u, hops |-> 0,
                         cached |-> u \in cached, aborted |-> FALSE]
  OBVIOUS
<1>11. /\ new \in Tabs!LoadType /\ ~new.aborted /\ new.tab = id /\ new.token = token /\ new.url = u
  BY <1>2, <1>3, <1>10, TabsAssumption DEF Tabs!LoadType, Tabs!BrowserAssumption
<1>12. loads' = Tabs!Aborted(id) \cup (IF hit THEN {} ELSE {new})
  BY <1>1, <1>10 DEF Tabs!BeginNavigation
<1>13. /\ control' = [control EXCEPT ![id] = token] /\ cached' = cached
       /\ prompt' # None => prompt' = prompt /\ prompt.tab # id
  BY <1>1 DEF Tabs!BeginNavigation, Tabs!DropPrompt
<1>14. /\ Tabs!Aborted(id) \subseteq Tabs!LoadType
       /\ \A l \in Tabs!LoadType :
            ~l.aborted => (l \in Tabs!Aborted(id) <=> l \in loads /\ l.tab # id)
  BY <1>2, AbortedAre
<1>15. /\ control' \in [Ids -> 0..MaxNav] /\ control'[id] = token
       /\ \A x \in Ids : x # id => control'[x] = control[x]
  BY <1>2, <1>3, <1>13 DEF TabTypes
<1>16. TabTypes'
  <2>1. loads' \subseteq Tabs!LoadType
    BY <1>11, <1>12, <1>14
  <2> QED BY <1>3, <1>13, <1>15, <2>1 DEF TabTypes
<1>17. \A l \in loads' : ~l.aborted => \/ ~hit /\ l = new
                                       \/ l \in loads /\ l.tab # id
  BY <1>12, <1>14
<1>18. OneLoad'
  BY <1>11, <1>17 DEF OneLoad
<1>19. /\ Len(tabs') = Len(list) /\ tabs'[k] = to /\ list[k].id = id
       /\ \A i \in 1..Len(list) : tabs'[i].id = list[i].id /\ (i # k => tabs'[i] = list[i] /\ list[i].id # id)
  BY <1>1, <1>2, <1>9 DEF Changed, SamePlaces, TabList
<1>20. ASSUME NEW l \in loads', ~l.aborted
       PROVE  l.token = control'[l.tab] /\ \E i \in 1..Len(tabs') : Awaits(tabs'[i], l)
  <2>1. CASE ~hit /\ l = new
    <3>1. Awaits(tabs'[k], l)
      BY <1>7, <1>11, <1>19, <2>1 DEF Awaits
    <3> QED BY <1>11, <1>15, <1>19, <2>1, <3>1
  <2>2. CASE l \in loads /\ l.tab # id
    <3>1. l.token = control[l.tab] /\ \E i \in 1..Len(list) : Awaits(list[i], l)
      BY <1>20, <2>2 DEF Orderly
    <3>2. PICK i \in 1..Len(list) : Awaits(list[i], l)
      BY <3>1
    <3>3. i # k
      BY <1>19, <2>2, <3>2 DEF Awaits
    <3>4. l.tab \in Ids
      BY <2>2 DEF TabTypes, Tabs!LoadType
    <3> QED BY <1>15, <1>19, <2>2, <3>1, <3>2, <3>3, <3>4
  <2> QED BY <1>17, <1>20, <2>1, <2>2
<1>21. ASSUME NEW i \in 1..Len(tabs')
       PROVE  /\ tabs'[i].token <= seq' + 1
              /\ tabs'[i].loading => /\ tabs'[i].token <= seq'
                                     /\ \E l \in loads' : ~l.aborted /\ Awaits(tabs'[i], l)
  <2>1. CASE i = k
    <3>1. ~hit => new \in loads' /\ Awaits(tabs'[k], new)
      BY <1>7, <1>11, <1>12, <1>19 DEF Awaits
    <3> QED BY <1>3, <1>7, <1>11, <1>19, <2>1, <3>1
  <2>2. CASE i # k
    <3>0. i \in 1..Len(list) /\ tabs'[i] = list[i] /\ list[i].id # id /\ list[i].token \in Nat
      BY <1>2, <1>19, <2>2, InList, TabFields
    <3>1. list[i].token <= seq + 1 /\ (list[i].loading => list[i].token <= seq)
      BY <3>0 DEF Orderly
    <3>2. ASSUME list[i].loading PROVE \E l \in loads' : ~l.aborted /\ Awaits(tabs'[i], l)
      <4>1. PICK l \in loads : ~l.aborted /\ Awaits(list[i], l)
        BY <3>0, <3>2 DEF Orderly
      <4>2. l \in Tabs!LoadType /\ l.tab # id
        BY <3>0, <4>1 DEF TabTypes, Awaits
      <4>3. l \in loads'
        BY <1>12, <1>14, <4>1, <4>2
      <4> QED BY <3>0, <4>1, <4>3
    <3>3. list[i].token <= seq' + 1 /\ (list[i].loading => list[i].token <= seq')
      BY <1>1, <1>3, <3>0, <3>1
    <3> QED BY <3>0, <3>2, <3>3
  <2> QED BY <2>1, <2>2
<1>22. ASSUME prompt' # None
       PROVE  \E i \in 1..Len(tabs') : /\ tabs'[i].id = prompt'.tab
                                       /\ tabs'[i].url = prompt'.url /\ ~tabs'[i].loading
  <2>1. prompt' = prompt /\ prompt # None /\ prompt.tab # id
    BY <1>13, <1>22
  <2>2. PICK i \in 1..Len(list) : list[i].id = prompt.tab /\ list[i].url = prompt.url /\ ~list[i].loading
    BY <2>1 DEF Orderly
  <2>3. i # k
    BY <1>19, <2>1, <2>2
  <2> QED BY <1>19, <2>1, <2>2, <2>3
<1>23. Orderly(tabs)'
  BY <1>9, <1>20, <1>21, <1>22 DEF Orderly, Changed
<1>24. \A i \in 1..Len(list) : tabs'[i].token >= list[i].token
  <2> SUFFICES ASSUME NEW i \in 1..Len(list) PROVE tabs'[i].token >= list[i].token
    OBVIOUS
  <2>1. list[i].token \in Nat /\ list[i].token <= seq + 1
    BY <1>2, InList, TabFields DEF Orderly
  <2>2. CASE i = k
    BY <1>1, <1>3, <1>7, <1>19, <2>1, <2>2
  <2>3. CASE i # k
    <3>1. tabs'[i] = list[i]
      BY <1>19, <2>3
    <3> QED BY <2>1, <3>1
  <2> QED BY <2>2, <2>3
<1>25. \A i \in 1..Len(list) : tabs'[i].token = list[i].token \/ tabs'[i].token <= seq'
  <2> SUFFICES ASSUME NEW i \in 1..Len(list)
               PROVE  tabs'[i].token = list[i].token \/ tabs'[i].token <= seq'
    OBVIOUS
  <2>1. CASE i = k
    BY <1>3, <1>7, <1>19, <2>1
  <2>2. CASE i # k
    BY <1>19, <2>2
  <2> QED BY <2>1, <2>2
<1> QED BY <1>1, <1>3, <1>9, <1>16, <1>18, <1>23, <1>24, <1>25 DEF Changed

(* A load ends at its tab, or goes on to another document.                  *)
LEMMA SettleKeeps ==
  ASSUME Orderly(tabs), OneLoad, TabTypes,
         NEW l \in loads, ~l.aborted, NEW k \in 1..Len(tabs), Awaits(tabs[k], l),
         NEW to \in Tabs!TabType, Changed(tabs', tabs, k, to), to.token = tabs[k].token,
         NEW more \in SUBSET Tabs!LoadType, loads' = (loads \ {l}) \cup more,
         IF to.loading THEN \E m \in more : more = {m} /\ ~m.aborted /\ m.token = l.token /\ Awaits(to, m)
                       ELSE more = {},
         UNCHANGED <<seq, control>>, cached' \subseteq Urls,
         prompt' = prompt \/ (prompt' = [tab |-> l.tab, url |-> l.url] /\ to.url = l.url /\ ~to.loading)
  PROVE  Orderly(tabs)' /\ OneLoad' /\ TabTypes'
<1>1. TabList(tabs) /\ l \in Tabs!LoadType /\ l.tab \in Ids /\ l.url \in Urls /\ l.token = control[l.tab]
  BY DEF Orderly, TabTypes, Tabs!LoadType
<1>2. /\ Len(tabs') = Len(tabs) /\ tabs'[k] = to /\ tabs[k].id = l.tab /\ to.id = l.tab
      /\ tabs[k].loading /\ tabs[k].token = l.token
      /\ \A i \in 1..Len(tabs) : tabs'[i].id = tabs[i].id
                                 /\ (i # k => tabs'[i] = tabs[i] /\ tabs[i].id # l.tab)
  BY <1>1 DEF Changed, SamePlaces, TabList, Awaits
<1>3. \A m \in more : m \in loads' /\ ~m.aborted /\ Awaits(to, m) /\ m.tab = l.tab /\ m.token = l.token
  BY <1>2 DEF Awaits
<1>4. \A m \in loads : ~m.aborted /\ m # l => m.tab # l.tab /\ m \in loads'
  BY DEF OneLoad
<1>5. TabTypes'
  BY <1>1 DEF TabTypes
<1>6. OneLoad'
  <2> SUFFICES ASSUME NEW m \in loads', NEW n \in loads', m.tab = n.tab, ~m.aborted, ~n.aborted
               PROVE  m = n
    BY DEF OneLoad
  <2>1. \A x \in loads' : ~x.aborted => \/ x \in more /\ x.tab = l.tab
                                        \/ x \in loads /\ x.tab # l.tab
    BY <1>3, <1>4
  <2>2. \A x, y \in more : x = y
    OBVIOUS
  <2> QED BY <2>1, <2>2 DEF OneLoad
<1>7. ASSUME NEW m \in loads', ~m.aborted
      PROVE  m.token = control'[m.tab] /\ \E i \in 1..Len(tabs') : Awaits(tabs'[i], m)
  <2>1. CASE m \in more
    BY <1>1, <1>2, <1>3, <2>1
  <2>2. CASE m \in loads /\ m # l
    <3>1. m.tab # l.tab
      BY <1>4, <1>7, <2>2
    <3>2. m.token = control[m.tab] /\ \E i \in 1..Len(tabs) : Awaits(tabs[i], m)
      BY <1>7, <2>2 DEF Orderly
    <3>3. PICK i \in 1..Len(tabs) : Awaits(tabs[i], m)
      BY <3>2
    <3>4. i # k
      BY <1>2, <3>1, <3>3 DEF Awaits
    <3> QED BY <1>2, <3>2, <3>3, <3>4
  <2> QED BY <2>1, <2>2
<1>8. ASSUME NEW i \in 1..Len(tabs')
      PROVE  /\ tabs'[i].token <= seq' + 1
             /\ tabs'[i].loading => /\ tabs'[i].token <= seq'
                                    /\ \E m \in loads' : ~m.aborted /\ Awaits(tabs'[i], m)
  <2>0. tabs[k].token <= seq
    BY <1>2 DEF Orderly
  <2>1. CASE i = k
    <3>1. tabs'[i] = to /\ to.token <= seq /\ to.token \in Nat /\ seq \in Nat
      BY <1>2, <2>0, <2>1, TabFields DEF TabTypes
    <3>2. to.loading => \E m \in loads' : ~m.aborted /\ Awaits(to, m)
      BY <1>3
    <3>3. to.token <= seq + 1
      BY <3>1
    <3> QED BY <3>1, <3>2, <3>3
  <2>2. CASE i # k
    <3>0. i \in 1..Len(tabs) /\ tabs'[i] = tabs[i] /\ tabs[i].id # l.tab
      BY <1>2, <2>2
    <3>1. tabs[i].token <= seq + 1 /\ (tabs[i].loading => tabs[i].token <= seq)
      BY <3>0 DEF Orderly
    <3>2. ASSUME tabs[i].loading PROVE \E m \in loads' : ~m.aborted /\ Awaits(tabs'[i], m)
      <4>1. PICK m \in loads : ~m.aborted /\ Awaits(tabs[i], m)
        BY <3>0, <3>2 DEF Orderly
      <4>2. m # l
        BY <3>0, <4>1 DEF Awaits
      <4> QED BY <3>0, <4>1, <4>2, <1>4
    <3> QED BY <3>0, <3>1, <3>2
  <2> QED BY <2>1, <2>2
<1>9. ASSUME prompt' # None
      PROVE  \E i \in 1..Len(tabs') : /\ tabs'[i].id = prompt'.tab
                                      /\ tabs'[i].url = prompt'.url /\ ~tabs'[i].loading
  <2>1. CASE prompt' = prompt
    <3>1. PICK i \in 1..Len(tabs) : tabs[i].id = prompt.tab /\ tabs[i].url = prompt.url /\ ~tabs[i].loading
      BY <1>9, <2>1 DEF Orderly
    <3>2. i # k
      BY <1>2, <3>1
    <3> QED BY <1>2, <2>1, <3>1, <3>2
  <2>2. CASE prompt' = [tab |-> l.tab, url |-> l.url] /\ to.url = l.url /\ ~to.loading
    BY <1>2, <2>2
  <2> QED BY <2>1, <2>2
<1> QED BY <1>5, <1>6, <1>7, <1>8, <1>9 DEF Orderly, Changed

(* A tab is closed, or stopped: nothing loads for it any more.              *)
LEMMA DropKeeps ==
  ASSUME NEW list, Orderly(list), OneLoad, TabTypes, NEW id \in Ids, TabList(tabs'),
         \A i \in 1..Len(list) : list[i].id # id => \E j \in 1..Len(tabs') : tabs'[j] = list[i],
         \A j \in 1..Len(tabs') :
           \/ \E i \in 1..Len(list) : tabs'[j] = list[i] /\ list[i].id # id
           \/ ~tabs'[j].loading /\ tabs'[j].token <= seq + 1,
         loads' = Tabs!Aborted(id), control' = [control EXCEPT ![id] = 0],
         UNCHANGED <<seq, cached>>, Tabs!DropPrompt(id)
  PROVE  Orderly(tabs)' /\ OneLoad' /\ TabTypes'
<1>1. /\ loads' \subseteq Tabs!LoadType
      /\ \A l \in Tabs!LoadType : ~l.aborted => (l \in loads' <=> l \in loads /\ l.tab # id)
  BY AbortedAre
<1>2. prompt' = IF prompt # None /\ prompt.tab = id THEN None ELSE prompt
  BY DEF Tabs!DropPrompt
<1>3. control' \in [Ids -> 0..MaxNav] /\ \A x \in Ids : x # id => control'[x] = control[x]
  BY TabsAssumption DEF TabTypes, Tabs!BrowserAssumption
<1>4. TabTypes'
  BY <1>1, <1>2, <1>3 DEF TabTypes
<1>5. OneLoad'
  BY <1>1 DEF OneLoad
<1>6. ASSUME NEW l \in loads', ~l.aborted
      PROVE  l.token = control'[l.tab] /\ \E i \in 1..Len(tabs') : Awaits(tabs'[i], l)
  <2>1. l \in loads /\ l.tab # id /\ l.tab \in Ids
    BY <1>1, <1>6 DEF Tabs!LoadType
  <2>2. l.token = control[l.tab] /\ \E i \in 1..Len(list) : Awaits(list[i], l)
    BY <1>6, <2>1 DEF Orderly
  <2>3. PICK i \in 1..Len(list) : Awaits(list[i], l)
    BY <2>2
  <2>4. list[i].id # id
    BY <2>1, <2>3 DEF Awaits
  <2>5. PICK j \in 1..Len(tabs') : tabs'[j] = list[i]
    BY <2>4
  <2> QED BY <1>3, <2>1, <2>2, <2>3, <2>5
<1>7. ASSUME NEW j \in 1..Len(tabs')
      PROVE  /\ tabs'[j].token <= seq' + 1
             /\ tabs'[j].loading => /\ tabs'[j].token <= seq'
                                    /\ \E l \in loads' : ~l.aborted /\ Awaits(tabs'[j], l)
  <2>1. CASE ~tabs'[j].loading /\ tabs'[j].token <= seq + 1
    BY <2>1
  <2>2. CASE \E i \in 1..Len(list) : tabs'[j] = list[i] /\ list[i].id # id
    <3>0. PICK i \in 1..Len(list) : tabs'[j] = list[i] /\ list[i].id # id
      BY <2>2
    <3>1. list[i].token <= seq + 1 /\ (list[i].loading => list[i].token <= seq)
      BY DEF Orderly
    <3>2. ASSUME list[i].loading PROVE \E l \in loads' : ~l.aborted /\ Awaits(list[i], l)
      <4>1. PICK l \in loads : ~l.aborted /\ Awaits(list[i], l)
        BY <3>2 DEF Orderly
      <4>2. l \in Tabs!LoadType /\ l.tab # id
        BY <3>0, <4>1 DEF TabTypes, Awaits
      <4> QED BY <1>1, <4>1, <4>2
    <3> QED BY <3>0, <3>1, <3>2
  <2> QED BY <2>1, <2>2
<1>8. ASSUME prompt' # None
      PROVE  \E i \in 1..Len(tabs') : /\ tabs'[i].id = prompt'.tab
                                      /\ tabs'[i].url = prompt'.url /\ ~tabs'[i].loading
  <2>1. prompt' = prompt /\ prompt # None /\ prompt.tab # id
    BY <1>2, <1>8
  <2>2. PICK i \in 1..Len(list) : list[i].id = prompt.tab /\ list[i].url = prompt.url /\ ~list[i].loading
    BY <2>1 DEF Orderly
  <2>3. PICK j \in 1..Len(tabs') : tabs'[j] = list[i]
    BY <2>1, <2>2
  <2> QED BY <2>1, <2>2, <2>3
<1> QED BY <1>4, <1>5, <1>6, <1>7, <1>8 DEF Orderly

(* A new tab at the end.                                                    *)
LEMMA AppendOrderly ==
  ASSUME NEW list, Orderly(list), TabTypes, Len(list) < MaxTabs,
         NEW id \in Ids, \A i \in 1..Len(list) : list[i].id # id,
         NEW new, new = Append(list, Tabs!NewBrowserTab(id))
  PROVE  /\ Orderly(new) /\ Len(new) = Len(list) + 1 /\ new[Len(new)] = Tabs!NewBrowserTab(id)
         /\ \A i \in 1..Len(list) : new[i] = list[i]
<1>1. /\ list \in Seq(Tabs!TabType) /\ Len(list) \in Nat \ {0}
      /\ \A i, j \in 1..Len(list) : list[i].id = list[j].id => i = j
      /\ \A i \in 1..Len(list) : Sound(list[i])
  BY DEF Orderly, TabList
<1>2. PICK t : t = Tabs!NewBrowserTab(id)
  OBVIOUS
<1>3. t \in Tabs!TabType /\ Sound(t) /\ t.id = id /\ t.token = 0 /\ ~t.loading
  BY <1>2, NewTabSound
<1>4. /\ new \in Seq(Tabs!TabType) /\ Len(new) = Len(list) + 1 /\ new[Len(list) + 1] = t
      /\ \A i \in 1..Len(list) : new[i] = list[i]
  BY <1>1, <1>2, <1>3
<1>5. \A i \in 1..Len(new) : i \in 1..Len(list) \/ i = Len(list) + 1
  BY <1>1, <1>4
<1>6. Len(new) \in 1..MaxTabs
  BY <1>1, <1>4, TabsAssumption DEF Tabs!BrowserAssumption
<1>7. TabList(new)
  <2>1. \A i \in 1..Len(new) : Sound(new[i])
    BY <1>1, <1>3, <1>4, <1>5
  <2>2. \A i, j \in 1..Len(new) : new[i].id = new[j].id => i = j
    BY <1>1, <1>3, <1>4, <1>5
  <2> QED BY <1>4, <1>6, <2>1, <2>2 DEF TabList
<1>8. 1..Len(list) \subseteq 1..Len(new)
  BY <1>1, <1>4
<1>9. \A l \in loads : ~l.aborted => /\ l.token = control[l.tab]
                                     /\ \E i \in 1..Len(new) : Awaits(new[i], l)
  BY <1>4, <1>8 DEF Orderly
<1>10. ASSUME NEW i \in 1..Len(new)
       PROVE  /\ new[i].token <= seq + 1
              /\ new[i].loading => /\ new[i].token <= seq
                                   /\ \E l \in loads : ~l.aborted /\ Awaits(new[i], l)
  <2>1. CASE i \in 1..Len(list)
    BY <1>4, <2>1 DEF Orderly
  <2>2. CASE i = Len(list) + 1
    <3>1. 0 <= seq + 1
      BY TabsAssumption DEF TabTypes, Tabs!BrowserAssumption
    <3> QED BY <1>3, <1>4, <2>2, <3>1
  <2> QED BY <1>5, <2>1, <2>2
<1>11. prompt # None => \E i \in 1..Len(new) : /\ new[i].id = prompt.tab
                                               /\ new[i].url = prompt.url /\ ~new[i].loading
  BY <1>4, <1>8 DEF Orderly
<1> QED BY <1>2, <1>4, <1>7, <1>9, <1>10, <1>11 DEF Orderly
-----------------------------------------------------------------------------
(* The steps.                                                               *)

Newer ==
  \A i \in 1..Len(tabs), j \in 1..Len(tabs') :
    tabs[i].id = tabs'[j].id => tabs'[j].token >= tabs[i].token
TabsStep == TabsInv' /\ Newer

(* The tab that is shown, in the list of the last render and in the list.   *)
LEMMA ActiveIs ==
  ASSUME TabsInv
  PROVE  \E k \in 1..Len(tabs) : /\ k \in 1..Len(seen) /\ Tabs!ActiveTab = seen[k]
                                 /\ seen[k].id = active /\ tabs[k].id = active
<1>1. PICK k \in 1..Len(tabs) : tabs[k].id = active
  BY DEF TabsInv
<1>2. k \in 1..Len(seen) /\ seen[k].id = active /\ DOMAIN seen = 1..Len(seen)
  BY <1>1 DEF TabsInv, SamePlaces, TabList
<1>3. \A i \in 1..Len(seen) : seen[i].id = active <=> i = k
  BY <1>2 DEF TabsInv, TabList
<1>4. (CHOOSE i \in DOMAIN seen : seen[i].id = active) = k
  BY <1>2, <1>3
<1>5. active \in Tabs!IdsOf(seen) /\ Tabs!TabOf(seen, active) = seen[k]
  BY <1>2, <1>4 DEF Tabs!IdsOf, Tabs!TabOf
<1> QED BY <1>1, <1>2, <1>5 DEF Tabs!ActiveTab

(* The tabs of a list that stays as long, each in its place.                *)
LEMMA InPlace ==
  ASSUME TabsInv, Orderly(tabs)', OneLoad', TabTypes', SamePlaces(tabs', tabs),
         \A i \in 1..Len(tabs) : tabs'[i].token >= tabs[i].token,
         \/ Tabs!RenderNow
         \/ /\ Tabs!RenderLater
            /\ \A i \in 1..Len(tabs) : tabs'[i].token = tabs[i].token \/ tabs'[i].token <= seq',
         seq' >= seq,
         active' = active \/ \E k \in 1..Len(tabs) : tabs[k].id = active'
  PROVE  TabsStep
<1>1. TabList(tabs) /\ TabList(tabs)' /\ Len(tabs') = Len(tabs)
      /\ \A i \in 1..Len(tabs) : tabs'[i].id = tabs[i].id
  BY DEF TabsInv, Orderly, SamePlaces
<1>2. TabList(seen)' /\ SamePlaces(seen, tabs)'
  <2>1. CASE seen' = seen
    <3>1. TabList(seen) /\ SamePlaces(seen, tabs)
      BY DEF TabsInv
    <3>2. TabList(seen)'
      BY <2>1, <3>1 DEF TabList, Sound
    <3> QED BY <1>1, <2>1, <3>1, <3>2 DEF SamePlaces
  <2>2. CASE seen' = tabs'
    <3>1. TabList(seen)'
      BY <1>1, <2>2 DEF TabList, Sound
    <3> QED BY <1>1, <2>2, <3>1 DEF SamePlaces
  <2> QED BY <2>1, <2>2 DEF Tabs!RenderNow, Tabs!RenderLater
<1>3. \E i \in 1..Len(tabs') : tabs'[i].id = active'
  <2>1. PICK i \in 1..Len(tabs) : tabs[i].id = active'
    BY DEF TabsInv
  <2> QED BY <1>1, <2>1
<1>4. Newer
  BY <1>1 DEF Newer, TabList
<1>5. Waited'
  <2> SUFFICES ASSUME NEW i \in 1..Len(tabs'), seen'[i].loading PROVE tabs'[i].token <= seq'
    BY DEF Waited
  <2>0. i \in 1..Len(tabs)
    BY <1>1
  <2>1. CASE /\ Tabs!RenderLater
             /\ \A n \in 1..Len(tabs) : tabs'[n].token = tabs[n].token \/ tabs'[n].token <= seq'
    <3>1. tabs[i].token <= seq /\ seq \in Nat /\ seq' \in Nat
      BY <2>0, <2>1, TabsAssumption
         DEF TabsInv, Waited, TabTypes, Tabs!RenderLater, Tabs!BrowserAssumption
    <3>2. tabs[i].token \in Nat
      BY <1>1, <2>0, InList, TabFields
    <3>3. CASE tabs'[i].token = tabs[i].token
      BY <3>1, <3>2, <3>3
    <3>4. CASE tabs'[i].token <= seq'
      BY <3>4
    <3> QED BY <2>0, <2>1, <3>3, <3>4
  <2>2. CASE Tabs!RenderNow
    BY <2>2 DEF Orderly, Tabs!RenderNow
  <2> QED BY <2>1, <2>2
<1>6. (card = None \/ card \in [tab : Ids, url : Urls])'
  BY DEF TabsInv, TabTypes, Tabs!RenderNow, Tabs!RenderLater
<1> QED BY <1>2, <1>3, <1>4, <1>5, <1>6 DEF TabsStep, TabsInv

LEMMA GoesTo ==
  ASSUME TabsInv, NEW k \in 1..Len(tabs), NEW id, id = tabs[k].id, NEW u \in Urls, NEW move,
         Moves(tabs[k], u, move), NEW force \in BOOLEAN,
         Tabs!BeginNavigation(tabs, id, u, move, force), Tabs!DropPrompt(id) \/ prompt' = None,
         Tabs!RenderNow \/ Tabs!RenderLater, active' = active \/ active' = id
  PROVE  TabsStep
<1>1. Orderly(tabs) /\ OneLoad /\ TabTypes
  BY DEF TabsInv
<1>2. /\ Tabs!BeginNavigation(tabs, tabs[k].id, u, move, force)
      /\ Tabs!DropPrompt(tabs[k].id) \/ prompt' = None
  OBVIOUS
<1>3. /\ Orderly(tabs)' /\ OneLoad' /\ TabTypes' /\ SamePlaces(tabs', tabs)
      /\ \A i \in 1..Len(tabs) : tabs'[i].token >= tabs[i].token
      /\ \A i \in 1..Len(tabs) : tabs'[i].token = tabs[i].token \/ tabs'[i].token <= seq'
      /\ seq' = seq + 1
  BY <1>1, <1>2, NavigateKeeps
<1>4. seq' >= seq
  BY <1>1, <1>3, TabsAssumption DEF TabTypes, Tabs!BrowserAssumption
<1> QED BY <1>3, <1>4, InPlace

(* A load ends.                                                             *)
LEMMA LoadEnds ==
  ASSUME TabsInv, NEW l \in loads, ~l.aborted, NEW k \in 1..Len(tabs), Awaits(tabs[k], l),
         NEW to \in Tabs!TabType, Sound(to), to.id = tabs[k].id, to.token = tabs[k].token,
         tabs' = [i \in DOMAIN tabs |-> IF tabs[i].id = l.tab THEN to ELSE tabs[i]],
         NEW more \in SUBSET Tabs!LoadType, loads' = (loads \ {l}) \cup more,
         IF to.loading THEN \E m \in more : more = {m} /\ ~m.aborted /\ m.token = l.token /\ Awaits(to, m)
                       ELSE more = {},
         UNCHANGED <<seq, control, active>>, Tabs!RenderLater, cached' \subseteq Urls,
         prompt' = prompt \/ (prompt' = [tab |-> l.tab, url |-> l.url] /\ to.url = l.url /\ ~to.loading)
  PROVE  TabsStep
<1>1. Orderly(tabs) /\ OneLoad /\ TabTypes /\ TabList(tabs)
  BY DEF TabsInv, Orderly
<1>2. tabs[k].id = l.tab
  BY DEF Awaits
<1>3. tabs' = [i \in DOMAIN tabs |-> IF tabs[i].id = to.id THEN to ELSE tabs[i]]
  BY <1>2
<1>4. Changed(tabs', tabs, k, to)
  BY <1>1, <1>3, ListChanged
<1>5. Orderly(tabs)' /\ OneLoad' /\ TabTypes'
  BY <1>1, <1>4, SettleKeeps
<1>6. SamePlaces(tabs', tabs) /\ tabs'[k] = to /\ \A i \in 1..Len(tabs) : i # k => tabs'[i] = tabs[i]
  BY <1>4 DEF Changed
<1>7. \A i \in 1..Len(tabs) : tabs'[i].token >= tabs[i].token
  <2> SUFFICES ASSUME NEW i \in 1..Len(tabs) PROVE tabs'[i].token >= tabs[i].token
    OBVIOUS
  <2>1. tabs[i].token \in Nat
    BY <1>1, InList, TabFields
  <2>2. tabs'[i].token = tabs[i].token
    BY <1>6
  <2> QED BY <2>1, <2>2
<1>8. seq' >= seq
  BY <1>1, TabsAssumption DEF TabTypes, Tabs!BrowserAssumption
<1> QED BY <1>5, <1>6, <1>7, <1>8, InPlace

(* The tab a load is for, and the change of that tab.                       *)
LEMMA AwaitedBy ==
  ASSUME TabsInv, NEW l \in loads, ~l.aborted
  PROVE  \E k \in 1..Len(tabs) :
           /\ Awaits(tabs[k], l) /\ tabs[k] \in Tabs!TabType /\ Sound(tabs[k])
           /\ l \in Tabs!LoadType /\ l.url \in Urls /\ l.url # None /\ DOMAIN tabs = 1..Len(tabs)
           /\ \A i \in DOMAIN tabs : tabs[i].id = l.tab => tabs[i] = tabs[k]
<1>1. Orderly(tabs) /\ TabList(tabs) /\ l \in Tabs!LoadType
  BY DEF TabsInv, Orderly, TabTypes
<1>2. PICK k \in 1..Len(tabs) : Awaits(tabs[k], l)
  BY <1>1 DEF Orderly
<1>3. tabs[k] \in Tabs!TabType /\ Sound(tabs[k])
  BY <1>1, InList
<1>4. l.url \in Urls /\ l.url # None
  BY <1>1, TabsAssumption DEF Tabs!LoadType, Tabs!BrowserAssumption
<1>5. DOMAIN tabs = 1..Len(tabs)
  BY <1>1 DEF TabList
<1>6. \A i \in DOMAIN tabs : tabs[i].id = l.tab => tabs[i] = tabs[k]
  BY <1>1, <1>2, <1>5 DEF TabList, Awaits
<1> QED BY <1>1, <1>2, <1>3, <1>4, <1>5, <1>6

LEMMA ArrivesStep ==
  ASSUME TabsInv, NEW l \in loads, Tabs!LoadArrives(l) \/ Tabs!LoadNotModified(l)
  PROVE  TabsStep
<1>1. ~l.aborted
  BY DEF Tabs!LoadArrives, Tabs!LoadNotModified, Tabs!Running
<1>2. PICK k \in 1..Len(tabs) :
           /\ Awaits(tabs[k], l) /\ tabs[k] \in Tabs!TabType /\ Sound(tabs[k])
           /\ l \in Tabs!LoadType /\ l.url \in Urls /\ l.url # None /\ DOMAIN tabs = 1..Len(tabs)
           /\ \A i \in DOMAIN tabs : tabs[i].id = l.tab => tabs[i] = tabs[k]
  BY <1>1, AwaitedBy
<1>3. PICK to : to = Tabs!ApplyPage(tabs[k], l.token, l.url)
  OBVIOUS
<1>4. /\ to \in Tabs!TabType /\ Sound(to) /\ to.id = tabs[k].id /\ to.token = tabs[k].token
      /\ ~to.loading
  <2>1. tabs[k].token = l.token /\ tabs[k].url = l.url
    BY <1>2 DEF Awaits
  <2>2. PICK t : t = tabs[k]
    OBVIOUS
  <2>3. to = Tabs!ApplyPage(t, t.token, t.url) /\ t.url # None /\ t \in Tabs!TabType /\ Sound(t)
    BY <1>2, <1>3, <2>1, <2>2
  <2> QED BY <2>2, <2>3, ApplySound
<1>5. tabs' = [i \in DOMAIN tabs |-> IF tabs[i].id = l.tab THEN to ELSE tabs[i]]
  <2>1. tabs' = [i \in DOMAIN tabs |-> IF tabs[i].id = l.tab
                                       THEN Tabs!ApplyPage(tabs[i], l.token, l.url) ELSE tabs[i]]
    BY DEF Tabs!LoadArrives, Tabs!LoadNotModified, Tabs!MapTab
  <2>2. \A i \in DOMAIN tabs : tabs[i].id = l.tab => Tabs!ApplyPage(tabs[i], l.token, l.url) = to
    BY <1>2, <1>3
  <2> QED BY <2>1, <2>2
<1>6. cached \subseteq Urls
  BY DEF TabsInv, TabTypes
<1>7. /\ loads' = (loads \ {l}) \cup {} /\ UNCHANGED <<seq, control, active, prompt>>
      /\ cached' \subseteq Urls /\ Tabs!RenderLater
  BY <1>2, <1>6 DEF Tabs!LoadArrives, Tabs!LoadNotModified, Tabs!Remember
<1>8. PICK more \in SUBSET Tabs!LoadType : more = {}
  OBVIOUS
<1> QED BY <1>1, <1>2, <1>4, <1>5, <1>7, <1>8, LoadEnds

LEMMA FailsStep ==
  ASSUME TabsInv, NEW l \in loads, Tabs!LoadFails(l) \/ Tabs!LoadAsksAuth(l)
  PROVE  TabsStep
<1>1. ~l.aborted
  BY DEF Tabs!LoadFails, Tabs!LoadAsksAuth, Tabs!Running
<1>2. PICK k \in 1..Len(tabs) :
           /\ Awaits(tabs[k], l) /\ tabs[k] \in Tabs!TabType /\ Sound(tabs[k])
           /\ l \in Tabs!LoadType /\ l.url \in Urls /\ l.url # None /\ DOMAIN tabs = 1..Len(tabs)
           /\ \A i \in DOMAIN tabs : tabs[i].id = l.tab => tabs[i] = tabs[k]
  BY <1>1, AwaitedBy
<1>3. PICK t : t = tabs[k]
  OBVIOUS
<1>4. t \in Tabs!TabType /\ Sound(t) /\ t.token = l.token /\ t.url = l.url /\ t.token \in Nat
      /\ t.failed \in BOOLEAN
  BY <1>2, <1>3, TabFields DEF Awaits
<1>5. \E to : /\ to \in Tabs!TabType /\ Sound(to) /\ to.id = t.id /\ to.token = t.token /\ to.url = t.url
              /\ ~to.loading
              /\ tabs' = [i \in DOMAIN tabs |-> IF tabs[i].id = l.tab THEN to ELSE tabs[i]]
  <2>1. CASE Tabs!LoadFails(l)
    <3>1. PICK to, bad, n : to = Tabs!FailPage(t, l.token) /\ bad = TRUE /\ n = t.token
      OBVIOUS
    <3>2. to = StillTab(t, bad, n)
      BY <1>4, <3>1 DEF Tabs!FailPage, Tabs!TabType, StillTab
    <3>3. /\ to \in Tabs!TabType /\ Sound(to) /\ to.id = t.id /\ to.token = t.token /\ to.url = t.url
          /\ ~to.loading
      <4>1. bad \in BOOLEAN
        BY <1>4, <3>1
      <4>2. n \in Nat /\ n = t.token
        BY <1>4, <3>1
      <4> QED BY <1>4, <3>2, <4>1, <4>2, StillSound
    <3>4. tabs' = [i \in DOMAIN tabs |-> IF tabs[i].id = l.tab
                                         THEN Tabs!FailPage(tabs[i], l.token) ELSE tabs[i]]
      BY <2>1 DEF Tabs!LoadFails, Tabs!MapTab
    <3>5. \A i \in DOMAIN tabs : tabs[i].id = l.tab => Tabs!FailPage(tabs[i], l.token) = to
      BY <1>2, <1>3, <3>1
    <3> QED BY <3>3, <3>4, <3>5
  <2>2. CASE Tabs!LoadAsksAuth(l)
    <3>1. PICK to, bad, n : to = Tabs!SettlePage(t, l.token) /\ bad = t.failed /\ n = t.token
      OBVIOUS
    <3>2. to = StillTab(t, bad, n)
      BY <1>4, <3>1 DEF Tabs!SettlePage, Tabs!TabType, StillTab
    <3>3. /\ to \in Tabs!TabType /\ Sound(to) /\ to.id = t.id /\ to.token = t.token /\ to.url = t.url
          /\ ~to.loading
      <4>1. bad \in BOOLEAN
        BY <1>4, <3>1
      <4>2. n \in Nat /\ n = t.token
        BY <1>4, <3>1
      <4> QED BY <1>4, <3>2, <4>1, <4>2, StillSound
    <3>4. tabs' = [i \in DOMAIN tabs |-> IF tabs[i].id = l.tab
                                         THEN Tabs!SettlePage(tabs[i], l.token) ELSE tabs[i]]
      BY <2>2 DEF Tabs!LoadAsksAuth, Tabs!MapTab
    <3>5. \A i \in DOMAIN tabs : tabs[i].id = l.tab => Tabs!SettlePage(tabs[i], l.token) = to
      BY <1>2, <1>3, <3>1
    <3> QED BY <3>3, <3>4, <3>5
  <2> QED BY <2>1, <2>2
<1>6. PICK to : /\ to \in Tabs!TabType /\ Sound(to) /\ to.id = t.id /\ to.token = t.token
                /\ to.url = t.url /\ ~to.loading
                /\ tabs' = [i \in DOMAIN tabs |-> IF tabs[i].id = l.tab THEN to ELSE tabs[i]]
  BY <1>5
<1>7. /\ loads' = (loads \ {l}) \cup {} /\ UNCHANGED <<seq, control, active>> /\ Tabs!RenderLater
      /\ cached' = cached /\ (prompt' = prompt \/ prompt' = [tab |-> l.tab, url |-> l.url])
  BY DEF Tabs!LoadFails, Tabs!LoadAsksAuth
<1>8. cached' \subseteq Urls
  BY <1>7 DEF TabsInv, TabTypes
<1>9. PICK more \in SUBSET Tabs!LoadType : more = {}
  OBVIOUS
<1>10. to.url = l.url /\ to.id = tabs[k].id /\ to.token = tabs[k].token
  BY <1>3, <1>4, <1>6
<1> QED BY <1>1, <1>2, <1>6, <1>7, <1>8, <1>9, <1>10, LoadEnds

LEMMA RedirectsStep ==
  ASSUME TabsInv, NEW l \in loads, Tabs!LoadRedirects(l)
  PROVE  TabsStep
<1>1. ~l.aborted /\ l.hops < MaxRedirects
  BY DEF Tabs!LoadRedirects, Tabs!Running
<1>2. PICK k \in 1..Len(tabs) :
           /\ Awaits(tabs[k], l) /\ tabs[k] \in Tabs!TabType /\ Sound(tabs[k])
           /\ l \in Tabs!LoadType /\ l.url \in Urls /\ l.url # None /\ DOMAIN tabs = 1..Len(tabs)
           /\ \A i \in DOMAIN tabs : tabs[i].id = l.tab => tabs[i] = tabs[k]
  BY <1>1, AwaitedBy
<1>3. PICK u \in RedirectsTo[l.url] :
        /\ tabs' = Tabs!MapTab(tabs, l.tab, LAMBDA tab :
                        LET to == Tabs!NavigateTab(tab, u, Tabs!Replace, l.token)
                        IN IF u \in cached THEN Tabs!ApplyPage(to, l.token, u) ELSE to)
        /\ loads' = (loads \ {l}) \cup
             (IF u \in cached THEN {} ELSE {[l EXCEPT !.url = u, !.hops = @ + 1, !.cached = FALSE]})
  BY DEF Tabs!LoadRedirects
<1>4. /\ u \in Urls /\ u # None /\ MaxRedirects \in Nat
  BY <1>2, TabsAssumption DEF Tabs!BrowserAssumption
<1>5. PICK t : t = Tabs!NavigateTab(tabs[k], u, Tabs!Replace, l.token)
  OBVIOUS
<1>6. /\ t \in Tabs!TabType /\ Sound(t) /\ t.id = tabs[k].id /\ t.url = u /\ t.token = l.token
      /\ t.loading
  <2>1. Moves(tabs[k], u, Tabs!Replace) /\ l.token \in Nat
    BY <1>2 DEF Moves, Tabs!LoadType
  <2>2. PICK old, move, number : old = tabs[k] /\ move = Tabs!Replace /\ number = l.token
    OBVIOUS
  <2>3. /\ old \in Tabs!TabType /\ Sound(old) /\ Moves(old, u, move) /\ number \in Nat
        /\ t = Tabs!NavigateTab(old, u, move, number)
    BY <1>2, <1>5, <2>1, <2>2
  <2>4. /\ t \in Tabs!TabType /\ Sound(t) /\ t.id = old.id /\ t.url = u /\ t.token = number
        /\ t.loading
    BY <1>4, <2>3, NavigateSound
  <2> QED BY <2>2, <2>4
<1>7. PICK to : to = IF u \in cached THEN Tabs!ApplyPage(t, l.token, u) ELSE t
  OBVIOUS
<1>8. /\ to \in Tabs!TabType /\ Sound(to) /\ to.id = tabs[k].id /\ to.url = u /\ to.token = l.token
      /\ to.loading <=> u \notin cached
  BY <1>4, <1>6, <1>7, ApplySound
<1>9. tabs' = [i \in DOMAIN tabs |-> IF tabs[i].id = l.tab THEN to ELSE tabs[i]]
  <2>1. tabs' = [i \in DOMAIN tabs |-> IF tabs[i].id = l.tab
           THEN (IF u \in cached
                 THEN Tabs!ApplyPage(Tabs!NavigateTab(tabs[i], u, Tabs!Replace, l.token), l.token, u)
                 ELSE Tabs!NavigateTab(tabs[i], u, Tabs!Replace, l.token))
           ELSE tabs[i]]
    BY <1>3 DEF Tabs!MapTab
  <2>2. \A i \in DOMAIN tabs : tabs[i].id = l.tab =>
           (IF u \in cached
            THEN Tabs!ApplyPage(Tabs!NavigateTab(tabs[i], u, Tabs!Replace, l.token), l.token, u)
            ELSE Tabs!NavigateTab(tabs[i], u, Tabs!Replace, l.token)) = to
    BY <1>2, <1>5, <1>7
  <2> QED BY <2>1, <2>2
<1>10. PICK m : m = [l EXCEPT !.url = u, !.hops = @ + 1, !.cached = FALSE]
  OBVIOUS
<1>11. /\ m \in Tabs!LoadType /\ ~m.aborted /\ m.tab = l.tab /\ m.token = l.token /\ m.url = u
  <2>1. m = [tab |-> l.tab, token |-> l.token, url |-> u, hops |-> l.hops + 1,
             cached |-> FALSE, aborted |-> l.aborted]
    BY <1>2, <1>10 DEF Tabs!LoadType
  <2>2. l.hops + 1 \in 0..MaxRedirects
    BY <1>1, <1>2, <1>4 DEF Tabs!LoadType
  <2> QED BY <1>1, <1>2, <1>4, <2>1, <2>2 DEF Tabs!LoadType
<1>12. tabs[k].id = l.tab /\ tabs[k].token = l.token
  BY <1>2 DEF Awaits
<1>13. Awaits(to, m) <=> to.loading
  BY <1>8, <1>11, <1>12 DEF Awaits
<1>14. PICK more : more = IF u \in cached THEN {} ELSE {m}
  OBVIOUS
<1>15. more \in SUBSET Tabs!LoadType /\ loads' = (loads \ {l}) \cup more
  BY <1>3, <1>10, <1>11, <1>14
<1>16. IF to.loading THEN \E x \in more : more = {x} /\ ~x.aborted /\ x.token = l.token /\ Awaits(to, x)
                     ELSE more = {}
  <2>1. CASE to.loading
    <3>1. more = {m} /\ Awaits(to, m)
      BY <1>8, <1>13, <1>14, <2>1
    <3> QED BY <1>11, <2>1, <3>1
  <2>2. CASE ~to.loading
    BY <1>8, <1>14, <2>2
  <2> QED BY <2>1, <2>2
<1>17. /\ UNCHANGED <<seq, control, active, prompt, cached>> /\ cached \subseteq Urls
       /\ Tabs!RenderLater
  BY DEF Tabs!LoadRedirects, TabsInv, TabTypes
<1> QED BY <1>1, <1>2, <1>8, <1>9, <1>12, <1>15, <1>16, <1>17, LoadEnds

(* A load that was aborted ends without a trace.                            *)
LEMMA AbortedStep ==
  ASSUME TabsInv, NEW l \in loads, Tabs!LoadAborted(l)
  PROVE  TabsStep
<1>1. /\ l.aborted /\ loads' = loads \ {l} /\ UNCHANGED <<tabs, active, seq, control, cached, prompt>>
      /\ Tabs!RenderLater
  BY DEF Tabs!LoadAborted, Tabs!RenderLater
<1>2. Orderly(tabs) /\ OneLoad /\ TabTypes /\ TabList(tabs)
  BY DEF TabsInv, Orderly
<1>3. OneLoad' /\ TabTypes'
  BY <1>1, <1>2 DEF OneLoad, TabTypes
<1>4. Orderly(tabs)'
  <2>1. TabList(tabs)'
    BY <1>1, <1>2 DEF TabList, Sound
  <2>2. \A m \in loads : ~m.aborted <=> m \in loads' /\ ~m.aborted
    BY <1>1
  <2>3. \A m \in loads' : ~m.aborted => /\ m.token = control'[m.tab]
                                        /\ \E i \in 1..Len(tabs') : Awaits(tabs'[i], m)
    BY <1>1, <1>2 DEF Orderly
  <2>4. \A i \in 1..Len(tabs') : /\ tabs'[i].token <= seq' + 1
                                 /\ tabs'[i].loading => /\ tabs'[i].token <= seq'
                                                        /\ \E m \in loads' : ~m.aborted /\ Awaits(tabs'[i], m)
    BY <1>1, <1>2, <2>2 DEF Orderly
  <2>5. prompt' # None => \E i \in 1..Len(tabs') : /\ tabs'[i].id = prompt'.tab
                                                   /\ tabs'[i].url = prompt'.url /\ ~tabs'[i].loading
    BY <1>1, <1>2 DEF Orderly
  <2> QED BY <2>1, <2>3, <2>4, <2>5 DEF Orderly
<1>5. SamePlaces(tabs', tabs) /\ \A i \in 1..Len(tabs) : tabs'[i].token >= tabs[i].token
  BY <1>1, <1>2, InList, TabFields DEF SamePlaces
<1>6. seq' >= seq
  BY <1>1, <1>2, TabsAssumption DEF TabTypes, Tabs!BrowserAssumption
<1> QED BY <1>1, <1>3, <1>4, <1>5, <1>6, InPlace

(* Nothing but what the last render shows changes, or the card goes.        *)
LEMMA StillStep ==
  ASSUME TabsInv, UNCHANGED <<tabs, seq, control, loads, cached>>,
         prompt' = prompt \/ prompt' = None, Tabs!RenderNow \/ Tabs!RenderLater,
         active' = active \/ \E k \in 1..Len(tabs) : tabs[k].id = active'
  PROVE  TabsStep
<1>2. Orderly(tabs) /\ OneLoad /\ TabTypes /\ TabList(tabs)
  BY DEF TabsInv, Orderly
<1>3. OneLoad' /\ TabTypes'
  BY <1>2 DEF OneLoad, TabTypes
<1>4. Orderly(tabs)'
  <2>1. TabList(tabs)'
    BY <1>2 DEF TabList, Sound
  <2> QED BY <1>2, <2>1 DEF Orderly, Awaits
<1>5. SamePlaces(tabs', tabs) /\ \A i \in 1..Len(tabs) : tabs'[i].token >= tabs[i].token
  BY <1>2, InList, TabFields DEF SamePlaces
<1>6. seq' >= seq
  BY <1>2, TabsAssumption DEF TabTypes, Tabs!BrowserAssumption
<1> QED BY <1>3, <1>4, <1>5, <1>6, InPlace

(* What was written back is what is there.                                  *)
LEMMA WroteSame ==
  ASSUME ~stale', NEW shown, NEW is, Tabs!WritesBack(shown, is)
  PROVE  shown = is
BY DEF Tabs!WritesBack

(* A tab of the list of the last render loads its url again.                *)
LEMMA ReloadStep ==
  ASSUME TabsInv, NEW k \in 1..Len(tabs), Tabs!ReloadTab(seen[k]), seen[k].url # None,
         Tabs!RenderNow \/ Tabs!RenderLater, active' = active \/ active' = seen[k].id
  PROVE  TabsStep
<1>1. k \in 1..Len(seen) /\ seen[k].id = tabs[k].id /\ TabList(seen)
  BY DEF TabsInv, SamePlaces
<1>2. seen[k].url \in Urls
  BY <1>1, InList, TabFields
<1>3. PICK u, id, move, force : u = seen[k].url /\ id = tabs[k].id /\ move = Tabs!Replace /\ force = TRUE
  OBVIOUS
<1>4. /\ Tabs!BeginNavigation(tabs, id, u, move, force) /\ Tabs!DropPrompt(id)
      /\ Moves(tabs[k], u, move) /\ u \in Urls /\ force \in BOOLEAN /\ id = seen[k].id
  BY <1>1, <1>2, <1>3 DEF Tabs!ReloadTab, Tabs!Navigate, Moves
<1> QED BY <1>3, <1>4, GoesTo

LEMMA GoToStep ==
  ASSUME TabsInv, NEW u \in Urls, Tabs!GoTo(u)
  PROVE  TabsStep
<1>1. PICK k \in 1..Len(tabs) : Tabs!ActiveTab = seen[k] /\ tabs[k].id = active /\ seen[k].id = active
  BY ActiveIs
<1>2. PICK id, move, force : id = tabs[k].id /\ move = Tabs!Push /\ force = FALSE
  OBVIOUS
<1>3. /\ Tabs!BeginNavigation(tabs, id, u, move, force) /\ Tabs!DropPrompt(id)
      /\ Moves(tabs[k], u, move) /\ force \in BOOLEAN
  BY <1>1, <1>2 DEF Tabs!GoTo, Tabs!Navigate, Moves
<1>4. (Tabs!RenderNow \/ Tabs!RenderLater) /\ active' = active
  BY DEF Tabs!GoTo
<1> QED BY <1>2, <1>3, <1>4, GoesTo

(* Back and forward go by the history of the last render.                   *)
LEMMA BackStep ==
  ASSUME TabsInv, ~stale', NEW delta \in {-1, 1}, Tabs!Step(delta)
  PROVE  TabsStep
<1>1. PICK k \in 1..Len(tabs) : /\ k \in 1..Len(seen) /\ Tabs!ActiveTab = seen[k]
                                /\ tabs[k].id = active /\ seen[k].id = active
  BY ActiveIs
<1>2. Tabs!RenderNow /\ active' = active
  BY DEF Tabs!Step
<1>3. PICK tab : tab = seen[k]
  OBVIOUS
<1>4. Tabs!ActiveTab = tab /\ tab.id = tabs[k].id /\ tab.history \in Seq(Urls)
  <2>1. TabList(seen)
    BY DEF TabsInv
  <2> QED BY <1>1, <1>3, <2>1, InList, TabFields
<1>5. PICK move : move = tab.index + delta
  OBVIOUS
<1>6. /\ move \in DOMAIN tab.history
      /\ Tabs!Navigate(tabs, tab.id, tab.history[move], move, FALSE)
      /\ Tabs!WritesBack(tab.history, Tabs!TabOf(tabs, tab.id).history)
  BY <1>4, <1>5 DEF Tabs!Step
<1>7. PICK u, id, force : u = tab.history[move] /\ id = tab.id /\ force = FALSE
  OBVIOUS
<1>8. u \in Urls /\ move \in 1..Len(tab.history)
  BY <1>4, <1>6, <1>7, ElementOfSeq
<1>9. tabs[k].history = tab.history
  <2>1. TabList(tabs) /\ DOMAIN tabs = 1..Len(tabs)
    BY DEF TabsInv, Orderly, TabList
  <2>2. \A i \in 1..Len(tabs) : tabs[i].id = id <=> i = k
    BY <1>4, <1>7, <2>1 DEF TabList
  <2>3. (CHOOSE i \in DOMAIN tabs : tabs[i].id = id) = k
    BY <2>1, <2>2
  <2>4. Tabs!TabOf(tabs, tab.id) = tabs[k]
    BY <1>7, <2>3 DEF Tabs!TabOf
  <2> QED BY <1>6, <2>4, WroteSame
<1>10. /\ Tabs!BeginNavigation(tabs, id, u, move, force) /\ Tabs!DropPrompt(id)
       /\ Moves(tabs[k], u, move) /\ force \in BOOLEAN /\ id = tabs[k].id
  BY <1>4, <1>6, <1>7, <1>8, <1>9 DEF Tabs!Navigate, Moves
<1> QED BY <1>2, <1>8, <1>10, GoesTo

LEMMA PlaceOf ==
  ASSUME TabsInv, NEW id, id \in Tabs!IdsOf(seen)
  PROVE  \E k \in 1..Len(tabs) : /\ k \in 1..Len(seen) /\ Tabs!TabOf(seen, id) = seen[k]
                                 /\ seen[k].id = id /\ tabs[k].id = id
<1>1. DOMAIN seen = 1..Len(seen) /\ Len(seen) = Len(tabs) /\ TabList(seen)
  BY DEF TabsInv, TabList, SamePlaces
<1>2. PICK k \in 1..Len(seen) : seen[k].id = id
  BY <1>1 DEF Tabs!IdsOf
<1>3. \A i \in 1..Len(seen) : seen[i].id = id <=> i = k
  BY <1>1, <1>2 DEF TabList
<1>4. (CHOOSE i \in DOMAIN seen : seen[i].id = id) = k
  BY <1>1, <1>2, <1>3
<1>5. Tabs!TabOf(seen, id) = seen[k]
  BY <1>4 DEF Tabs!TabOf
<1>6. k \in 1..Len(tabs) /\ tabs[k].id = id
  BY <1>1, <1>2 DEF TabsInv, SamePlaces
<1> QED BY <1>2, <1>5, <1>6

LEMMA SelectStep ==
  ASSUME TabsInv, NEW id \in Ids, Tabs!SelectTab(id)
  PROVE  TabsStep
<1>1. PICK k \in 1..Len(tabs) : /\ k \in 1..Len(seen) /\ Tabs!TabOf(seen, id) = seen[k]
                                /\ seen[k].id = id /\ tabs[k].id = id
  BY PlaceOf DEF Tabs!SelectTab
<1>2. Tabs!RenderNow /\ active' = id
  BY DEF Tabs!SelectTab
<1>3. \/ Tabs!ReloadTab(seen[k]) /\ seen[k].url # None
      \/ UNCHANGED <<tabs, seq, control, loads, cached, prompt>>
  BY <1>1 DEF Tabs!SelectTab
<1>4. CASE Tabs!ReloadTab(seen[k]) /\ seen[k].url # None
  BY <1>1, <1>2, <1>4, ReloadStep
<1>5. CASE UNCHANGED <<tabs, seq, control, loads, cached, prompt>>
  BY <1>1, <1>2, <1>5, StillStep
<1> QED BY <1>3, <1>4, <1>5

LEMMA ReloadsStep ==
  ASSUME TabsInv, Tabs!Reload \/ Tabs!Reconnected
  PROVE  TabsStep
<1>1. PICK k \in 1..Len(tabs) : Tabs!ActiveTab = seen[k] /\ tabs[k].id = active /\ seen[k].id = active
  BY ActiveIs
<1>2. /\ Tabs!ReloadTab(seen[k]) /\ seen[k].url # None /\ active' = active
      /\ Tabs!RenderNow \/ Tabs!RenderLater
  BY <1>1 DEF Tabs!Reload, Tabs!Reconnected
<1> QED BY <1>2, ReloadStep

LEMMA SubmitStep ==
  ASSUME TabsInv, Tabs!AuthSubmit
  PROVE  TabsStep
<1>1. /\ card # None /\ card.tab = active /\ prompt' = None
      /\ Tabs!BeginNavigation(tabs, card.tab, card.url, Tabs!Replace, TRUE)
      /\ Tabs!RenderNow /\ active' = active
  BY DEF Tabs!AuthSubmit
<1>2. PICK k \in 1..Len(tabs) : tabs[k].id = active
  BY DEF TabsInv
<1>3. PICK id, u, move, force : id = card.tab /\ u = card.url /\ move = Tabs!Replace /\ force = TRUE
  OBVIOUS
<1>4. u \in Urls
  BY <1>1, <1>3 DEF TabsInv
<1>5. /\ Tabs!BeginNavigation(tabs, id, u, move, force) /\ Moves(tabs[k], u, move)
      /\ force \in BOOLEAN /\ id = tabs[k].id
  BY <1>1, <1>2, <1>3 DEF Moves
<1> QED BY <1>1, <1>4, <1>5, GoesTo

LEMMA StopStep ==
  ASSUME TabsInv, Tabs!Stop
  PROVE  TabsStep
<1>1. PICK k \in 1..Len(tabs) : Tabs!ActiveTab = seen[k] /\ tabs[k].id = active /\ seen[k].id = active
  BY ActiveIs
<1>2. Tabs!RenderNow /\ active' = active
  BY DEF Tabs!Stop
<1>3. /\ seen[k].loading /\ loads' = Tabs!Aborted(active) /\ control' = [control EXCEPT ![active] = 0]
      /\ Tabs!DropPrompt(active) /\ UNCHANGED <<seq, cached>>
      /\ tabs' = Tabs!MapTab(tabs, active, Tabs!StopPage)
  BY <1>1, <1>2 DEF Tabs!Stop
<1>4. Orderly(tabs) /\ OneLoad /\ TabTypes /\ TabList(tabs)
  BY DEF TabsInv, Orderly
<1>5. PICK t : t = tabs[k]
  OBVIOUS
<1>6. t \in Tabs!TabType /\ Sound(t) /\ t.token \in Nat /\ t.failed \in BOOLEAN /\ t.token <= seq
      /\ seq \in Nat /\ t.id = active /\ active \in Ids
  BY <1>1, <1>3, <1>4, <1>5, InList, TabFields, TabsAssumption
     DEF TabsInv, Waited, TabTypes, Tabs!BrowserAssumption
<1>7. PICK to : to = Tabs!StopPage(t)
  OBVIOUS
<1>8. to \in Tabs!TabType /\ Sound(to) /\ to.id = t.id /\ ~to.loading /\ to.token = t.token + 1
  <2>1. PICK bad, n : bad = t.failed /\ n = t.token + 1
    OBVIOUS
  <2>2. to = StillTab(t, bad, n)
    BY <1>6, <1>7, <2>1 DEF Tabs!StopPage, Tabs!TabType, StillTab
  <2>3. n \in Nat /\ n = t.token + 1
    BY <1>6, <2>1
  <2>4. bad \in BOOLEAN
    BY <1>6, <2>1
  <2>5. t \in Tabs!TabType /\ Sound(t)
    BY <1>6
  <2> QED BY <2>2, <2>3, <2>4, <2>5, StillSound
<1>9. DOMAIN tabs = 1..Len(tabs) /\ \A i \in 1..Len(tabs) : tabs[i].id = active <=> i = k
  BY <1>1, <1>4 DEF TabList
<1>10. tabs' = [i \in DOMAIN tabs |-> IF tabs[i].id = to.id THEN to ELSE tabs[i]]
  <2>1. tabs' = [i \in DOMAIN tabs |-> IF tabs[i].id = active THEN Tabs!StopPage(tabs[i]) ELSE tabs[i]]
    BY <1>3 DEF Tabs!MapTab
  <2>2. \A i \in DOMAIN tabs : tabs[i].id = active => Tabs!StopPage(tabs[i]) = to
    BY <1>5, <1>7, <1>9
  <2> QED BY <1>6, <1>8, <2>1, <2>2
<1>11. Changed(tabs', tabs, k, to)
  BY <1>1, <1>4, <1>6, <1>8, <1>10, ListChanged
<1>12. /\ TabList(tabs') /\ SamePlaces(tabs', tabs) /\ tabs'[k] = to /\ Len(tabs') = Len(tabs)
       /\ \A i \in 1..Len(tabs) : i # k => tabs'[i] = tabs[i]
  BY <1>11 DEF Changed, SamePlaces
<1>13. \A i \in 1..Len(tabs) : tabs[i].id # active => \E j \in 1..Len(tabs') : tabs'[j] = tabs[i]
  BY <1>1, <1>12
<1>14. \A j \in 1..Len(tabs') :
           \/ \E i \in 1..Len(tabs) : tabs'[j] = tabs[i] /\ tabs[i].id # active
           \/ ~tabs'[j].loading /\ tabs'[j].token <= seq + 1
  <2> SUFFICES ASSUME NEW j \in 1..Len(tabs')
               PROVE  \/ \E i \in 1..Len(tabs) : tabs'[j] = tabs[i] /\ tabs[i].id # active
                      \/ ~tabs'[j].loading /\ tabs'[j].token <= seq + 1
    OBVIOUS
  <2>1. CASE j = k
    <3>1. t.token + 1 <= seq + 1
      BY <1>6
    <3> QED BY <1>8, <1>12, <2>1, <3>1
  <2>2. CASE j # k
    BY <1>9, <1>12, <2>2
  <2> QED BY <2>1, <2>2
<1>15. Orderly(tabs)' /\ OneLoad' /\ TabTypes'
  <2>1. PICK list, id : list = tabs /\ id = active
    OBVIOUS
  <2>2. /\ Orderly(list) /\ id \in Ids /\ TabList(tabs')
        /\ \A i \in 1..Len(list) : list[i].id # id => \E j \in 1..Len(tabs') : tabs'[j] = list[i]
        /\ \A j \in 1..Len(tabs') :
             \/ \E i \in 1..Len(list) : tabs'[j] = list[i] /\ list[i].id # id
             \/ ~tabs'[j].loading /\ tabs'[j].token <= seq + 1
        /\ loads' = Tabs!Aborted(id) /\ control' = [control EXCEPT ![id] = 0]
        /\ Tabs!DropPrompt(id)
    BY <1>3, <1>4, <1>6, <1>12, <1>13, <1>14, <2>1
  <2>3. OneLoad /\ TabTypes /\ UNCHANGED <<seq, cached>>
    BY <1>3, <1>4
  <2> QED BY <2>2, <2>3, DropKeeps
<1>16. \A i \in 1..Len(tabs) : tabs'[i].token >= tabs[i].token
  <2> SUFFICES ASSUME NEW i \in 1..Len(tabs) PROVE tabs'[i].token >= tabs[i].token
    OBVIOUS
  <2>1. tabs[i].token \in Nat
    BY <1>4, InList, TabFields
  <2>2. CASE i = k
    BY <1>5, <1>6, <1>8, <1>12, <2>2
  <2>3. CASE i # k
    <3>1. tabs'[i].token = tabs[i].token
      BY <1>12, <2>3
    <3> QED BY <2>1, <3>1
  <2> QED BY <2>2, <2>3
<1>17. seq' >= seq
  BY <1>3, <1>6
<1> QED BY <1>2, <1>12, <1>15, <1>16, <1>17, InPlace

(* What is rendered at once.                                                *)
Shown ==
  /\ TabList(seen) /\ SamePlaces(seen, tabs) /\ Waited
  /\ card = None \/ card \in [tab : Ids, url : Urls]

LEMMA RenderedShown ==
  ASSUME Orderly(tabs)', TabTypes', Tabs!RenderNow
  PROVE  Shown'
<1>1. seen' = tabs' /\ card' = prompt' /\ TabList(tabs)'
  BY DEF Tabs!RenderNow, Orderly
<1>2. TabList(seen)'
  BY <1>1 DEF TabList, Sound
<1>3. Waited'
  BY <1>1 DEF Waited, Orderly
<1>4. (card = None \/ card \in [tab : Ids, url : Urls])'
  BY <1>1 DEF TabTypes
<1> QED BY <1>1, <1>2, <1>3, <1>4 DEF Shown, SamePlaces

(* A list whose tabs were in the list, or are new.                          *)
LEMMA NewList ==
  ASSUME TabsInv, Orderly(tabs)', OneLoad', TabTypes', Tabs!RenderNow,
         \A j \in 1..Len(tabs') : \/ \E i \in 1..Len(tabs) : tabs'[j] = tabs[i]
                                  \/ \A i \in 1..Len(tabs) : tabs'[j].id # tabs[i].id,
         \E j \in 1..Len(tabs') : tabs'[j].id = active'
  PROVE  TabsStep
<1>1. TabList(tabs) /\ TabList(tabs)'
  BY DEF TabsInv, Orderly
<1>2. Shown'
  BY RenderedShown
<1>3. ASSUME NEW i \in 1..Len(tabs), NEW j \in 1..Len(tabs'), tabs[i].id = tabs'[j].id
      PROVE  tabs'[j].token >= tabs[i].token
  <2>1. PICK n \in 1..Len(tabs) : tabs'[j] = tabs[n]
    BY <1>3
  <2>2. n = i
    BY <1>1, <1>3, <2>1 DEF TabList
  <2>3. tabs[i].token \in Nat
    BY <1>1, InList, TabFields
  <2> QED BY <2>1, <2>2, <2>3
<1> QED BY <1>2, <1>3 DEF TabsStep, TabsInv, Shown, Newer

LEMMA FreshId ==
  ASSUME TabsInv, NEW id \in Tabs!FreshIds
  PROVE  id \in Ids /\ \A i \in 1..Len(tabs) : tabs[i].id # id
BY DEF Tabs!FreshIds, Tabs!IdsOf, TabsInv, Orderly, TabList

LEMMA NewTabStep ==
  ASSUME TabsInv, ~stale', Tabs!NewTab
  PROVE  TabsStep
<1>1. seen = tabs /\ Tabs!RenderNow /\ UNCHANGED <<seq, control, loads, cached, prompt>>
  BY WroteSame DEF Tabs!NewTab
<1>2. Orderly(tabs) /\ OneLoad /\ TabTypes /\ TabList(tabs) /\ Len(tabs) \in 1..MaxTabs /\ MaxTabs \in Nat
  BY TabsAssumption DEF TabsInv, Orderly, TabList, Tabs!BrowserAssumption
<1>3. CASE Len(tabs) >= MaxTabs
  <2>1. tabs' = tabs /\ active' = tabs[Len(tabs)].id /\ Len(tabs) \in 1..Len(tabs)
    BY <1>1, <1>2, <1>3 DEF Tabs!NewTab
  <2> QED BY <1>1, <2>1, StillStep
<1>4. CASE Len(tabs) < MaxTabs
  <2>0. ~(Len(tabs) >= MaxTabs)
    BY <1>2, <1>4
  <2>1. PICK id \in Tabs!FreshIds : tabs' = Append(tabs, Tabs!NewBrowserTab(id)) /\ active' = id
    BY <1>1, <2>0 DEF Tabs!NewTab
  <2>2. id \in Ids /\ \A i \in 1..Len(tabs) : tabs[i].id # id
    BY FreshId
  <2>3. PICK new : new = Append(tabs, Tabs!NewBrowserTab(id))
    OBVIOUS
  <2>4. /\ Orderly(new) /\ Len(new) = Len(tabs) + 1 /\ new[Len(new)] = Tabs!NewBrowserTab(id)
        /\ \A i \in 1..Len(tabs) : new[i] = tabs[i]
    <3>1. Orderly(tabs) /\ TabTypes /\ Len(tabs) < MaxTabs
      BY <1>2, <1>4
    <3>2. PICK list, x : list = tabs /\ x = id
      OBVIOUS
    <3>3. /\ Orderly(list) /\ TabTypes /\ Len(list) < MaxTabs /\ x \in Ids
          /\ (\A i \in 1..Len(list) : list[i].id # x) /\ new = Append(list, Tabs!NewBrowserTab(x))
      BY <2>2, <2>3, <3>1, <3>2
    <3>4. /\ Orderly(new) /\ Len(new) = Len(list) + 1 /\ new[Len(new)] = Tabs!NewBrowserTab(x)
          /\ \A i \in 1..Len(list) : new[i] = list[i]
      BY <3>3, AppendOrderly
    <3> QED BY <3>2, <3>4
  <2>5. tabs' = new
    BY <2>1, <2>3
  <2>6. Orderly(tabs)' /\ OneLoad' /\ TabTypes'
    <3>1. Orderly(tabs)'
      <4>1. TabList(tabs)'
        BY <2>4, <2>5 DEF Orderly, TabList, Sound
      <4> QED BY <1>1, <2>4, <2>5, <4>1 DEF Orderly, Awaits
    <3> QED BY <1>1, <1>2, <3>1 DEF OneLoad, TabTypes
  <2>7. \A j \in 1..Len(tabs') : j \in 1..Len(tabs) \/ j = Len(new)
    BY <1>2, <2>4, <2>5
  <2>8. new[Len(new)].id = id
    BY <2>2, <2>4, NewTabSound
  <2>9. \A j \in 1..Len(tabs') : \/ \E i \in 1..Len(tabs) : tabs'[j] = tabs[i]
                                 \/ \A i \in 1..Len(tabs) : tabs'[j].id # tabs[i].id
    BY <2>2, <2>4, <2>5, <2>7, <2>8
  <2>10. \E j \in 1..Len(tabs') : tabs'[j].id = active'
    <3>1. Len(new) \in 1..Len(tabs')
      BY <1>2, <2>4, <2>5
    <3> QED BY <2>1, <2>5, <2>8, <3>1
  <2> QED BY <1>1, <2>6, <2>9, <2>10, NewList
<1> QED BY <1>2, <1>3, <1>4

(* What a closed tab leaves of the list.                                    *)
Others(list, id) == Kept(list, {tab \in Elems(list) : tab.id # id})

Leaves(new, list, id) ==
  /\ new \in Seq(Tabs!TabType) /\ Len(new) \in 0..Len(list)
  /\ \A i, j \in 1..Len(new) : new[i].id = new[j].id => i = j
  /\ \A j \in 1..Len(new) : \E i \in 1..Len(list) : new[j] = list[i] /\ list[i].id # id
  /\ \A i \in 1..Len(list) : list[i].id # id => \E j \in 1..Len(new) : new[j] = list[i]

LEMMA CloseLeaves ==
  ASSUME NEW list, TabList(list), NEW id, NEW new, new = Others(list, id)
  PROVE  Leaves(new, list, id)
<1>1. PICK S : S = {tab \in Elems(list) : tab.id # id}
  OBVIOUS
<1>2. /\ list \in Seq(Tabs!TabType) /\ Len(list) \in Nat /\ DOMAIN list = 1..Len(list)
      /\ \A i, j \in 1..Len(list) : list[i].id = list[j].id => i = j
  BY DEF TabList
<1>3. /\ \A i \in 1..Len(list) : list[i] \in S <=> list[i].id # id
      /\ \A tab \in S : tab.id # id
  BY <1>1, <1>2 DEF Elems
<1>4. new = Kept(list, S)
  BY <1>1 DEF Others
<1>5. /\ new \in Seq(Tabs!TabType \cap S) /\ Len(new) <= Len(list)
      /\ \A j \in 1..Len(new) : new[j] \in S /\ \E i \in 1..Len(list) : list[i] = new[j]
      /\ \A i \in 1..Len(list) : list[i] \in S => \E j \in 1..Len(new) : new[j] = list[i]
      /\ \A i, j \in 1..Len(new) : new[i] = new[j] => i = j
  <2>0. list \in Seq(Tabs!TabType)
    BY <1>2
  <2>1. /\ Kept(list, S) \in Seq(Tabs!TabType \cap S) /\ Len(Kept(list, S)) <= Len(list)
    BY <2>0, KeptSeq
  <2>2. \A j \in 1..Len(Kept(list, S)) :
          Kept(list, S)[j] \in S /\ \E i \in 1..Len(list) : list[i] = Kept(list, S)[j]
    BY <2>0, KeptFrom
  <2>3. \A i \in 1..Len(list) :
          list[i] \in S => \E j \in 1..Len(Kept(list, S)) : Kept(list, S)[j] = list[i]
    BY <2>0, KeptPlace
  <2>4. \A x, y \in 1..Len(list) : list[x] = list[y] => x = y
    BY <1>2
  <2>5. \A i, j \in 1..Len(Kept(list, S)) : Kept(list, S)[i] = Kept(list, S)[j] => i = j
    BY <2>0, <2>4, KeptOnce
  <2> QED BY <1>4, <2>1, <2>2, <2>3, <2>5
<1>6. new \in Seq(Tabs!TabType) /\ Len(new) \in Nat
  <2>1. PICK R : R = Tabs!TabType \cap S
    OBVIOUS
  <2>2. new \in Seq(R) /\ R \subseteq Tabs!TabType
    BY <1>5, <2>1
  <2> QED BY <2>2
<1>7. ASSUME NEW j \in 1..Len(new) PROVE \E i \in 1..Len(list) : new[j] = list[i] /\ list[i].id # id
  <2>1. new[j] \in S /\ \E i \in 1..Len(list) : list[i] = new[j]
    BY <1>5
  <2> QED BY <1>3, <2>1
<1>8. ASSUME NEW i \in 1..Len(list), list[i].id # id PROVE \E j \in 1..Len(new) : new[j] = list[i]
  <2>1. list[i] \in S
    BY <1>3, <1>8
  <2> QED BY <1>5, <2>1
<1>9. ASSUME NEW i \in 1..Len(new), NEW j \in 1..Len(new), new[i].id = new[j].id PROVE i = j
  <2>1. PICK a \in 1..Len(list) : new[i] = list[a]
    BY <1>7
  <2>2. PICK b \in 1..Len(list) : new[j] = list[b]
    BY <1>7
  <2>3. a = b
    BY <1>2, <1>9, <2>1, <2>2
  <2>4. new[i] = new[j]
    BY <2>1, <2>2, <2>3
  <2>5. \A x, y \in 1..Len(new) : new[x] = new[y] => x = y
    BY <1>5
  <2> QED BY <2>4, <2>5
<1>10. Len(new) \in 0..Len(list)
  <2>1. Len(new) <= Len(list)
    BY <1>5
  <2> QED BY <1>2, <1>6, <2>1
<1>11. \A i, j \in 1..Len(new) : new[i].id = new[j].id => i = j
  BY <1>9
<1> QED BY <1>6, <1>7, <1>8, <1>10, <1>11 DEF Leaves

LEMMA CloseStep ==
  ASSUME TabsInv, ~stale', NEW id \in Ids, Tabs!CloseTab(id)
  PROVE  TabsStep
<1>1. seen = tabs /\ Tabs!RenderNow /\ UNCHANGED <<seq, cached>> /\ id \in Tabs!IdsOf(seen)
  BY WroteSame DEF Tabs!CloseTab
<1>2. Orderly(tabs) /\ OneLoad /\ TabTypes /\ TabList(tabs)
  BY DEF TabsInv, Orderly
<1>3. /\ loads' = Tabs!Aborted(id) /\ control' = [control EXCEPT ![id] = 0] /\ Tabs!DropPrompt(id)
  BY DEF Tabs!CloseTab
<1>4. PICK fresh \in Tabs!FreshIds :
        /\ tabs' = Tabs!CloseBrowserTab(tabs, id, fresh).tabs
        /\ active' = Tabs!CloseBrowserTab(tabs, id, fresh).active
  BY <1>1 DEF Tabs!CloseTab
<1>5. fresh \in Ids /\ \A i \in 1..Len(tabs) : tabs[i].id # fresh
  BY FreshId
<1>6. PICK new : new = Others(tabs, id)
  OBVIOUS
<1>7. /\ new \in Seq(Tabs!TabType) /\ Len(new) \in 0..Len(tabs)
      /\ \A i, j \in 1..Len(new) : new[i].id = new[j].id => i = j
      /\ \A j \in 1..Len(new) : \E i \in 1..Len(tabs) : new[j] = tabs[i] /\ tabs[i].id # id
      /\ \A i \in 1..Len(tabs) : tabs[i].id # id => \E j \in 1..Len(new) : new[j] = tabs[i]
  <2>1. Leaves(new, tabs, id)
    BY <1>2, <1>6, CloseLeaves
  <2> QED BY <2>1 DEF Leaves
<1>8. new = Tabs!Kept(tabs, {tab \in Tabs!Elems(tabs) : tab.id # id})
  BY <1>6 DEF Others, Tabs!Kept, Kept, Tabs!Elems, Elems
<1>9. Len(tabs) \in 1..MaxTabs /\ MaxTabs \in Nat /\ seq \in Nat
  BY <1>2, TabsAssumption DEF TabList, TabTypes, Tabs!BrowserAssumption
<1>10. \E j \in 1..Len(tabs') : tabs'[j].id = active'
  <2>1. CASE new = <<>>
    <3>1. tabs' = <<Tabs!NewBrowserTab(fresh)>> /\ active' = fresh
      BY <1>4, <1>8, <2>1 DEF Tabs!CloseBrowserTab
    <3>2. Tabs!NewBrowserTab(fresh).id = fresh
      BY <1>5, NewTabSound
    <3>3. 1 \in 1..Len(tabs') /\ tabs'[1] = Tabs!NewBrowserTab(fresh)
      BY <3>1
    <3> QED BY <3>1, <3>2, <3>3
  <2>2. CASE new # <<>>
    <3>1. PICK at : at = CHOOSE i \in DOMAIN tabs : tabs[i].id = id
      OBVIOUS
    <3>2. /\ tabs' = new
          /\ active' = IF active # id THEN active
                       ELSE new[IF at <= Len(new) THEN at ELSE Len(new)].id
      BY <1>4, <1>8, <2>2, <3>1 DEF Tabs!CloseBrowserTab
    <3>3. CASE active # id
      <4>1. PICK i \in 1..Len(tabs) : tabs[i].id = active
        BY DEF TabsInv
      <4>2. PICK j \in 1..Len(new) : new[j] = tabs[i]
        BY <1>7, <3>3, <4>1
      <4> QED BY <3>2, <3>3, <4>1, <4>2
    <3>4. CASE active = id
      <4>1. at \in 1..Len(tabs)
        <5>1. \E i \in DOMAIN tabs : tabs[i].id = id
          BY <1>1 DEF Tabs!IdsOf
        <5>2. at \in DOMAIN tabs
          BY <3>1, <5>1
        <5> QED BY <1>2, <5>2 DEF TabList
      <4>2. Len(new) # 0
        BY <1>7, <2>2, EmptySeq
      <4>3. PICK n : n = IF at <= Len(new) THEN at ELSE Len(new)
        OBVIOUS
      <4>4. n \in 1..Len(new)
        BY <1>7, <4>1, <4>2, <4>3
      <4>5. active' = new[n].id
        BY <3>2, <3>4, <4>3
      <4> QED BY <3>2, <4>4, <4>5
    <3> QED BY <3>3, <3>4
  <2> QED BY <2>1, <2>2
<1>11. /\ TabList(tabs')
       /\ \A i \in 1..Len(tabs) : tabs[i].id # id => \E j \in 1..Len(tabs') : tabs'[j] = tabs[i]
       /\ \A j \in 1..Len(tabs') :
            \/ \E i \in 1..Len(tabs) : tabs'[j] = tabs[i] /\ tabs[i].id # id
            \/ tabs'[j].id = fresh /\ ~tabs'[j].loading /\ tabs'[j].token = 0
  <2>1. CASE new = <<>>
    <3>1. PICK t : t = Tabs!NewBrowserTab(fresh)
      OBVIOUS
    <3>2. t \in Tabs!TabType /\ Sound(t) /\ t.id = fresh /\ ~t.loading /\ t.token = 0
      BY <1>5, <3>1, NewTabSound
    <3>3. tabs' = <<t>>
      BY <1>4, <1>8, <2>1, <3>1 DEF Tabs!CloseBrowserTab
    <3>4. /\ tabs' \in Seq(Tabs!TabType) /\ Len(tabs') = 1 /\ tabs'[1] = t
      BY <3>2, <3>3
    <3>5. 1..Len(tabs') = {1}
      BY <3>4
    <3>6. TabList(tabs')
      BY <1>9, <3>2, <3>4, <3>5 DEF TabList
    <3>7. Len(new) = 0
      BY <2>1
    <3>8. \A i \in 1..Len(tabs) : tabs[i].id = id
      BY <1>7, <3>7
    <3> QED BY <3>2, <3>4, <3>5, <3>6, <3>8
  <2>2. CASE new # <<>>
    <3>1. tabs' = new
      BY <1>4, <1>8, <2>2 DEF Tabs!CloseBrowserTab
    <3>2. Len(new) # 0
      BY <1>7, <2>2, EmptySeq
    <3>3. Len(new) \in 1..MaxTabs
      BY <1>7, <1>9, <3>2
    <3>4. \A j \in 1..Len(new) : Sound(new[j])
      BY <1>2, <1>7, InList
    <3>5. TabList(new)
      BY <1>7, <3>3, <3>4 DEF TabList
    <3> QED BY <1>7, <3>1, <3>5
  <2> QED BY <2>1, <2>2
<1>12. Orderly(tabs)' /\ OneLoad' /\ TabTypes'
  <2>1. PICK list : list = tabs
    OBVIOUS
  <2>2. /\ Orderly(list) /\ TabList(tabs')
        /\ \A i \in 1..Len(list) : list[i].id # id => \E j \in 1..Len(tabs') : tabs'[j] = list[i]
    BY <1>2, <1>11, <2>1
  <2>3. \A j \in 1..Len(tabs') :
          \/ \E i \in 1..Len(list) : tabs'[j] = list[i] /\ list[i].id # id
          \/ ~tabs'[j].loading /\ tabs'[j].token <= seq + 1
    <3>1. 0 <= seq + 1
      BY <1>9
    <3> QED BY <1>11, <2>1, <3>1
  <2>4. OneLoad /\ TabTypes /\ UNCHANGED <<seq, cached>>
    BY <1>1, <1>2
  <2> QED BY <1>3, <2>2, <2>3, <2>4, DropKeeps
<1>13. \A j \in 1..Len(tabs') : \/ \E i \in 1..Len(tabs) : tabs'[j] = tabs[i]
                                \/ \A i \in 1..Len(tabs) : tabs'[j].id # tabs[i].id
  BY <1>5, <1>11
<1> QED BY <1>1, <1>10, <1>12, <1>13, NewList

(* The workspace of a service is opened.                                    *)
LEMMA FirstOf ==
  ASSUME TabsInv, NEW S, S \subseteq 1..Len(tabs), S # {}
  PROVE  (CHOOSE i \in S : \A j \in S : i <= j) \in S
<1>1. S \in SUBSET Nat
  BY DEF TabsInv, Orderly, TabList
<1>2. \E i \in S : \A j \in S : i <= j
  BY <1>1, LeastNat
<1> QED BY <1>2

LEMMA WorkspaceStep ==
  ASSUME TabsInv, ~stale', NEW u \in Urls, Tabs!OpenWorkspace(u)
  PROVE  TabsStep
<1>1. PICK same, blank :
        /\ same = {i \in DOMAIN seen : seen[i].url # None /\ AddressOf[seen[i].url] = AddressOf[u]}
        /\ blank = {i \in DOMAIN seen : seen[i].url = None /\ ~seen[i].loading}
  OBVIOUS
<1>2. /\ Tabs!RenderNow /\ Len(seen) = Len(tabs)
      /\ \A i \in 1..Len(tabs) : seen[i].id = tabs[i].id
  BY DEF Tabs!OpenWorkspace, TabsInv, SamePlaces
<1>3. /\ Orderly(tabs) /\ OneLoad /\ TabTypes /\ TabList(tabs) /\ TabList(seen)
      /\ DOMAIN seen = 1..Len(tabs)
  BY DEF TabsInv, Orderly, TabList, SamePlaces
<1>4. PICK move, force : move = Tabs!Push /\ force = FALSE
  OBVIOUS
<1>5. force \in BOOLEAN /\ \A k : Moves(tabs[k], u, move)
  BY <1>4 DEF Moves
<1>6. CASE same # {}
  <2>1. PICK k : k = CHOOSE i \in same : \A j \in same : i <= j
    OBVIOUS
  <2>2. k \in same /\ k \in 1..Len(tabs) /\ seen[k].url # None /\ seen[k].id = tabs[k].id
    <3>1. same \subseteq 1..Len(tabs)
      BY <1>1, <1>3
    <3>2. k \in same
      BY <1>6, <2>1, <3>1, FirstOf
    <3> QED BY <1>1, <1>2, <3>1, <3>2
  <2>3. PICK id : id = tabs[k].id
    OBVIOUS
  <2>4. /\ active' = id
        /\ \/ Tabs!Navigate(tabs, id, u, move, force)
           \/ Tabs!ReloadTab(seen[k])
           \/ UNCHANGED <<tabs, seq, control, loads, cached, prompt>>
    BY <1>1, <1>4, <1>6, <2>1, <2>2, <2>3 DEF Tabs!OpenWorkspace
  <2>5. CASE Tabs!Navigate(tabs, id, u, move, force)
    <3>1. Tabs!BeginNavigation(tabs, id, u, move, force) /\ Tabs!DropPrompt(id)
      BY <2>5 DEF Tabs!Navigate
    <3> QED BY <1>2, <1>5, <2>2, <2>3, <2>4, <3>1, GoesTo
  <2>6. CASE Tabs!ReloadTab(seen[k])
    BY <1>2, <2>2, <2>3, <2>4, <2>6, ReloadStep
  <2>7. CASE UNCHANGED <<tabs, seq, control, loads, cached, prompt>>
    <3>1. tabs[k].id = active'
      BY <2>3, <2>4
    <3> QED BY <1>2, <2>2, <2>7, <3>1, StillStep
  <2> QED BY <2>4, <2>5, <2>6, <2>7
<1>7. CASE same = {} /\ blank # {}
  <2>1. PICK k : k = CHOOSE i \in blank : \A j \in blank : i <= j
    OBVIOUS
  <2>2. k \in 1..Len(tabs)
    <3>1. blank \subseteq 1..Len(tabs)
      BY <1>1, <1>3
    <3> QED BY <1>7, <2>1, <3>1, FirstOf
  <2>3. PICK id : id = tabs[k].id
    OBVIOUS
  <2>4. active' = id /\ Tabs!Navigate(tabs, id, u, move, force)
    BY <1>1, <1>2, <1>4, <1>7, <2>1, <2>2, <2>3 DEF Tabs!OpenWorkspace
  <2>5. Tabs!BeginNavigation(tabs, id, u, move, force) /\ Tabs!DropPrompt(id)
    BY <2>4 DEF Tabs!Navigate
  <2> QED BY <1>2, <1>5, <2>2, <2>3, <2>4, <2>5, GoesTo
<1>8. CASE same = {} /\ blank = {} /\ Len(seen) < MaxTabs
  <2>0. ~(Len(seen) >= MaxTabs)
    BY <1>3, <1>8, TabsAssumption DEF TabList, Tabs!BrowserAssumption
  <2>1. PICK id \in Tabs!FreshIds :
          /\ active' = id
          /\ Tabs!Navigate(Append(tabs, Tabs!NewBrowserTab(id)), id, u, move, force)
    <3>1. Tabs!WritesBack(seen, tabs)
      BY <1>1, <1>8, <2>0 DEF Tabs!OpenWorkspace
    <3>2. seen = tabs
      BY <3>1, WroteSame
    <3> QED BY <1>1, <1>4, <1>8, <2>0, <3>2 DEF Tabs!OpenWorkspace
  <2>2. id \in Ids /\ \A i \in 1..Len(tabs) : tabs[i].id # id
    BY FreshId
  <2>3. PICK list : list = Append(tabs, Tabs!NewBrowserTab(id))
    OBVIOUS
  <2>4. /\ Orderly(list) /\ Len(list) = Len(tabs) + 1 /\ list[Len(list)] = Tabs!NewBrowserTab(id)
        /\ \A i \in 1..Len(tabs) : list[i] = tabs[i]
    <3>1. Len(tabs) < MaxTabs
      BY <1>2, <1>8
    <3>2. PICK old, x : old = tabs /\ x = id
      OBVIOUS
    <3>3. /\ Orderly(old) /\ TabTypes /\ Len(old) < MaxTabs /\ x \in Ids
          /\ (\A i \in 1..Len(old) : old[i].id # x) /\ list = Append(old, Tabs!NewBrowserTab(x))
      BY <1>3, <2>2, <2>3, <3>1, <3>2
    <3>4. /\ Orderly(list) /\ Len(list) = Len(old) + 1 /\ list[Len(list)] = Tabs!NewBrowserTab(x)
          /\ \A i \in 1..Len(old) : list[i] = old[i]
      BY <3>3, AppendOrderly
    <3> QED BY <3>2, <3>4
  <2>5. PICK k : k = Len(list)
    OBVIOUS
  <2>6. /\ k \in 1..Len(list) /\ list[k].id = id
        /\ \A j \in 1..Len(list) : j \in 1..Len(tabs) \/ j = k
    <3>1. Len(tabs) \in Nat
      BY <1>3 DEF TabList
    <3> QED BY <2>2, <2>4, <2>5, <3>1, NewTabSound
  <2>7. /\ Tabs!BeginNavigation(list, list[k].id, u, move, force) /\ Tabs!DropPrompt(list[k].id)
        /\ Moves(list[k], u, move)
    BY <1>4, <2>1, <2>3, <2>6 DEF Moves, Tabs!Navigate
  <2>8. /\ Orderly(tabs)' /\ OneLoad' /\ TabTypes' /\ SamePlaces(tabs', list)
        /\ \A i \in 1..Len(list) : tabs'[i].token >= list[i].token
    BY <1>3, <1>5, <2>4, <2>6, <2>7, NavigateKeeps
  <2>9. /\ Len(tabs') = Len(list) /\ \A j \in 1..Len(list) : tabs'[j].id = list[j].id
    BY <2>8 DEF SamePlaces
  <2>10. Shown'
    BY <1>2, <2>8, RenderedShown
  <2>11. \E j \in 1..Len(tabs') : tabs'[j].id = active'
    BY <2>1, <2>6, <2>9
  <2>12. Newer
    <3> SUFFICES ASSUME NEW i \in 1..Len(tabs), NEW j \in 1..Len(tabs'), tabs[i].id = tabs'[j].id
                 PROVE  tabs'[j].token >= tabs[i].token
      BY DEF Newer
    <3>1. list[j].id = tabs[i].id /\ j \in 1..Len(list)
      BY <2>9
    <3>2. j \in 1..Len(tabs)
      BY <2>2, <2>6, <3>1
    <3>3. j = i
      BY <1>3, <2>4, <3>1, <3>2 DEF TabList
    <3> QED BY <2>4, <2>8, <3>1, <3>3
  <2> QED BY <2>8, <2>10, <2>11, <2>12 DEF TabsStep, TabsInv, Shown
<1>9. CASE same = {} /\ blank = {} /\ Len(seen) >= MaxTabs
  <2>0. ~(Len(seen) < MaxTabs)
    BY <1>3, <1>9, TabsAssumption DEF TabList, Tabs!BrowserAssumption
  <2>1. PICK k \in 1..Len(tabs) : Tabs!ActiveTab = seen[k] /\ tabs[k].id = active /\ seen[k].id = active
    BY ActiveIs
  <2>2. PICK id : id = tabs[k].id
    OBVIOUS
  <2>3. active' = active /\ Tabs!Navigate(tabs, id, u, move, force)
    BY <1>1, <1>4, <1>9, <2>0, <2>1, <2>2 DEF Tabs!OpenWorkspace
  <2>4. Tabs!BeginNavigation(tabs, id, u, move, force) /\ Tabs!DropPrompt(id)
    BY <2>3 DEF Tabs!Navigate
  <2> QED BY <1>2, <1>5, <2>1, <2>2, <2>3, <2>4, GoesTo
<1> QED
  <2>1. Len(seen) < MaxTabs \/ Len(seen) >= MaxTabs
    BY <1>3, TabsAssumption DEF TabList, Tabs!BrowserAssumption
  <2> QED BY <1>6, <1>7, <1>8, <1>9, <2>1

(* What a restart makes of a tab.                                           *)
RestoredTab(t) ==
  [id |-> t.id, url |-> t.url, service |-> t.service, content |-> None,
   failed |-> FALSE, loading |-> FALSE, history |-> t.history, index |-> t.index,
   token |-> 0]

LEMMA RestoredSound ==
  ASSUME NEW t \in Tabs!TabType, Sound(t)
  PROVE  LET to == RestoredTab(t)
         IN /\ to \in Tabs!TabType /\ Sound(to) /\ to.id = t.id /\ to.token = 0 /\ ~to.loading
            /\ to = [t EXCEPT !.content = None, !.failed = FALSE, !.loading = FALSE, !.token = 0]
<1>1. PICK to : to = RestoredTab(t)
  OBVIOUS
<1>2. to = [id |-> t.id, url |-> t.url, service |-> t.service, content |-> None,
            failed |-> FALSE, loading |-> FALSE, history |-> t.history, index |-> t.index,
            token |-> 0]
  BY <1>1 DEF RestoredTab
<1>3. t.history \in UNION {[1..k -> Urls] : k \in 0..MaxHistory}
  BY DEF Tabs!TabType
<1>4. to \in Tabs!TabType
  BY <1>2, <1>3, TabFields DEF Tabs!TabType
<1>5. Sound(to)
  BY <1>2 DEF Sound
<1>6. to = [t EXCEPT !.content = None, !.failed = FALSE, !.loading = FALSE, !.token = 0]
  <2>1. PICK new : new = [t EXCEPT !.content = None, !.failed = FALSE, !.loading = FALSE, !.token = 0]
    OBVIOUS
  <2>2. new = [id |-> t.id, url |-> t.url, service |-> t.service, content |-> None,
               failed |-> FALSE, loading |-> FALSE, history |-> t.history, index |-> t.index,
               token |-> 0]
    BY <2>1 DEF Tabs!TabType
  <2> QED BY <1>2, <2>1, <2>2
<1> QED BY <1>1, <1>2, <1>4, <1>5, <1>6

LEMMA RestartStep ==
  ASSUME TabsInv, Tabs!Restart
  PROVE  TabsInv' /\ seq' <= 1
<1>1. PICK list : list = Tabs!Restored(seen)
  OBVIOUS
<1>2. /\ TabList(seen) /\ DOMAIN seen = 1..Len(seen) /\ Len(seen) \in 1..MaxTabs
      /\ \A i, j \in 1..Len(seen) : seen[i].id = seen[j].id => i = j
  BY DEF TabsInv, TabList
<1>3. PICK k \in 1..Len(seen) : seen[k].id = active
  BY ActiveIs
<1>4. MaxNav \in Nat /\ 1 \in 0..MaxNav /\ None \notin Urls
  BY TabsAssumption DEF Tabs!BrowserAssumption
<1>5. \A i \in 1..Len(seen) :
        /\ list[i] \in Tabs!TabType /\ Sound(list[i]) /\ list[i].id = seen[i].id
        /\ list[i].token = 0 /\ ~list[i].loading
  <2> SUFFICES ASSUME NEW i \in 1..Len(seen)
               PROVE  /\ list[i] \in Tabs!TabType /\ Sound(list[i]) /\ list[i].id = seen[i].id
                      /\ list[i].token = 0 /\ ~list[i].loading
    OBVIOUS
  <2>1. PICK t, to : t = seen[i] /\ to = RestoredTab(t)
    OBVIOUS
  <2>2. t \in Tabs!TabType /\ Sound(t)
    BY <1>2, <2>1, InList
  <2>3. /\ to \in Tabs!TabType /\ Sound(to) /\ to.id = t.id /\ to.token = 0 /\ ~to.loading
        /\ to = [t EXCEPT !.content = None, !.failed = FALSE, !.loading = FALSE, !.token = 0]
    BY <2>1, <2>2, RestoredSound
  <2>4. list[i] = [t EXCEPT !.content = None, !.failed = FALSE, !.loading = FALSE, !.token = 0]
    BY <1>1, <1>2, <2>1 DEF Tabs!Restored
  <2>5. list[i] = to
    BY <2>3, <2>4
  <2> QED BY <2>1, <2>3, <2>5
<1>6. list \in [1..Len(seen) -> Tabs!TabType]
  <2>1. list = [i \in 1..Len(seen) |-> list[i]]
    BY <1>1, <1>2 DEF Tabs!Restored
  <2> QED BY <1>5, <2>1
<1>7. list \in Seq(Tabs!TabType) /\ Len(list) = Len(seen) /\ DOMAIN list = 1..Len(list)
  BY <1>2, <1>6, SeqDef, LenProperties
<1>8. TabList(list)
  <2>1. \A i, j \in 1..Len(list) : list[i].id = list[j].id => i = j
    BY <1>2, <1>5, <1>7
  <2>2. \A i \in 1..Len(list) : Sound(list[i])
    BY <1>5, <1>7
  <2> QED BY <1>2, <1>7, <2>1, <2>2 DEF TabList
<1>9. PICK t : t = list[k]
  OBVIOUS
<1>10. /\ t \in Tabs!TabType /\ Sound(t) /\ t.id = active /\ t.token = 0 /\ ~t.loading
       /\ active \in Ids /\ t.url \in Urls \cup {None}
  BY <1>3, <1>5, <1>9, TabFields
<1>11. Tabs!TabOf(list, active) = t
  <2>1. \A i \in 1..Len(list) : list[i].id = active <=> i = k
    BY <1>3, <1>5, <1>7, <1>8 DEF TabList
  <2>2. (CHOOSE i \in DOMAIN list : list[i].id = active) = k
    BY <1>3, <1>7, <2>1
  <2> QED BY <1>9, <2>2 DEF Tabs!TabOf
<1> DEFINE load == t.url # None
<1>13. /\ tabs' = Tabs!MapTab(list, active, LAMBDA x :
                    IF load THEN Tabs!NavigateTab(x, x.url, Tabs!Replace, 1) ELSE x)
       /\ seq' = IF load THEN 1 ELSE 0
       /\ control' = [id \in Ids |-> IF load /\ id = active THEN 1 ELSE 0]
       /\ loads' = IF load THEN {[tab |-> active, token |-> 1, url |-> t.url, hops |-> 0,
                                  cached |-> FALSE, aborted |-> FALSE]}
                   ELSE {}
       /\ cached' = {} /\ prompt' = None /\ Tabs!RenderNow /\ active' = active
  BY <1>1, <1>11 DEF Tabs!Restart
<1>14. PICK to : to = IF load THEN Tabs!NavigateTab(t, t.url, Tabs!Replace, 1) ELSE t
  OBVIOUS
<1>15. /\ to \in Tabs!TabType /\ Sound(to) /\ to.id = active
       /\ to.url = t.url /\ (load => to.token = 1 /\ to.loading) /\ (~load => to.token = 0 /\ ~to.loading)
  <2>1. CASE load
    <3>1. PICK u, move, number : u = t.url /\ move = Tabs!Replace /\ number = 1
      OBVIOUS
    <3>2. u \in Urls /\ Moves(t, u, move) /\ number \in Nat /\ to = Tabs!NavigateTab(t, u, move, number)
      BY <1>10, <1>14, <2>1, <3>1 DEF Moves
    <3>3. /\ to \in Tabs!TabType /\ Sound(to) /\ to.id = t.id /\ to.url = u
          /\ to.token = number /\ to.loading
      BY <1>10, <3>2, NavigateSound
    <3> QED BY <1>10, <2>1, <3>1, <3>3
  <2>2. CASE ~load
    BY <1>10, <1>14, <2>2
  <2> QED BY <2>1, <2>2
<1>16. Changed(tabs', list, k, to)
  <2>1. \A i \in DOMAIN list : list[i].id = active => list[i] = t
    BY <1>3, <1>5, <1>7, <1>8, <1>9 DEF TabList
  <2>2. tabs' = [i \in DOMAIN list |-> IF list[i].id = active
                  THEN (IF load THEN Tabs!NavigateTab(list[i], list[i].url, Tabs!Replace, 1) ELSE list[i])
                  ELSE list[i]]
    BY <1>13 DEF Tabs!MapTab
  <2>3. tabs' = [i \in DOMAIN list |-> IF list[i].id = to.id THEN to ELSE list[i]]
    BY <1>14, <1>15, <2>1, <2>2
  <2>4. k \in 1..Len(list) /\ to.id = list[k].id
    BY <1>7, <1>9, <1>10, <1>15
  <2> QED BY <1>8, <1>15, <2>3, <2>4, ListChanged
<1>17. /\ TabList(tabs') /\ Len(tabs') = Len(list) /\ tabs'[k] = to /\ tabs'[k].id = active
       /\ \A i \in 1..Len(list) : i # k => tabs'[i].token = 0 /\ ~tabs'[i].loading
  BY <1>5, <1>7, <1>15, <1>16 DEF Changed, SamePlaces
<1>18. PICK l : l = [tab |-> active, token |-> 1, url |-> t.url, hops |-> 0,
                     cached |-> FALSE, aborted |-> FALSE]
  OBVIOUS
<1>19. l.tab = active /\ l.token = 1 /\ l.url = t.url /\ ~l.aborted
  BY <1>18
<1>20. loads' = (IF load THEN {l} ELSE {}) /\ (load => Awaits(to, l))
  BY <1>13, <1>15, <1>18, <1>19 DEF Awaits
<1>21. OneLoad'
  BY <1>20 DEF OneLoad
<1>22. TabTypes'
  <2>1. load => l \in Tabs!LoadType
    BY <1>10, <1>18, TabsAssumption DEF Tabs!LoadType, Tabs!BrowserAssumption
  <2>2. loads' \subseteq Tabs!LoadType
    BY <1>20, <2>1
  <2>3. control' \in [Ids -> 0..MaxNav] /\ seq' \in 0..MaxNav
    BY <1>4, <1>13
  <2> QED BY <1>13, <2>2, <2>3 DEF TabTypes
<1>23. Orderly(tabs)'
  <2>1. \A m \in loads' : ~m.aborted => /\ m.token = control'[m.tab]
                                        /\ \E i \in 1..Len(tabs') : Awaits(tabs'[i], m)
    <3> SUFFICES ASSUME NEW m \in loads'
                 PROVE  m.token = control'[m.tab] /\ \E i \in 1..Len(tabs') : Awaits(tabs'[i], m)
      OBVIOUS
    <3>1. load /\ m = l
      BY <1>20
    <3>2. control'[active] = 1
      BY <1>10, <1>13, <3>1
    <3>3. k \in 1..Len(tabs') /\ Awaits(tabs'[k], l)
      BY <1>7, <1>17, <1>20, <3>1
    <3> QED BY <1>19, <3>1, <3>2, <3>3
  <2>2. ASSUME NEW i \in 1..Len(tabs')
        PROVE  /\ tabs'[i].token <= seq' + 1
               /\ tabs'[i].loading => /\ tabs'[i].token <= seq'
                                      /\ \E m \in loads' : ~m.aborted /\ Awaits(tabs'[i], m)
    <3>1. CASE i = k /\ load
      <4>1. tabs'[i] = to /\ to.token = 1 /\ seq' = 1 /\ l \in loads' /\ Awaits(to, l)
        BY <1>13, <1>15, <1>17, <1>20, <3>1
      <4>2. tabs'[i].token <= seq' + 1 /\ tabs'[i].token <= seq'
        BY <4>1
      <4> QED BY <1>19, <4>1, <4>2
    <3>2. CASE ~(i = k /\ load)
      <4>1. tabs'[i].token = 0 /\ ~tabs'[i].loading
        BY <1>15, <1>17, <3>2
      <4>2. seq' = 0 \/ seq' = 1
        BY <1>13
      <4>3. tabs'[i].token <= seq' + 1
        BY <4>1, <4>2
      <4> QED BY <4>1, <4>3
    <3> QED BY <3>1, <3>2
  <2> QED BY <1>13, <1>17, <2>1, <2>2 DEF Orderly
<1>24. Shown'
  BY <1>13, <1>22, <1>23, RenderedShown
<1>25. \E i \in 1..Len(tabs') : tabs'[i].id = active'
  BY <1>7, <1>13, <1>17
<1>26. seq' <= 1
  <2>1. seq' = 0 \/ seq' = 1
    BY <1>13
  <2> QED BY <2>1
<1> QED BY <1>21, <1>22, <1>23, <1>24, <1>25, <1>26 DEF TabsInv, Shown

LEMMA TabsStart ==
  ASSUME Tabs!Init
  PROVE  TabsInv
<1>1. PICK id \in Ids : tabs = <<Tabs!NewBrowserTab(id)>> /\ active = id
  BY DEF Tabs!Init
<1>2. /\ seen = tabs /\ seq = 0 /\ control = [x \in Ids |-> 0] /\ loads = {} /\ cached = {}
      /\ prompt = None /\ card = None
  BY DEF Tabs!Init
<1>3. PICK t : t = Tabs!NewBrowserTab(id)
  OBVIOUS
<1>4. t \in Tabs!TabType /\ Sound(t) /\ t.id = id /\ t.token = 0 /\ ~t.loading
  BY <1>3, NewTabSound
<1>5. tabs \in Seq(Tabs!TabType) /\ Len(tabs) = 1 /\ tabs[1] = t /\ 1..Len(tabs) = {1}
  BY <1>1, <1>3, <1>4
<1>6. MaxTabs \in Nat \ {0} /\ MaxNav \in Nat
  BY TabsAssumption DEF Tabs!BrowserAssumption
<1>7. TabList(tabs)
  BY <1>4, <1>5, <1>6 DEF TabList
<1>8. Orderly(tabs)
  BY <1>2, <1>4, <1>5, <1>7 DEF Orderly
<1>9. TabTypes
  BY <1>2, <1>6 DEF TabTypes
<1> QED BY <1>1, <1>2, <1>4, <1>5, <1>7, <1>8, <1>9 DEF TabsInv, OneLoad, SamePlaces, Waited

LEMMA TabsNext ==
  ASSUME TabsInv, ~stale', Tabs!Next
  PROVE  TabsInv' /\ (seq' > 1 => Newer)
<1>1. ASSUME NEW l \in loads,
             \/ Tabs!LoadArrives(l) \/ Tabs!LoadNotModified(l) \/ Tabs!LoadFails(l)
             \/ Tabs!LoadRedirects(l) \/ Tabs!LoadAsksAuth(l) \/ Tabs!LoadAborted(l)
      PROVE  TabsStep
  BY <1>1, ArrivesStep, FailsStep, RedirectsStep, AbortedStep
<1>0. Typed \subseteq Urls /\ PortalLinks \subseteq Urls
  BY TabsAssumption DEF Tabs!BrowserAssumption
<1>2. ASSUME NEW u \in Typed, Tabs!GoTo(u) PROVE TabsStep
  BY <1>0, <1>2, GoToStep
<1>3. ASSUME NEW delta \in {-1, 1}, Tabs!Step(delta) PROVE TabsStep
  BY <1>3, BackStep
<1>4. ASSUME NEW id \in Ids, Tabs!SelectTab(id) \/ Tabs!CloseTab(id) PROVE TabsStep
  BY <1>4, SelectStep, CloseStep
<1>5. ASSUME NEW u \in PortalLinks, Tabs!OpenWorkspace(u) PROVE TabsStep
  BY <1>0, <1>5, WorkspaceStep
<1>6. CASE Tabs!Reload \/ Tabs!Reconnected
  BY <1>6, ReloadsStep DEF TabsStep
<1>7. CASE Tabs!Stop \/ Tabs!NewTab \/ Tabs!AuthSubmit
  BY <1>7, StopStep, NewTabStep, SubmitStep DEF TabsStep
<1>8. CASE Tabs!AuthCancel
  <2>1. UNCHANGED <<tabs, active, seq, control, loads, cached>> /\ prompt' = None /\ Tabs!RenderNow
    BY <1>8 DEF Tabs!AuthCancel
  <2> QED BY <2>1, StillStep DEF TabsStep
<1>9. CASE Tabs!Render
  <2>1. UNCHANGED <<tabs, active, seq, control, loads, cached, prompt>> /\ Tabs!RenderNow
    BY <1>9 DEF Tabs!Render, Tabs!RenderNow
  <2> QED BY <2>1, StillStep DEF TabsStep
<1>10. CASE Tabs!Restart
  <2>1. TabsInv' /\ seq' <= 1
    BY <1>10, RestartStep
  <2>2. seq' \in 0..MaxNav /\ MaxNav \in Nat
    BY <2>1, TabsAssumption DEF TabsInv, TabTypes, Tabs!BrowserAssumption
  <2>3. ~(seq' > 1)
    BY <2>1, <2>2
  <2> QED BY <2>1, <2>3
<1> QED
  BY <1>1, <1>2, <1>3, <1>4, <1>5, <1>6, <1>7, <1>8, <1>9, <1>10 DEF Tabs!Next, TabsStep

(* What the invariant says of the tabs.                                     *)
LEMMA TabsSound ==
  ASSUME TabsInv
  PROVE  /\ Tabs!ContentBelongs /\ Tabs!PromptBelongs
         /\ Tabs!HistoryPoints /\ Tabs!LoadingMeansLoad
<1>1. /\ Orderly(tabs) /\ TabTypes /\ TabList(tabs) /\ DOMAIN tabs = 1..Len(tabs)
  BY DEF TabsInv, Orderly, TabList
<1>2. \A i \in 1..Len(tabs) : Sound(tabs[i]) /\ tabs[i] \in Tabs!TabType
  BY <1>1, InList
<1>3. Tabs!ContentBelongs
  BY <1>1, <1>2 DEF Tabs!ContentBelongs, Sound
<1>4. Tabs!PromptBelongs
  BY <1>1 DEF Tabs!PromptBelongs, Orderly
<1>5. Tabs!HistoryPoints
  <2> SUFFICES ASSUME NEW i \in DOMAIN tabs
               PROVE  IF tabs[i].url = None THEN tabs[i].history = <<>>
                      ELSE /\ tabs[i].index \in DOMAIN tabs[i].history
                           /\ tabs[i].history[tabs[i].index] = tabs[i].url
    BY DEF Tabs!HistoryPoints
  <2>1. Sound(tabs[i]) /\ tabs[i].history \in Seq(Urls)
    BY <1>1, <1>2, TabFields
  <2>2. CASE tabs[i].url = None
    BY <2>1, <2>2 DEF Sound
  <2>3. CASE tabs[i].url # None
    <3>1. /\ tabs[i].index \in 0..Len(tabs[i].history) /\ tabs[i].index # 0
          /\ tabs[i].history[tabs[i].index] = tabs[i].url
      BY <2>1, <2>3 DEF Sound
    <3>2. DOMAIN tabs[i].history = 1..Len(tabs[i].history) /\ Len(tabs[i].history) \in Nat
      BY <2>1
    <3> QED BY <2>3, <3>1, <3>2
  <2> QED BY <2>2, <2>3
<1>6. Tabs!LoadingMeansLoad
  <2> SUFFICES ASSUME NEW i \in 1..Len(tabs)
               PROVE  tabs[i].loading <=> \E l \in loads : /\ ~l.aborted /\ l.tab = tabs[i].id
                                                           /\ l.token = tabs[i].token
    BY <1>1 DEF Tabs!LoadingMeansLoad
  <2>1. ASSUME tabs[i].loading
        PROVE  \E l \in loads : ~l.aborted /\ l.tab = tabs[i].id /\ l.token = tabs[i].token
    BY <1>1, <2>1 DEF Orderly, Awaits
  <2>2. ASSUME NEW l \in loads, ~l.aborted, l.tab = tabs[i].id
        PROVE  tabs[i].loading
    <3>1. PICK j \in 1..Len(tabs) : Awaits(tabs[j], l)
      BY <1>1, <2>2 DEF Orderly
    <3>2. j = i
      BY <1>1, <2>2, <3>1 DEF TabList, Awaits
    <3> QED BY <3>1, <3>2 DEF Awaits
  <2>3. tabs[i].loading \in BOOLEAN
    BY <1>2, TabFields
  <2> QED BY <2>1, <2>2, <2>3
<1> QED BY <1>3, <1>4, <1>5, <1>6

LEMMA TabsNewest ==
  ASSUME TabsInv, TabsInv', seq' > 1 => Newer
  PROVE  Tabs!NewestWins
<1>1. DOMAIN tabs = 1..Len(tabs) /\ DOMAIN tabs' = 1..Len(tabs')
  BY DEF TabsInv, Orderly, TabList
<1> QED BY <1>1 DEF Tabs!NewestWins, Newer
-----------------------------------------------------------------------------
(* loader: whatever a document refers to is fetched and put in its place.   *)

PageUrls  == UNION {{page[i].url : i \in DOMAIN page} : page \in Documents}
AssetUrls == UNION {Elems(Assets[u]) : u \in Resources}
AnyUrl    == Resources \cup PageUrls \cup AssetUrls

(* A style sheet, or what will be one, is a resource.                       *)
Refs == {r \in [tag : Loader!Tags \cup {"sheet", "import", "asset"}, url : AnyUrl,
                depth : 0..MaxCssDepth, pass : 1..3] :
           r.tag \in {"style", "attribute", "sheet"} => r.url \in Resources}

(* What may stay live: an import with a string in a sheet as deep as is     *)
(* allowed.                                                                 *)
Exempt(p) ==
  p.as = "live" => /\ p.tag = "import" /\ p.depth = MaxCssDepth
                   /\ \E u \in Resources : [form |-> "string", url |-> p.url] \in Elems(Imports[u])

LoaderInv ==
  /\ todo \in Seq(Refs) /\ \A p \in placed : Exempt(p)
  /\ cut => aborted
  /\ done => todo = <<>> /\ ~cut

LEMMA LoaderAssumed == Loader!LoaderAssumption
  BY BrowsingAssumption

(* Imports and assets are lists.                                            *)
LEMMA SheetLists ==
  ASSUME NEW u \in Resources
  PROVE  /\ Imports[u] \in Seq([form : {"string", "url"}, url : Resources])
         /\ Assets[u] \in Seq(AnyUrl)
<1>1. Loader!Elems(Assets[u]) = Elems(Assets[u])
  BY DEF Loader!Elems, Elems
<1>2. PICK E : E = Elems(Assets[u])
  OBVIOUS
<1>3. Assets[u] \in Seq(E)
  BY <1>1, <1>2, LoaderAssumed DEF Loader!LoaderAssumption
<1>4. E \subseteq AnyUrl
  <2>1. E \in {Elems(Assets[w]) : w \in Resources}
    BY <1>2
  <2>2. \A x \in E : x \in AssetUrls
    BY <2>1 DEF AssetUrls
  <2> QED BY <2>2 DEF AnyUrl
<1>5. Assets[u] \in Seq(AnyUrl)
  BY <1>3, <1>4
<1> QED BY <1>5, LoaderAssumed DEF Loader!LoaderAssumption

(* References to a list of urls.                                            *)
LEMMA RefsTo ==
  ASSUME NEW us \in Seq(AnyUrl), NEW tag \in {"import", "asset"}, NEW depth \in 0..MaxCssDepth,
         NEW pass \in 1..3
  PROVE  [i \in DOMAIN us |-> [tag |-> tag, url |-> us[i], depth |-> depth, pass |-> pass]] \in Seq(Refs)
<1>1. DOMAIN us = 1..Len(us) /\ Len(us) \in Nat
  OBVIOUS
<1>2. ASSUME NEW i \in DOMAIN us
      PROVE  [tag |-> tag, url |-> us[i], depth |-> depth, pass |-> pass] \in Refs
  <2>1. us[i] \in AnyUrl
    BY <1>1, ElementOfSeq
  <2> QED BY <2>1 DEF Refs
<1>3. PICK f : f = [i \in DOMAIN us |-> [tag |-> tag, url |-> us[i], depth |-> depth, pass |-> pass]]
  OBVIOUS
<1>4. f \in [1..Len(us) -> Refs]
  BY <1>1, <1>2, <1>3
<1> QED BY <1>1, <1>3, <1>4, SeqDef

LEMMA Head1 ==
  ASSUME LoaderInv, todo # <<>>
  PROVE  Loader!Current \in Refs /\ Tail(todo) \in Seq(Refs)
<1>1. todo \in Seq(Refs)
  BY DEF LoaderInv
<1> QED BY <1>1, HeadTailProperties DEF Loader!Current

(* A reference that is put in its place and is done with.                   *)
LEMMA Treated ==
  ASSUME LoaderInv, todo # <<>>, NEW as, as # "live", Loader!Place(as),
         todo' \in Seq(Refs), UNCHANGED <<aborted, done>>, cut' => cut \/ aborted
  PROVE  LoaderInv'
<1>1. placed' = placed \cup {Loader!Placed(Loader!Current, as)}
  BY DEF Loader!Place
<1>2. ASSUME NEW p \in placed' PROVE Exempt(p)
  <2>1. CASE p \in placed
    BY <2>1 DEF LoaderInv
  <2>2. CASE p = Loader!Placed(Loader!Current, as)
    <3>1. p.as = as
      BY <2>2 DEF Loader!Placed
    <3> QED BY <3>1 DEF Exempt
  <2> QED BY <1>1, <2>1, <2>2
<1>3. cut' => aborted'
  BY DEF LoaderInv
<1>4. ~done'
  BY DEF LoaderInv
<1> QED BY <1>2, <1>3, <1>4 DEF LoaderInv

LEMMA LoadCuts ==
  ASSUME NEW ok, Loader!Load(ok)
  PROVE  /\ cut' => cut \/ aborted
BY DEF Loader!Load

LEMMA LoaderStart ==
  ASSUME Loader!Init
  PROVE  LoaderInv
<1>1. PICK page \in Documents : todo = [i \in DOMAIN page |-> Loader!Reference(page[i].tag, page[i].url)]
  BY DEF Loader!Init
<1>2. /\ placed = {} /\ aborted = FALSE /\ cut = FALSE /\ done = FALSE
  BY DEF Loader!Init
<1>3. page \in Seq(Loader!Elems(page))
  BY LoaderAssumed DEF Loader!LoaderAssumption
<1>4. DOMAIN page = 1..Len(page) /\ Len(page) \in Nat
  BY <1>3
<1>5. ASSUME NEW i \in DOMAIN page PROVE Loader!Reference(page[i].tag, page[i].url) \in Refs
  <2>1. PICK tag, url : tag = page[i].tag /\ url = page[i].url
    OBVIOUS
  <2>2. tag \in Loader!Tags /\ (tag \in {"style", "attribute"} => url \in Resources)
        /\ MaxCssDepth \in Nat
    BY <2>1, LoaderAssumed DEF Loader!LoaderAssumption
  <2>3. url \in AnyUrl
    <3>1. url \in {page[j].url : j \in DOMAIN page}
      BY <2>1
    <3>2. url \in PageUrls
      BY <3>1 DEF PageUrls
    <3> QED BY <3>2 DEF AnyUrl
  <2>4. Loader!Pass(tag) \in 1..3 /\ 0 \in 0..MaxCssDepth
    BY <2>2 DEF Loader!Pass
  <2>5. Loader!Reference(tag, url) = [tag |-> tag, url |-> url, depth |-> 0, pass |-> Loader!Pass(tag)]
    BY DEF Loader!Reference
  <2>6. tag # "sheet"
    BY <2>2 DEF Loader!Tags
  <2> QED BY <2>1, <2>2, <2>3, <2>4, <2>5, <2>6 DEF Refs
<1>6. todo \in [1..Len(page) -> Refs]
  BY <1>1, <1>4, <1>5
<1>7. todo \in Seq(Refs)
  BY <1>4, <1>6, SeqDef
<1> QED BY <1>2, <1>7 DEF LoaderInv

(* A sheet is looked through once more after the links.                     *)
LEMMA SecondRefs ==
  ASSUME NEW list \in Seq(Refs), NEW us \in Seq(AnyUrl), MaxCssDepth > 0
  PROVE  Loader!SecondPass(list, us) \in Seq(Refs)
<1>1. PICK Early : Early = {i \in DOMAIN list : list[i].pass < 3}
  OBVIOUS
<1>2. Len(list) \in Nat /\ DOMAIN list = 1..Len(list) /\ Early \subseteq 1..Len(list)
  BY <1>1
<1>3. Cardinality(Early) \in Nat /\ Cardinality(Early) <= Len(list)
  <2>1. PICK n, one, S : n = Len(list) /\ one = 1 /\ S = one..n
    OBVIOUS
  <2>2. n \in Int /\ one \in Int /\ Early \in SUBSET S
    BY <1>2, <2>1
  <2>3. IsFiniteSet(one..n) /\ Cardinality(one..n) = IF one > n THEN 0 ELSE n - one + 1
    BY <2>2, FS_Interval
  <2>4. IsFiniteSet(S) /\ Cardinality(S) = n
    BY <1>2, <2>1, <2>3
  <2>5. IsFiniteSet(Early) /\ Cardinality(Early) <= Cardinality(S)
    BY <2>2, <2>4, FS_Subset
  <2> QED BY <2>1, <2>4, <2>5, FS_CardinalityType
<1>4. Loader!Cardinality(Early) = Cardinality(Early)
  BY DEF Loader!Cardinality, Cardinality, Loader!IsFiniteSet, IsFiniteSet
<1>5. PICK found : found = [i \in DOMAIN us |-> [tag |-> "import", url |-> us[i], depth |-> 1, pass |-> 2]]
  OBVIOUS
<1>6. found \in Seq(Refs)
  <2>1. MaxCssDepth \in Nat
    BY LoaderAssumed DEF Loader!LoaderAssumption
  <2>2. 1 \in 0..MaxCssDepth /\ 2 \in 1..3 /\ "import" \in {"import", "asset"}
    BY <2>1
  <2> QED BY <1>5, <2>2, RefsTo
<1>7. PICK n : n = Cardinality(Early)
  OBVIOUS
<1>8. Loader!SecondPass(list, us) = SubSeq(list, 1, n) \o found \o SubSeq(list, n + 1, Len(list))
  BY <1>1, <1>4, <1>5, <1>7 DEF Loader!SecondPass
<1>9. SubSeq(list, 1, n) \in Seq(Refs) /\ SubSeq(list, n + 1, Len(list)) \in Seq(Refs)
  <2>1. n \in Nat /\ n <= Len(list)
    BY <1>3, <1>7
  <2> QED BY <1>2, <2>1
<1> QED BY <1>6, <1>8, <1>9

(* The sheet of a reference, treated next.                                  *)
LEMMA SheetRef ==
  ASSUME NEW r \in Refs, r.url \in Resources, NEW depth \in 0..MaxCssDepth
  PROVE  [Loader!SheetOf(r) EXCEPT !.depth = depth] \in Refs /\ Loader!SheetOf(r) \in Refs
<1>1. /\ r \in [tag : Loader!Tags \cup {"sheet", "import", "asset"}, url : AnyUrl,
                depth : 0..MaxCssDepth, pass : 1..3]
  BY DEF Refs
<1>2. Loader!SheetOf(r) = [tag |-> "sheet", url |-> r.url, depth |-> r.depth, pass |-> r.pass]
  BY <1>1 DEF Loader!SheetOf
<1>3. [Loader!SheetOf(r) EXCEPT !.depth = depth] =
        [tag |-> "sheet", url |-> r.url, depth |-> depth, pass |-> r.pass]
  BY <1>2
<1> QED BY <1>1, <1>2, <1>3 DEF Refs

LEMMA OntoTail ==
  ASSUME NEW x \in Refs, NEW rest \in Seq(Refs)
  PROVE  <<x>> \o rest \in Seq(Refs) /\ <<>> \o rest \in Seq(Refs)
OBVIOUS

LEMMA SimpleSteps ==
  ASSUME LoaderInv,
         \/ Loader!StripActive \/ Loader!Icon \/ Loader!Object \/ Loader!Inline \/ Loader!RewriteLink
  PROVE  LoaderInv'
<1>1. todo # <<>> /\ UNCHANGED <<aborted, done>> /\ todo' = Tail(todo)
  BY DEF Loader!StripActive, Loader!Icon, Loader!Object, Loader!Inline, Loader!RewriteLink,
         Loader!Is, Loader!Settled, Loader!Done
<1>2. todo' \in Seq(Refs)
  BY <1>1, Head1
<1>3. \E as : as # "live" /\ Loader!Place(as)
  <2>1. CASE Loader!StripActive
    BY <2>1 DEF Loader!StripActive
  <2>2. CASE Loader!Icon
    BY <2>2 DEF Loader!Icon
  <2>3. CASE Loader!Object
    BY <2>3 DEF Loader!Object
  <2>4. CASE Loader!Inline
    <3>1. \A tag : Loader!Fallback(tag, TRUE) # "live" /\ Loader!Fallback(tag, FALSE) # "live"
      BY DEF Loader!Fallback
    <3> QED BY <2>4, <3>1 DEF Loader!Inline
  <2>5. CASE Loader!RewriteLink
    BY <2>5 DEF Loader!RewriteLink
  <2> QED BY <2>1, <2>2, <2>3, <2>4, <2>5
<1>4. cut' => cut \/ aborted
  <2>1. CASE Loader!Unfetched
    BY <2>1 DEF Loader!Unfetched
  <2>2. CASE \E ok \in Loader!FetchSubresource : Loader!Load(ok)
    BY <2>2, LoadCuts
  <2>3. Loader!Unfetched \/ \E ok \in Loader!FetchSubresource : Loader!Load(ok)
    BY DEF Loader!StripActive, Loader!Icon, Loader!Object, Loader!Inline, Loader!RewriteLink
  <2> QED BY <2>1, <2>2, <2>3
<1> QED BY <1>1, <1>2, <1>3, <1>4, Treated

LEMMA LinkStep ==
  ASSUME LoaderInv, Loader!StyleLink
  PROVE  LoaderInv'
<1>1. todo # <<>> /\ UNCHANGED <<aborted, done>>
  BY DEF Loader!StyleLink, Loader!Is, Loader!Settled
<1>2. Loader!Current \in Refs /\ Tail(todo) \in Seq(Refs)
  BY <1>1, Head1
<1>3. CASE ~Loader!Resolves
  <2>1. Loader!Place("removed") /\ todo' = Tail(todo) /\ cut' = cut
    BY <1>3 DEF Loader!StyleLink, Loader!Done, Loader!Unfetched
  <2>2. PICK as : as = "removed"
    OBVIOUS
  <2>3. as # "live" /\ Loader!Place(as)
    BY <2>1, <2>2 DEF Loader!Place
  <2> QED BY <1>1, <1>2, <2>1, <2>3, Treated
<1>4. CASE Loader!Resolves
  <2>1. PICK ok \in BOOLEAN :
          /\ Loader!Load(ok) /\ Loader!Place(IF ok THEN "data" ELSE "removed")
          /\ todo' = (IF ok THEN <<Loader!SheetOf(Loader!Current)>> ELSE <<>>) \o Tail(todo)
    BY <1>4 DEF Loader!StyleLink, Loader!FetchSubresource
  <2>2. Loader!Current.url \in Resources /\ 0 \in 0..MaxCssDepth
    BY <1>4, LoaderAssumed DEF Loader!Resolves, Loader!LoaderAssumption
  <2>3. Loader!SheetOf(Loader!Current) \in Refs
    BY <1>2, <2>2, SheetRef
  <2>4. todo' \in Seq(Refs)
    <3>1. CASE ok
      <4>1. todo' = <<Loader!SheetOf(Loader!Current)>> \o Tail(todo)
        BY <2>1, <3>1
      <4> QED BY <1>2, <2>3, <4>1, OntoTail
    <3>2. CASE ~ok
      <4>1. todo' = <<>> \o Tail(todo)
        BY <2>1, <3>2
      <4> QED BY <1>2, <2>3, <4>1, OntoTail
    <3> QED BY <3>1, <3>2
  <2>5. PICK as : as = IF ok THEN "data" ELSE "removed"
    OBVIOUS
  <2>6. as # "live" /\ Loader!Place(as)
    BY <2>1, <2>5 DEF Loader!Place
  <2>7. cut' => cut \/ aborted
    BY <2>1, LoadCuts
  <2> QED BY <1>1, <2>4, <2>6, <2>7, Treated
<1> QED BY <1>3, <1>4

LEMMA StyleStep ==
  ASSUME LoaderInv, Loader!StyleElement
  PROVE  LoaderInv'
<1>1. /\ todo # <<>> /\ UNCHANGED <<aborted, done, placed, cut>>
      /\ Loader!Current.tag \in {"style", "attribute"}
  BY DEF Loader!StyleElement, Loader!Is, Loader!Settled, Loader!Unfetched
<1>2. Loader!Current \in Refs /\ Tail(todo) \in Seq(Refs)
  BY <1>1, Head1
<1>3. PICK depth : depth = IF Loader!Current.tag = "style" THEN 0 ELSE MaxCssDepth
  OBVIOUS
<1>4. depth \in 0..MaxCssDepth
  BY <1>3, LoaderAssumed DEF Loader!LoaderAssumption
<1>5. Loader!Current.url \in Resources
  BY <1>1, <1>2 DEF Refs
<1>6. [Loader!SheetOf(Loader!Current) EXCEPT !.depth = depth] \in Refs
  BY <1>2, <1>4, <1>5, SheetRef
<1>7. todo' = <<[Loader!SheetOf(Loader!Current) EXCEPT !.depth = depth]>> \o Tail(todo)
  BY <1>3 DEF Loader!StyleElement
<1>8. todo' \in Seq(Refs)
  BY <1>2, <1>6, <1>7, OntoTail
<1> QED BY <1>1, <1>8 DEF LoaderInv

(* What is left of the imports below the depth allowed.                     *)
LEMMA BelowAre ==
  ASSUME NEW r \in Refs, r.tag = "sheet", NEW form \in {"string", "url"}
  PROVE  /\ Loader!UrlsOf(Loader!Below(r, form)) \in Seq(AnyUrl)
         /\ r.depth < MaxCssDepth => Loader!UrlsOf(Loader!Below(r, form)) = <<>>
         /\ form = "string" =>
              \A u \in Loader!Elems(Loader!UrlsOf(Loader!Below(r, form))) :
                [form |-> "string", url |-> u] \in Elems(Imports[r.url])
<1>0. r.url \in Resources
  BY DEF Refs
<1>1. PICK T : T = [form : {"string", "url"}, url : Resources]
  OBVIOUS
<1>2. Imports[r.url] \in Seq(T)
  BY <1>0, <1>1, SheetLists
<1>3. PICK S : S = [form : {form}, url : Resources]
  OBVIOUS
<1>4. PICK list : list = Loader!Below(r, form)
  OBVIOUS
<1>5. list \in Seq(T \cap S) /\ \A j \in 1..Len(list) : \E i \in 1..Len(Imports[r.url]) : Imports[r.url][i] = list[j]
  <2>1. CASE r.depth < MaxCssDepth
    <3>1. list = <<>>
      BY <1>4, <2>1 DEF Loader!Below, Loader!Permits
    <3> QED BY <3>1
  <2>2. CASE ~(r.depth < MaxCssDepth)
    <3>1. list = Loader!Kept(Imports[r.url], S)
      BY <1>3, <1>4, <2>2 DEF Loader!Below, Loader!Permits
    <3>2. Loader!Kept(Imports[r.url], S) = Kept(Imports[r.url], S)
      BY DEF Loader!Kept, Kept
    <3>3. list = Kept(Imports[r.url], S)
      BY <3>1, <3>2
    <3>4. Kept(Imports[r.url], S) \in Seq(T \cap S)
      BY <1>2, KeptSeq
    <3>5. \A j \in 1..Len(Kept(Imports[r.url], S)) :
             \E i \in 1..Len(Imports[r.url]) : Imports[r.url][i] = Kept(Imports[r.url], S)[j]
      BY <1>2, KeptFrom
    <3> QED BY <3>3, <3>4, <3>5
  <2> QED BY <2>1, <2>2
<1>6. PICK us : us = Loader!UrlsOf(list)
  OBVIOUS
<1>7. us = [i \in DOMAIN list |-> list[i].url] /\ DOMAIN list = 1..Len(list) /\ Len(list) \in Nat
  BY <1>5, <1>6 DEF Loader!UrlsOf
<1>8. \A i \in 1..Len(list) : list[i] \in T \cap S
  BY <1>5, ElementOfSeq
<1>9. \A i \in 1..Len(list) : us[i] \in AnyUrl
  BY <1>1, <1>7, <1>8 DEF AnyUrl
<1>10. us \in [1..Len(list) -> AnyUrl]
  BY <1>7, <1>9
<1>11. us \in Seq(AnyUrl)
  BY <1>7, <1>10, SeqDef
<1>12. ASSUME form = "string", NEW u \in Loader!Elems(us)
       PROVE  [form |-> "string", url |-> u] \in Elems(Imports[r.url])
  <2>1. PICK i \in 1..Len(list) : u = list[i].url
    BY <1>7, <1>12 DEF Loader!Elems
  <2>2. list[i] \in S
    BY <1>8
  <2>3. list[i] = [form |-> "string", url |-> u]
    BY <1>3, <1>12, <2>1, <2>2
  <2>4. PICK j \in 1..Len(Imports[r.url]) : Imports[r.url][j] = list[i]
    BY <1>5
  <2>5. j \in DOMAIN Imports[r.url]
    BY <1>2, <2>4
  <2> QED BY <2>3, <2>4, <2>5 DEF Elems
<1>13. ASSUME r.depth < MaxCssDepth PROVE us = <<>>
  <2>1. list = <<>>
    BY <1>4, <1>13 DEF Loader!Below, Loader!Permits
  <2> QED BY <1>7, <2>1
<1> QED BY <1>4, <1>6, <1>11, <1>12, <1>13

LEMMA RewriteStep ==
  ASSUME LoaderInv, Loader!RewriteCss
  PROVE  LoaderInv'
<1>1. /\ todo # <<>> /\ UNCHANGED <<aborted, done, cut>> /\ Loader!Current.tag = "sheet"
  BY DEF Loader!RewriteCss, Loader!Is, Loader!Settled, Loader!Unfetched
<1>2. PICK r : r = Loader!Current
  OBVIOUS
<1>3. r \in Refs /\ Tail(todo) \in Seq(Refs) /\ r.tag = "sheet"
  BY <1>1, <1>2, Head1
<1>4. r.url \in Resources /\ r.depth \in 0..MaxCssDepth /\ r.pass \in 1..3 /\ MaxCssDepth \in Nat
  BY <1>3, LoaderAssumed DEF Refs, Loader!LoaderAssumption
<1>5. PICK rest, left, again :
        /\ rest = Loader!ImportsOf(r) \o Loader!AssetsOf(r) \o Tail(todo)
        /\ left = Loader!UrlsOf(Loader!Below(r, "string"))
        /\ again = (r.pass = 1 /\ MaxCssDepth > 0)
  OBVIOUS
<1>6. /\ todo' = IF again THEN Loader!SecondPass(rest, left) ELSE rest
      /\ placed' = placed \cup Loader!Live(r, "asset", Loader!Untouched(r))
                          \cup Loader!Live(r, "import", IF again THEN {} ELSE Loader!Elems(left))
  BY <1>2, <1>5 DEF Loader!RewriteCss
<1>7. /\ left \in Seq(AnyUrl)
      /\ \A u \in Loader!Elems(left) : [form |-> "string", url |-> u] \in Elems(Imports[r.url])
      /\ r.depth < MaxCssDepth => left = <<>>
  BY <1>3, <1>5, BelowAre
<1>8. Loader!UrlsOf(Loader!Below(r, "url")) \in Seq(AnyUrl)
  BY <1>3, BelowAre
<1>9. Loader!AssetsOf(r) \in Seq(Refs) /\ Loader!Untouched(r) = {}
  <2>1. PICK us : us = Loader!UrlsOf(Loader!Below(r, "url")) \o Assets[r.url]
    OBVIOUS
  <2>2. us \in Seq(AnyUrl)
    BY <1>4, <1>8, <2>1, SheetLists
  <2>3. PICK pass : pass = r.pass
    OBVIOUS
  <2>4. Loader!AssetsOf(r) = [i \in DOMAIN us |-> [tag |-> "asset", url |-> us[i], depth |-> 0, pass |-> pass]]
    BY <2>1, <2>3 DEF Loader!AssetsOf, Loader!Assetlike
  <2>5. 0 \in 0..MaxCssDepth /\ pass \in 1..3 /\ "asset" \in {"import", "asset"}
    BY <1>4, <2>3
  <2>6. Loader!AssetsOf(r) \in Seq(Refs)
    <3>1. PICK tag, depth : tag = "asset" /\ depth = 0
      OBVIOUS
    <3>2. PICK list : list = [i \in DOMAIN us |-> [tag |-> tag, url |-> us[i], depth |-> depth, pass |-> pass]]
      OBVIOUS
    <3>3. list \in Seq(Refs)
      BY <2>2, <2>5, <3>1, <3>2, RefsTo
    <3> QED BY <2>4, <3>1, <3>2, <3>3
  <2>7. Loader!UrlsOf(Loader!AssetsOf(r)) = [i \in DOMAIN us |-> us[i]]
    BY <2>4 DEF Loader!UrlsOf
  <2>8. Loader!Elems(us) = Loader!Elems(Loader!UrlsOf(Loader!AssetsOf(r)))
    BY <2>7 DEF Loader!Elems
  <2>9. Loader!Untouched(r) = {}
    BY <2>1, <2>8 DEF Loader!Untouched
  <2> QED BY <2>6, <2>9
<1>10. Loader!ImportsOf(r) \in Seq(Refs)
  <2>1. CASE r.depth >= MaxCssDepth
    <3>1. Loader!ImportsOf(r) = <<>>
      <4>1. ~Loader!Permits(r.depth)
        BY <1>4, <2>1 DEF Loader!Permits
      <4> QED BY <4>1 DEF Loader!ImportsOf
    <3> QED BY <3>1
  <2>2. CASE ~(r.depth >= MaxCssDepth)
    <3>1. PICK us : us = [i \in DOMAIN Imports[r.url] |-> Imports[r.url][i].url]
      OBVIOUS
    <3>2. us \in Seq(AnyUrl)
      <4>1. Imports[r.url] \in Seq([form : {"string", "url"}, url : Resources])
        BY <1>4, SheetLists
      <4>2. DOMAIN Imports[r.url] = 1..Len(Imports[r.url]) /\ Len(Imports[r.url]) \in Nat
        BY <4>1
      <4>3. ASSUME NEW i \in DOMAIN Imports[r.url] PROVE Imports[r.url][i].url \in AnyUrl
        <5>1. PICK T, x : T = [form : {"string", "url"}, url : Resources] /\ x = Imports[r.url][i]
          OBVIOUS
        <5>2. x \in T
          BY <4>1, <4>2, <5>1, ElementOfSeq
        <5>3. x.url \in Resources
          BY <5>1, <5>2
        <5> QED BY <5>1, <5>3 DEF AnyUrl
      <4>4. us \in [1..Len(Imports[r.url]) -> AnyUrl]
        BY <3>1, <4>2, <4>3
      <4> QED BY <4>2, <4>4, SeqDef
    <3>3. PICK depth, pass : depth = r.depth + 1 /\ pass = r.pass
      OBVIOUS
    <3>9. Loader!Permits(r.depth)
      BY <1>4, <2>2 DEF Loader!Permits
    <3>4. Loader!ImportsOf(r) = [i \in DOMAIN us |-> [tag |-> "import", url |-> us[i], depth |-> depth, pass |-> pass]]
      BY <3>1, <3>3, <3>9 DEF Loader!ImportsOf
    <3>5. depth \in 0..MaxCssDepth /\ pass \in 1..3 /\ "import" \in {"import", "asset"}
      BY <1>4, <2>2, <3>3
    <3>6. PICK tag : tag = "import"
      OBVIOUS
    <3>7. PICK list : list = [i \in DOMAIN us |-> [tag |-> tag, url |-> us[i], depth |-> depth, pass |-> pass]]
      OBVIOUS
    <3>8. list \in Seq(Refs)
      BY <3>2, <3>5, <3>6, <3>7, RefsTo
    <3> QED BY <3>4, <3>6, <3>7, <3>8
  <2> QED BY <2>1, <2>2
<1>11. rest \in Seq(Refs)
  BY <1>3, <1>5, <1>9, <1>10
<1>12. todo' \in Seq(Refs)
  <2>1. CASE again
    <3>1. todo' = Loader!SecondPass(rest, left) /\ MaxCssDepth > 0
      BY <1>5, <1>6, <2>1
    <3> QED BY <1>7, <1>11, <3>1, SecondRefs
  <2>2. CASE ~again
    BY <1>6, <1>11, <2>2
  <2> QED BY <2>1, <2>2
<1>13. ASSUME NEW p \in placed' PROVE Exempt(p)
  <2>1. CASE p \in placed
    BY <2>1 DEF LoaderInv
  <2>2. CASE p \notin placed
    <3>1. p \in Loader!Live(r, "import", Loader!Elems(left))
      BY <1>6, <1>9, <2>2 DEF Loader!Live
    <3>2. PICK u \in Loader!Elems(left) :
            p = Loader!Placed([r EXCEPT !.tag = "import", !.url = u], "live")
      BY <3>1 DEF Loader!Live
    <3>3. p.tag = "import" /\ p.url = u /\ p.depth = r.depth
      BY <1>3, <3>2 DEF Loader!Placed, Refs
    <3>4. left # <<>>
      BY <3>2 DEF Loader!Elems
    <3>5. r.depth = MaxCssDepth
      BY <1>4, <1>7, <3>4
    <3> QED BY <1>4, <1>7, <3>3, <3>5 DEF Exempt
  <2> QED BY <2>1, <2>2
<1> QED BY <1>1, <1>12, <1>13 DEF LoaderInv

LEMMA LoaderNext ==
  ASSUME LoaderInv, Loader!Next
  PROVE  LoaderInv'
<1>1. CASE Loader!Abort
  BY <1>1 DEF Loader!Abort, LoaderInv, Exempt
<1>2. CASE Loader!Show
  BY <1>2 DEF Loader!Show, Loader!MayShow, LoaderInv, Exempt
<1>3. CASE \/ Loader!StripActive \/ Loader!Icon \/ Loader!Object \/ Loader!Inline \/ Loader!RewriteLink
  BY <1>3, SimpleSteps
<1> QED BY <1>1, <1>2, <1>3, LinkStep, StyleStep, RewriteStep DEF Loader!Next

LEMMA LoaderSound ==
  ASSUME LoaderInv
  PROVE  Loader!SelfContained
<1>1. \A u \in Resources : Loader!Elems(Imports[u]) = Elems(Imports[u])
  BY DEF Loader!Elems, Elems
<1> QED BY <1>1 DEF Loader!SelfContained, LoaderInv, Exempt
-----------------------------------------------------------------------------
(* media, offline: what the player is given.                                *)

(* A request of the player, and the fetch that answers it.                  *)
AskType == {a \in [token : Nat, url : Films, start : Nat, end : Nat \cup {None}, worker : Nat] :
              a.token <= tokens /\ a.start <= FilmSize[a.url]}
JobType == [url : Films, etag : Nat \cup {None}, offset : Nat, parts : Seq(Nat), hops : Nat]

OneVersion(units, v) == \A i \in 1..Len(units) : units[i] = v

(* The units fetched so far are those from the start on, of the version the *)
(* next request names, if the origin sends ETags.                           *)
FetchesFor(job, ask) ==
  /\ job \in JobType /\ job.url = ask.url
  /\ job.url \in TaggedFilms =>
       OneVersion(job.parts, job.etag) /\ (job.parts # <<>> => job.etag # None)
  /\ job.offset = ask.start + Len(job.parts) /\ job.offset <= FilmSize[job.url]

Answers(c, ask) ==
  /\ c.url = ask.url /\ c.parts \in Seq(Nat)
  /\ c.url \in TaggedFilms => \E v \in Nat : OneVersion(c.parts, v)
  /\ c.status = 206 => c.start = ask.start /\ c.start + Len(c.parts) <= FilmSize[c.url]

Shows == view # None => /\ view \in Player!Views /\ view.token <= tokens
                        /\ view.token \in DOMAIN sessions => sessions[view.token].url = view.url

(* A path stands for one document as long as there is a session for it.     *)
SessionsInv ==
  /\ tokens \in Nat /\ origin \in [Films -> Nat] /\ Shows
  /\ \A t \in DOMAIN sessions : sessions[t].url \in Films /\ sessions[t].etag \in Nat \cup {None}
  /\ Player!Released

BridgeInv ==
  /\ worker \in Nat
  /\ asked \in Seq(AskType)
  /\ \A i \in 1..Len(asked) : asked[i].token \in DOMAIN sessions => sessions[asked[i].token].url = asked[i].url
  /\ inbox \subseteq 1..Len(asked) /\ DOMAIN jobs \subseteq 1..Len(asked)
  /\ \A i \in DOMAIN jobs : FetchesFor(jobs[i], asked[i])
  /\ \A c \in chunks : c.id \in 1..Len(asked) /\ Answers(c, asked[c.id])
  /\ got # None => got.id \in 1..Len(asked) /\ Answers(got, asked[got.id])

PlayerInv == SessionsInv /\ BridgeInv

LEMMA MediaAssumed ==
  Player!MediaAssumption /\ None \notin Films /\ None \notin Player!Views /\ None \notin Nat
  /\ \A u \in Films : FilmSize[u] \in Nat \ {0}
  BY BrowsingAssumption DEF Player!MediaAssumption

LEMMA PlayerStart ==
  ASSUME Player!Init
  PROVE  PlayerInv
<1>1. /\ view = None /\ sessions = <<>> /\ tokens = 0 /\ blobs = {} /\ origin = [u \in Films |-> 0]
      /\ worker = 1 /\ asked = <<>> /\ inbox = {} /\ jobs = <<>> /\ chunks = {} /\ got = None
  BY DEF Player!Init
<1>2. DOMAIN sessions = {} /\ DOMAIN jobs = {} /\ asked \in Seq(AskType) /\ Len(asked) = 0
  BY <1>1
<1>3. 1..Len(asked) = {}
  BY <1>2
<1> QED BY <1>1, <1>2, <1>3 DEF PlayerInv, SessionsInv, BridgeInv, Shows, Player!Released

(* The view, and what is saved, change without a request or an answer.      *)
LEMMA BridgeStill ==
  ASSUME PlayerInv, UNCHANGED <<asked, inbox, jobs, chunks>>, worker' \in Nat, got' = None,
         SessionsInv', tokens' \in Nat, tokens <= tokens',
         \A t \in DOMAIN sessions' : t > tokens \/ (t \in DOMAIN sessions /\ sessions'[t] = sessions[t])
  PROVE  PlayerInv'
<1>1. AskType \subseteq AskType'
  BY DEF AskType, PlayerInv, SessionsInv
<1>2. asked' \in Seq(AskType') /\ asked \in Seq(AskType)
  BY <1>1 DEF PlayerInv, BridgeInv
<1>3. ASSUME NEW i \in 1..Len(asked'), asked'[i].token \in DOMAIN sessions'
      PROVE  sessions'[asked'[i].token].url = asked'[i].url
  <2>1. asked[i] \in AskType
    BY <1>2, ElementOfSeq
  <2>2. asked[i].token <= tokens /\ asked[i].token \in Nat /\ tokens \in Nat
    BY <2>1 DEF AskType, PlayerInv, SessionsInv
  <2>3. ~(asked[i].token > tokens)
    BY <2>2
  <2>4. asked[i].token \in DOMAIN sessions /\ sessions'[asked[i].token] = sessions[asked[i].token]
    BY <1>3, <2>3
  <2> QED BY <2>4 DEF PlayerInv, BridgeInv
<1>4. \A i \in DOMAIN jobs : FetchesFor(jobs[i], asked[i])
  BY DEF PlayerInv, BridgeInv
<1>5. BridgeInv'
  BY <1>2, <1>3, <1>4 DEF PlayerInv, BridgeInv, FetchesFor, Answers, OneVersion, JobType
<1> QED BY <1>5 DEF PlayerInv

(* A new session takes the place of the one there was.                      *)
LEMMA OneSession ==
  ASSUME PlayerInv, NEW u \in Films, Player!Register(u)
  PROVE  /\ tokens' = tokens + 1 /\ DOMAIN sessions' = {tokens + 1}
         /\ sessions'[tokens + 1].url = u /\ sessions'[tokens + 1].etag \in Nat \cup {None}
<1>1. PICK base : base = Player!EndSession
  OBVIOUS
<1>2. DOMAIN base = {}
  <2>1. CASE view = None
    BY <1>1, <2>1 DEF Player!EndSession, PlayerInv, SessionsInv, Player!Released
  <2>2. CASE view # None
    <3>1. base = [x \in DOMAIN sessions \ {view.token} |-> sessions[x]]
      BY <1>1, <2>2 DEF Player!EndSession, Player!Without
    <3>2. DOMAIN sessions \subseteq {view.token}
      BY <2>2 DEF PlayerInv, SessionsInv, Player!Released
    <3> QED BY <3>1, <3>2
  <2> QED BY <2>1, <2>2
<1>9. PICK etag \in Player!KnownTags(u) :
        sessions' = Player!With(Player!EndSession, tokens + 1, [url |-> u, etag |-> etag])
  BY DEF Player!Register
<1>3. PICK n : n = tokens + 1
  OBVIOUS
<1>4. PICK s : s = [url |-> u, etag |-> etag]
  OBVIOUS
<1>5. sessions' = [x \in {n} |-> s]
  <2>1. sessions' = [x \in DOMAIN base \cup {n} |-> IF x = n THEN s ELSE base[x]]
    BY <1>1, <1>3, <1>4, <1>9 DEF Player!With
  <2> QED BY <1>2, <2>1
<1>6. etag \in Nat \cup {None}
  <2>1. origin[u] \in Nat
    BY DEF PlayerInv, SessionsInv
  <2>2. 0..origin[u] \subseteq Nat
    BY <2>1
  <2> QED BY <1>9, <2>2 DEF Player!KnownTags
<1>7. DOMAIN sessions' = {n} /\ sessions'[n] = s /\ s.url = u /\ s.etag = etag
  BY <1>4, <1>5
<1>8. tokens' = n
  BY <1>3 DEF Player!Register
<1> QED BY <1>3, <1>6, <1>7, <1>8

LEMMA SwitchStep ==
  ASSUME PlayerInv, NEW u \in Films, Player!Switch(u)
  PROVE  PlayerInv'
<1>3. PICK n : n = tokens + 1
  OBVIOUS
<1>4. /\ tokens' = n /\ DOMAIN sessions' = {n}
      /\ sessions'[n].url = u /\ sessions'[n].etag \in Nat \cup {None}
  BY <1>3, OneSession DEF Player!Switch
<1>5. tokens \in Nat /\ origin \in [Films -> Nat] /\ tokens' = n /\ origin' = origin
  BY <1>4 DEF Player!Switch, PlayerInv, SessionsInv
<1>6. /\ view'.url = u /\ view'.token = n /\ view'.created = None /\ view' \in Player!Views /\ view' # None
  <2>1. view' = [url |-> u, token |-> n, reading |-> TRUE, created |-> None,
                 id |-> IF view = None THEN n ELSE view.id,
                 offline |-> IF view = None THEN None ELSE view.offline]
    BY <1>3 DEF Player!Switch
  <2>2. view # None => view \in Player!Views
    BY DEF PlayerInv, SessionsInv, Shows
  <2>3. view # None => view.id \in Nat /\ view.offline \in Films \cup {None}
    BY <2>2 DEF Player!Views
  <2>4. view' \in Player!Views
    BY <1>3, <1>5, <2>1, <2>3 DEF Player!Views
  <2> QED BY <2>1, <2>4, MediaAssumed
<1>7. blobs' = {}
  <2>1. blobs' = IF view = None \/ view.created = None THEN blobs ELSE blobs \ {view.created}
    BY DEF Player!Switch, Player!Revoked
  <2>2. blobs \subseteq (IF view = None THEN {} ELSE {view.created} \cap Films)
    BY DEF PlayerInv, SessionsInv, Player!Released
  <2> QED BY <2>1, <2>2, MediaAssumed
<1>8. n \in Nat /\ DOMAIN sessions' = {n}
  BY <1>3, <1>4, <1>5
<1>9. Player!Released'
  BY <1>6, <1>7, <1>8 DEF Player!Released
<1>10. SessionsInv'
  BY <1>4, <1>5, <1>6, <1>8, <1>9 DEF SessionsInv, Shows, Player!Views
<1>11. /\ UNCHANGED <<asked, inbox, jobs, chunks, worker>> /\ got' = None
  BY DEF Player!Switch, Player!bridgeVars
<1>12. /\ worker' \in Nat /\ tokens' \in Nat /\ tokens <= tokens'
       /\ \A t \in DOMAIN sessions' : t > tokens
  BY <1>3, <1>5, <1>8, <1>11 DEF PlayerInv, BridgeInv
<1> QED BY <1>10, <1>11, <1>12, BridgeStill

(* The same document under a new token.                                     *)
LEMMA RedescribeStep ==
  ASSUME PlayerInv, Player!Redescribe
  PROVE  PlayerInv'
<1>1. PICK old, u, n : old = view /\ u = view.url /\ n = tokens + 1
  OBVIOUS
<1>2. /\ view # None /\ view' = [old EXCEPT !.token = n]
      /\ UNCHANGED <<blobs, origin, worker, asked, inbox, jobs, chunks>> /\ got' = None
  BY <1>1 DEF Player!Redescribe, Player!bridgeVars
<1>3. old \in Player!Views /\ u \in Films /\ tokens \in Nat /\ origin \in [Films -> Nat]
  BY <1>1, <1>2 DEF PlayerInv, SessionsInv, Shows, Player!Views
<1>4. /\ tokens' = n /\ DOMAIN sessions' = {n}
      /\ sessions'[n].url = u /\ sessions'[n].etag \in Nat \cup {None}
  BY <1>1, <1>3, OneSession DEF Player!Redescribe
<1>5. view' = [url |-> u, token |-> n, reading |-> old.reading, created |-> old.created,
               id |-> old.id, offline |-> old.offline]
  BY <1>1, <1>2, <1>3 DEF Player!Views
<1>6. view' \in Player!Views /\ view'.token = n /\ view'.url = u /\ view'.created = view.created
  <2>1. n \in Nat
    BY <1>1, <1>3
  <2>2. view' \in Player!Views
    BY <1>3, <1>5, <2>1 DEF Player!Views
  <2> QED BY <1>1, <1>5, <2>2
<1>7. view' # None
  BY <1>6, MediaAssumed
<1>8. Player!Released'
  BY <1>2, <1>4, <1>6, <1>7 DEF PlayerInv, SessionsInv, Player!Released
<1>9. tokens' \in Nat /\ tokens <= tokens' /\ tokens' > tokens /\ origin' \in [Films -> Nat]
  BY <1>1, <1>2, <1>3, <1>4
<1>10. Shows'
  BY <1>4, <1>6, <1>9 DEF Shows, Player!Views
<1>11. SessionsInv'
  BY <1>3, <1>4, <1>8, <1>9, <1>10 DEF SessionsInv
<1>12. worker' \in Nat /\ \A t \in DOMAIN sessions' : t > tokens
  BY <1>2, <1>4, <1>9 DEF PlayerInv, BridgeInv
<1> QED BY <1>2, <1>9, <1>11, <1>12, BridgeStill

(* The view goes, or changes but for its document.                          *)
LEMMA ViewStep ==
  ASSUME PlayerInv, UNCHANGED <<asked, inbox, jobs, chunks, worker, tokens, origin>>, got' = None,
         \A t \in DOMAIN sessions' : t \in DOMAIN sessions /\ sessions'[t] = sessions[t],
         Player!Released',
         view' # None => view # None /\ view' \in Player!Views /\ view'.token = view.token /\ view'.url = view.url
  PROVE  PlayerInv'
<1>1. SessionsInv'
  BY DEF PlayerInv, SessionsInv, Shows
<1>2. worker' \in Nat /\ tokens' \in Nat /\ tokens <= tokens'
  BY DEF PlayerInv, BridgeInv, SessionsInv
<1> QED BY <1>1, <1>2, BridgeStill

LEMMA OtherViews ==
  ASSUME PlayerInv,
         \/ Player!Leave \/ Player!Loaded \/ Player!Save \/ \E s \in saving, ok \in BOOLEAN : Player!Saved(s, ok)
  PROVE  PlayerInv'
<1>0. /\ UNCHANGED <<asked, inbox, jobs, chunks, worker, tokens, origin>> /\ got' = None
  BY DEF Player!Leave, Player!Loaded, Player!Save, Player!Saved, Player!bridgeVars, Player!viewVars
<1>1. /\ Player!Released /\ blobs \subseteq (IF view = None THEN {} ELSE {view.created} \cap Films)
      /\ view # None => view \in Player!Views
      /\ DOMAIN sessions \subseteq (IF view = None THEN {} ELSE {view.token})
  BY DEF PlayerInv, SessionsInv, Shows, Player!Released
<1>2. CASE Player!Leave
  <2>1. /\ view # None /\ view' = None /\ sessions' = [x \in DOMAIN sessions \ {view.token} |-> sessions[x]]
        /\ blobs' = IF view = None \/ view.created = None THEN blobs ELSE blobs \ {view.created}
    BY <1>2 DEF Player!Leave, Player!EndSession, Player!Revoked, Player!Without
  <2>2. DOMAIN sessions' = {}
    BY <1>1, <2>1
  <2>3. blobs' = {}
    BY <1>1, <2>1, MediaAssumed
  <2>4. Player!Released'
    BY <2>1, <2>2, <2>3 DEF Player!Released
  <2> QED BY <1>0, <2>1, <2>2, <2>4, ViewStep
<1>3. CASE Player!Loaded
  <2>1. PICK found, old : found = (view.url \in store) /\ old = view
    OBVIOUS
  <2>2. /\ view # None /\ sessions' = sessions
        /\ view' = [view EXCEPT !.reading = FALSE,
                                !.created = IF found THEN view.url ELSE @,
                                !.offline = IF found THEN view.url ELSE @]
        /\ blobs' = blobs \cup (IF found THEN {view.url} ELSE {})
    BY <1>3, <2>1 DEF Player!Loaded
  <2>3. old \in Player!Views /\ old.url \in Films /\ old.created \in Films \cup {None}
        /\ old.offline \in Films \cup {None}
    BY <1>1, <2>1, <2>2 DEF Player!Views
  <2>4. view' = [url |-> old.url, token |-> old.token, reading |-> FALSE,
                 created |-> IF found THEN old.url ELSE old.created, id |-> old.id,
                 offline |-> IF found THEN old.url ELSE old.offline]
    BY <2>1, <2>2, <2>3 DEF Player!Views
  <2>5. view' \in Player!Views /\ view'.token = view.token /\ view'.url = view.url /\ view' # None
    <3>1. view' \in Player!Views
      BY <2>3, <2>4 DEF Player!Views
    <3> QED BY <2>1, <2>4, <3>1, MediaAssumed
  <2>6. blobs' \subseteq {view'.created} \cap Films
    <3>1. CASE found
      <4>1. blobs \subseteq Films /\ blobs \subseteq {old.created}
        BY <1>1, <2>1, <2>2
      <4>2. view'.created = old.url /\ blobs' = blobs \cup {old.url}
        BY <2>1, <2>2, <2>4, <3>1
      <4> QED BY <2>3, <4>1, <4>2
    <3>2. CASE ~found
      <4>1. view'.created = old.created
        BY <2>4, <3>2
      <4>2. blobs' = blobs \cup {}
        BY <2>2, <3>2
      <4> QED BY <1>1, <2>1, <2>2, <4>1, <4>2
    <3> QED BY <3>1, <3>2
  <2>7. Player!Released'
    BY <1>1, <2>2, <2>5, <2>6 DEF Player!Released
  <2> QED BY <1>0, <2>2, <2>5, <2>7, ViewStep
<1>4. CASE Player!Save
  <2>1. UNCHANGED <<view, sessions, blobs>>
    BY <1>4 DEF Player!Save, Player!viewVars
  <2>2. Player!Released'
    BY <1>1, <2>1 DEF Player!Released
  <2> QED BY <1>0, <1>1, <2>1, <2>2, ViewStep
<1>5. ASSUME NEW s \in saving, NEW ok \in BOOLEAN, Player!Saved(s, ok)
      PROVE  PlayerInv'
  <2>0. sessions' = sessions
    BY <1>5 DEF Player!Saved
  <2>1. CASE UNCHANGED <<view, blobs>>
    <3>1. Player!Released'
      BY <1>1, <2>0, <2>1 DEF Player!Released
    <3> QED BY <1>0, <1>1, <2>0, <2>1, <3>1, ViewStep
  <2>2. CASE /\ view # None /\ view' = [view EXCEPT !.reading = TRUE, !.created = None]
             /\ blobs' = Player!Revoked
    <3>1. PICK old : old = view
      OBVIOUS
    <3>2. old \in Player!Views
      BY <1>1, <2>2, <3>1
    <3>3. view' = [url |-> old.url, token |-> old.token, reading |-> TRUE,
                   created |-> None, id |-> old.id, offline |-> old.offline]
      BY <2>2, <3>1, <3>2 DEF Player!Views
    <3>4. view' \in Player!Views /\ view'.token = view.token /\ view'.url = view.url /\ view' # None
      <4>1. view' \in Player!Views
        BY <3>2, <3>3 DEF Player!Views
      <4> QED BY <3>1, <3>3, <4>1, MediaAssumed
    <3>5. blobs' = {}
      <4>1. blobs' = IF view = None \/ view.created = None THEN blobs ELSE blobs \ {view.created}
        BY <2>2 DEF Player!Revoked
      <4> QED BY <1>1, <2>2, <4>1, MediaAssumed
    <3>6. Player!Released'
      BY <1>1, <2>0, <2>2, <3>4, <3>5 DEF Player!Released
    <3> QED BY <1>0, <2>0, <2>2, <3>4, <3>6, ViewStep
  <2> QED BY <1>5, <2>1, <2>2 DEF Player!Saved
<1> QED BY <1>2, <1>3, <1>4, <1>5

(* A new worker, or a new version of a document.                            *)
LEMMA WorldSteps ==
  ASSUME PlayerInv, Player!Replace \/ \E u \in Films : Player!Publish(u)
  PROVE  PlayerInv'
<1>1. /\ UNCHANGED <<view, sessions, tokens, blobs, asked, inbox, jobs, chunks>> /\ got' = None
  BY DEF Player!Replace, Player!Publish, Player!bridgeVars, Player!viewVars
<1>2. worker' \in Nat
  BY DEF Player!Replace, Player!Publish, PlayerInv, BridgeInv
<1>3. origin' \in [Films -> Nat]
  BY DEF Player!Replace, Player!Publish, PlayerInv, SessionsInv
<1>4. SessionsInv'
  BY <1>1, <1>3 DEF PlayerInv, SessionsInv, Shows, Player!Released, Player!Views
<1>5. tokens' \in Nat /\ tokens <= tokens'
      /\ \A t \in DOMAIN sessions' : t > tokens \/ (t \in DOMAIN sessions /\ sessions'[t] = sessions[t])
  BY <1>1 DEF PlayerInv, SessionsInv
<1> QED BY <1>1, <1>2, <1>4, <1>5, BridgeStill

-----------------------------------------------------------------------------
(* Requests and answers.                                                    *)

LEMMA SessionsStill ==
  ASSUME SessionsInv, UNCHANGED <<view, sessions, tokens, blobs, origin>>
  PROVE  SessionsInv' /\ AskType' = AskType
BY DEF SessionsInv, Shows, Player!Released, AskType, Player!Views

LEMMA RequestStep ==
  ASSUME PlayerInv, NEW u \in Films, NEW start \in 0..FilmSize[u],
         NEW end \in (start..FilmSize[u]) \cup {None},
         view # None, view.url = u, Player!Request(start, end)
  PROVE  PlayerInv'
<1>1. PICK a : a = [token |-> view.token, url |-> view.url, start |-> start, end |-> end, worker |-> worker]
  OBVIOUS
<1>2. /\ asked' = Append(asked, a) /\ inbox' = inbox \cup {Len(asked) + 1} /\ start < FilmSize[view.url]
      /\ UNCHANGED <<view, sessions, tokens, blobs, origin, worker, jobs, chunks>> /\ got' = None
  BY <1>1 DEF Player!Request, Player!viewVars
<1>3. SessionsInv' /\ AskType' = AskType
  BY <1>2, SessionsStill DEF PlayerInv
<1>4. a \in AskType
  <2>1. view.token \in Nat /\ view.token <= tokens /\ worker \in Nat /\ FilmSize[u] \in Nat /\ tokens \in Nat
    BY MediaAssumed DEF PlayerInv, SessionsInv, BridgeInv, Shows, Player!Views
  <2>2. start \in Nat /\ start <= FilmSize[u] /\ end \in Nat \cup {None}
    BY <2>1
  <2>3. a.token = view.token /\ a.url = u /\ a.start = start
    BY <1>1
  <2>4. a \in [token : Nat, url : Films, start : Nat, end : Nat \cup {None}, worker : Nat]
    BY <1>1, <2>1, <2>2
  <2> QED BY <2>1, <2>2, <2>3, <2>4 DEF AskType
<1>5. PICK n : n = Len(asked)
  OBVIOUS
<1>6. /\ asked \in Seq(AskType) /\ n \in Nat /\ asked' \in Seq(AskType) /\ Len(asked') = n + 1
      /\ asked'[n + 1] = a /\ \A i \in 1..n : asked'[i] = asked[i] /\ i \in 1..Len(asked')
  <2>1. PICK T : T = AskType
    OBVIOUS
  <2>2. asked \in Seq(T) /\ a \in T /\ asked' = Append(asked, a)
    BY <1>2, <1>4, <2>1 DEF PlayerInv, BridgeInv
  <2>3. asked' \in Seq(T) /\ Len(asked') = n + 1 /\ n \in Nat
    BY <1>5, <2>2
  <2>4. asked'[n + 1] = a /\ \A i \in 1..n : asked'[i] = asked[i]
    BY <1>5, <2>2, <2>3
  <2>5. \A i \in 1..n : i \in 1..(n + 1)
    BY <2>3
  <2> QED BY <2>1, <2>2, <2>3, <2>4, <2>5
<1>7. ASSUME NEW i \in 1..Len(asked'), asked'[i].token \in DOMAIN sessions'
      PROVE  sessions'[asked'[i].token].url = asked'[i].url
  <2>1. CASE i \in 1..n
    BY <1>2, <1>5, <1>6, <1>7, <2>1 DEF PlayerInv, BridgeInv
  <2>2. CASE i = n + 1
    <3>1. a.token = view.token /\ a.url = view.url
      BY <1>1
    <3> QED BY <1>2, <1>6, <1>7, <2>2, <3>1 DEF PlayerInv, SessionsInv, Shows
  <2> QED BY <1>6, <2>1, <2>2
<1>8. inbox' \subseteq 1..Len(asked') /\ DOMAIN jobs' \subseteq 1..Len(asked')
  <2>1. inbox \subseteq 1..n /\ DOMAIN jobs \subseteq 1..n
    BY <1>5 DEF PlayerInv, BridgeInv
  <2>2. n \in Nat /\ Len(asked') = n + 1 /\ inbox' = inbox \cup {n + 1} /\ jobs' = jobs
    BY <1>2, <1>5, <1>6
  <2>3. 1..n \subseteq 1..(n + 1) /\ n + 1 \in 1..(n + 1)
    BY <2>2
  <2> QED BY <2>1, <2>2, <2>3
<1>9. \A i \in DOMAIN jobs : i \in 1..n /\ FetchesFor(jobs[i], asked[i])
  BY <1>5 DEF PlayerInv, BridgeInv
<1>10. \A i \in DOMAIN jobs' : FetchesFor(jobs'[i], asked'[i])
  BY <1>2, <1>6, <1>9
<1>11. \A c \in chunks : c.id \in 1..n /\ Answers(c, asked[c.id])
  BY <1>5 DEF PlayerInv, BridgeInv
<1>12. \A c \in chunks' : c.id \in 1..Len(asked') /\ Answers(c, asked'[c.id])
  BY <1>2, <1>6, <1>11
<1>13. BridgeInv'
  <2>1. worker' \in Nat /\ asked' \in Seq(AskType')
    BY <1>2, <1>3, <1>6 DEF PlayerInv, BridgeInv
  <2> QED BY <1>2, <1>7, <1>8, <1>10, <1>12, <2>1 DEF BridgeInv, FetchesFor, Answers, OneVersion, JobType
<1> QED BY <1>3, <1>13 DEF PlayerInv

LEMMA DeliverStep ==
  ASSUME PlayerInv,
         \/ \E c \in chunks : Player!Deliver(c)
         \/ \E id \in 1..MaxAsks : Player!GiveUp(id)
  PROVE  PlayerInv'
<1>1. /\ UNCHANGED <<view, sessions, tokens, blobs, origin, worker, asked, inbox, jobs>>
      /\ chunks' \subseteq chunks /\ (got' = None \/ got' \in chunks)
  BY DEF Player!Deliver, Player!GiveUp, Player!viewVars
<1>2. SessionsInv' /\ AskType' = AskType
  BY <1>1, SessionsStill DEF PlayerInv
<1>3. \A c \in chunks : c.id \in 1..Len(asked) /\ Answers(c, asked[c.id])
  BY DEF PlayerInv, BridgeInv
<1>4. \A i \in DOMAIN jobs : FetchesFor(jobs[i], asked[i])
  BY DEF PlayerInv, BridgeInv
<1>5. got' # None => got'.id \in 1..Len(asked) /\ Answers(got', asked[got'.id])
  BY <1>1, <1>3
<1>6. /\ worker' \in Nat /\ asked' \in Seq(AskType')
      /\ \A i \in 1..Len(asked') : asked'[i].token \in DOMAIN sessions' => sessions'[asked'[i].token].url = asked'[i].url
      /\ inbox' \subseteq 1..Len(asked') /\ DOMAIN jobs' \subseteq 1..Len(asked')
  BY <1>1, <1>2 DEF PlayerInv, BridgeInv
<1>7. \A c \in chunks' : c.id \in 1..Len(asked') /\ Answers(c, asked'[c.id])
  BY <1>1, <1>3
<1>8. \A i \in DOMAIN jobs' : FetchesFor(jobs'[i], asked'[i])
  BY <1>1, <1>4
<1>9. got' # None => got'.id \in 1..Len(asked') /\ Answers(got', asked'[got'.id])
  BY <1>1, <1>5
<1>10. BridgeInv'
  BY <1>6, <1>7, <1>8, <1>9 DEF BridgeInv, FetchesFor, Answers, OneVersion, JobType
<1> QED BY <1>2, <1>10 DEF PlayerInv
-----------------------------------------------------------------------------
(* The app.                                                                 *)

(* What an action of the app does to the requests it works on.              *)
LEMMA AppStep ==
  ASSUME PlayerInv, got' = None,
         UNCHANGED <<view, sessions, tokens, blobs, origin, worker, asked>>,
         inbox' \subseteq inbox,
         \A i \in DOMAIN jobs' : \/ i \in DOMAIN jobs /\ jobs'[i] = jobs[i]
                                 \/ i \in 1..Len(asked) /\ FetchesFor(jobs'[i], asked[i]),
         \A c \in chunks' : \/ c \in chunks
                            \/ c.id \in 1..Len(asked) /\ Answers(c, asked[c.id])
  PROVE  PlayerInv'
<1>2. SessionsInv' /\ AskType' = AskType
  BY SessionsStill DEF PlayerInv
<1>3. \A i \in DOMAIN jobs : i \in 1..Len(asked) /\ FetchesFor(jobs[i], asked[i])
  BY DEF PlayerInv, BridgeInv
<1>4. \A c \in chunks : c.id \in 1..Len(asked) /\ Answers(c, asked[c.id])
  BY DEF PlayerInv, BridgeInv
<1>5. /\ worker' \in Nat /\ asked' \in Seq(AskType')
      /\ \A i \in 1..Len(asked') : asked'[i].token \in DOMAIN sessions' => sessions'[asked'[i].token].url = asked'[i].url
      /\ inbox' \subseteq 1..Len(asked')
  BY <1>2 DEF PlayerInv, BridgeInv
<1>6. \A i \in DOMAIN jobs' : i \in 1..Len(asked) /\ FetchesFor(jobs'[i], asked'[i])
  BY <1>3
<1>7. \A c \in chunks' : c.id \in 1..Len(asked') /\ Answers(c, asked'[c.id])
  BY <1>4
<1>8. DOMAIN jobs' \subseteq 1..Len(asked')
  BY <1>6
<1>9. BridgeInv'
  BY <1>5, <1>6, <1>7, <1>8 DEF BridgeInv, FetchesFor, Answers, OneVersion, JobType
<1> QED BY <1>2, <1>9 DEF PlayerInv

LEMMA AskAt ==
  ASSUME PlayerInv, NEW id \in 1..Len(asked)
  PROVE  /\ asked[id].start \in Nat /\ asked[id].start <= FilmSize[asked[id].url]
         /\ asked[id].url \in Films /\ FilmSize[asked[id].url] \in Nat
<1>1. PICK T, a : T = AskType /\ a = asked[id]
  OBVIOUS
<1>2. a \in T
  BY <1>1, ElementOfSeq DEF PlayerInv, BridgeInv
<1> QED BY <1>1, <1>2, MediaAssumed DEF AskType

LEMMA RespondStep ==
  ASSUME PlayerInv, NEW id, Player!Respond(id)
  PROVE  PlayerInv'
<1>1. PICK token : token = asked[id].token
  OBVIOUS
<1>2. /\ id \in inbox /\ inbox' = inbox \ {id}
      /\ UNCHANGED <<view, sessions, tokens, blobs, origin, worker, asked, chunks>> /\ got' = None
  BY DEF Player!Respond, Player!viewVars
<1>3. id \in 1..Len(asked)
  BY <1>2 DEF PlayerInv, BridgeInv
<1>4. PICK job : job = [url |-> sessions[token].url, etag |-> sessions[token].etag,
                        offset |-> asked[id].start, parts |-> <<>>, hops |-> 0]
  OBVIOUS
<1>5. jobs' = IF token \notin DOMAIN sessions THEN jobs
              ELSE [x \in DOMAIN jobs \cup {id} |-> IF x = id THEN job ELSE jobs[x]]
  BY <1>1, <1>4 DEF Player!Respond, Player!With
<1>6. token \in DOMAIN sessions => FetchesFor(job, asked[id])
  <2> SUFFICES ASSUME token \in DOMAIN sessions PROVE FetchesFor(job, asked[id])
    OBVIOUS
  <2>1. sessions[token].url = asked[id].url /\ sessions[token].url \in Films
        /\ sessions[token].etag \in Nat \cup {None}
    BY <1>1, <1>3 DEF PlayerInv, SessionsInv, BridgeInv
  <2>2. asked[id].start \in Nat /\ asked[id].start <= FilmSize[asked[id].url]
    BY <1>3, AskAt
  <2>3. /\ job.url = sessions[token].url /\ job.offset = asked[id].start
        /\ job.parts = <<>>
    BY <1>4
  <2>4. <<>> \in Seq(Nat)
    BY EmptySeq
  <2>5. job \in JobType
    BY <1>4, <2>1, <2>2, <2>4 DEF JobType
  <2>6. Len(job.parts) = 0 /\ OneVersion(job.parts, job.etag)
    BY <2>3 DEF OneVersion
  <2> QED BY <2>1, <2>2, <2>3, <2>5, <2>6 DEF FetchesFor
<1>7. \A i \in DOMAIN jobs' : \/ i \in DOMAIN jobs /\ jobs'[i] = jobs[i]
                              \/ i \in 1..Len(asked) /\ FetchesFor(jobs'[i], asked[i])
  BY <1>3, <1>5, <1>6
<1> QED BY <1>2, <1>7, AppStep

(* An answer that is posted: the fetch is over.                             *)
LEMMA PostStep ==
  ASSUME PlayerInv, NEW c, Player!Post(c), c.id \in DOMAIN jobs, Answers(c, asked[c.id]),
         UNCHANGED <<view, sessions, tokens, blobs, origin, worker, asked, inbox>>, got' = None
  PROVE  PlayerInv'
<1>2. chunks' = chunks \cup {c} /\ jobs' = [x \in DOMAIN jobs \ {c.id} |-> jobs[x]]
  BY DEF Player!Post, Player!Without
<1>4. c.id \in 1..Len(asked)
  BY DEF PlayerInv, BridgeInv, FetchesFor
<1>6. \A k \in chunks' : k \in chunks \/ (k.id \in 1..Len(asked) /\ Answers(k, asked[k.id]))
  BY <1>2, <1>4
<1>7. \A i \in DOMAIN jobs' : i \in DOMAIN jobs /\ jobs'[i] = jobs[i]
  BY <1>2
<1> QED BY <1>6, <1>7, AppStep

LEMMA AnswerSound ==
  ASSUME PlayerInv, NEW id \in DOMAIN jobs, NEW status, NEW start, NEW units,
         units \in Seq(Nat),
         jobs[id].url \in TaggedFilms => \E v \in Nat : OneVersion(units, v),
         status = 206 => start = asked[id].start /\ start + Len(units) <= FilmSize[asked[id].url],
         NEW c, c = Player!Answer(id, status, start, units)
  PROVE  c.id = id /\ Answers(c, asked[id])
<1>1. c = [id |-> id, url |-> jobs[id].url, status |-> status, start |-> start, parts |-> units]
  BY DEF Player!Answer
<1>2. c.id = id /\ c.url = jobs[id].url /\ c.status = status /\ c.start = start /\ c.parts = units
  BY <1>1
<1>3. jobs[id].url = asked[id].url
  BY DEF PlayerInv, BridgeInv, FetchesFor
<1>4. c.url = asked[id].url
  BY <1>2, <1>3
<1>5. c.status = 206 => c.start = asked[id].start /\ c.start + Len(c.parts) <= FilmSize[c.url]
  BY <1>2, <1>4
<1>6. /\ c.parts \in Seq(Nat)
      /\ c.url \in TaggedFilms => \E w \in Nat : OneVersion(c.parts, w)
  BY <1>2
<1> QED BY <1>2, <1>4, <1>5, <1>6 DEF Answers

LEMMA SameUnits ==
  ASSUME NEW n \in Nat, NEW v \in Nat
  PROVE  /\ [i \in 1..n |-> v] \in Seq(Nat) /\ Len([i \in 1..n |-> v]) = n
         /\ OneVersion([i \in 1..n |-> v], v)
<1>1. PICK s : s = [i \in 1..n |-> v]
  OBVIOUS
<1>2. s \in [1..n -> Nat]
  BY <1>1
<1>3. s \in Seq(Nat)
  BY <1>2, SeqDef
<1>4. Len(s) = n
  BY <1>1, <1>3, LenProperties
<1>5. OneVersion(s, v)
  BY <1>1, <1>4 DEF OneVersion
<1> QED BY <1>1, <1>3, <1>4, <1>5

LEMMA MoreUnits ==
  ASSUME NEW s \in Seq(Nat), NEW t \in Seq(Nat), NEW v \in Nat, OneVersion(s, v), OneVersion(t, v)
  PROVE  s \o t \in Seq(Nat) /\ Len(s \o t) = Len(s) + Len(t) /\ OneVersion(s \o t, v)
<1>1. PICK u : u = s \o t
  OBVIOUS
<1>2. u \in Seq(Nat) /\ Len(u) = Len(s) + Len(t) /\ Len(s) \in Nat /\ Len(t) \in Nat
  BY <1>1, ConcatProperties
<1>3. ASSUME NEW i \in 1..Len(u) PROVE u[i] = v
  <2>1. CASE i <= Len(s)
    <3>1. u[i] = s[i] /\ i \in 1..Len(s)
      BY <1>1, <1>2, <2>1, ConcatProperties
    <3> QED BY <3>1 DEF OneVersion
  <2>2. CASE i > Len(s)
    <3>1. u[i] = t[i - Len(s)] /\ i - Len(s) \in 1..Len(t)
      BY <1>1, <1>2, <2>2, ConcatProperties
    <3> QED BY <3>1 DEF OneVersion
  <2> QED BY <1>2, <2>1, <2>2
<1> QED BY <1>1, <1>2, <1>3 DEF OneVersion

LEMMA EndStep ==
  ASSUME PlayerInv, NEW id, Player!Whole(id) \/ Player!Fails(id)
  PROVE  PlayerInv'
<1>1. /\ id \in DOMAIN jobs /\ got' = None
      /\ UNCHANGED <<view, sessions, tokens, blobs, origin, worker, asked, inbox>>
  BY DEF Player!Whole, Player!Fails, Player!viewVars
<1>2. CASE Player!Whole(id)
  <2>1. PICK n, v : n = FilmSize[jobs[id].url] /\ v = origin[jobs[id].url]
    OBVIOUS
  <2>2. jobs[id].url = asked[id].url /\ jobs[id].url \in Films
    BY <1>1, AskAt DEF PlayerInv, BridgeInv, FetchesFor
  <2>3. n \in Nat /\ v \in Nat
    BY <2>1, <2>2, MediaAssumed DEF PlayerInv, SessionsInv
  <2>4. PICK units : units = [i \in 1..n |-> v]
    OBVIOUS
  <2>5. units \in Seq(Nat) /\ OneVersion(units, v)
    BY <2>3, <2>4, SameUnits
  <2>6. PICK c : c = Player!Answer(id, 200, 0, units)
    OBVIOUS
  <2>7. Player!Post(c)
    BY <1>2, <2>1, <2>4, <2>6 DEF Player!Whole
  <2>8. 200 # 206
    OBVIOUS
  <2>9. c.id = id /\ Answers(c, asked[id])
    <3>1. \E w \in Nat : OneVersion(units, w)
      BY <2>3, <2>5
    <3> QED BY <1>1, <2>5, <2>6, <2>8, <3>1, AnswerSound
  <2> QED BY <1>1, <2>7, <2>9, PostStep
<1>3. CASE Player!Fails(id)
  <2>1. PICK c, none, status, start : none = <<>> /\ status = 502 /\ start = 0 /\ c = Player!Answer(id, status, start, none)
    OBVIOUS
  <2>2. Player!Post(c)
    BY <1>3, <2>1 DEF Player!Fails
  <2>3. none \in Seq(Nat) /\ Len(none) = 0
    BY <2>1, EmptySeq
  <2>4. OneVersion(none, 0) /\ 0 \in Nat /\ status # 206
    BY <2>1, <2>3 DEF OneVersion
  <2>5. c.id = id /\ Answers(c, asked[id])
    <3>1. \E w \in Nat : OneVersion(none, w)
      BY <2>4
    <3>2. c = Player!Answer(id, status, start, none)
      BY <2>1
    <3>3. none \in Seq(Nat)
      BY <2>3
    <3>4. status = 206 => start = asked[id].start /\ start + Len(none) <= FilmSize[asked[id].url]
      BY <2>4
    <3> QED BY <1>1, <3>1, <3>2, <3>3, <3>4, AnswerSound
  <2> QED BY <1>1, <2>2, <2>5, PostStep
<1> QED BY <1>2, <1>3

(* Past the start of the request the origin goes on with the version it has *)
(* been sent for so far, or not at all.                                     *)
LEMMA PartStep ==
  ASSUME PlayerInv, NEW id, Player!Part(id)
  PROVE  PlayerInv'
<1> DEFINE job == jobs[id]
           ask == asked[id]
           v   == origin[job.url]
<1>8. PICK n \in 1..(FilmSize[job.url] - job.offset) :
        LET next == [job EXCEPT !.etag = IF job.url \in TaggedFilms THEN v ELSE @,
                                !.offset = @ + n, !.hops = @ + 1,
                                !.parts = @ \o [i \in 1..n |-> v]]
        IN IF Player!Continues(next, ask)
           THEN jobs' = [jobs EXCEPT ![id] = next] /\ UNCHANGED chunks
           ELSE Player!Post(Player!Answer(id, 206, ask.start, next.parts))
  BY DEF Player!Part
<1>1. job = jobs[id] /\ ask = asked[id] /\ v = origin[job.url]
  OBVIOUS
<1> HIDE DEF job, ask, v
<1>2. /\ id \in DOMAIN jobs /\ got' = None
      /\ UNCHANGED <<view, sessions, tokens, blobs, origin, worker, asked, inbox>>
  BY DEF Player!Part, Player!viewVars
<1>3. id \in 1..Len(asked) /\ FetchesFor(job, ask) /\ job \in JobType
  BY <1>1, <1>2 DEF PlayerInv, BridgeInv, FetchesFor
<1>4. /\ job.url = ask.url
      /\ job.url \in TaggedFilms =>
           OneVersion(job.parts, job.etag) /\ (job.parts # <<>> => job.etag # None)
      /\ job.offset = ask.start + Len(job.parts) /\ job.offset <= FilmSize[job.url]
  BY <1>3 DEF FetchesFor
<1>5. /\ job.url \in Films /\ job.etag \in Nat \cup {None} /\ job.offset \in Nat /\ job.parts \in Seq(Nat)
      /\ job.hops \in Nat /\ v \in Nat /\ ask.start \in Nat /\ FilmSize[job.url] \in Nat
      /\ Len(job.parts) \in Nat
  <2>1. /\ job.url \in Films /\ job.etag \in Nat \cup {None} /\ job.offset \in Nat /\ job.parts \in Seq(Nat)
        /\ job.hops \in Nat
    BY <1>3 DEF JobType
  <2>2. Len(job.parts) \in Nat
    BY <2>1
  <2>3. v \in Nat
    BY <1>1, <2>1, MediaAssumed DEF PlayerInv, SessionsInv
  <2>4. FilmSize[job.url] \in Nat
    BY <2>1, MediaAssumed
  <2>5. ask.start \in Nat
    BY <1>1, <1>3, AskAt DEF PlayerInv
  <2> QED BY <2>1, <2>2, <2>3, <2>4, <2>5
<1>6. ~(job.offset > 0 /\ job.etag \notin {None, v})
  BY <1>1 DEF Player!Part, Player!Refused
<1>7. ASSUME job.url \in TaggedFilms PROVE OneVersion(job.parts, v)
  <2>1. CASE job.parts = <<>>
    <3>1. Len(job.parts) = 0
      BY <2>1
    <3> QED BY <3>1 DEF OneVersion
  <2>2. CASE job.parts # <<>>
    <3>1. Len(job.parts) # 0
      BY <1>5, <2>2, EmptySeq
    <3>2. job.offset > 0
      BY <1>4, <1>5, <3>1
    <3>3. job.etag = v
      BY <1>4, <1>6, <1>7, <2>2, <3>2
    <3> QED BY <1>4, <1>7, <3>3
  <2> QED BY <2>1, <2>2
<1>9. PICK units, next : /\ units = job.parts \o [i \in 1..n |-> v]
                         /\ next = [job EXCEPT !.etag = IF job.url \in TaggedFilms THEN v ELSE @,
                                               !.offset = @ + n, !.hops = @ + 1,
                                               !.parts = @ \o [i \in 1..n |-> v]]
  OBVIOUS
<1>15. PICK etag : etag = IF job.url \in TaggedFilms THEN v ELSE job.etag
  OBVIOUS
<1>16. etag \in Nat \cup {None} /\ (job.url \in TaggedFilms => etag = v)
  BY <1>5, <1>15
<1>10. n \in Nat /\ job.offset + n <= FilmSize[job.url]
  <2>1. PICK size, o : size = FilmSize[job.url] /\ o = job.offset
    OBVIOUS
  <2>2. size \in Nat /\ o \in Nat /\ n \in 1..(size - o)
    BY <1>5, <2>1
  <2>3. n \in Nat /\ o + n <= size
    BY <2>2
  <2> QED BY <2>1, <2>3
<1>11. /\ units \in Seq(Nat) /\ Len(units) = Len(job.parts) + n
       /\ job.url \in TaggedFilms => OneVersion(units, v)
  <2>1. PICK more : more = [i \in 1..n |-> v]
    OBVIOUS
  <2>2. more \in Seq(Nat) /\ Len(more) = n /\ OneVersion(more, v)
    BY <1>5, <1>10, <2>1, SameUnits
  <2>3. units = job.parts \o more
    BY <1>9, <2>1
  <2>4. units \in Seq(Nat) /\ Len(units) = Len(job.parts) + Len(more)
    BY <1>5, <2>2, <2>3, ConcatProperties
  <2>5. ASSUME job.url \in TaggedFilms PROVE OneVersion(units, v)
    BY <1>5, <1>7, <2>2, <2>3, <2>5, MoreUnits
  <2> QED BY <2>2, <2>4, <2>5
<1>12. next = [url |-> job.url, etag |-> etag, offset |-> job.offset + n, parts |-> units, hops |-> job.hops + 1]
  BY <1>3, <1>9, <1>15 DEF JobType
<1>13. CASE jobs' = [jobs EXCEPT ![id] = next] /\ UNCHANGED chunks
  <2>1. next \in JobType
    <3>1. PICK u, o, h : u = job.url /\ o = job.offset + n /\ h = job.hops + 1
      OBVIOUS
    <3>2. u \in Films /\ etag \in Nat \cup {None} /\ units \in Seq(Nat)
      BY <1>5, <1>11, <1>16, <3>1
    <3>3. o \in Nat
      BY <1>5, <1>10, <3>1
    <3>4. h \in Nat
      BY <1>5, <3>1
    <3>5. next = [url |-> u, etag |-> etag, offset |-> o, parts |-> units, hops |-> h]
      BY <1>12, <3>1
    <3> QED BY <3>2, <3>3, <3>4, <3>5 DEF JobType
  <2>2. next.offset = ask.start + Len(next.parts) /\ next.offset <= FilmSize[next.url]
    <3>1. next.offset = job.offset + n /\ next.parts = units /\ next.url = job.url
      BY <1>12
    <3>2. PICK size, start, o, k, m : size = FilmSize[job.url] /\ start = ask.start /\ o = job.offset
                                      /\ k = Len(job.parts) /\ m = Len(units)
      OBVIOUS
    <3>3. o = start + k /\ o + n <= size /\ m = k + n /\ o \in Nat /\ start \in Nat /\ k \in Nat /\ size \in Nat
      BY <1>4, <1>5, <1>10, <1>11, <3>2
    <3>4. o + n = start + m
      BY <1>10, <3>3
    <3> QED BY <3>1, <3>2, <3>3, <3>4
  <2>3. /\ next.url = ask.url
        /\ next.url \in TaggedFilms =>
             OneVersion(next.parts, next.etag) /\ (next.parts # <<>> => next.etag # None)
    <3>1. next.url = job.url /\ next.etag = etag /\ next.parts = units
      BY <1>12
    <3>2. v # None
      BY <1>5, MediaAssumed
    <3> QED BY <1>4, <1>11, <1>16, <3>1, <3>2
  <2>4. FetchesFor(next, ask)
    BY <2>1, <2>2, <2>3 DEF FetchesFor
  <2>5. \A i \in DOMAIN jobs' : \/ i \in DOMAIN jobs /\ jobs'[i] = jobs[i]
                                \/ i \in 1..Len(asked) /\ FetchesFor(jobs'[i], asked[i])
    BY <1>1, <1>2, <1>3, <1>13, <2>4
  <2> QED BY <1>2, <1>13, <2>5, AppStep
<1>14. CASE Player!Post(Player!Answer(id, 206, ask.start, next.parts))
  <2>1. next.parts = units
    BY <1>12
  <2>2. PICK c, from : from = ask.start /\ c = Player!Answer(id, 206, from, units)
    OBVIOUS
  <2>3. Player!Post(c)
    BY <1>14, <2>1, <2>2
  <2>4. from + Len(units) <= FilmSize[asked[id].url] /\ from = asked[id].start
    <3>1. PICK size, o, k, m : size = FilmSize[job.url] /\ o = job.offset
                               /\ k = Len(job.parts) /\ m = Len(units)
      OBVIOUS
    <3>2. o = from + k /\ o + n <= size /\ m = k + n /\ o \in Nat /\ from \in Nat /\ k \in Nat /\ size \in Nat
      BY <1>4, <1>5, <1>10, <1>11, <2>2, <3>1
    <3>3. from + m <= size
      BY <1>10, <3>2
    <3> QED BY <1>1, <1>4, <2>2, <3>1, <3>3
  <2>5. c.id = id /\ Answers(c, asked[id])
    <3>1. jobs[id].url \in TaggedFilms => \E w \in Nat : OneVersion(units, w)
      BY <1>1, <1>5, <1>11
    <3>2. units \in Seq(Nat) /\ c = Player!Answer(id, 206, from, units)
      BY <1>11, <2>2
    <3> QED BY <1>2, <2>4, <3>1, <3>2, AnswerSound
  <2> QED BY <1>2, <2>3, <2>5, PostStep
<1> QED BY <1>8, <1>9, <1>13, <1>14

LEMMA PlayerNext ==
  ASSUME PlayerInv, Player!Next
  PROVE  PlayerInv'
<1>1. CASE \E u \in Films : Player!Switch(u)
  BY <1>1, SwitchStep
<1>7. CASE Player!Redescribe
  BY <1>7, RedescribeStep
<1>2. CASE Player!Replace \/ \E u \in Films : Player!Publish(u)
  BY <1>2, WorldSteps
<1>3. CASE \/ Player!Leave \/ Player!Loaded \/ Player!Save
           \/ \E s \in saving, ok \in BOOLEAN : Player!Saved(s, ok)
  BY <1>3, OtherViews
<1>4. CASE \E u \in Films : \E start \in 0..FilmSize[u] : \E end \in (start..FilmSize[u]) \cup {None} :
             view # None /\ view.url = u /\ Player!Request(start, end)
  BY <1>4, RequestStep
<1>5. CASE \E id \in 1..MaxAsks : \/ Player!Respond(id) \/ Player!Part(id) \/ Player!Whole(id) \/ Player!Fails(id)
  BY <1>5, RespondStep, PartStep, EndStep
<1>6. CASE \/ \E c \in chunks : Player!Deliver(c)
           \/ \E id \in 1..MaxAsks : Player!GiveUp(id)
  BY <1>6, DeliverStep
<1> QED BY <1>1, <1>2, <1>3, <1>4, <1>5, <1>6, <1>7 DEF Player!Next

LEMMA PlayerSound ==
  ASSUME PlayerInv
  PROVE  Player!AnswerBelongs /\ Player!Released
<1>1. ASSUME got # None, got.url \in TaggedFilms PROVE Cardinality(Elems(got.parts)) <= 1
  <2>1. PICK v \in Nat : got.parts \in Seq(Nat) /\ OneVersion(got.parts, v)
    BY <1>1 DEF PlayerInv, BridgeInv, Answers
  <2>2. PICK s : s = got.parts
    OBVIOUS
  <2>3. Elems(s) \subseteq {v}
    <3>1. s \in Seq(Nat) /\ \A i \in 1..Len(s) : s[i] = v
      BY <2>1, <2>2 DEF OneVersion
    <3>2. DOMAIN s = 1..Len(s)
      BY <3>1
    <3> QED BY <3>1, <3>2 DEF Elems
  <2>4. IsFiniteSet({v}) /\ Cardinality({v}) = 1
    BY FS_Singleton
  <2>5. IsFiniteSet(Elems(s)) /\ Cardinality(Elems(s)) <= Cardinality({v})
    BY <2>3, <2>4, FS_Subset
  <2> QED BY <2>2, <2>4, <2>5
<1>2. Player!Cardinality(Player!Elems(got.parts)) = Cardinality(Elems(got.parts))
  BY DEF Player!Cardinality, Cardinality, Player!IsFiniteSet, IsFiniteSet, Player!Elems, Elems
<1>3. Player!AnswerBelongs
  <2>1. ASSUME got # None
        PROVE  /\ got.url = asked[got.id].url
               /\ got.status = 206 => got.start = asked[got.id].start /\ got.start + Len(got.parts) <= FilmSize[got.url]
    BY <2>1 DEF PlayerInv, BridgeInv, Answers
  <2> QED BY <1>1, <1>2, <2>1 DEF Player!AnswerBelongs
<1> QED BY <1>3 DEF PlayerInv, SessionsInv
-----------------------------------------------------------------------------
(* downloads: what a file is put together from.                             *)

(* The bytes are in their places, and of the version a validator names.     *)
Fits(bytes, etag, strict) ==
  /\ bytes \in Seq(Nat \X Nat) /\ \A i \in 1..Len(bytes) : bytes[i][2] = i
  /\ strict /\ bytes # <<>> => /\ etag \in 1..Len(Sizes) /\ Len(bytes) <= Sizes[etag]
                               /\ \A i \in 1..Len(bytes) : bytes[i][1] = etag

Totals    == (Nat \ {0}) \cup {None}
PartType  == [entry : Files, bytes : Seq(Nat \X Nat), older : BOOLEAN]
EntryType == [status : {"pending", "partial", "saved", "failed"}, total : Totals,
              etag : Nat \cup {None}]
WorkType  == [step : {"head", "get"}, entry : EntryType \cup {None}, bytes : Seq(Nat \X Nat),
              older : BOOLEAN, total : Totals, etag : Nat \cup {None}, hops : Nat]

(* With validators, an entry has the total of the version it names.  What   *)
(* is retained of an unfinished entry is of that version, unless it is      *)
(* marked.                                                                  *)
Named(x, strict) == strict => x.etag \in 1..Len(Sizes) /\ x.total = Sizes[x.etag]
Unfinished(x) == x.status \in {"partial", "failed"}
EntryGood(e, x, list, strict) ==
  /\ x \in EntryType /\ Named(x, strict)
  /\ Unfinished(x) => \A p \in Elems(list) : p.entry = e => Fits(p.bytes, x.etag, strict /\ ~p.older)

(* So are the bytes of a transfer that has some.                            *)
Going(t, strict) ==
  /\ t \in WorkType /\ t.step = "get"
  /\ Fits(t.bytes, t.etag, strict /\ ~t.older) /\ (t.hops > 0 => t.bytes # <<>>)
  /\ t.bytes # <<>> => Named(t, strict)
WorkGood(w, t, list, strict) ==
  \/ t \in WorkType /\ t.step = "head" /\ t.hops = 0 /\ EntryGood(w, t.entry, list, strict)
  \/ Going(t, strict) /\ (w \in Files => Named(t, strict))

(* What is retained is in place, also while another attempt goes on.        *)
AllInPlace(list) == \A p \in Elems(list) : Fits(p.bytes, None, FALSE)

ShelfInv ==
  /\ server \in 1..Len(Sizes) /\ tags \in BOOLEAN /\ parts \in Seq(PartType)
  /\ AllInPlace(parts)
  /\ DOMAIN shelf = Files /\ DOMAIN work = Files \cup MediaFiles
  /\ \A e \in Files : shelf[e] # None => EntryGood(e, shelf[e], parts, tags)
  /\ \A w \in Files \cup MediaFiles : work[w] # None => WorkGood(w, work[w], parts, tags)
  /\ Shelf!SavedWhole

LEMMA ShelfAssumed ==
  /\ Sizes \in Seq(Nat \ {0}) /\ Len(Sizes) \in Nat /\ Len(Sizes) > 0
  /\ DOMAIN Sizes = 1..Len(Sizes)
  /\ \A v \in 1..Len(Sizes) : Sizes[v] \in Nat /\ Sizes[v] > 0
  /\ Files \cap MediaFiles = {} /\ Chunk \in Nat \ {0} /\ MaxChunks \in Nat \ {0} /\ None \notin Nat
<1>1. /\ Sizes \in Seq(Nat \ {0}) /\ Sizes # <<>>
      /\ Files \cap MediaFiles = {} /\ Chunk \in Nat \ {0} /\ MaxChunks \in Nat \ {0} /\ None \notin Nat
  BY BrowsingAssumption DEF Shelf!DownloadsAssumption
<1>2. Len(Sizes) \in Nat /\ Len(Sizes) > 0 /\ DOMAIN Sizes = 1..Len(Sizes)
  BY <1>1
<1>3. \A v \in 1..Len(Sizes) : Sizes[v] \in Nat \ {0}
  BY <1>1, ElementOfSeq
<1> QED BY <1>1, <1>2, <1>3

LEMMA ElemsAre ==
  ASSUME NEW T, NEW list \in Seq(T)
  PROVE  \A x : x \in Elems(list) <=> \E i \in 1..Len(list) : list[i] = x
<1>1. DOMAIN list = 1..Len(list)
  OBVIOUS
<1> QED BY <1>1 DEF Elems

(* What is retained of the other entries.                                   *)
LEMMA WithoutParts ==
  ASSUME parts \in Seq(PartType), NEW e
  PROVE  /\ Shelf!Without(e) \in Seq(PartType)
         /\ \A p \in Elems(Shelf!Without(e)) : p \in Elems(parts) /\ p.entry # e
<1>1. PICK S, T, list, kept : /\ S = {p \in Elems(parts) : p.entry # e} /\ T = PartType
                              /\ list = parts /\ kept = Kept(list, S)
  OBVIOUS
<1>2. Shelf!Without(e) = kept
  BY <1>1 DEF Shelf!Without, Shelf!Kept, Kept, Shelf!Elems, Elems
<1>3. list \in Seq(T)
  BY <1>1
<1>4. kept \in Seq(T \cap S)
  BY <1>1, <1>3, KeptSeq
<1>5. kept \in Seq(T)
  BY <1>4
<1>6. ASSUME NEW p \in Elems(kept) PROVE p \in S
  <2>1. PICK j \in 1..Len(kept) : kept[j] = p
    BY <1>5, <1>6, ElemsAre
  <2>2. kept[j] \in S
    BY <1>1, <1>3, <2>1, KeptFrom
  <2> QED BY <2>1, <2>2
<1> QED BY <1>1, <1>2, <1>5, <1>6

(* What is left of a list when there are too many bytes.                    *)
LEMMA BoundedParts ==
  ASSUME NEW T, NEW list \in Seq(T), list # <<>>
  PROVE  Shelf!Bounded(list) \in Seq(T) /\ Elems(Shelf!Bounded(list)) \subseteq Elems(list)
<1>1. PICK n : n = Len(list)
  OBVIOUS
<1>2. n \in Nat /\ n > 0 /\ DOMAIN list = 1..n
  BY <1>1
<1> DEFINE Few(i) == Shelf!Amount(SubSeq(list, i, n)) <= MaxRetained \/ i = n
           Good == {i \in 1..n : Few(i)}
<1>3. PICK k \in Good : \A m \in Good : k <= m
  <2>1. n \in Good /\ Good \in SUBSET Nat
    BY <1>2
  <2> HIDE DEF Good
  <2> QED BY <2>1, LeastNat
<1>4. PICK c : c = CHOOSE i \in 1..n : Few(i) /\ \A j \in 1..i - 1 : ~(Shelf!Amount(SubSeq(list, j, n)) <= MaxRetained)
  OBVIOUS
<1>5. c \in 1..n
  <2>1. k \in 1..n /\ Few(k) /\ k \in Nat
    BY <1>2, <1>3
  <2>2. ASSUME NEW j \in 1..k - 1 PROVE ~(Shelf!Amount(SubSeq(list, j, n)) <= MaxRetained)
    <3>1. j \in 1..n /\ ~(k <= j)
      BY <1>2, <2>1
    <3>2. j \notin Good
      BY <1>3, <3>1
    <3> QED BY <3>1, <3>2
  <2> HIDE DEF Few
  <2> QED BY <1>4, <2>1, <2>2
<1>6. Shelf!Bounded(list) = SubSeq(list, c, n)
  BY <1>1, <1>2, <1>4 DEF Shelf!Bounded
<1>7. PICK s : s = SubSeq(list, c, n)
  OBVIOUS
<1>8. /\ s \in Seq(T) /\ Len(s) = n - c + 1
      /\ \A i \in 1..n - c + 1 : s[i] = list[c + i - 1]
  <2>1. \A i \in c..n : list[i] \in T
    BY <1>1, <1>2, <1>5, ElementOfSeq
  <2>2. c \in Int /\ n \in Int /\ c <= n
    BY <1>2, <1>5
  <2> QED BY <1>7, <2>1, <2>2, SubSeqProperties
<1>9. ASSUME NEW x \in Elems(s) PROVE x \in Elems(list)
  <2>1. PICK i \in 1..Len(s) : s[i] = x
    BY <1>8, <1>9, ElemsAre
  <2>2. x = list[c + i - 1] /\ c + i - 1 \in 1..n
    BY <1>2, <1>5, <1>8, <2>1
  <2> QED BY <1>1, <2>2, ElemsAre
<1> QED BY <1>6, <1>7, <1>8, <1>9

LEMMA FoundPart ==
  ASSUME NEW e
  PROVE  Shelf!PartOf(e) = <<>> \/ \E p \in Elems(parts) : p.entry = e /\ Shelf!PartOf(e) = p.bytes
<1>1. CASE ~\E i \in DOMAIN parts : parts[i].entry = e
  BY <1>1 DEF Shelf!PartOf
<1>2. CASE \E i \in DOMAIN parts : parts[i].entry = e
  <2>1. PICK q : q = CHOOSE p \in Elems(parts) : p.entry = e
    OBVIOUS
  <2>2. \E p \in Elems(parts) : p.entry = e
    BY <1>2 DEF Elems
  <2>3. q \in Elems(parts) /\ q.entry = e
    BY <2>1, <2>2
  <2>4. Shelf!PartOf(e) = q.bytes
    BY <1>2, <2>1 DEF Shelf!PartOf, Shelf!Elems, Elems
  <2> QED BY <2>3, <2>4
<1> QED BY <1>1, <1>2
-----------------------------------------------------------------------------
(* Steps.                                                                   *)

(* An action changes the parts of a few entries, and nothing that is said   *)
(* of the others.                                                           *)
LEMMA ShelfFrame ==
  ASSUME ShelfInv, NEW Touched, server' \in 1..Len(Sizes), tags' = tags, parts' \in Seq(PartType),
         \A p \in Elems(parts') :
           p \in Elems(parts) \/ (p.entry \in Touched /\ Fits(p.bytes, None, FALSE)),
         DOMAIN shelf' = Files, DOMAIN work' = Files \cup MediaFiles,
         \A e \in Files : shelf'[e] # None =>
           (e \notin Touched /\ shelf'[e] = shelf[e]) \/ EntryGood(e, shelf'[e], parts', tags),
         \A w \in Files \cup MediaFiles : work'[w] # None =>
           (w \notin Touched /\ work'[w] = work[w]) \/ WorkGood(w, work'[w], parts', tags),
         Shelf!SavedWhole'
  PROVE  ShelfInv'
<1>1. ASSUME NEW e, e \notin Touched, NEW x, EntryGood(e, x, parts, tags)
      PROVE  EntryGood(e, x, parts', tags)
  <2>1. ASSUME NEW p \in Elems(parts'), p.entry = e PROVE p \in Elems(parts)
    BY <1>1, <2>1
  <2> QED BY <1>1, <2>1 DEF EntryGood
<1>2. \A e \in Files : shelf'[e] # None => EntryGood(e, shelf'[e], parts', tags)
  BY <1>1 DEF ShelfInv
<1>3. ASSUME NEW w \in Files \cup MediaFiles, work'[w] # None
      PROVE  WorkGood(w, work'[w], parts', tags)
  <2>1. CASE w \notin Touched /\ work'[w] = work[w]
    <3>1. WorkGood(w, work[w], parts, tags)
      BY <1>3, <2>1 DEF ShelfInv
    <3> QED BY <1>1, <2>1, <3>1 DEF WorkGood
  <2> QED BY <1>3, <2>1
<1>4. tags' \in BOOLEAN
  BY DEF ShelfInv
<1>5. (\A e \in Files : shelf'[e] # None => EntryGood(e, shelf'[e], parts', tags'))
  BY <1>2
<1>6. (\A w \in Files \cup MediaFiles : work'[w] # None => WorkGood(w, work'[w], parts', tags'))
  BY <1>3
<1>7. AllInPlace(parts)'
  BY DEF ShelfInv, AllInPlace
<1> QED BY <1>4, <1>5, <1>6, <1>7 DEF ShelfInv

(* One that adds no parts and saves nothing.                                *)
LEMMA ShelfQuiet ==
  ASSUME ShelfInv, server' \in 1..Len(Sizes), tags' = tags, file' = None, parts' \in Seq(PartType),
         \A p \in Elems(parts') : p \in Elems(parts),
         DOMAIN shelf' = Files, DOMAIN work' = Files \cup MediaFiles,
         \A e \in Files : shelf'[e] # None => shelf'[e] = shelf[e] \/ EntryGood(e, shelf'[e], parts', tags),
         \A w \in Files \cup MediaFiles : work'[w] # None =>
           work'[w] = work[w] \/ WorkGood(w, work'[w], parts', tags)
  PROVE  ShelfInv'
<1>1. PICK touched : touched = {}
  OBVIOUS
<1>2. Shelf!SavedWhole'
  BY DEF Shelf!SavedWhole
<1>3. \A x : x \notin touched
  BY <1>1
<1> QED BY <1>2, <1>3, ShelfFrame

LEMMA NothingSaved == file' = None => Shelf!SavedWhole'
  BY DEF Shelf!SavedWhole

LEMMA EmptyParts == <<>> \in Seq(PartType) /\ Elems(<<>>) = {}
BY EmptySeq DEF Elems

LEMMA NamedBy ==
  ASSUME NEW x, NEW strict, Named(x, strict), NEW y, y.etag = x.etag, y.total = x.total
  PROVE  Named(y, strict)
BY DEF Named

(* Bytes of one version are in place, and are the version's if they need    *)
(* not be of any.                                                           *)
LEMMA FitsLess ==
  ASSUME NEW bytes, NEW etag, NEW strict, Fits(bytes, etag, strict), NEW other
  PROVE  Fits(bytes, other, FALSE)
BY DEF Fits

LEMMA ShelfStart ==
  ASSUME Shelf!Init
  PROVE  ShelfInv
<1>1. /\ server = 1 /\ tags \in BOOLEAN /\ shelf = [e \in Files |-> None] /\ parts = <<>>
      /\ work = [w \in Files \cup MediaFiles |-> None] /\ file = None
  BY DEF Shelf!Init
<1>2. Shelf!SavedWhole
  BY <1>1 DEF Shelf!SavedWhole
<1>3. server \in 1..Len(Sizes)
  BY <1>1, ShelfAssumed
<1> QED BY <1>1, <1>2, <1>3, EmptyParts DEF ShelfInv, AllInPlace

(* The document changes, and the shelf but for its bytes.                   *)
LEMMA ShelfSteps ==
  ASSUME ShelfInv,
         \/ Shelf!Replace \/ Shelf!ClearDownloads \/ Shelf!Restart
         \/ \E e \in Files : Shelf!AddDownload(e) \/ Shelf!RemoveDownload(e)
  PROVE  ShelfInv'
<1>1. /\ tags' = tags /\ file' = None /\ server \in 1..Len(Sizes) /\ parts \in Seq(PartType)
      /\ DOMAIN shelf = Files /\ DOMAIN work = Files \cup MediaFiles
  BY DEF ShelfInv, Shelf!Replace, Shelf!ClearDownloads, Shelf!Restart, Shelf!AddDownload,
         Shelf!RemoveDownload
<1>2. CASE Shelf!Replace
  <2>1. UNCHANGED <<shelf, parts, work>> /\ server < Len(Sizes) /\ server' = server + 1
    BY <1>2 DEF Shelf!Replace
  <2>2. server' \in 1..Len(Sizes)
    BY <1>1, <2>1, ShelfAssumed
  <2> QED BY <1>1, <2>1, <2>2, NothingSaved DEF ShelfInv
<1>3. CASE Shelf!ClearDownloads
  <2>1. UNCHANGED <<server, work>> /\ shelf' = [e \in Files |-> None] /\ parts' = <<>>
    BY <1>3 DEF Shelf!ClearDownloads
  <2>2. \A p \in Elems(parts') : FALSE
    BY <2>1, EmptyParts
  <2>3. parts' \in Seq(PartType)
    BY <2>1, EmptyParts
  <2> QED BY <1>1, <2>1, <2>2, <2>3, ShelfQuiet
<1>4. CASE Shelf!Restart
  <2>1. UNCHANGED <<server, shelf>> /\ work' = [w \in DOMAIN work |-> None] /\ parts' = <<>>
    BY <1>4 DEF Shelf!Restart
  <2>2. \A p \in Elems(parts') : FALSE
    BY <2>1, EmptyParts
  <2>3. parts' \in Seq(PartType)
    BY <2>1, EmptyParts
  <2> QED BY <1>1, <2>1, <2>2, <2>3, ShelfQuiet
<1>5. ASSUME NEW e \in Files, Shelf!AddDownload(e) PROVE ShelfInv'
  <2>1. PICK x : x = [status |-> "saved", total |-> Sizes[server], etag |-> IF tags THEN server ELSE None]
    OBVIOUS
  <2>2. UNCHANGED <<server, parts, work>> /\ shelf' = [shelf EXCEPT ![e] = x]
    BY <1>5, <2>1 DEF Shelf!AddDownload, Shelf!Etag
  <2>3. Sizes[server] \in Nat \ {0} /\ server \in Nat
    BY <1>1, ShelfAssumed
  <2>4. x \in EntryType
    BY <2>1, <2>3 DEF EntryType, Totals
  <2>5. tags => x.etag = server /\ x.total = Sizes[server]
    BY <2>1
  <2>6. ~Unfinished(x)
    BY <2>1 DEF Unfinished
  <2>7. EntryGood(e, x, parts', tags)
    BY <1>1, <2>4, <2>5, <2>6 DEF EntryGood, Named
  <2>8. \A d \in Files : shelf'[d] = shelf[d] \/ (d = e /\ shelf'[d] = x)
    BY <1>1, <2>2
  <2>9. /\ parts' \in Seq(PartType) /\ server' \in 1..Len(Sizes) /\ \A p \in Elems(parts') : p \in Elems(parts)
    BY <1>1, <2>2
  <2>10. DOMAIN shelf' = Files /\ DOMAIN work' = Files \cup MediaFiles
         /\ \A w \in Files \cup MediaFiles : work'[w] = work[w]
    BY <1>1, <2>2
  <2>11. \A d \in Files : shelf'[d] # None => shelf'[d] = shelf[d] \/ EntryGood(d, shelf'[d], parts', tags)
    BY <2>7, <2>8
  <2> QED BY <1>1, <2>9, <2>10, <2>11, ShelfQuiet
<1>6. ASSUME NEW e \in Files, Shelf!RemoveDownload(e) PROVE ShelfInv'
  <2>1. UNCHANGED <<server, work>> /\ shelf' = [shelf EXCEPT ![e] = None] /\ parts' = Shelf!Without(e)
    BY <1>6 DEF Shelf!RemoveDownload
  <2>2. parts' \in Seq(PartType) /\ \A p \in Elems(parts') : p \in Elems(parts)
    BY <1>1, <2>1, WithoutParts
  <2>3. \A d \in Files : shelf'[d] = shelf[d] \/ shelf'[d] = None
    BY <1>1, <2>1
  <2>4. DOMAIN shelf' = Files /\ work' = work /\ server' = server
    BY <1>1, <2>1
  <2> QED BY <1>1, <2>2, <2>3, <2>4, ShelfQuiet
<1> QED BY <1>2, <1>3, <1>4, <1>5, <1>6

(* UpdateDownload.                                                          *)
LEMMA Updated ==
  ASSUME ShelfInv, NEW e \in Files, NEW status, NEW total, NEW etag,
         Shelf!UpdateDownload(e, status, total, etag)
  PROVE  /\ DOMAIN shelf' = Files
         /\ \A d \in Files : \/ shelf'[d] = shelf[d] /\ (d # e \/ shelf[d] = None)
                             \/ d = e /\ shelf'[d] = [status |-> status, total |-> total, etag |-> etag]
BY DEF ShelfInv, Shelf!UpdateDownload

LEMMA StillGood ==
  ASSUME ShelfInv, NEW x \in EntryType, NEW e, ~Unfinished(x), NEW list,
         Named(x, tags)
  PROVE  EntryGood(e, x, list, tags)
BY DEF EntryGood

LEMMA AgainStep ==
  ASSUME ShelfInv, NEW e \in Files, Shelf!SaveAgain(e)
  PROVE  ShelfInv'
<1>1. PICK old, t, x : /\ old = shelf[e]
                       /\ t = [step |-> "head", entry |-> old, bytes |-> <<>>, older |-> FALSE, total |-> None, etag |-> None, hops |-> 0]
                       /\ x = [status |-> "pending", total |-> old.total, etag |-> old.etag]
  OBVIOUS
<1>2. /\ UNCHANGED <<server, tags, parts>> /\ file' = None /\ old # None
      /\ work' = [work EXCEPT ![e] = t] /\ Shelf!UpdateDownload(e, "pending", old.total, old.etag)
  BY <1>1 DEF Shelf!SaveAgain
<1>3. EntryGood(e, old, parts, tags)
  BY <1>1, <1>2 DEF ShelfInv
<1>4. old \in EntryType
  BY <1>3 DEF EntryGood
<1>5. x \in EntryType /\ x.total = old.total /\ x.etag = old.etag /\ ~Unfinished(x)
  BY <1>1, <1>4 DEF EntryType, Unfinished
<1>6. EntryGood(e, x, parts, tags)
  BY <1>3, <1>5, NamedBy DEF EntryGood
<1>7. <<>> \in Seq(Nat \X Nat)
  BY EmptySeq
<1>8. t \in WorkType /\ t.step = "head" /\ t.entry = old /\ t.hops = 0
  BY <1>1, <1>4, <1>7 DEF WorkType, Totals
<1>9. WorkGood(e, t, parts, tags)
  BY <1>3, <1>8 DEF WorkGood
<1>10. /\ DOMAIN shelf' = Files
       /\ \A d \in Files : shelf'[d] = shelf[d] \/ (d = e /\ shelf'[d] = x)
  BY <1>1, <1>2, Updated
<1>11. /\ DOMAIN work' = Files \cup MediaFiles
       /\ \A w \in Files \cup MediaFiles : work'[w] = work[w] \/ (w = e /\ work'[w] = t)
  BY <1>2 DEF ShelfInv
<1>12. server' \in 1..Len(Sizes) /\ parts' = parts /\ parts' \in Seq(PartType)
  BY <1>2 DEF ShelfInv
<1>13. (\A d \in Files : shelf'[d] # None => shelf'[d] = shelf[d] \/ EntryGood(d, shelf'[d], parts', tags))
  BY <1>6, <1>10, <1>12
<1>14. (\A w \in Files \cup MediaFiles : work'[w] # None => work'[w] = work[w] \/ WorkGood(w, work'[w], parts', tags))
  BY <1>9, <1>11, <1>12
<1>15. tags' = tags /\ \A p \in Elems(parts') : p \in Elems(parts)
  BY <1>2
<1> QED BY <1>2, <1>10, <1>11, <1>12, <1>13, <1>14, <1>15, ShelfQuiet

(* The HEAD is answered, or not: what is retained goes on if it is of the   *)
(* version that the transfer names.                                         *)
LEMMA HeadStep ==
  ASSUME ShelfInv, NEW e \in Files, NEW known \in BOOLEAN, Shelf!HeadAnswered(e, known)
  PROVE  ShelfInv'
<1>1. PICK old, entry : old = work[e] /\ entry = old.entry
  OBVIOUS
<1>2. PICK size, tag : /\ size = (IF known THEN Sizes[server] ELSE None)
                       /\ tag = (IF known THEN Shelf!Etag(server) ELSE None)
  OBVIOUS
<1>3. PICK total, etag : total = Shelf!Or(size, entry.total) /\ etag = Shelf!Or(tag, entry.etag)
  OBVIOUS
<1>4. PICK bytes, older : bytes = Shelf!Reusable(e, etag) /\ older = (bytes # <<>> /\ Shelf!OlderPart(e))
  OBVIOUS
<1>12. PICK t, x : /\ t = [step |-> "get", entry |-> entry, bytes |-> bytes, older |-> older,
                           total |-> total, etag |-> etag, hops |-> 0]
                   /\ x = [status |-> "pending", total |-> total, etag |-> etag]
  OBVIOUS
<1>5. /\ UNCHANGED <<server, tags, parts>> /\ file' = None
      /\ old # None /\ old.step = "head"
      /\ work' = [work EXCEPT ![e] = t]
      /\ Shelf!UpdateDownload(e, "pending", total, etag)
  BY <1>1, <1>2, <1>3, <1>4, <1>12 DEF Shelf!HeadAnswered
<1>6. old \in WorkType /\ EntryGood(e, entry, parts, tags) /\ old.hops = 0
  <2>1. WorkGood(e, old, parts, tags)
    BY <1>1, <1>5 DEF ShelfInv
  <2>2. "head" # "get"
    OBVIOUS
  <2> QED BY <1>1, <1>5, <2>1, <2>2 DEF WorkGood, Going
<1>7. entry \in EntryType /\ entry.total \in Totals /\ entry.etag \in Nat \cup {None}
      /\ (tags => entry.etag \in 1..Len(Sizes) /\ entry.total = Sizes[entry.etag])
  BY <1>6 DEF EntryGood, EntryType, Named
<1>8. server \in 1..Len(Sizes) /\ server \in Nat /\ Sizes[server] \in Nat \ {0} /\ None \notin Nat
      /\ tags \in BOOLEAN
  BY ShelfAssumed DEF ShelfInv
<1>9. total \in Totals /\ etag \in Nat \cup {None}
  BY <1>2, <1>3, <1>7, <1>8 DEF Shelf!Or, Shelf!Etag, Totals
<1>10. tags => etag \in 1..Len(Sizes) /\ total = Sizes[etag]
  <2> SUFFICES ASSUME tags PROVE etag \in 1..Len(Sizes) /\ total = Sizes[etag]
    OBVIOUS
  <2>1. CASE known
    <3>1. size = Sizes[server] /\ tag = server
      BY <1>2, <2>1 DEF Shelf!Etag
    <3>2. total = Sizes[server] /\ etag = server
      BY <1>3, <1>8, <3>1 DEF Shelf!Or
    <3> QED BY <1>8, <3>2
  <2>2. CASE ~known
    <3>1. total = entry.total /\ etag = entry.etag
      BY <1>2, <1>3, <2>2 DEF Shelf!Or
    <3> QED BY <1>7, <3>1
  <2> QED BY <2>1, <2>2
<1>11. Fits(bytes, etag, tags /\ ~older)
  <2>1. bytes = IF Unfinished(entry) /\ (entry.etag = None \/ etag = None \/ entry.etag = etag)
                THEN Shelf!PartOf(e) ELSE <<>>
    BY <1>1, <1>4 DEF Shelf!Reusable, Unfinished
  <2>2. CASE bytes = <<>>
    BY <2>2, EmptySeq DEF Fits
  <2>3. CASE bytes # <<>>
    <3>1. Unfinished(entry) /\ (entry.etag = None \/ etag = None \/ entry.etag = etag)
          /\ bytes = Shelf!PartOf(e)
      BY <2>1, <2>3
    <3>2. PICK p \in Elems(parts) : p.entry = e /\ bytes = p.bytes
      BY <2>3, <3>1, FoundPart
    <3>3. Fits(bytes, entry.etag, tags /\ ~p.older)
      BY <1>6, <3>1, <3>2 DEF EntryGood
    <3>4. tags => entry.etag = etag
      BY <1>7, <1>8, <1>10, <3>1
    <3>5. ~older => ~p.older
      <4>1. \E i \in DOMAIN parts : parts[i] = p
        BY DEF Elems
      <4> QED BY <1>4, <2>3, <3>2, <4>1 DEF Shelf!OlderPart
    <3> QED BY <3>3, <3>4, <3>5 DEF Fits
  <2> QED BY <2>2, <2>3
<1>14. WorkGood(e, t, parts, tags)
  <2>1. bytes \in Seq(Nat \X Nat) /\ older \in BOOLEAN /\ 0 \in Nat
    BY <1>4, <1>11 DEF Fits
  <2>2. entry \in EntryType \cup {None}
    BY <1>7
  <2>3. t \in WorkType
    BY <1>9, <1>12, <2>1, <2>2 DEF WorkType
  <2>4. t.step = "get" /\ t.bytes = bytes /\ t.older = older /\ t.etag = etag /\ t.total = total /\ t.hops = 0
    BY <1>12
  <2>5. Named(t, tags)
    BY <1>10, <2>4 DEF Named
  <2> QED BY <1>11, <2>3, <2>4, <2>5 DEF WorkGood, Going
<1>15. EntryGood(e, x, parts, tags)
  <2>1. x \in EntryType /\ x.total = total /\ x.etag = etag /\ ~Unfinished(x)
    BY <1>9, <1>12 DEF EntryType, Unfinished
  <2> QED BY <1>10, <2>1 DEF EntryGood, Named
<1>16. /\ DOMAIN shelf' = Files
       /\ \A d \in Files : shelf'[d] = shelf[d] \/ (d = e /\ shelf'[d] = x)
  BY <1>5, <1>12, Updated
<1>17. /\ DOMAIN work' = Files \cup MediaFiles
       /\ \A w \in Files \cup MediaFiles : work'[w] = work[w] \/ (w = e /\ work'[w] = t)
  BY <1>5 DEF ShelfInv
<1>18. server' \in 1..Len(Sizes) /\ parts' = parts /\ parts' \in Seq(PartType)
  BY <1>5 DEF ShelfInv
<1>19. (\A d \in Files : shelf'[d] # None => shelf'[d] = shelf[d] \/ EntryGood(d, shelf'[d], parts', tags))
  BY <1>15, <1>16, <1>18
<1>20. (\A w \in Files \cup MediaFiles : work'[w] # None => work'[w] = work[w] \/ WorkGood(w, work'[w], parts', tags))
  BY <1>14, <1>17, <1>18
<1>21. tags' = tags /\ \A p \in Elems(parts') : p \in Elems(parts)
  BY <1>5
<1> QED BY <1>5, <1>16, <1>17, <1>18, <1>19, <1>20, <1>21, ShelfQuiet
-----------------------------------------------------------------------------
(* Transfers.                                                               *)

(* The fields of a transfer, as values.                                     *)
LEMMA TransferFields ==
  ASSUME NEW t, NEW strict, Going(t, strict)
  PROVE  /\ t.bytes \in Seq(Nat \X Nat) /\ Len(t.bytes) \in Nat /\ t.total \in Totals
         /\ t.etag \in Nat \cup {None} /\ t.hops \in Nat /\ t.entry \in EntryType \cup {None}
         /\ \A i \in 1..Len(t.bytes) : t.bytes[i][2] = i
         /\ t.older \in BOOLEAN
         /\ strict /\ t.bytes # <<>> => t.etag \in 1..Len(Sizes) /\ t.total = Sizes[t.etag]
         /\ strict /\ ~t.older /\ t.bytes # <<>> =>
              /\ Len(t.bytes) <= Sizes[t.etag] /\ \A i \in 1..Len(t.bytes) : t.bytes[i][1] = t.etag
<1>1. t \in WorkType
  BY DEF Going
<1>2. /\ t.bytes \in Seq(Nat \X Nat) /\ t.total \in Totals /\ t.etag \in Nat \cup {None}
      /\ t.hops \in Nat /\ t.entry \in EntryType \cup {None} /\ t.older \in BOOLEAN
  BY <1>1 DEF WorkType
<1>3. Len(t.bytes) \in Nat
  BY <1>2
<1> QED BY <1>2, <1>3 DEF Going, Fits, Named

(* With enough bytes a file is whole, and is cut to the length of its       *)
(* version, that it has.                                                    *)
LEMMA EnoughIsWhole ==
  ASSUME NEW t, Going(t, tags), Shelf!Enough(t), tags \in BOOLEAN
  PROVE  /\ t.bytes # <<>>
         /\ \A i \in DOMAIN Shelf!Cut(t) : Shelf!Cut(t)[i][2] = i
         /\ tags /\ ~t.older => \E v \in DOMAIN Sizes : Shelf!Cut(t) = Shelf!Bytes(v)
<1>1. PICK bytes, n, total : bytes = t.bytes /\ n = Len(bytes) /\ total = t.total
  OBVIOUS
<1>2. /\ bytes \in Seq(Nat \X Nat) /\ n \in Nat /\ total \in Nat /\ total > 0 /\ n >= total
      /\ \A i \in 1..n : bytes[i][2] = i
  <2>1. total # None /\ n >= total
    BY <1>1 DEF Shelf!Enough
  <2>2. total \in Nat \ {0}
    BY <1>1, <2>1, TransferFields DEF Totals
  <2> QED BY <1>1, <2>1, <2>2, TransferFields
<1>3. bytes # <<>>
  BY <1>1, <1>2
<1>4. PICK s : s = Shelf!Cut(t)
  OBVIOUS
<1>5. s = IF n > total THEN SubSeq(bytes, 1, total) ELSE bytes
  BY <1>1, <1>4 DEF Shelf!Cut, Shelf!Enough
<1>6. \A i \in DOMAIN s : s[i][2] = i
  <2>1. CASE n > total
    <3>1. s \in Seq(Nat \X Nat) /\ Len(s) = total /\ \A i \in 1..total : s[i] = bytes[i]
      <4>1. s = SubSeq(bytes, 1, total) /\ 1 \in Int /\ total \in Int /\ 1 <= total /\ total - 1 + 1 = total
        BY <1>2, <1>5, <2>1
      <4>2. \A i \in 1..total : i \in 1..n /\ 1 + i - 1 = i
        BY <1>2, <2>1
      <4>3. \A i \in 1..total : bytes[i] \in Nat \X Nat
        BY <1>1, <1>2, <4>2, ElementOfSeq
      <4>4. /\ s \in Seq(Nat \X Nat) /\ Len(s) = total
            /\ \A i \in 1..total : s[i] = bytes[1 + i - 1]
        BY <4>1, <4>3, SubSeqProperties
      <4> QED BY <4>2, <4>4
    <3>2. DOMAIN s = 1..total
      BY <3>1
    <3>3. \A i \in 1..total : i \in 1..n
      BY <1>2, <2>1
    <3> QED BY <1>2, <3>1, <3>2, <3>3
  <2>2. CASE ~(n > total)
    BY <1>1, <1>2, <1>5, <2>2
  <2> QED BY <2>1, <2>2
<1>7. ASSUME tags, ~t.older PROVE \E v \in DOMAIN Sizes : s = Shelf!Bytes(v)
  <2>1. PICK v : v = t.etag
    OBVIOUS
  <2>2. /\ v \in 1..Len(Sizes) /\ total = Sizes[v] /\ n <= Sizes[v]
        /\ \A i \in 1..n : bytes[i][1] = v
    BY <1>1, <1>3, <1>7, <2>1, TransferFields
  <2>3. n = total /\ s = bytes
    BY <1>2, <1>5, <2>2
  <2>4. \A i \in 1..n : bytes[i] = <<v, i>>
    <3> TAKE i \in 1..n
    <3>1. bytes[i] \in Nat \X Nat
      BY <1>1, <1>2, ElementOfSeq
    <3> QED BY <1>2, <2>2, <3>1
  <2>5. bytes = [i \in 1..n |-> bytes[i]]
    BY <1>1, <1>2
  <2>6. bytes = [i \in 1..Sizes[v] |-> <<v, i>>]
    BY <2>2, <2>3, <2>4, <2>5
  <2> QED BY <2>2, <2>3, <2>6, ShelfAssumed DEF Shelf!Bytes
<1> QED BY <1>1, <1>3, <1>4, <1>6, <1>7

LEMMA FinishedStep ==
  ASSUME ShelfInv, NEW w \in Files \cup MediaFiles, NEW t, Going(t, tags), Shelf!Enough(t),
         Shelf!Finished(w, t), UNCHANGED <<server, tags>>
  PROVE  ShelfInv'
<1>1. PICK touched, x : touched = {w} /\ x = [status |-> "saved", total |-> t.total, etag |-> t.etag]
  OBVIOUS
<1>2. tags \in BOOLEAN /\ parts \in Seq(PartType) /\ server' \in 1..Len(Sizes)
  BY DEF ShelfInv
<1>3. Shelf!SavedWhole'
  <2>1. file' = [bytes |-> Shelf!Cut(t), older |-> t.older]
    BY DEF Shelf!Finished
  <2>2. /\ \A i \in DOMAIN file'.bytes : file'.bytes[i][2] = i
        /\ tags' /\ ~file'.older => \E v \in DOMAIN Sizes : file'.bytes = Shelf!Bytes(v)
    BY <1>2, <2>1, EnoughIsWhole
  <2> QED BY <2>2 DEF Shelf!SavedWhole
<1>4. DOMAIN work' = Files \cup MediaFiles
      /\ \A u \in Files \cup MediaFiles : work'[u] = None \/ (u \notin touched /\ work'[u] = work[u])
  BY <1>1 DEF Shelf!Finished, ShelfInv
<1>5. CASE w \in Files
  <2>1. /\ Shelf!UpdateDownload(w, "saved", t.total, t.etag) /\ parts' = Shelf!Without(w)
    BY <1>5 DEF Shelf!Finished
  <2>2. /\ DOMAIN shelf' = Files
        /\ \A d \in Files : \/ shelf'[d] = shelf[d] /\ (d # w \/ shelf[d] = None)
                            \/ d = w /\ shelf'[d] = x
    BY <1>1, <1>5, <2>1, Updated
  <2>3. parts' \in Seq(PartType) /\ \A p \in Elems(parts') : p \in Elems(parts)
    BY <1>2, <2>1, WithoutParts
  <2>4. EntryGood(w, x, parts', tags)
    <3>1. t.total \in Totals /\ t.etag \in Nat \cup {None}
          /\ (tags => t.etag \in 1..Len(Sizes) /\ t.total = Sizes[t.etag])
      BY <1>2, TransferFields, EnoughIsWhole
    <3>2. x \in EntryType /\ x.total = t.total /\ x.etag = t.etag /\ ~Unfinished(x)
      BY <1>1, <3>1 DEF EntryType, Unfinished
    <3> QED BY <3>1, <3>2 DEF EntryGood, Named
  <2>5. \A d \in Files : shelf'[d] # None => (d \notin touched /\ shelf'[d] = shelf[d]) \/ EntryGood(d, shelf'[d], parts', tags)
    BY <1>1, <2>2, <2>4
  <2> QED BY <1>2, <1>3, <1>4, <2>2, <2>3, <2>5, ShelfFrame
<1>6. CASE w \notin Files
  <2>1. UNCHANGED <<shelf, parts>>
    BY <1>6 DEF Shelf!Finished
  <2>2. DOMAIN shelf' = Files /\ parts' \in Seq(PartType) /\ \A p \in Elems(parts') : p \in Elems(parts)
    BY <1>2, <2>1 DEF ShelfInv
  <2>3. \A d \in Files : d \notin touched /\ shelf'[d] = shelf[d]
    BY <1>1, <1>6, <2>1
  <2> QED BY <1>2, <1>3, <1>4, <2>2, <2>3, ShelfFrame
<1> QED BY <1>5, <1>6

(* What was retained of an entry when another attempt got nothing.          *)
LEMMA MarkedParts ==
  ASSUME parts \in Seq(PartType), AllInPlace(parts), NEW e
  PROVE  /\ Shelf!Marked(e) \in Seq(PartType)
         /\ \A p \in Elems(Shelf!Marked(e)) :
              (p \in Elems(parts) /\ p.entry # e) \/ (p.entry = e /\ p.older /\ Fits(p.bytes, None, FALSE))
<1>1. PICK s, n, T : s = Shelf!Marked(e) /\ n = Len(parts) /\ T = PartType
  OBVIOUS
<1>2. n \in Nat /\ DOMAIN parts = 1..n
  BY <1>1
<1>3. /\ DOMAIN s = 1..n
      /\ \A i \in 1..n : s[i] = [parts[i] EXCEPT !.older = @ \/ parts[i].entry = e]
  BY <1>1, <1>2 DEF Shelf!Marked
<1>4. ASSUME NEW i \in 1..n
      PROVE  /\ s[i] \in T
             /\ \/ s[i] = parts[i] /\ s[i].entry # e
                \/ s[i].entry = e /\ s[i].older /\ s[i].bytes = parts[i].bytes
  <2>1. PICK p, q : p = parts[i] /\ q = s[i]
    OBVIOUS
  <2>2. p \in PartType
    BY <1>1, <2>1, ElementOfSeq
  <2>3. q = [p EXCEPT !.older = @ \/ p.entry = e]
    BY <1>3, <2>1
  <2>4. q.entry = p.entry /\ q.bytes = p.bytes /\ q.older = (p.older \/ p.entry = e)
    BY <2>2, <2>3 DEF PartType
  <2>5. q = [entry |-> p.entry, bytes |-> p.bytes, older |-> (p.older \/ p.entry = e)]
    BY <2>2, <2>3 DEF PartType
  <2>6. q \in PartType
    BY <2>2, <2>5 DEF PartType
  <2>7. p.entry # e => q = p
    <3>1. p = [entry |-> p.entry, bytes |-> p.bytes, older |-> p.older] /\ p.older \in BOOLEAN
      BY <2>2 DEF PartType
    <3>2. p.entry # e => (p.older \/ p.entry = e) = p.older
      BY <3>1
    <3> QED BY <2>5, <3>1, <3>2
  <2> QED BY <1>1, <2>1, <2>4, <2>6, <2>7
<1>5. s \in Seq(T) /\ Len(s) = n
  <2>1. s = [i \in 1..n |-> s[i]]
    BY <1>1, <1>2 DEF Shelf!Marked
  <2>2. s \in [1..n -> T]
    BY <1>4, <2>1
  <2>3. s \in Seq(T)
    BY <1>2, <2>2, SeqDef
  <2> QED BY <1>2, <2>2, <2>3, LenProperties
<1>6. ASSUME NEW p \in Elems(s)
      PROVE  (p \in Elems(parts) /\ p.entry # e) \/ (p.entry = e /\ p.older /\ Fits(p.bytes, None, FALSE))
  <2>1. PICK i \in 1..n : s[i] = p
    BY <1>5, <1>6, ElemsAre
  <2>2. parts[i] \in Elems(parts)
    BY <1>2 DEF Elems
  <2>3. Fits(parts[i].bytes, None, FALSE)
    BY <2>2 DEF AllInPlace
  <2> QED BY <1>4, <2>1, <2>2, <2>3
<1> QED BY <1>1, <1>5, <1>6

(* The bytes of a transfer that failed are retained, of the version the     *)
(* entry now names; if it had none, those from before are marked.           *)
LEMMA FailedStep ==
  ASSUME ShelfInv, NEW w \in Files \cup MediaFiles, NEW t, Going(t, tags), Going(work[w], tags),
         w \in Files => Named(t, tags), Shelf!Failed(w, t), UNCHANGED <<server, tags>>
  PROVE  ShelfInv'
<1>1. PICK touched : touched = {w}
  OBVIOUS
<1>2. tags \in BOOLEAN /\ parts \in Seq(PartType) /\ server' \in 1..Len(Sizes)
  BY DEF ShelfInv
<1>3. Shelf!SavedWhole'
  BY NothingSaved DEF Shelf!Failed
<1>4. DOMAIN work' = Files \cup MediaFiles
      /\ \A u \in Files \cup MediaFiles : work'[u] = None \/ (u \notin touched /\ work'[u] = work[u])
  BY <1>1 DEF Shelf!Failed, ShelfInv
<1>5. CASE w \in Files /\ t.bytes # <<>>
  <2>1. PICK total, etag : total = Shelf!Or(t.total, work[w].total) /\ etag = Shelf!Or(t.etag, work[w].etag)
    OBVIOUS
  <2>2. PICK x, part, bytes : /\ x = [status |-> "partial", total |-> total, etag |-> etag]
                              /\ bytes = t.bytes /\ part = [entry |-> w, bytes |-> bytes, older |-> t.older]
    OBVIOUS
  <2>3. /\ Shelf!UpdateDownload(w, "partial", total, etag) /\ Shelf!Retain(w, t)
    BY <1>5, <2>1, <2>2 DEF Shelf!Failed
  <2>4. /\ DOMAIN shelf' = Files
        /\ \A d \in Files : \/ shelf'[d] = shelf[d] /\ (d # w \/ shelf[d] = None)
                            \/ d = w /\ shelf'[d] = x
    BY <1>5, <2>2, <2>3, Updated
  <2>5. PICK others, T : others = Shelf!Without(w) /\ T = PartType
    OBVIOUS
  <2>6. others \in Seq(T) /\ \A p \in Elems(others) : p \in Elems(parts) /\ p.entry # w
    BY <1>2, <2>5, WithoutParts
  <2>7. part \in T /\ part.entry = w /\ part.bytes = bytes /\ part.older = t.older
    BY <1>5, <2>2, <2>5, TransferFields DEF PartType
  <2>8. PICK list : list = Append(others, part)
    OBVIOUS
  <2>9. list \in Seq(T) /\ list # <<>> /\ \A p \in Elems(list) : p \in Elems(others) \/ p = part
    <3>1. list \in Seq(T) /\ Len(list) = Len(others) + 1 /\ Len(others) \in Nat
      BY <2>6, <2>7, <2>8
    <3>2. list[Len(others) + 1] = part /\ \A i \in 1..Len(others) : list[i] = others[i]
      BY <2>6, <2>7, <2>8
    <3>3. ASSUME NEW p \in Elems(list) PROVE p \in Elems(others) \/ p = part
      <4>1. PICK i \in 1..Len(list) : list[i] = p
        BY <3>1, <3>3, ElemsAre
      <4>2. i \in 1..Len(others) \/ i = Len(others) + 1
        BY <3>1
      <4> QED BY <2>6, <3>2, <4>1, <4>2, ElemsAre
    <3>4. list # <<>>
      BY <3>1
    <3> QED BY <3>1, <3>3, <3>4
  <2>10. parts' = Shelf!Bounded(list)
    BY <1>5, <2>2, <2>3, <2>5, <2>8 DEF Shelf!Retain
  <2>11. parts' \in Seq(T) /\ \A p \in Elems(parts') : p \in Elems(others) \/ p = part
    BY <2>9, <2>10, BoundedParts
  <2>12. \A p \in Elems(parts') : p \in Elems(parts) \/ (p.entry \in touched /\ Fits(p.bytes, None, FALSE))
    <3>1. Fits(bytes, None, FALSE)
      BY <2>2, FitsLess DEF Going
    <3> QED BY <1>1, <2>6, <2>7, <2>11, <3>1
  <2>13. EntryGood(w, x, parts', tags)
    <3>1. /\ t.total \in Totals /\ t.etag \in Nat \cup {None}
          /\ work[w].total \in Totals /\ work[w].etag \in Nat \cup {None}
      BY TransferFields
    <3>2. tags => t.etag \in 1..Len(Sizes) /\ t.total = Sizes[t.etag]
      BY <1>5 DEF Named
    <3>3. total \in Totals /\ etag \in Nat \cup {None}
      BY <2>1, <3>1 DEF Shelf!Or
    <3>4. tags => etag = t.etag /\ total = t.total
      BY <2>1, <3>2, ShelfAssumed DEF Shelf!Or
    <3>5. x \in EntryType /\ x.total = total /\ x.etag = etag
      BY <2>2, <3>3 DEF EntryType
    <3>6. Fits(bytes, etag, tags /\ ~t.older)
      BY <2>2, <3>4 DEF Going, Fits
    <3>7. ASSUME NEW p \in Elems(parts'), p.entry = w PROVE Fits(p.bytes, x.etag, tags /\ ~p.older)
      <4>1. p = part
        BY <2>6, <2>11, <3>7
      <4> QED BY <2>7, <3>5, <3>6, <4>1
    <3> QED BY <3>2, <3>4, <3>5, <3>7 DEF EntryGood, Named
  <2>14. \A d \in Files : shelf'[d] # None => (d \notin touched /\ shelf'[d] = shelf[d]) \/ EntryGood(d, shelf'[d], parts', tags)
    BY <1>1, <2>4, <2>13
  <2>15. parts' \in Seq(PartType)
    BY <2>5, <2>11
  <2> QED BY <1>2, <1>3, <1>4, <2>4, <2>12, <2>14, <2>15, ShelfFrame
<1>7. CASE w \in Files /\ t.bytes = <<>>
  <2>1. PICK total, etag, x : /\ total = Shelf!Or(t.total, work[w].total) /\ etag = Shelf!Or(t.etag, work[w].etag)
                              /\ x = [status |-> "failed", total |-> total, etag |-> etag]
    OBVIOUS
  <2>2. Shelf!UpdateDownload(w, "failed", total, etag) /\ parts' = Shelf!Marked(w)
    BY <1>7, <2>1 DEF Shelf!Failed, Shelf!Retain
  <2>3. /\ DOMAIN shelf' = Files
        /\ \A d \in Files : \/ shelf'[d] = shelf[d] /\ (d # w \/ shelf[d] = None)
                            \/ d = w /\ shelf'[d] = x
    BY <1>7, <2>1, <2>2, Updated
  <2>4. /\ parts' \in Seq(PartType)
        /\ \A p \in Elems(parts') :
             (p \in Elems(parts) /\ p.entry # w) \/ (p.entry = w /\ p.older /\ Fits(p.bytes, None, FALSE))
    BY <1>2, <2>2, MarkedParts DEF ShelfInv
  <2>5. EntryGood(w, x, parts', tags)
    <3>1. /\ t.total \in Totals /\ t.etag \in Nat \cup {None}
          /\ work[w].total \in Totals /\ work[w].etag \in Nat \cup {None}
      BY TransferFields
    <3>2. tags => t.etag \in 1..Len(Sizes) /\ t.total = Sizes[t.etag]
      BY <1>7 DEF Named
    <3>3. total \in Totals /\ etag \in Nat \cup {None}
      BY <2>1, <3>1 DEF Shelf!Or
    <3>4. tags => etag = t.etag /\ total = t.total
      BY <2>1, <3>2, ShelfAssumed DEF Shelf!Or
    <3>5. x \in EntryType /\ x.total = total /\ x.etag = etag
      BY <2>1, <3>3 DEF EntryType
    <3>6. ASSUME NEW p \in Elems(parts'), p.entry = w PROVE Fits(p.bytes, x.etag, tags /\ ~p.older)
      <4>1. p.older /\ Fits(p.bytes, None, FALSE)
        BY <2>4, <3>6
      <4> QED BY <4>1 DEF Fits
    <3> QED BY <3>2, <3>4, <3>5, <3>6 DEF EntryGood, Named
  <2>6. \A d \in Files : shelf'[d] # None => (d \notin touched /\ shelf'[d] = shelf[d]) \/ EntryGood(d, shelf'[d], parts', tags)
    BY <1>1, <2>3, <2>5
  <2>7. \A p \in Elems(parts') : p \in Elems(parts) \/ (p.entry \in touched /\ Fits(p.bytes, None, FALSE))
    BY <1>1, <2>4
  <2> QED BY <1>2, <1>3, <1>4, <2>3, <2>4, <2>6, <2>7, ShelfFrame
<1>6. CASE w \notin Files
  <2>1. UNCHANGED <<shelf, parts>>
    BY <1>6 DEF Shelf!Failed
  <2>2. DOMAIN shelf' = Files /\ parts' \in Seq(PartType) /\ \A p \in Elems(parts') : p \in Elems(parts)
    BY <1>2, <2>1 DEF ShelfInv
  <2>3. \A d \in Files : d \notin touched /\ shelf'[d] = shelf[d]
    BY <1>1, <1>6, <2>1
  <2> QED BY <1>2, <1>3, <1>4, <2>2, <2>3, ShelfFrame
<1> QED BY <1>5, <1>6, <1>7

LEMMA TookStep ==
  ASSUME ShelfInv, NEW w \in Files \cup MediaFiles, NEW t, Going(t, tags), t.bytes # <<>>,
         Going(work[w], tags), Shelf!Took(w, t), UNCHANGED <<server, tags>>
  PROVE  ShelfInv'
<1>0. Named(t, tags)
  BY DEF Going
<1>1. CASE Shelf!Failed(w, t)
  BY <1>0, <1>1, FailedStep
<1>2. CASE Shelf!Enough(t) /\ Shelf!Finished(w, t)
  BY <1>2, FinishedStep
<1>3. CASE work' = [work EXCEPT ![w] = t] /\ file' = None /\ UNCHANGED <<shelf, parts>>
  <2>1. /\ DOMAIN work' = Files \cup MediaFiles
        /\ \A u \in Files \cup MediaFiles : work'[u] = work[u] \/ (u = w /\ work'[u] = t)
    BY <1>3 DEF ShelfInv
  <2>2. WorkGood(w, t, parts', tags)
    BY <1>0 DEF WorkGood
  <2>3. /\ server' \in 1..Len(Sizes) /\ parts' \in Seq(PartType) /\ DOMAIN shelf' = Files
        /\ \A p \in Elems(parts') : p \in Elems(parts)
    BY <1>3 DEF ShelfInv
  <2>4. \A u \in Files \cup MediaFiles : work'[u] # None => work'[u] = work[u] \/ WorkGood(u, work'[u], parts', tags)
    BY <2>1, <2>2
  <2>5. \A e \in Files : shelf'[e] = shelf[e]
    BY <1>3
  <2> QED BY <1>3, <2>1, <2>3, <2>4, <2>5, ShelfQuiet
<1> QED BY <1>1, <1>2, <1>3 DEF Shelf!Took

(* The bytes of a version, from a place on.                                 *)
LEMMA BytesAre ==
  ASSUME NEW v \in 1..Len(Sizes)
  PROVE  /\ Shelf!Bytes(v) \in Seq(Nat \X Nat) /\ Len(Shelf!Bytes(v)) = Sizes[v]
         /\ \A i \in 1..Sizes[v] : Shelf!Bytes(v)[i] = <<v, i>>
<1>1. PICK n, s : n = Sizes[v] /\ s = [i \in 1..n |-> <<v, i>>]
  OBVIOUS
<1>2. n \in Nat /\ v \in Nat
  BY <1>1, ShelfAssumed
<1>3. \A i \in 1..n : <<v, i>> \in Nat \X Nat
  BY <1>2
<1>4. s \in [1..n -> Nat \X Nat]
  BY <1>1, <1>3
<1>5. s \in Seq(Nat \X Nat)
  BY <1>2, <1>4, SeqDef
<1>6. Len(s) = n
  BY <1>2, <1>4, <1>5, LenProperties
<1> QED BY <1>1, <1>5, <1>6 DEF Shelf!Bytes

Replaced(t, bytes, older, total, etag, hops) ==
  [t EXCEPT !.bytes = bytes, !.older = older, !.total = total, !.etag = etag, !.hops = hops]

LEMMA FieldsReplaced ==
  ASSUME NEW t \in WorkType, NEW bytes, NEW older, NEW total, NEW etag, NEW hops
  PROVE  Replaced(t, bytes, older, total, etag, hops)
           = [step |-> t.step, entry |-> t.entry, bytes |-> bytes, older |-> older, total |-> total, etag |-> etag, hops |-> hops]
<1>1. t = [step |-> t.step, entry |-> t.entry, bytes |-> t.bytes, older |-> t.older, total |-> t.total, etag |-> t.etag, hops |-> t.hops]
  BY DEF WorkType
<1>2. PICK a : a = [t EXCEPT !.bytes = bytes]
  OBVIOUS
<1>0. PICK a2 : a2 = [a EXCEPT !.older = older]
  OBVIOUS
<1>3. PICK b : b = [a2 EXCEPT !.total = total]
  OBVIOUS
<1>4. PICK c : c = [b EXCEPT !.etag = etag]
  OBVIOUS
<1>5. a = [step |-> t.step, entry |-> t.entry, bytes |-> bytes, older |-> t.older, total |-> t.total, etag |-> t.etag, hops |-> t.hops]
  BY <1>1, <1>2
<1>9. a2 = [step |-> t.step, entry |-> t.entry, bytes |-> bytes, older |-> older, total |-> t.total, etag |-> t.etag, hops |-> t.hops]
  BY <1>0, <1>5
<1>6. b = [step |-> t.step, entry |-> t.entry, bytes |-> bytes, older |-> older, total |-> total, etag |-> t.etag, hops |-> t.hops]
  BY <1>3, <1>9
<1>7. c = [step |-> t.step, entry |-> t.entry, bytes |-> bytes, older |-> older, total |-> total, etag |-> etag, hops |-> t.hops]
  BY <1>4, <1>6
<1>8. [c EXCEPT !.hops = hops]
        = [step |-> t.step, entry |-> t.entry, bytes |-> bytes, older |-> older, total |-> total, etag |-> etag, hops |-> hops]
  BY <1>7
<1> QED BY <1>0, <1>2, <1>3, <1>4, <1>8 DEF Replaced

(* A 200: all of the document.                                              *)
LEMMA WholeStep ==
  ASSUME ShelfInv, NEW w \in Files \cup MediaFiles, Going(work[w], tags), Shelf!WholeAnswered(w)
  PROVE  ShelfInv'
<1>1. PICK t, v, bytes, size : t = work[w] /\ v = server /\ bytes = Shelf!Bytes(v) /\ size = Sizes[v]
  OBVIOUS
<1>2. PICK etag, hops : etag = Shelf!Or(Shelf!Etag(v), t.etag) /\ hops = t.hops + 1
  OBVIOUS
<1>0. PICK older : older = FALSE
  OBVIOUS
<1>3. PICK next : next = [step |-> "get", entry |-> t.entry, bytes |-> bytes, older |-> older, total |-> size, etag |-> etag, hops |-> hops]
  OBVIOUS
<1>4. v \in 1..Len(Sizes) /\ v \in Nat /\ size \in Nat /\ size > 0 /\ tags \in BOOLEAN /\ None \notin Nat
  BY <1>1, ShelfAssumed DEF ShelfInv
<1>5. /\ bytes \in Seq(Nat \X Nat) /\ Len(bytes) = size
      /\ \A i \in 1..size : bytes[i] = <<v, i>>
  BY <1>1, <1>4, BytesAre
<1>6. t \in WorkType /\ t.step = "get" /\ t.entry \in EntryType \cup {None} /\ t.etag \in Nat \cup {None} /\ t.hops \in Nat
  BY <1>1, TransferFields DEF Going
<1>7. Shelf!TakeWhole(t) = next
  <2>0. PICK r : r = Shelf!TakeWhole(t)
    OBVIOUS
  <2>1. r = Replaced(t, bytes, older, size, etag, hops)
    BY <1>0, <1>1, <1>2, <2>0 DEF Shelf!TakeWhole, Shelf!Answered, Replaced
  <2>2. r = [step |-> t.step, entry |-> t.entry, bytes |-> bytes, older |-> older, total |-> size, etag |-> etag, hops |-> hops]
    <3>1. t \in WorkType
      BY <1>6
    <3> QED BY <2>1, <3>1, FieldsReplaced
  <2>3. t.step = "get"
    BY <1>6
  <2> QED BY <1>3, <2>0, <2>2, <2>3
<1>8. Shelf!Took(w, next) /\ UNCHANGED <<server, tags>>
  BY <1>1, <1>7 DEF Shelf!WholeAnswered
<1>9. etag \in Nat \cup {None} /\ (tags => etag = v)
  BY <1>2, <1>4, <1>6 DEF Shelf!Or, Shelf!Etag
<1>10. Fits(bytes, etag, tags /\ ~next.older)
  BY <1>4, <1>5, <1>9, <1>1 DEF Fits
<1>11. bytes # <<>>
  BY <1>4, <1>5
<1>12. Going(next, tags)
  <2>1. next.step = "get" /\ next.bytes = bytes /\ next.total = size /\ next.etag = etag
    BY <1>3
  <2>0. older \in BOOLEAN
    BY <1>0
  <2>2. next \in WorkType
    BY <2>0, <1>2, <1>3, <1>4, <1>5, <1>6, <1>9 DEF WorkType, Totals
  <2>3. Named(next, tags)
    BY <1>1, <1>4, <1>9, <2>1 DEF Named
  <2> QED BY <1>10, <1>11, <2>1, <2>2, <2>3 DEF Going
<1>13. next.bytes # <<>>
  BY <1>3, <1>11
<1> QED BY <1>8, <1>12, <1>13, TookStep

(* A 206: the bytes that follow, of the version there are some of.          *)
LEMMA RangeStep ==
  ASSUME ShelfInv, NEW w \in Files \cup MediaFiles, Going(work[w], tags), Shelf!RangeAnswered(w)
  PROVE  ShelfInv'
<1>1. PICK t, v, whole, size, n : /\ t = work[w] /\ v = server /\ whole = Shelf!Bytes(v) /\ size = Sizes[v]
                                  /\ n = Len(t.bytes)
  OBVIOUS
<1>2. PICK k : k = Shelf!LesserOf(n + Chunk, size)
  OBVIOUS
<1>3. PICK body : body = SubSeq(whole, n + 1, k)
  OBVIOUS
<1>4. PICK bytes, etag, hops : /\ bytes = t.bytes \o body
                               /\ etag = Shelf!Or(Shelf!Etag(v), t.etag) /\ hops = t.hops + 1
  OBVIOUS
<1>5. PICK next : next = [step |-> "get", entry |-> t.entry, bytes |-> bytes, older |-> t.older, total |-> size, etag |-> etag, hops |-> hops]
  OBVIOUS
<1>6. v \in 1..Len(Sizes) /\ v \in Nat /\ size \in Nat /\ size > 0 /\ tags \in BOOLEAN /\ None \notin Nat
  BY <1>1, ShelfAssumed DEF ShelfInv
<1>7. /\ whole \in Seq(Nat \X Nat) /\ Len(whole) = size
      /\ \A i \in 1..size : whole[i] = <<v, i>>
  BY <1>1, <1>6, BytesAre
<1>8. /\ t \in WorkType /\ t.step = "get" /\ t.entry \in EntryType \cup {None} /\ t.etag \in Nat \cup {None}
      /\ t.hops \in Nat /\ t.bytes \in Seq(Nat \X Nat) /\ n \in Nat /\ t.older \in BOOLEAN
      /\ \A i \in 1..n : t.bytes[i][2] = i
  BY <1>1, TransferFields DEF Going
<1>9. n < size /\ Shelf!Matches(t)
  BY <1>1 DEF Shelf!RangeAnswered
<1>10. k \in Nat /\ n + 1 <= k /\ k <= size
  <2>1. n + Chunk \in Nat /\ n + Chunk >= n + 1
    BY <1>8, ShelfAssumed
  <2> QED BY <1>2, <1>6, <1>8, <1>9, <2>1 DEF Shelf!LesserOf
<1>11. /\ body \in Seq(Nat \X Nat) /\ Len(body) = k - n
       /\ \A i \in 1..k - n : body[i] = <<v, n + i>>
  <2>1. ASSUME NEW i \in n + 1..k PROVE whole[i] \in Nat \X Nat /\ i \in 1..size
    <3>1. i \in 1..size
      BY <1>6, <1>8, <1>10
    <3>2. PICK T : T = Nat \X Nat
      OBVIOUS
    <3>3. whole \in Seq(T) /\ i \in 1..Len(whole)
      BY <1>7, <3>1, <3>2
    <3>4. whole[i] \in T
      BY <3>3, ElementOfSeq
    <3> QED BY <3>1, <3>2, <3>4
  <2>2. n + 1 \in Int /\ k \in Int /\ n + 1 <= k /\ k - (n + 1) + 1 = k - n
    BY <1>8, <1>10
  <2>3. /\ body \in Seq(Nat \X Nat) /\ Len(body) = k - n
        /\ \A i \in 1..k - n : body[i] = whole[n + 1 + i - 1]
    BY <1>3, <2>1, <2>2, SubSeqProperties
  <2>4. \A i \in 1..k - n : n + 1 + i - 1 = n + i /\ n + i \in 1..size
    BY <1>6, <1>8, <1>10
  <2> QED BY <1>7, <2>3, <2>4
<1>12. /\ bytes \in Seq(Nat \X Nat) /\ Len(bytes) = k
       /\ \A i \in 1..n : bytes[i] = t.bytes[i]
       /\ \A i \in n + 1..k : bytes[i] = <<v, i>>
  <2>0. PICK first : first = t.bytes
    OBVIOUS
  <2>1. /\ bytes \in Seq(Nat \X Nat) /\ Len(bytes) = n + (k - n)
        /\ \A i \in 1..n + (k - n) : bytes[i] = IF i <= n THEN first[i] ELSE body[i - n]
    <3>1. first \in Seq(Nat \X Nat) /\ Len(first) = n /\ bytes = first \o body
      BY <1>1, <1>4, <1>8, <2>0
    <3>2. body \in Seq(Nat \X Nat) /\ Len(body) = k - n
      BY <1>11
    <3>3. PICK T : T = Nat \X Nat
      OBVIOUS
    <3>4. first \in Seq(T) /\ body \in Seq(T)
      BY <3>1, <3>2, <3>3
    <3>5. /\ first \o body \in Seq(T) /\ Len(first \o body) = Len(first) + Len(body)
          /\ \A i \in 1..Len(first) + Len(body) :
               (first \o body)[i] = IF i <= Len(first) THEN first[i] ELSE body[i - Len(first)]
      BY <3>4, ConcatProperties
    <3> QED BY <3>1, <3>2, <3>3, <3>5
  <2>2. n + (k - n) = k /\ k - n \in Nat /\ n \in Nat /\ k \in Nat
    <3>1. n \in Nat /\ k \in Nat
      BY <1>8, <1>10
    <3> QED BY <1>10, <3>1
  <2>3. ASSUME NEW i \in n + 1..k PROVE bytes[i] = <<v, i>>
    <3>1. i \in 1..k /\ ~(i <= n) /\ i - n \in 1..k - n /\ n + (i - n) = i
      BY <2>2
    <3>2. bytes[i] = body[i - n]
      BY <2>1, <2>2, <3>1
    <3> QED BY <1>11, <3>1, <3>2
  <2>4. ASSUME NEW i \in 1..n PROVE bytes[i] = t.bytes[i]
    <3>1. i \in 1..k /\ i <= n
      BY <1>10, <2>2
    <3> QED BY <2>0, <2>1, <2>2, <3>1
  <2> QED BY <2>1, <2>2, <2>3, <2>4
<1>13. Shelf!AppendRange(t, body) = next
  <2>0. PICK r : r = Shelf!AppendRange(t, body)
    OBVIOUS
  <2>1. r = Replaced(t, bytes, t.older, size, etag, hops)
    BY <1>1, <1>4, <2>0 DEF Shelf!AppendRange, Shelf!Answered, Replaced
  <2>2. r = [step |-> t.step, entry |-> t.entry, bytes |-> bytes, older |-> t.older, total |-> size, etag |-> etag, hops |-> hops]
    <3>1. t \in WorkType
      BY <1>8
    <3> QED BY <2>1, <3>1, FieldsReplaced
  <2>3. t.step = "get"
    BY <1>8
  <2> QED BY <1>5, <2>0, <2>2, <2>3
<1>14. Shelf!Took(w, next) /\ UNCHANGED <<server, tags>>
  <2>1. Shelf!RangeOf(t) = body
    BY <1>1, <1>2, <1>3 DEF Shelf!RangeOf
  <2> QED BY <1>1, <1>13, <2>1 DEF Shelf!RangeAnswered
<1>15. etag \in Nat \cup {None} /\ (tags => etag = v)
  BY <1>4, <1>6, <1>8 DEF Shelf!Or, Shelf!Etag
<1>16. bytes # <<>>
  BY <1>8, <1>10, <1>12
<1>17. ASSUME tags, ~t.older, NEW i \in 1..n PROVE t.bytes[i][1] = v
  <2>1. n > 0
    BY <1>8
  <2>2. t.bytes # <<>>
    BY <1>1, <1>8, <2>1
  <2>3. t.etag \in 1..Len(Sizes) /\ t.bytes[i][1] = t.etag
    BY <1>1, <1>17, <2>2, TransferFields
  <2>4. t.etag = v
    BY <1>1, <1>6, <1>9, <1>17, <2>2, <2>3 DEF Shelf!Matches, Shelf!IfRange, Shelf!Etag
  <2> QED BY <2>3, <2>4
<1>18. Fits(bytes, etag, tags /\ ~next.older)
  <2>0. next.older = t.older
    BY <1>5
  <2>1. ASSUME NEW i \in 1..k PROVE bytes[i][2] = i /\ (tags /\ ~t.older => bytes[i][1] = v)
    <3>1. CASE i \in 1..n
      BY <1>8, <1>12, <1>17, <3>1
    <3>2. CASE i \notin 1..n
      <4>1. i \in n + 1..k
        BY <1>8, <1>10, <3>2
      <4> QED BY <1>12, <4>1
    <3> QED BY <3>1, <3>2
  <2> QED BY <1>1, <1>6, <1>10, <1>12, <1>15, <2>0, <2>1 DEF Fits
<1>19. Going(next, tags)
  <2>1. next.step = "get" /\ next.bytes = bytes /\ next.total = size /\ next.etag = etag
    BY <1>5
  <2>2. next \in WorkType
    BY <1>4, <1>5, <1>6, <1>8, <1>12, <1>15 DEF WorkType, Totals
  <2>3. Named(next, tags)
    BY <1>1, <1>6, <1>15, <2>1 DEF Named
  <2> QED BY <1>16, <1>18, <2>1, <2>2, <2>3 DEF Going
<1>20. next.bytes # <<>>
  BY <1>5, <1>16
<1> QED BY <1>14, <1>19, <1>20, TookStep

(* A transfer that gets ranges.                                             *)
LEMMA GettingIs ==
  ASSUME ShelfInv, NEW w \in Files \cup MediaFiles, Shelf!Getting(w)
  PROVE  Going(work[w], tags) /\ (w \in Files => Named(work[w], tags))
<1>1. "head" # "get" /\ work[w] # None /\ work[w].step = "get"
  BY DEF Shelf!Getting
<1> QED BY <1>1 DEF ShelfInv, WorkGood

LEMMA OtherAnswers ==
  ASSUME ShelfInv, NEW w \in Files \cup MediaFiles,
         Shelf!NothingToFetch(w) \/ Shelf!RangeRefused(w) \/ Shelf!RequestFails(w)
  PROVE  ShelfInv'
<1>1. PICK t : t = work[w]
  OBVIOUS
<1>2. Going(t, tags) /\ t.hops \in Nat /\ Len(t.bytes) \in Nat /\ (w \in Files => Named(t, tags))
  <2>1. Shelf!Getting(w)
    BY DEF Shelf!NothingToFetch, Shelf!RangeRefused, Shelf!RequestFails, Shelf!Asks
  <2> QED BY <1>1, <2>1, GettingIs, TransferFields
<1>3. UNCHANGED <<server, tags>>
  BY DEF Shelf!NothingToFetch, Shelf!RangeRefused, Shelf!RequestFails
<1>4. CASE Shelf!NothingToFetch(w)
  <2>1. ~Shelf!Asks(w) /\ Shelf!Getting(w)
        /\ IF t.hops = 0 THEN Shelf!Finished(w, t) ELSE Shelf!Failed(w, t)
    BY <1>1, <1>4 DEF Shelf!NothingToFetch
  <2>2. t.hops = 0 => Shelf!Enough(t)
    BY <1>1, <1>2, <2>1, ShelfAssumed DEF Shelf!Asks
  <2> QED BY <1>1, <1>2, <1>3, <2>1, <2>2, FinishedStep, FailedStep
<1>5. CASE Shelf!RangeRefused(w)
  <2>1. IF Shelf!Enough(t) THEN Shelf!Finished(w, t) ELSE Shelf!Failed(w, t)
    BY <1>1, <1>5 DEF Shelf!RangeRefused
  <2> QED BY <1>1, <1>2, <1>3, <2>1, FinishedStep, FailedStep
<1>6. CASE Shelf!RequestFails(w)
  BY <1>1, <1>2, <1>3, <1>6, FailedStep DEF Shelf!RequestFails
<1> QED BY <1>4, <1>5, <1>6

(* cacheMediaForUrl.                                                        *)
LEMMA MediaStep ==
  ASSUME ShelfInv, NEW m \in MediaFiles, Shelf!SaveMedia(m)
  PROVE  ShelfInv'
<1>1. PICK total \in {None} \cup {Sizes[v] : v \in 1..server} :
        work' = [work EXCEPT ![m] = [step |-> "get", entry |-> None, bytes |-> <<>>,
                                     older |-> FALSE, total |-> total, etag |-> None, hops |-> 0]]
  BY DEF Shelf!SaveMedia
<1>2. PICK t, none : /\ none = <<>>
                     /\ t = [step |-> "get", entry |-> None, bytes |-> none, older |-> FALSE, total |-> total, etag |-> None, hops |-> 0]
  OBVIOUS
<1>3. total \in Totals
  <2>1. \A v \in 1..server : v \in 1..Len(Sizes)
    BY ShelfAssumed DEF ShelfInv
  <2> QED BY <2>1, ShelfAssumed DEF Totals
<1>4. none \in Seq(Nat \X Nat) /\ Len(none) = 0
  BY <1>2, EmptySeq
<1>5. t \in WorkType
  BY <1>2, <1>3, <1>4 DEF WorkType
<1>6. t.step = "get" /\ t.bytes = none /\ t.hops = 0
  BY <1>2
<1>7. Fits(none, t.etag, tags /\ ~t.older) /\ m \notin Files
  BY <1>2, <1>4, ShelfAssumed DEF Fits
<1>8. WorkGood(m, t, parts', tags)
  BY <1>2, <1>5, <1>6, <1>7 DEF WorkGood, Going
<1>9. UNCHANGED <<server, tags, shelf, parts>> /\ file' = None
  BY DEF Shelf!SaveMedia
<1>10. /\ server' \in 1..Len(Sizes) /\ parts' \in Seq(PartType) /\ DOMAIN shelf' = Files
       /\ \A p \in Elems(parts') : p \in Elems(parts)
  BY <1>9 DEF ShelfInv
<1>11. /\ DOMAIN work' = Files \cup MediaFiles
       /\ \A w \in Files \cup MediaFiles : work'[w] = work[w] \/ (w = m /\ work'[w] = t)
  BY <1>1, <1>2 DEF ShelfInv
<1>12. \A w \in Files \cup MediaFiles : work'[w] # None => work'[w] = work[w] \/ WorkGood(w, work'[w], parts', tags)
  BY <1>8, <1>11
<1> QED BY <1>9, <1>10, <1>11, <1>12, ShelfQuiet

LEMMA ShelfNext ==
  ASSUME ShelfInv, Shelf!Next
  PROVE  ShelfInv'
<1>1. CASE \/ Shelf!Replace \/ Shelf!ClearDownloads \/ Shelf!Restart
           \/ \E e \in Files : Shelf!AddDownload(e) \/ Shelf!RemoveDownload(e)
  BY <1>1, ShelfSteps
<1>2. CASE \E e \in Files : Shelf!SaveAgain(e)
  BY <1>2, AgainStep
<1>3. CASE \E e \in Files : Shelf!HeadAnswered(e, TRUE) \/ Shelf!HeadAnswered(e, FALSE)
  BY <1>3, HeadStep
<1>4. CASE \E m \in MediaFiles : Shelf!SaveMedia(m)
  BY <1>4, MediaStep
<1>5. ASSUME NEW w \in Files \cup MediaFiles, Shelf!RangeAnswered(w) \/ Shelf!WholeAnswered(w)
      PROVE  ShelfInv'
  <2>1. Shelf!Getting(w)
    BY <1>5 DEF Shelf!RangeAnswered, Shelf!WholeAnswered, Shelf!Asks
  <2> QED BY <1>5, <2>1, GettingIs, RangeStep, WholeStep
<1>6. ASSUME NEW w \in Files \cup MediaFiles,
             Shelf!NothingToFetch(w) \/ Shelf!RangeRefused(w) \/ Shelf!RequestFails(w)
      PROVE  ShelfInv'
  BY <1>6, OtherAnswers
<1>7. DOMAIN work = Files \cup MediaFiles
  BY DEF ShelfInv
<1> QED BY <1>1, <1>2, <1>3, <1>4, <1>5, <1>6, <1>7 DEF Shelf!Next
-----------------------------------------------------------------------------
(* Reading.                                                                 *)

LEMMA BrowsingFocus ==
  ASSUME [BrowsingNext]_browsingVars
  PROVE  /\ focus' = focus
         /\ focus = "tabs" => Tabs!Next \/ UNCHANGED tabVars
         /\ focus = "loader" => Loader!Next \/ UNCHANGED loaderVars
         /\ focus \in {"media", "offline"} => Player!Next \/ UNCHANGED mediaVars
         /\ focus = "downloads" => Shelf!Next \/ UNCHANGED downloadVars
BY DEF BrowsingNext, browsingVars

TabsPart   == focus = "tabs" => stale \in BOOLEAN /\ (~stale => TabsInv)
LoaderPart == focus = "loader" => LoaderInv
MediaPart  == focus \in {"media", "offline"} => PlayerInv
ShelfPart  == focus = "downloads" => ShelfInv

LEMMA TabsPartStart == BrowsingInit => TabsPart
  BY TabsStart DEF BrowsingInit, TabsPart, Tabs!Init

(* What was written over stays so.                                          *)
LEMMA StaysStale ==
  ASSUME stale \in BOOLEAN, Tabs!Next
  PROVE  stale' \in BOOLEAN /\ (stale => stale')
BY DEF Tabs!Next, Tabs!LoadArrives, Tabs!LoadNotModified, Tabs!LoadFails, Tabs!LoadRedirects,
   Tabs!LoadAsksAuth, Tabs!LoadAborted, Tabs!GoTo, Tabs!OpenWorkspace, Tabs!Step, Tabs!SelectTab,
   Tabs!CloseTab, Tabs!Reload, Tabs!Stop, Tabs!NewTab, Tabs!AuthSubmit, Tabs!AuthCancel,
   Tabs!Reconnected, Tabs!Restart, Tabs!Render, Tabs!WritesBack

LEMMA TabsPartStep ==
  ASSUME TabsPart, [BrowsingNext]_browsingVars
  PROVE  TabsPart' /\ (focus = "tabs" /\ ~stale' => Tabs!NewestWins)
<1> SUFFICES ASSUME focus = "tabs"
             PROVE  /\ stale' \in BOOLEAN
                    /\ ~stale' => TabsInv' /\ Tabs!NewestWins
  BY BrowsingFocus DEF TabsPart
<1>1. stale \in BOOLEAN /\ (~stale => TabsInv)
  BY DEF TabsPart
<1>2. CASE Tabs!Next
  <2>1. stale' \in BOOLEAN /\ (stale => stale')
    BY <1>1, <1>2, StaysStale
  <2>2. ASSUME ~stale' PROVE TabsInv' /\ Tabs!NewestWins
    <3>1. TabsInv
      BY <1>1, <2>1, <2>2
    <3>2. TabsInv' /\ (seq' > 1 => Newer)
      BY <1>2, <2>2, <3>1, TabsNext
    <3> QED BY <3>1, <3>2, TabsNewest
  <2> QED BY <2>1, <2>2
<1>3. CASE UNCHANGED tabVars
  <2>1. stale' = stale
    BY <1>3 DEF tabVars
  <2>2. ASSUME ~stale' PROVE TabsInv' /\ Tabs!NewestWins
    <3>1. TabsInv
      BY <1>1, <2>1, <2>2
    <3>2. TabsInv'
      BY <1>3, <3>1 DEF tabVars, TabsInv, Orderly, TabList, OneLoad, TabTypes, SamePlaces, Waited
    <3>3. \A i \in 1..Len(tabs) : tabs[i].token \in Nat
      BY <3>1, InList, TabFields DEF TabsInv, Orderly, TabList
    <3>4. Newer
      BY <1>3, <3>1, <3>3 DEF tabVars, Newer, TabsInv, Orderly, TabList
    <3> QED BY <3>1, <3>2, <3>4, TabsNewest
  <2> QED BY <1>1, <2>1, <2>2
<1> QED BY <1>2, <1>3, BrowsingFocus

LEMMA LoaderPartStart == BrowsingInit => LoaderPart
  BY LoaderStart DEF BrowsingInit, LoaderPart

LEMMA LoaderPartStep == LoaderPart /\ [BrowsingNext]_browsingVars => LoaderPart'
<1> SUFFICES ASSUME LoaderPart, [BrowsingNext]_browsingVars, focus = "loader"
             PROVE  LoaderInv'
  BY BrowsingFocus DEF LoaderPart
<1>1. CASE Loader!Next
  BY <1>1, LoaderNext DEF LoaderPart
<1>2. CASE UNCHANGED loaderVars
  BY <1>2 DEF LoaderPart, loaderVars, LoaderInv
<1> QED BY <1>1, <1>2, BrowsingFocus

LEMMA MediaPartStart == BrowsingInit => MediaPart
  BY PlayerStart DEF BrowsingInit, MediaPart

LEMMA MediaPartStep == MediaPart /\ [BrowsingNext]_browsingVars => MediaPart'
<1> SUFFICES ASSUME MediaPart, [BrowsingNext]_browsingVars, focus \in {"media", "offline"}
             PROVE  PlayerInv'
  BY BrowsingFocus DEF MediaPart
<1>1. CASE Player!Next
  BY <1>1, PlayerNext DEF MediaPart
<1>2. CASE UNCHANGED mediaVars
  <2>1. SessionsInv' /\ AskType' = AskType
    BY <1>2, SessionsStill DEF MediaPart, mediaVars, PlayerInv
  <2>2. BridgeInv'
    BY <1>2, <2>1 DEF MediaPart, mediaVars, PlayerInv, BridgeInv
  <2> QED BY <2>1, <2>2 DEF PlayerInv
<1> QED BY <1>1, <1>2, BrowsingFocus

LEMMA ShelfPartStart == BrowsingInit => ShelfPart
  BY ShelfStart DEF BrowsingInit, ShelfPart

LEMMA ShelfPartStep ==
  ASSUME ShelfPart, [BrowsingNext]_browsingVars
  PROVE  ShelfPart'
<1> SUFFICES ASSUME focus = "downloads" PROVE ShelfInv'
  BY BrowsingFocus DEF ShelfPart
<1>1. CASE Shelf!Next
  BY <1>1, ShelfNext DEF ShelfPart
<1>2. CASE UNCHANGED downloadVars
  BY <1>2 DEF ShelfPart, downloadVars, ShelfInv, Shelf!SavedWhole
<1> QED BY <1>1, <1>2, BrowsingFocus

(* A tab shows content and a service of its own url, its history points at  *)
(* that, it waits for a load just while one of its own is under way, and    *)
(* the sign-in card is on a tab that still shows the url that asked for it  *)
(* and waits for nothing, however loads end, are aborted, or overlap with   *)
(* switches, closings and restarts (browser.ts and the navigation of        *)
(* App.tsx), rendered or not; until a click that replaces the list, or goes *)
(* by its history, writes over the end of a load that was not rendered.     *)
THEOREM TabsAlwaysAgree == BrowsingSpec => []TabsAgree
<1>1. TabsPart => TabsAgree
  BY TabsSound DEF TabsPart, TabsAgree
<1>2. TabsPart /\ [BrowsingNext]_browsingVars => TabsPart'
  BY TabsPartStep
<1> QED BY TabsPartStart, <1>1, <1>2, PTL DEF BrowsingSpec

(* Between two restarts the token of a tab (navToken of browser.ts) never   *)
(* goes back to that of an older navigation, until the same happens.        *)
THEOREM NewestAlwaysWins == BrowsingSpec => NewestWins
<1>1. TabsPart /\ [BrowsingNext]_browsingVars
        => TabsPart' /\ [focus = "tabs" /\ ~stale' => Tabs!NewestWins]_browsingVars
  BY TabsPartStep
<1> QED BY TabsPartStart, <1>1, PTL DEF BrowsingSpec, NewestWins

(* A document that is shown refers to nothing that is still to be fetched:  *)
(* everything in it was put in its place, dropped or made inert, whatever   *)
(* its sheets import and whichever limit is reached, and it was not cut     *)
(* short (contentLoader.ts); but for a sheet's import by a plain string.    *)
THEOREM AlwaysSelfContained == BrowsingSpec => []SelfContained
<1>1. LoaderPart => SelfContained
  BY LoaderSound DEF LoaderPart, SelfContained
<1> QED BY LoaderPartStart, LoaderPartStep, <1>1, PTL DEF BrowsingSpec

(* What the player is given are units it asked for, of its own document and *)
(* of one version of it, and no session or object URL is left behind,       *)
(* however views, workers, versions, saves and answers overlap              *)
(* (mediaBridge.ts, web/public/sw.js, useOfflineMedia.ts).                  *)
THEOREM MediaAlwaysBelongs == BrowsingSpec => []MediaBelongs
<1>1. MediaPart => MediaBelongs
  BY PlayerSound DEF MediaPart, MediaBelongs
<1> QED BY MediaPartStart, MediaPartStep, <1>1, PTL DEF BrowsingSpec

(* A file that is saved has every byte in its place, and from a server that *)
(* sends validators it is one version of the document, whole: whatever was  *)
(* replaced between ranges and attempts, retained, evicted, removed, or     *)
(* lost in a restart (downloadTransfer.ts, downloads.ts, App.tsx); but for  *)
(* a file that goes on with bytes that were retained when another attempt   *)
(* failed without a byte, which leaves them under its validator.            *)
THEOREM SavedAlwaysWhole == BrowsingSpec => []SavedWhole
<1>1. ShelfPart => SavedWhole
  BY DEF ShelfPart, ShelfInv, SavedWhole
<1>2. ShelfPart /\ [BrowsingNext]_browsingVars => ShelfPart'
  BY ShelfPartStep
<1> QED BY ShelfPartStart, <1>1, <1>2, PTL DEF BrowsingSpec
=============================================================================
