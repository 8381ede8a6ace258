------------------------------ MODULE Browsing ------------------------------
(* What reading through the mixnet is made of: tabs, and what a page, its   *)
(* media and its downloads go through.  The components share no state: a    *)
(* behaviour is one of the component in focus, and the variables of the     *)
(* others stay 0.                                                           *)
(*   tabs:      the browser.                                                *)
(*   loader:    documents that are made self-contained.                     *)
(*   media:     players fed through the service worker.                     *)
(*   offline:   the same with documents kept offline, and no requests, which*)
(*              do not touch what is kept.                                  *)
(*   downloads: transfers in ranges that break off and are resumed.         *)
EXTENDS Naturals

CONSTANTS Focus,   \* the components to check
          None,
          Urls, ServiceOf, AddressOf, RedirectsTo, Roots, Typed, PortalLinks, Ids,
          MaxTabs, MaxHistory, MaxCached, MaxNav, MaxRedirects,
          Documents, Resources, Imports, Assets, Length, Cards, Sheets,
          MaxResources, MaxResourceBytes, MaxTotalBytes, MaxCssDepth,
          Films, FilmSize, TaggedFilms,
          MaxVersion, MaxTokens, MaxAsks, MaxWorkers, MaxChunk, MaxHops, MaxSaves,
          Files, MediaFiles, Sizes,
          Chunk, MaxBytes, MaxChunks, MaxRetained

VARIABLES focus,
          tabs, seen, card, active, seq, control, loads, cached, prompt, stale,
          todo, fetched, stats, placed, aborted, cut, done,
          view, sessions, tokens, blobs, store, saving, origin, worker, asked,
          pending, inbox, jobs, chunks, got,
          server, tags, shelf, parts, work, file

tabVars      == <<tabs, seen, card, active, seq, control, loads, cached, prompt, stale>>
loaderVars   == <<todo, fetched, stats, placed, aborted, cut, done>>
mediaVars    == <<view, sessions, tokens, blobs, store, saving, origin, worker,
                  asked, pending, inbox, jobs, chunks, got>>
downloadVars == <<server, tags, shelf, parts, work, file>>
browsingVars == <<focus, tabVars, loaderVars, mediaVars, downloadVars>>

Tabs   == INSTANCE BrowserTabs WITH cache <- cached
Loader == INSTANCE ContentLoader WITH Pages <- Documents, Urls <- Resources, shown <- done
Player == INSTANCE Media WITH Urls <- Films, Size <- FilmSize,
            Tagged <- TaggedFilms, version <- origin
Shelf  == INSTANCE Downloads WITH
            Entries <- Files, Media <- MediaFiles, Size <- Sizes, version <- server,
            saved <- file

ASSUME BrowsingAssumption ==
  /\ Tabs!BrowserAssumption /\ Loader!LoaderAssumption
  /\ Player!MediaAssumption /\ Shelf!DownloadsAssumption
-----------------------------------------------------------------------------
BrowsingInit ==
  /\ focus \in Focus
  /\ IF focus = "tabs" THEN Tabs!Init
     ELSE tabs = 0 /\ seen = 0 /\ card = 0 /\ active = 0 /\ seq = 0 /\ control = 0
          /\ loads = 0 /\ cached = 0 /\ prompt = 0 /\ stale = 0
  /\ IF focus = "loader" THEN Loader!Init
     ELSE todo = 0 /\ fetched = 0 /\ stats = 0 /\ placed = 0 /\ aborted = 0 /\ cut = 0
          /\ done = 0
  /\ IF focus \in {"media", "offline"} THEN Player!Init
     ELSE view = 0 /\ sessions = 0 /\ tokens = 0 /\ blobs = 0 /\ store = 0 /\ saving = 0
          /\ origin = 0 /\ worker = 0 /\ asked = 0 /\ pending = 0 /\ inbox = 0
          /\ jobs = 0 /\ chunks = 0 /\ got = 0
  /\ IF focus = "downloads" THEN Shelf!Init
     ELSE server = 0 /\ tags = 0 /\ shelf = 0 /\ parts = 0 /\ work = 0 /\ file = 0

BrowsingNext ==
  /\ UNCHANGED focus
  /\ \/ focus = "tabs" /\ Tabs!Next /\ UNCHANGED <<loaderVars, mediaVars, downloadVars>>
     \/ focus = "loader" /\ Loader!Next /\ UNCHANGED <<tabVars, mediaVars, downloadVars>>
     \/ focus = "media" /\ Player!Next /\ UNCHANGED saving
        /\ UNCHANGED <<tabVars, loaderVars, downloadVars>>
     \/ focus = "offline" /\ Player!Next /\ UNCHANGED asked
        /\ UNCHANGED <<tabVars, loaderVars, downloadVars>>
     \/ focus = "downloads" /\ Shelf!Next /\ UNCHANGED <<tabVars, loaderVars, mediaVars>>

BrowsingSpec == BrowsingInit /\ [][BrowsingNext]_browsingVars
-----------------------------------------------------------------------------
(* The properties of the components, as their modules state them.           *)

BrowsingTypeOK == /\ focus = "tabs"      => Tabs!TypeOK
                  /\ focus = "loader"    => Loader!TypeOK
                  /\ focus \in {"media", "offline"} => Player!TypeOK
                  /\ focus = "downloads" => Shelf!TypeOK

TabsAgree  == focus = "tabs" /\ ~stale =>
                /\ Tabs!ContentBelongs /\ Tabs!PromptBelongs
                /\ Tabs!HistoryPoints /\ Tabs!LoadingMeansLoad
NewestWins == [][focus = "tabs" /\ ~stale' => Tabs!NewestWins]_browsingVars

SelfContained == focus = "loader"    => Loader!SelfContained
MediaBelongs  == focus \in {"media", "offline"} =>
                   Player!AnswerBelongs /\ Player!Released
SavedWhole    == focus = "downloads" => Shelf!SavedWhole
ResumedWhole  == focus = "downloads" => Shelf!ResumedWhole
=============================================================================
