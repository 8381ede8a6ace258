# Nysiris: TLA+ models, checks and proofs

Nysiris is a browser for services behind the Nym mixnet: a web client (React, TypeScript) with a
few services in Rust (a social server, a portal provider) and the crates they share.  This
directory holds its formal models: TLA+ modules translated from the code, TLC configurations that
check them on small instances, and proofs checked by TLAPS, the TLA+ proof system.

Contents

1. The system: components, state, interactions, what is hard
2. The modules and how they correspond to the code
3. The runs: what each checks, bounds, fairness
4. The proofs
5. What the models found
6. What is not modelled
7. The plan

`PROJECT.json` is the index: components, runs, for every definition the lines of code it models,
for every property a mutant of the code that breaks it, the hazards, and the theorems.

## 1. The system

```
   shell (App.tsx)          social hooks              portal workspace
   tabs, history      feed, DMs, composer, identity    sync, publish
        |   \               |                              |
        |    \              v                              v
     tunnel   +---->  request layer (fetchNym): one shared Nym client
        |                   |
   clearnet via       ~~~ mixnet (Sphinx packets, reply blocks) ~~~
   mixnet exit              |
                    provider runtime -> social server / portal provider (SQLite)
```

### Components, their state and their operations

| Component | State | Operations | Must hold |
|---|---|---|---|
| Request layer, `web/src/mixnet/fetchNym.ts`, `hiddenService.mjs`, `messaging.ts` | the shared client, the mutex chain, the serial waiter, the tagged waiters, recipients banned from batches | `fetchNym`, `fetchNymParallel`, `dispatchReply`, `stopFetchNymClient`, timers, aborts | a reply answers its own request only; every way a wait ends cleans up once; batches report once and completely; a failing call does not block the next |
| Tunnel, `web/src/mixnet/tunnel.ts`, `fetch.ts` | the memoised setup promise, `spent`, the buttons' busy flag | ensure, teardown, reconnect | after a failure or a button the next load finds the tunnel that runs, or may set one up |
| Sphinx packets, `crates/sphinx-core` | none: headers, payloads, reply blocks are values | build, process, reply, select a path | each hop opens its layer and finds the next hop; what arrives is what was sent |
| Reply controls, `SurbPool` (`enforcement.rs`), `ReplyTracker` (`enforcement.mjs`) | identifiers issued and consumed; keys of replies processed, with times | register, accept, purge | no reply block answered twice, no reply processed twice, none refused that is good, with clocks that step back |
| Browser tabs, `web/src/application/browser.ts`, `App.tsx` | tab list (url, document, history, token), abort controllers, document cache, sign-in card | load, redirect, step, reload, stop, open, close, select, sign in, restart | no document under another's url; a history index on the shown url; `loading` iff a load can still write |
| Community feed, `useCommunityFeed.ts` with the social server | timeline, cursor, poll chain, stop flag | poll, refresh, refresh after posting, page back | no post is passed over but those a first sync begins beyond; every other good one is shown |
| Direct messages, `useDirectMessages.ts` with the server's dead drop | records in memory and on the device, the server's mailbox | poll, check by hand, send, leave, open | a message is dropped by nobody, recorded once, in order |
| Post attachments, `usePostComposer.ts`, `blobUploadIo.ts` with the server's staging | jobs, staged parts, promoted files, posts | upload parts, promote, post, prune | no post refers to a file that cannot be fetched |
| Identity, `useIdentitySession.ts`, `identityStore.ts`, the keystore plugin | two keystore entries, the cache, the identity shown | start, migrate, adopt, re-persist | an identity can be loaded at every start; the one adopted last, where nothing was refused or taken back |
| Portal provider, `services/portal-provider`, `crates/portal-data/src/log.rs` | objects and log entries in SQLite (WAL) | put object, append entry, heads, logs, objects | logs grow only by their author's signed next entry |
| Portal replica, `domain/portalSync.ts`, `portalSyncIo.ts`, `portalWriteIo.ts`, `PortalWorkspace.tsx`, `portalStore.ts` | the replica on screen, the one in IndexedDB, operations under way | sync, publish, save, trim, reset, mount, reload | a replica is a beginning of the author's history, with every object it needs |
| Threads, `domain/threads.ts`, `useCommunityFeed.ts` | the open thread, the queue of posts asked for, attempts, those given up | open, fill gaps, trim | the gaps of the open thread are filled or given up |
| Clearnet requests, `clearnet.ts`, `cookies.ts`, `auth.ts`, `documentCache.ts` | cookie jar and its copy on disk, credentials, pages kept with their validators | request, redirect, sign in, validate | each host gets the cookies and credentials that are its own; a 304 shows the page it validated; the jar is saved |
| Content loader, `application/contentLoader.ts` | the references left, the budget spent | fetch and inline, rewrite, give up | what is shown refers to nothing that would be fetched by the frame |
| Media, `mediaBridge.ts`, `mediaSession.ts`, `public/sw.js`, `useOfflineMedia.ts`, `portalMediaCache.ts` | tokens, requests in the worker, windows' jobs, chunks, blobs | register, ask, answer, replace the worker, keep offline | the player of a document gets bytes of that document, and of one version where its origin has validators; sessions and object URLs are let go |
| Downloads, `downloadTransfer.ts`, `ranges.ts`, `downloads.ts`, `App.tsx` | the shelf, bytes retained, transfers | start, range, pause, fail, resume, save | a saved file has every byte in its place, of one version where there are validators |
| Portal workspaces, `portalWorkspaces.ts`, `portalIdentity.ts`, `portalMigration.ts`, `PortalWorkspace.tsx` | a record, an author key and a replica for each portal, the old replica | open, publish, sync, follow, import, dismiss, reset | one author for each portal; the old replica is imported once and kept |
| Portal view and trust, `portalView.ts`, `portalTrust.ts` | none; verdicts by portal and author, bounded | build the view, judge, load, save | readers with the same logs see the same; the newest verdicts are the ones kept |
| Social provider, `services/social`, `crates/provider-runtime`, `crates/portal-reputation`, with `usePow.ts` and `pow.mjs` in the page | posts, profiles, budgets by bucket and day, the difficulty; the page's cache of it | describe, prove, post, profile, message, restart | a page's proof is one the provider accepts; what is stored was paid for, once |
| Last-writer-wins maps, `crates/portal-data/src/lww.rs`, `domain/portalLww.ts` | of each key a value with its dot | insert, merge, copy | copies told of the same writes agree |
| Messages by address, invites and contacts, `App.tsx`, `messaging.ts`, `share.ts`, `contacts.ts`, `domain/identity.ts` | the messaging client and its subscriptions, the inbox, the open thread, what is read; recipient, draft, sends under way; contacts and their copy, the invite shown | start, receive, select a thread, send; sign, verify and accept an invite; remove a contact | nothing comes twice; unread is what was not shown; what is sent in a contact's thread goes there; a contact has the name typed for its own invite |
| Saved places, launch links, test of a portal, `shell.ts`, `bookmarks.ts`, `deepLink.ts`, `RunPortal.tsx` | recent and favourite portals, bookmarks and their copies; the link in the address, the last one delivered; tests under way | visit, star, name, deliver, launch, reload, test | the lists are what the user visited, starred and named; a link is opened once |
| The rest: petnames, settings, addresses, envelopes, formats, SDK, CLI, launchers, Android glue, UI | preferences, or none | see section 6 | |

### How they interact

- Everything that talks to a service goes through `fetchNym`, one call at a time and in order;
  only portal sync and media use batches.  The models of the hooks (`CommunityFeed`,
  `DirectMessages`) therefore hand their requests to a queue whose head is out: that is the
  interface that `FetchNym` shows the request layer to provide.  `Attachments` lets requests
  arrive late and out of order, because one that timed out may still reach the server.
- The shell binds a tab to a Nym service; the social hooks and the portal workspace of a tab are
  mounted for that service, and leaving and coming back mounts them anew while their requests are
  out.
- The provider handles one request at a time (`hidden_step` is sequential), each of its handlers
  being a few SQLite statements, not one transaction.
- The clearnet goes through the tunnel, a second client, whose buttons share one flag with the
  page loads.  A page is requested (`clearnet.ts`), made self-contained (`contentLoader.ts`), and
  its media and downloads come in ranges through the same requests.  The service worker speaks to
  the app by messages, of which none need arrive: it may be replaced at any time.
- The workspaces of portals share local storage and the store of replicas; one that was left goes
  on with what it awaits.

### What is hard here

Hardly any code is locked: almost everything is a continuation after an `await` that acts on a
state captured before it.  Replies come late, twice, out of order or never; timers, aborts and
answers race to end the same wait; whole lists are replaced by ones computed from an older render;
the provider deletes what it answers; stores are written in several steps with a crash possible
between; clocks are set back.  `PROJECT.json` lists each such place, with its line and the
properties that cover it or the reason that none does.

## 2. The modules

A variable is a field, ref, table or message queue of the code; an action is a whole handler, or
the part of an async function between two awaits.  Ghost variables are marked where they are
declared, and no guard reads them except to bound the instance.  Loops that only compute are one expression; names of the code
are kept where they exist.

| Module | Models | Note |
|---|---|---|
| `FetchNym` | the request layer | Requests and batches are constants.  `state[r]` follows `runOnce` / `runTagged`: queued behind the mutex, booting, waiting, settled.  `Settle` is the cleanup that every ending shares.  The mixnet is two growing sets, `sent` and `replies`: anything sent may be dispatched by the provider any number of times, any reply delivered any number of times, or never.  A boot is named after the caller that began it, so that a stopped client and its successor stay apart; a call of another validator (`Api`) replaces the client. |
| `Portal` | provider, publishing, sync and the workspace, end to end | An entry is the object it names and its seq is its place; `Signs(v)` is the history an author signs on.  A request's handling by the provider and its answer are separate steps, a post may arrive after its sender gave up (`late`), a commit is durable only after a checkpoint when `PowerLoss`. |
| `PortalLog` | the abstract specification: an append-only history per author, copies that are beginnings of it | `Portal` implements it with `history <- log`, `copies <-` all replicas shown and saved. |
| `BrowserTabs` | tab list and `App.tsx`'s handlers | `tabs` is the list with every updater applied, `seen` (and `card`) what the last render showed, which click handlers see.  The end of a load is rendered at once or after the next click (`RenderNow`, `RenderLater`); `stale` says that a click wrote over what it was not shown. |
| `CommunityFeed` | the feed hook and the server's `/health`, `/feed` | Posts are numbered; `feed[q]` says whether the signature is good.  The ghost `unasked` collects, page by page, what lies between the cursor and a first sync's page when that page is merged. |
| `DirectMessages` | the DM hook and the dead drop | Several openings of the hook coexist, each with its own list; the cache is shared. |
| `Attachments` | composer, upload, staging, promotion | The server's handlers may be cut short between statements. |
| `Identity` | the keystore-backed identity | Procedures await one plugin call at a time; the plugin serves calls in order and may refuse.  It answers before its entries are on disk (`held`, `disk`, `WriteOut`), so a kill may take back what it answered (`lost`).  Where the Android API is too old it refuses everything. |
| `Tunnel` | tunnel, Connect / Disconnect / Reconnect, loads | What the library does with a setup that a disconnect overtakes (nothing, or a late rejection) is nondeterministic; the ghost `forgotten` says that such a rejection cleared the memo of the tunnel that runs. |
| `Sphinx` | the packet format as operators | Symbolic: a block is the set of terms xored into it, a curve point the set of scalars it was multiplied by, a MAC or keystream block a term equal only to itself.  Offsets, padding and filler are computed block by block as in `header.rs`. |
| `SphinxNet` | packets on their way, with reply blocks and the pool | EXTENDS `Sphinx` and `SurbPool`; the network loses, duplicates, reorders, damages. |
| `SurbPool`, `ReplyTracker` | the reply controls | Every call reads a clock that may have been set back. |
| `Threads` | the effect that fills the gaps of the open thread | Post `q` is the `q`-th; `Parent[q]` what it replies to.  The effect is one action, enabled when its dependencies changed. |
| `Clearnet` | requests with cookies, credentials, redirects and validators | A call is a chain of requests, each a step; what a cookie, a host or a path covers is a constant relation. |
| `ContentLoader` | `prepareDocument` | A document is the list of its references in the order the code meets them; fetched style sheets bring their own.  What is placed is recorded with the number of sheets around it (`depth`).  The policy the document is given besides (`contentLoader.ts:432`) is not relied on. |
| `Media` | player, service worker, bridge, offline copies | A worker, its requests and the app's answers are messages; a unit of bytes stands for the version it is of.  Origins with an ETag (`Tagged`) honour `If-Range`, as a Nym service does (`crates/nysiris-sdk/src/files.rs:141`); those without ignore it.  A session has the ETag its tab knew, an older one, or none (`KnownTags`). |
| `Downloads` | ranged transfers and the shelf | A byte is its version and offset; the document is replaced at any moment.  Whether the server has validators is chosen initially.  The ghost `older` follows the bytes that were retained under a validator newer than theirs. |
| `Workspaces` | the workspaces of several portals | `mounts` is the workspaces that still have something under way, the last of them on the screen; what an operation started with is its `base`. |
| `PortalView`, `PortalTrust` | `buildPortalView`; the store of verdicts | The view is an operator of a replica whose authors come in an order of their own. |
| `SocialProvider` | guards and writes of the social server, proofs in the page | A handler is a step; a proof is the difficulty it was searched for and what it binds. |
| `PortalLww` | the map and its merges | Replicas insert writes and merge copies, old ones and repeated ones too. |
| `Messages` | the messaging client, threads, invites and contacts | A signature is what was signed and by whom; a render and its effects (`Rendered`) end every action that changes the inbox or the thread. |
| `Places` | recent, favourites, bookmarks, links handed over, the test of an address | `events` is what the user did (history variable), against which the lists are compared. |
| `Lists` | `Array.prototype.filter` | `Kept(list, S)`: the elements in `S`, in order, as a recursive function, about which lemmas can be proved. |
| `FetchNymProofs`, `PortalProofs`, `PortalsProofs`, `CommunityFeedProofs`, `MixnetProofs`, `ClientProofs`, `BrowsingProofs`, `ListProofs` | theorems | section 4 |
| `MCFetchNym`, `MCPortal` | instances | values of the function-valued constants |
| `Browsing` | composes `BrowserTabs`, `ContentLoader`, `Media` and `Downloads`, parameterised | the specification that `BrowsingProofs` speaks of; `MCReading` extends it with `Messages` and `Places` |
| `MCMixnet`, `MCPortals`, `MCClient`, `MCReading`, `MCLive` | instances of several components | Components that share no state are checked in one run: `focus` is chosen initially, only the component in focus moves, the variables of the others stay as they are.  The state space is the sum, not the product.  `MCMixnet` extends `FetchNym` (through `MCFetchNym`) and `SphinxNet`, `MCPortals` extends `Portal` (through `MCPortal`), and `MCClient` extends `PortalLww`, so that the properties they check of these are the ones proved; `MCLive` extends `CommunityFeed`, and states each liveness property as `focus = x /\ Fairness => P`, with the fairness of that component alone. |

Each state-changing operation of a component marked "modelled" is an action; where a component is
"partly" modelled its note in `PROJECT.json` says which operations are left out.

## 3. The runs

`tlc -workers 2 -config <cfg> <module>`; each passing run takes less than five minutes.

| Run (cfg, module) | Instance | Shows |
|---|---|---|
| `mixnet` (`Mixnet`, `MCMixnet`) | request: a single call to an older provider, which sends no tags, beside a batch of three items on two workers to a current one; tunnel: two page loads, three setups; packets: two built, two on the wire, routes of two and three hops of at most four; pool: two identifiers, four times; tracker: three keys, room for two; clearnet: two overlapping calls, two hosts, a redirect, a password, a cookie, a version more | request: `Correlation`, `NoStaleWaiter`, `SettledOnce` under every order of replies (late, repeated, lost), aborts, time-outs, failed sends, boots and stops; `BatchComplete` and `NoItemAfterFailure`, two workers sharing the counters of a batch; tunnel: `TunnelFound`, with a late rejection or none; packets: `Delivered`; pool: `SingleUse`, `FreshAccepted`; tracker: `NoReplay`; clearnet: `JarSaved`, `LoadsBelong`; `MixnetTypeOK` |
| `fetchnym_batch` (`FetchNymBatch`, `MCFetchNym`) | two batches of two and a single call with a validator of its own to an older provider, of which two are begun, one worker | the first fails for want of tags and bans the recipient, the second falls back to single calls, the call boots another client: `EverythingEnds` (calls and batches) under fairness |
| `portal_views` (`PortalViews`, `MCPortals`) | portal: two views of one device, each publishing an object, one of them syncing; workspaces: two portals, room for one record, two keys, two mounts, two operations; view: three authors, two readers; trust: four verdicts, two authors, three portals with room for two; provider: two writes of one author, two days, budget of one, two difficulties, one restart | portal: `Consistent`, `AcceptedAsSigned` (what is acknowledged is stored as it was signed), the inductive `InFlightConsistent`, `ImplementsLog`; workspaces, trust, view: `PortalSound`; provider: `ProviderSound`; `PortalsTypeOK` |
| `portal_reader` (`PortalReader`, `MCPortal`) | an author, and a reader on another device who publishes too; room for one object | `NoDangling` under trimming and reset, `SyncComplete` |
| `live` (`Live`, `MCLive`) | feed: three posts, good or forged, pages of one, room for two, one refresh by hand beside polls, composer and paging back; thread: four posts in a tree of depth three, one gone, room for two; portal: one view, a retry, a provider that loses power | `NothingSkipped`; under the fairness of each `EveryPostShown`, `EveryGapEnds`, `OperationsEnd`; `LiveTypeOK` |
| `client` (`Client`, `MCClient`) | dms: three messages, a history of two, two openings, two requests out; files: one file of three parts, two attempts; identity: two procedures at a time, two identities, six keys of the cache, one refusal, a kill at any moment, with what was answered written out or not; lww: two replicas, four writes of two keys, two copies | dms: `MailKept` (nothing dropped, recorded once, in order); files: `AttachmentsStored`; identity: `KeysKept`; lww: `Converged`; `ClientTypeOK` |
| `reading` (`Reading`, `MCReading`) | tabs: two tabs, two urls of which one redirects, histories of two, two navigations between restarts, the end of a load rendered before or after the next click; loader: documents with every kind of reference and sheets that import each other in a circle, one sheet deep; media: two films, one of them without an ETag, two tokens, two workers, one request; offline: the same with two documents kept and no request; downloads: three documents of two versions, with validators or without; messages: two invites offered, on a page at hand or not, a send, a restart; letters: two starts, three arrivals; places: five events, lists of two, one and one; links: three, two reloads, two tests | tabs: `TabsAgree`, `NewestWins`; loader: `SelfContained`; media, offline: `MediaBelongs`; downloads: `SavedWhole`; messages, letters, places, links: `ShellKeeps`; `ReadingTypeOK` |
| `portal_lost`, `feed_older`, `feed_poll`, `dm_history`, `download_resume` | the same models, one property each | the disagreements of section 5 |

A few properties are the conjunction of what one component promises, each conjunct stated and
commented in its module: `TabsAgree` (`BrowserTabs`), `MailKept`
(`DirectMessages`), `KeysKept` (`Identity`), `ProviderSound` (`SocialProvider`), `PortalSound`
(`Workspaces`, `PortalTrust`, `PortalView`), `MediaBelongs` (`Media`), `LoadsBelong` (`Clearnet`),
`ShellKeeps` (`Messages`, `Places`).

### Why the bounds are enough

Every bound is a named constant, commented where it is declared.

- *Two of each actor.*  The races are between two: two waits for one reply, two operations on one
  replica, two tabs, two procedures on one store.  Where a third matters it is there: a
  third item in a batch of two workers, three setups of the tunnel (one overtaken, one after it,
  one more), three sources of refreshes in the feed beside the poll.
- *Limits are hit.*  The caps of the code (200 posts, 200 objects, 500 messages, 12 tabs,
  histories of 50, 120 cookies, 24 pages, 24 resources, 64 portals with verdicts) are two or one, so that trimming, dropping and refusal at the cap occur in most
  behaviours.
- *Retries meet what they retry.*  Two attempts of an upload (and in `live` of a post)
  suffice for a late request of the first to arrive in, or after, the second.
- *Clocks* go to one more than twice the window, and back: within, at the edge, and beyond it from
  any time.
- *Paths.*  `MaxPath = 4` with routes of three hops and of two gives filler of two hops, of one
  and padding; the MAC of the last hop covers blocks shifted in by both before it.

Deadlock is not checked in `mixnet`, `portal_views`, `client`, `dm_history`, `reading`,
`download_resume` and `live`, where a component may really come to rest: the bounded user has done everything.

- *Two procedures on the keystore*: the start and an adoption, two adoptions, or a start that
  was left and its successor.  `WrapKeys` has more keys than can be in use at once, so that a key
  drawn is a new one; a third procedure at a time is left to the proof.
- *A queue of two gaps* (`MaxQueued`): the effect queues a gap that waits already once more, so one
  gap can be waiting twice.

`reading` restricts the exploration of the tabs by an action constraint (`Explored`): one end of a
load at a time waits to be rendered, and the run looks no further once a click wrote over what it
was not shown (`stale`), of which nothing is claimed.  The theorems need neither bound.

What the bounds do not reach: routes of the greatest length (`Delivered` has routes of two and of
three hops, of at most four), trees of portal objects, three readers at once, more than one
mailbox, a fourth attempt.  `Careless` and `MayMove` are switches, off in the passing runs, for
behaviour that breaks a property and is told in section 5.

### Symmetry

`client` uses symmetry over identities and `reading` over tab ids, neither of which is compared
other than for equality.  Both check safety only.

The media model is checked twice, once with requests and nothing kept, once with documents kept
and no requests (`offline`): a copy kept on the device only decides whether a player asks at all.

### Fairness

Liveness is checked only where the scheduling of the code justifies it.

- `FetchNym`: weak fairness of ready continuations (the event loop runs them), of the 90 s timer of
  a request once armed, and of the end of a boot.  The last is partly an assumption: the wait for
  the gateway has a 60 s timer (`messaging.ts:137`), the SDK's own `start` before it has none (a
  hazard in `PROJECT.json`).  Nothing is assumed of delivery, of the provider, or of the user.
- `Portal`: weak fairness of what a page does once a request has been answered, refused or timed
  out, and of `Save` and `Load`.  Of `Save` this is an assumption: a transaction that is aborted has
  no handler (`portalStore.ts:160`), so its save would never end.  No post need arrive.
- `CommunityFeed`: weak fairness of the timer and of every answer or time-out; strong fairness of a
  page being served and answered, without which no post need ever be shown.
- `Threads`: weak fairness of the end of a fetch.  Nothing is assumed of its outcome.
- Everything else: safety only.

## 4. The proofs

TLC shows the properties on an instance; the theorems hold for every value of the constants.
`tlapm <module>` checks each of the eight proof modules; the theorems that state a property of a run
are listed in `PROJECT.json`.  The assumptions are those on the constants, which TLC evaluates in
the runs, and two hypotheses on switches (`~PowerLoss`, `~MayMove`), named where a theorem has one:
with the switch the other way the property is false, as section 5 tells.

Where a property is not inductive by itself, the conjuncts that make it so are definitions of the
component's module (or of its proof module, when they speak of nothing the model names), and TLC
checked them before they were proved.

### The request layer

From `FetchNymAssumption`: the requests of batches are finite sequences without
repetition, disjoint, and disjoint from the calls; `Concurrency` is positive.

**`FetchNymProofs`**

- `TypeCorrect == Spec => []TypeOK`.
- `RepliesMatch == Spec => []Correlation`: a request is only answered by its own reply, except that
  a serial call may take an untagged reply of an older provider, which the code accepts.
  `Correlation` is not inductive: a reply is matched by a tag, so one must know that tags are
  unique and never reissued (`Tags`), that a request has none before its turn (`Fresh`), that a
  waiter is registered, and a reply sent, under the tag of its request (`Wire`), and that only
  serial calls become the serial waiter, which turns on a batch that fell back never having booted
  (`SerialPath`).  `CorrelationInv` is their conjunction with `Answers`; with `TypeOK` it is
  inductive, one step per action.


- `WaitersFresh == Spec => []NoStaleWaiter`.  `WaitersInv` adds that a call which boots has its
  turn, and that the serial waiter has it: one call at a time gets as far as the client.
- `BatchesComplete == Spec => []BatchComplete`.  A batch decides that it is done from two shared
  counters, so the invariant must account for every item between two awaits.  `BatchInv` says of
  each batch that its workers are those back at the top of their loop and those whose item is out
  (`WorkersCounted`, an equation of cardinalities), that exactly the items before `next` were taken
  and, unless one failed, were answered or are out (`ItemsTaken`), and how the counters fit the
  mode (`ModeFits`).
- `OutcomesStay == Spec => SettledOnce` and `FailureStopsBatch == Spec => NoItemAfterFailure`, action
  properties, from the same invariants.

### The portal

From `PortalAssumption`.

**`PortalProofs`**; all but `TypeCorrect` and `NothingDangles` also from `~PowerLoss`, a provider that
keeps what it committed.

- `TypeCorrect == Spec => []TypeOK`, a lemma per action.
- `NothingForks == Spec => []InFlightConsistent`: wherever a replica is - shown, saved, queued to
  be saved, captured by a sync or a publishing - its logs begin the provider's; entries fetched and
  not yet merged fit between; where the provider agreed to an entry its log begins with the
  history it was signed on.  This is the invariant the informal argument skips: `Consistent` alone
  speaks of what is shown and saved, but these are overwritten from what operations captured long
  before.  `OneSyncSave` (a sync queues its result once) is needed because saving ends the sync
  that queued it.
- `ReplicasConsistent == Spec => []Consistent`, a corollary.
- `PortalImplementsLog == Spec => ImplementsLog`: each step of `Portal` is a step of `PortalLog`
  (`PutEntry` publishes; showing and saving refresh copies) or a stutter.
- They rest on lemmas about `IsPrefix` (empty, append, rest, transitive through the same log).

- `NothingDangles == Spec => []NoDangling`, with or without power loss.  `AllComplete` follows an
  entry and its object through every place they pass: the provider's logs have their objects, and
  so have the replica on screen, in the store, queued to be saved, and captured; a sync has, for
  what it is about to merge, the object or will fetch it.
- `SyncsComplete`, assuming `~PowerLoss`: `Spec => []SyncComplete`.  `SyncInv` (`Reaches`): of an author
  who is not reported as failed, the answer is still to come, or was fetched far enough to be
  merged up to the advertised head, or is merged.
- `SignedAccepted`, assuming `~PowerLoss`: `Spec => []AcceptedAsSigned`.  `SignedInv`: histories signed are
  closed under beginnings, what a publishing or a late post carries is one of them, and all but
  its last entry begins the provider's log.

After a power loss all of these but `TypeCorrect` and `NothingDangles` are false: the provider takes
back what it had agreed to (section 5).

### What goes with the portals

**`PortalsProofs`**, about `PortalsSpec`, the specification of the run `portal_views`; from
`PortalsAssumption` (those of the components).

- `ProviderAlwaysSound == PortalsSpec => []ProviderSound`.  What the property forbids is a sum: an
  author with more than `PerDay` posts of one day.  `ProviderInv` counts, for every author, day and
  start of the provider, the posts stored (`Budgets`): the count never exceeds what was spent of
  the present budget, nothing is stored of a start still to come, and what was stored under an
  earlier start is final.  `Stored` pairs stored posts with writes answered `ok`, one to one, behind
  their parents; `WriteGood` says that a proof on its way binds the write it goes with, for the
  difficulty the page knew, so that a refusal means that the provider asks for more.
- `WorkspacesReplaceNothing == PortalsSpec => [](focus = "workspaces" => Space!NothingReplaced)`, a
  conjunct of `PortalSound`.  The replica kept of a portal is overwritten from what operations
  captured long before; `SpaceInv` therefore compares what each of them has of the old replica with
  what is kept (`Knows`), of the workspace on the screen and of those left behind, and says that an
  import runs beside nothing else (`ImportsAlone`), so that nothing that began before it can take
  back what it brought.  The key on the screen is the one in storage (`KeyFits`) even for a user
  who waits for nothing.  The other conjuncts of `PortalSound` are not proved, see below.

### The feed

**`CommunityFeedProofs`**

- `TypeCorrect == Spec => []TypeOK`.
- `NothingPassed == Spec => []NothingSkipped`: whatever refreshes overlap, the cursor passes no good
  post that is neither in the timeline, nor displaced by newer ones, nor left out by a first sync
  (`unasked`).  `FeedInv` adds the types of what is on the wire and `PagesInReach`: a page asked for
  begins at the cursor or before it, unless it is that of a first sync, so that moving the cursor to
  its end leaves nothing between but what is added to `unasked` then; and a merge, which keeps the
  newest, takes no post out of its place (`Placed`) for an older one.  What two overlapping first
  syncs lose is in `unasked` (section 5).

### The mixnet

**`MixnetProofs`**, about `MixnetSpec`, the specification that the run `mixnet` checks; from
`PoolAssumption` and `MixnetAssumption` (those of the components, and that no page or request is
the value `None`).

- `PoolTypes`, `SurbSingleUse` (`SingleUse`) and `SurbFreshAccepted` (`FreshAccepted`) from one
  inductive invariant, `PoolInv`: types, and a `Ledger` which says that what was answered is
  consumed, and what is fresh is held and not consumed.  No assumption on the clock is needed.
- `TunnelAlwaysFound` (`TunnelFound`), for any number of loads and setups.  `FoundInv`: at most one
  setup is still loading the library, and it is the memo's (`OneImport`); the tunnel that runs is of a
  setup under way or done (`UpRuns`); until a disconnect is answered the memo is of a setup that loads
  or runs (`MemoUsable`), and the tunnel that runs is the memo's, unless a reconnect whose disconnect
  failed began a setup beside it, which is bound to fail (`UpIsMemo`).  A late rejection that cleared
  its successor's memo is excepted (`forgotten`): that is section 5.
- `RepliesNotReplayed` (`NoReplay`): the entry of an acceptance within its window is
  among the last of the list, behind no more than the replies accepted since (`Stands`), however
  the clock was set, since the list is only filtered by age, cut at its front and appended to.
- `CookiesSaved` (`JarSaved`): the copy on disk, purged, is the jar, purged, whenever no load is
  under way; while one is, the jar may be ahead, and a load ends by saving it.
- `LoadsStayRight`, assuming `~MayMove`: `MixnetSpec => LoadsBelong`.  `ClearnetInv`: a page kept for an url is of the
  document to which the redirects lead from there (`Leads`, a path of any length), its tag that of
  its version; a call is on that path; and so for the page a call is conditional on.  `~MayMove`, no server changing where it redirects
  to, is needed: with it TLC finds a page validated by the tag of another (section 5).

### The client

**`ClientProofs`**, about `ClientSpec`, the specification of the run `client`; from `LwwAssumption`
(the day, author and hash of a dot are numbers, and two writes of one key with the same dot are
the same write, since the hash is that of the value) and `ClientAssumption`.

- `TypeCorrect`, `LastHeld`, `Convergence` (`Converged`), about the maps: of each key a map holds
  the last of the writes it was told of, by an insert or by a copy, however old; replicas told of
  the same writes have the same map.  `LastWriteHeld` speaks of the copies on their way as well;
  with `TypeOK` it is inductive, and rests on `Before` being a total order of the dots.
- `FilesAlwaysStored` (`AttachmentsStored`), for files of any number of parts and any number of
  attempts.  `FilesInv`: a part is accepted in the present attempt only if the provider holds it of
  this attempt or has the whole file (`AcceptedHeld`); so when all are accepted the file is there
  (`LastPromotes`: the last part to come finds all others); a post on its way came after
  (`PostLast`).
- `KeysAlwaysKept` (`KeysKept`), for any number of procedures that overlap, refusals and restarts.
  `KeyInv` holds until a kill takes back what the plugin answered (`lost`), and has two parts.  `KeyBase`
  needs nothing else: a procedure waits for one call, at most once in the queue; a cache is wrapped
  only when the keystore has an identity, and nobody removes one, so some identity can be loaded -
  not always the one adopted last (section 5).  `KeyTruth` holds while the plugin is there and has refused nothing:
  answers are true of what the keystore held when it served the call, so an answer that nothing
  was found precedes every call that stored (`NothingBefore`), the last key told is the key held
  (`LastKeyHeld`), a cache under another key is about to be written again (`CacheFollows`), and the
  last identity stored, or on its way to be, is the user's (`LastStored`, `ShowsMine`).  Overlapping
  procedures draw keys over one another's; that the last of them to be told a key wraps under
  the key that stayed is exactly what these say together.

- `MailAlwaysKept` (`MailKept`), for any number of messages, openings and requests under way.
  `MailInv`: each message is accounted for at every step (`Accounted`): in the mailbox, in the answer
  under way, saved once, or gone for a reason the property names.  What an answer carries came
  before all that is still in the mailbox (`WireServed`), and after every message of others that a
  history holds (`Received`), so an answer recorded late, or by another opening, disorders nothing.

### Reading

**`BrowsingProofs`**, about `BrowsingSpec` (`Browsing`), of which the run `reading` checks an instance;
from `BrowsingAssumption` (those of the components).

- `TabsAlwaysAgree` (`TabsAgree`) and `NewestAlwaysWins` (`NewestWins`, the token of a tab never goes
  back).  The ends of loads are rendered at any time.  A handler that replaces the whole list, or goes
  by its history, uses the last render, and may write over what that did not show; from then on
  (`stale`) nothing is claimed, and section 5 tells what happens.  All other clicks on a list that is
  not the last are in.

  `TabsInv`: of all the loads under way for a tab, at most one was not aborted, and it is the one
  whose token and controller the tab has (`OneLoad`, `Orderly`), so the answers of all others find
  a tab that does not wait for them; ids are unique and never drawn again; each entry of a
  history that the index can be on is the url shown.
- `AlwaysSelfContained` (`SelfContained`), for any document, sheets that import each other in any
  way, and any budget.  `LoaderInv`: what is placed is inert when it is placed, or an `@import` with a
  string in a sheet of the greatest depth, what is not is on the list still; and what is cut short is
  aborted and not shown.
- `MediaAlwaysBelongs` (`MediaBelongs`).  `SessionsInv`: a token stands for one url for good, and only
  that of the view is registered; `BridgeInv`: the units gathered for a request are, where the origin
  sends ETags, of one version, the one its next request is conditional on, so a document replaced
  between two windows ends the answer instead of being mixed in.  Of an origin without, only that the
  units are of the document (section 5).
- `SavedAlwaysWhole` (`SavedWhole`), wherever a transfer fails.  `ShelfInv`: all bytes are in their
  place (`AllInPlace`); the bytes retained of an entry, and those of a transfer, are the first ones of
  the version its validator names (`EntryGood`, `WorkGood`), and their total is that of this version
  - unless an attempt that failed without a byte put its validator on those of an earlier one
  (`older`), of which `ResumedWhole` claims as much and the run `download_resume` refutes it.

### Lists

**`ListProofs`** has what the others cite: of every set of numbers and of every family of lists
there is a least one (`LeastNat`, `LeastList`), and what `Kept` returns (`Kept...`): a list of the
elements in the set, in order, no longer than the list, unchanged by a second pass.  The
library's induction theorems cannot be used, since they take an operator as a parameter; these
facts are proved from a least counterexample instead, which exists by `LeastList`.

### What is only model-checked

- Liveness (`EverythingEnds`, `EveryPostShown`, `OperationsEnd`, `EveryGapEnds`): its proof needs
  ENABLED and fairness.
- `Delivered`: what the recursive wrapping of a packet yields, hop by hop, over terms.
- Of `PortalSound`: `Seen!ViewsAgree`, which compares what folding a replica gives in two orders of its
  authors, an induction over data; and `Trust!VerdictsKept`, about the first occurrences in lists,
  whose operators are recursive over them.  `NothingReplaced` is proved.
- `ShellKeeps` (messages by address, saved places): several short promises of components that are
  not concurrent; no inductive invariant was written.
- The type invariants of the composed runs (`MixnetTypeOK`, `PortalsTypeOK`, `LiveTypeOK`,
  `ClientTypeOK`, `ReadingTypeOK`), of which the proofs have the parts they need.

No module uses a RECURSIVE operator.

## 5. What the models found

Five runs are expected to violate their property, each a sentence of the repository.

- `portal_lost`: `onSync` and `publishContent` each replace the whole replica by one computed from
  the replica captured at their start, and exclude only themselves.  A sync that began before a
  post was published, and ends after it, takes the post off the screen and out of IndexedDB; the
  other way round, a publishing throws away what the sync fetched.  `portalWrite.ts:83` says "Add
  a successfully published bundle to the local replica".  It heals with the next sync.
- `feed_older`: `loadOlder` asks for 50 posts from 60 before the oldest one shown, so the nine
  just before that one are never asked for.
- `feed_poll`: a definitive refusal ends the chain of polls, and Retry clears the flag but does not
  arm the timer.  `useCommunityFeed.ts:459`: "pauses polling entirely (Retry re-enables it)".
  `useDirectMessages.ts` has the same chain.
- `dm_history`: the effect that empties the records when the service changes also runs on mount,
  after the records were read from the device; the next message saves a list holding it alone
  over the history, and the server has deleted the originals.  `useDirectMessages.ts:85`: "the
  cache is the history".
- `download_resume` (`ResumedWhole`): a resume whose HEAD saw a new version and which fails before
  its first byte leaves the bytes of the old version under the validator of the new one; the next
  resume completes them with the other's bytes and saves the mixture.  `App.tsx:1860`: "Resume only
  when the retained bytes belong to the same validator".

What follows holds of the models only with a restriction that is named, or was seen while they were
written, and has no run of its own.

- *Tabs* (`stale`).  `onNewTab`, `onCloseTab` and `openPortalWorkspace` replace the whole tab
  list by one computed from the last render (`App.tsx:1690`).  A redirect's update that is queued
  and not rendered is lost, while the redirected load - same tab and token - goes on and is shown
  under the old url.  `docs/15-browser-navigation.md`: "All state changes are applied by tab id +
  token."  `TabsAgree` and
  `NewestWins` hold up to the click that does so, whatever was not rendered before.
- *Workspaces* (`Careless`).  The properties need a user who waits for a workspace to be loaded,
  imports beside nothing else, and a store that takes the import.  Otherwise: a key asked for before
  the load replaces the one in storage (`PortalWorkspace.tsx:239`); a sync or publishing before it
  saves a replica computed from the empty one, and so does the automatic sync a second after the
  mount when the load takes longer; an import overlapped by an earlier sync, or whose save is
  refused, loses the old replica, which is removed either way (`portalMigration.ts`).
- *Feed* (`unasked`).  Two first syncs may overlap, since a forced refresh does not look for one under
  way: when `/health` fails for one and answers for the other, both begin with no cursor, one at the
  very first post and one a page before the newest.  The page of the second moves the cursor past
  what lies between, and no request asks for that again (`useCommunityFeed.ts:313`, `:353`).
- *Threads* (`Displaced`).  At the cap a fetched ancestor older than every kept post is trimmed at
  once, is missing again and is fetched again, without end; `GapsEnd` excepts that state.
- *Clearnet* (`MayMove`).  When a server changes where it redirects to, a page kept under its first
  url may be validated by the tag of another.
- *Proof of work.*  `usePow.ts` keeps the difficulty it read first.  After one failed read of the
  descriptor it keeps 0, and after a restart of the provider the old one, and every write is
  refused until the page is loaded again.  A parent the provider does not know is found out after
  the budget was spent; a profile that arrives late replaces a newer one; a post whose answer was
  lost is stored twice when the user tries again.
- *Trust.*  `MAX_TRUST_AUTHORS` is enforced only when loading, and keeps the oldest, so verdicts
  past the limit are in memory and not there at the next start.
- *View.*  The list of uploaded objects is in the order of insertion of the authors, so two readers
  may see it in two orders; only its members are compared.
- *Maps.*  `portalLww.ts:6` says that the browser uses it; nothing imports it.
- *Request layer.*  A call made while `stopFetchNymClient` is shutting a client down boots a second
  one under the same id.  A recipient once banned from batches stays so while the page lives
  (`fetchNym.ts:89`).
- *Portal.*  After a power loss of the provider a reader merges entries of two histories, since
  entries do not name their predecessor (`portalSync.ts:201`).
- *Tunnel.*  A load that begins during a disconnect can set up a tunnel the page takes for off
  (`tunnel.ts:95`); a late rejection of an overtaken setup clears the memo of its successor
  (`forgotten`): each load after that begins a setup that the library refuses, until a reconnect.
- *Identity.*  One created while the stored one is still loading is stored over it, and the view
  shows the old one until the next start (`useIdentitySession.ts:122`); after a refused write to
  the keystore the identity it holds already prevails at the next start, and is written over the
  one that was adopted, which only the cache had (`identityStore.ts:199`).  The plugin resolves
  after `SharedPreferences.apply()` (`NysirisKeystorePlugin.java:106`), so a kill may take back the
  identity or the key of the cache after the caller was told; the cache itself (local storage) is
  taken as durable.
- *Loader.*  `contentLoader.ts:516` says "never a live URL", but `rewriteCss` at the greatest depth
  looks only for `url(...)`, and leaves an `@import` with a string live; `SelfContained` excepts it,
  at that depth only.  The policy of the document would stop the frame from fetching it.
- *Offline media.*  When the tab shown next has another document, the same view goes on, and
  `useOfflineMedia` resets its URL only once a saved copy is found: until then, and for good when
  there is none, the player has the revoked URL of the document before (`useOfflineMedia.ts:22`).
- *Downloads and media.*  A download under way when the application ends stays `pending` on the
  shelf, and the button that would resume it stays disabled (`DownloadManager.tsx:54`).  A transfer
  that ends over `maxBytes` fails with part of the document, which Resume then completes and
  saves.  Where an
  origin sends no ETag nothing makes the parts of one answer be of one version, and a document
  replaced between two windows is played, or saved, as a mixture (`mediaBridge.ts:84`).  A media range
  whose end lies past the document is refused instead of shortened; a suffix range is answered from the start.  A token the app does
  not know gets no answer at all, so the player waits out the 120 s of the worker.
- *Bookmarks.*  At the limit a new name is refused as "already exists", since a list that got no
  longer is taken for a duplicate (`bookmarks.ts:64` offers the comparison of lengths for that).
- *Links.*  The same link delivered twice in a row is opened once; one in the hash is opened again
  by a reload.
- *Test of a portal.*  The button stays enabled, so two tests may overlap, and the verdict shown may
  be of an address that was edited since.
- *Messages.*  The end of a send empties the draft that was typed meanwhile.  A start that fails
  after its subscriptions leaves them, so the next has two clients deliver each message, of which
  the tracker drops one.  An invite accepted under a name already taken is dismissed and not saved.

## 6. What is not modelled, and why

- Bytes: encodings, envelopes, hashes, signatures, ciphers.  They are names, predicates or terms:
  an object is its name, a signature holds for what was signed, a sealed message opens or does not.
- Pure functions of strings: addresses, the leak guard, url classification, parsing of HTML, CSS,
  headers and cookies; what they yield is a constant of the instance.
- Rendering and layout, wording, logging.
- Synchronous preference stores (settings, petnames, zoom): one write per click.
- Programs that only parse arguments, set up a store, or serve static files: CLI, launchers, echo
  provider, the portal provider's `main.rs`, Android glue, extension, scripts.
- `crates/portal-replication`'s merge and `crates/portal-reputation`'s scores: no program calls
  them; the browser's merge is modelled.
- The portal scheduler decides only when a background sync begins, which the models leave open.
- The expiry of direct messages and blobs by age; `RateLimiter::prune`, which nothing calls.

`components` in `PROJECT.json` lists each with its reason.

## 7. The plan

Done, in this order: the request layer (everything rests on it), the portal with its abstract log,
tabs, tunnel and reply controls, Sphinx, feed, messages, attachments, identity; threads; clearnet
requests, loader, media and downloads; workspaces, view, trust, the social provider's guards and
the maps; messages by address and saved places; the proof modules beside them.

Next, most important first:

1. *Proofs.*  `ShellKeeps`; `VerdictsKept`, with lemmas about first occurrences beside those about
   `Kept`.
2. *Reply budgets and reputation*, when a program uses them.
3. *Expiry at the social provider*: messages and blobs by age, beside uploads and polls.

New components join the modules of several components as further foci, so that the number of runs
stays small and every run asks one question.
