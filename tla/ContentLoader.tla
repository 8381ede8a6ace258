--------------------------- MODULE ContentLoader ----------------------------
(***************************************************************************)
(* prepareDocument (web/src/application/contentLoader.ts): a page fetched   *)
(* over the mixnet becomes a document that needs nothing else.  Whatever it *)
(* refers to is fetched through the mixnet as well and put in its place,    *)
(* within a budget, or replaced; what remains live would be asked of the    *)
(* clearnet by the frame itself, were it not for the policy that the        *)
(* document is given besides (default-src 'none'), a second line of defence *)
(* on which the properties here do not rely.                                *)
(*                                                                          *)
(* A document is the list of its references in the order the code comes to  *)
(* them.  A style sheet that was fetched has references of its own.         *)
(***************************************************************************)
EXTENDS FiniteSets, Lists

CONSTANTS Pages,        \* documents: sequences of references [tag, url]
          Urls,         \* what references may name and resolve to
          Imports,      \* Imports[u]: the @imports of sheet u, [form, url]
          Assets,       \* Assets[u]: the url(...)s of sheet u
          Length,       \* Length[u]: the bytes of u
          Cards,        \* urls that object elements show as cards: not images
          Sheets,       \* urls of style sheets: no image, no media
          MaxResources, MaxResourceBytes, MaxTotalBytes, MaxCssDepth,
          None

Tags == {"icon", "link", "style", "attribute", "object", "image", "poster",
         "media", "source", "svg", "a", "other"}

LoaderAssumption ==
  /\ \A page \in Pages : page \in Seq(Elems(page))
  /\ \A page \in Pages : \A i \in DOMAIN page :
       /\ page[i].tag \in Tags
       /\ page[i].tag \in {"style", "attribute"} => page[i].url \in Urls   \* a sheet
       /\ page[i].tag = "attribute" => Imports[page[i].url] = <<>>   \* holds no @import
  /\ Imports \in [Urls -> Seq([form : {"string", "url"}, url : Urls])]
  /\ DOMAIN Assets = Urls /\ \A u \in Urls : Assets[u] \in Seq(Elems(Assets[u]))
  /\ Length \in [Urls -> Nat]
  /\ MaxResources \in Nat /\ MaxResourceBytes \in Nat
  /\ MaxTotalBytes \in Nat /\ MaxCssDepth \in Nat

VARIABLES
  todo,     \* the references still to be treated, the next one first
  fetched,  \* cache of the resource loader: did the url's fetch succeed?
  stats,    \* [resources, bytes]
  placed,   \* what became of the references: [tag, url, as, depth], the last
            \* the number of sheets around an import
  aborted,  \* the signal of the navigation
  cut,      \* was a resource missed because of it?
  shown     \* the document is on the screen and in the document cache

vars == <<todo, fetched, stats, placed, aborted, cut, shown>>

(* Icons and links come first, then what the style pass finds in the sheets *)
(* links became, then the rest.                                             *)
Pass(tag) == IF tag \in {"icon", "link"} THEN 1 ELSE 3
Reference(tag, url) == [tag |-> tag, url |-> url, depth |-> 0, pass |-> Pass(tag)]

Init ==
  /\ \E page \in Pages : todo = [i \in DOMAIN page |-> Reference(page[i].tag, page[i].url)]
  /\ fetched = <<>> /\ stats = [resources |-> 0, bytes |-> 0]
  /\ placed = {} /\ aborted = FALSE /\ cut = FALSE /\ shown = FALSE

Known   == DOMAIN fetched
Current == Head(todo)
-----------------------------------------------------------------------------
(* createResourceLoader: a url is fetched once; what is too large, or over  *)
(* the budget, counts as not available.                                     *)

FetchSubresource == BOOLEAN    \* the resource, or null for whatever went wrong

LoadOnce(ok) == [u \in Known \cup {Current.url} |-> IF u \in Known THEN fetched[u] ELSE ok]

Fits == /\ Length[Current.url] <= MaxResourceBytes
        /\ stats.bytes + Length[Current.url] <= MaxTotalBytes

(* Load with what comes of it: TRUE if the resource is there.               *)
Load(ok) ==
  \/ aborted /\ ~ok /\ cut' = TRUE /\ UNCHANGED <<fetched, stats>>
  \/ ~aborted /\ Current.url \in Known /\ ok = fetched[Current.url] /\ UNCHANGED <<fetched, stats, cut>>
  \/ /\ ~aborted /\ Current.url \notin Known /\ stats.resources >= MaxResources
     /\ ~ok /\ UNCHANGED <<fetched, stats, cut>>
  \/ /\ ~aborted /\ Current.url \notin Known /\ stats.resources < MaxResources
     /\ ok => Fits
     /\ fetched' = LoadOnce(ok)
     /\ stats' = [resources |-> stats.resources + 1,
                  bytes |-> IF ok THEN stats.bytes + Length[Current.url] ELSE stats.bytes]
     /\ UNCHANGED cut

Placed(r, as) == [tag |-> r.tag, url |-> r.url, as |-> as, depth |-> r.depth]
Place(as) == placed' = placed \cup {Placed(Current, as)}
Done      == todo' = Tail(todo)
Settled   == UNCHANGED <<aborted, shown>>
Unfetched == UNCHANGED <<fetched, stats, cut>>
Resolves  == Current.url \in Urls    \* resolveResourceUrl, resolveLinkUrl
Is(tags)  == todo # <<>> /\ Current.tag \in tags
-----------------------------------------------------------------------------
(* The passes of prepareDocument.                                          *)

(* Scripts, frames, templates and the like go, as do handlers, refreshes,   *)
(* and every src that no pass below treats.                                 *)
StripActive ==
  /\ Is({"other"}) /\ Place("removed") /\ Done
  /\ Unfetched /\ Settled

(* The first icon that can be had; the others are not asked for.            *)
HasIcon == \E p \in placed : p.tag = "icon" /\ p.as = "data"
Icon ==
  /\ Is({"icon"}) /\ Done
  /\ IF HasIcon \/ ~Resolves
     THEN Place("removed") /\ Unfetched
     ELSE \E ok \in FetchSubresource : Load(ok) /\ Place(IF ok THEN "data" ELSE "removed")
  /\ Settled

(* A sheet that cannot be had is left out; one that can is treated next,    *)
(* and then what it imports in turn.                                        *)
SheetOf(r) == [r EXCEPT !.tag = "sheet"]
StyleLink ==
  /\ Is({"link", "import"})
  /\ IF ~Resolves
     THEN Place("removed") /\ Done /\ Unfetched
     ELSE \E ok \in FetchSubresource :
            /\ Load(ok) /\ Place(IF ok THEN "data" ELSE "removed")
            /\ todo' = (IF ok THEN <<SheetOf(Current)>> ELSE <<>>) \o Tail(todo)
  /\ Settled

(* A style element is a sheet at the address of the page; a style attribute *)
(* one in which imports are not looked for.                                 *)
StyleElement ==
  /\ Is({"style", "attribute"})
  /\ todo' = <<[SheetOf(Current) EXCEPT
                 !.depth = IF Current.tag = "style" THEN 0 ELSE MaxCssDepth]>> \o Tail(todo)
  /\ UNCHANGED placed /\ Unfetched /\ Settled

(* rewriteCss: the imports down to the depth allowed, then every url(...).  *)
(* Of an import below that depth only the form with url(...) is seen; but   *)
(* a sheet that was linked is a style element by the time of the style pass *)
(* and is looked through once more, as if none of it had been imported.     *)
PermitsOneLess(depth) == depth + 1 < MaxCssDepth    \* mutant: the limit is one off
Permits(depth) == depth < MaxCssDepth
Below(r, form) ==
  IF Permits(r.depth) THEN <<>>
  ELSE Kept(Imports[r.url], [form : {form}, url : Urls])
ImportsOf(r) ==
  IF ~Permits(r.depth) THEN <<>>
  ELSE [i \in DOMAIN Imports[r.url] |->
          [tag |-> "import", url |-> Imports[r.url][i].url, depth |-> r.depth + 1, pass |-> r.pass]]
Assetlike(r, us) == [i \in DOMAIN us |->
                       [tag |-> "asset", url |-> us[i], depth |-> 0, pass |-> r.pass]]
UrlsOf(seq) == [i \in DOMAIN seq |-> seq[i].url]
KeepsBelow(r) == \* mutant: below the depth allowed nothing is looked at
  Assetlike(r, IF Permits(r.depth) THEN Assets[r.url] ELSE <<>>)
AssetsOf(r) == Assetlike(r, UrlsOf(Below(r, "url")) \o Assets[r.url])

SecondPass(list, urls) ==
  LET early == Cardinality({i \in DOMAIN list : list[i].pass < 3})
      found == [i \in DOMAIN urls |-> [tag |-> "import", url |-> urls[i], depth |-> 1, pass |-> 2]]
  IN SubSeq(list, 1, early) \o found \o SubSeq(list, early + 1, Len(list))

Untouched(r) == Elems(UrlsOf(Below(r, "url")) \o Assets[r.url]) \ Elems(UrlsOf(AssetsOf(r)))

Live(r, tag, urls) == {Placed([r EXCEPT !.tag = tag, !.url = u], "live") : u \in urls}
RewriteCss ==
  /\ Is({"sheet"})
  /\ LET rest  == ImportsOf(Current) \o AssetsOf(Current) \o Tail(todo)
         left  == UrlsOf(Below(Current, "string"))
         again == Current.pass = 1 /\ MaxCssDepth > 0
     IN /\ todo' = IF again THEN SecondPass(rest, left) ELSE rest
        /\ placed' = placed \cup Live(Current, "asset", Untouched(Current))
                            \cup Live(Current, "import", IF again THEN {} ELSE Elems(left))
  /\ Unfetched /\ Settled

(* An object becomes an image, or a card from which the app can open it.    *)
Object ==
  /\ Is({"object"}) /\ Done
  /\ IF ~Resolves THEN Place("blocked") /\ Unfetched
     ELSE IF Current.url \in Cards THEN Place("card") /\ Unfetched
     ELSE \E ok \in FetchSubresource : Load(ok) /\ Place(IF ok THEN "data" ELSE "card")
  /\ Settled

(* What stands in for an image, a poster, media, an svg image, when it      *)
(* cannot be had; and when its url cannot be resolved.                      *)
Fallback(tag, resolves) ==
  IF tag \in {"image", "asset"} THEN "pixel"
  ELSE IF tag \in {"media", "source"} /\ resolves THEN "card" ELSE "removed"

Inline ==
  /\ Is({"image", "poster", "media", "source", "svg", "asset"}) /\ Done
  /\ IF ~Resolves THEN Place(Fallback(Current.tag, FALSE)) /\ Unfetched
     ELSE \E ok \in FetchSubresource :
            /\ Load(ok)
            /\ Place(IF ok /\ Current.url \notin Sheets THEN "data"
                     ELSE Fallback(Current.tag, TRUE))
  /\ Settled

(* A link is followed by the shell, in a tab.                               *)
RewriteLink ==
  /\ Is({"a"}) /\ Done
  /\ Place(IF Resolves THEN "handled" ELSE "removed")
  /\ Unfetched /\ Settled

Abort ==
  /\ ~aborted /\ ~shown /\ aborted' = TRUE
  /\ UNCHANGED <<todo, fetched, stats, placed, cut, shown>>

(* loadInto shows the document, and keeps it for the validators it came     *)
(* with, unless the navigation was aborted meanwhile.                       *)
MayShow == ~aborted
Show ==
  /\ todo = <<>> /\ ~shown /\ MayShow /\ shown' = TRUE
  /\ UNCHANGED <<todo, fetched, stats, placed, aborted, cut>>

Next == \/ StripActive \/ Icon \/ StyleLink \/ StyleElement \/ RewriteCss
        \/ Object \/ Inline \/ RewriteLink \/ Abort \/ Show
-----------------------------------------------------------------------------
TypeOK ==
  /\ \A i \in DOMAIN todo : todo[i].depth \in 0..MaxCssDepth /\ todo[i].pass \in 1..3
  /\ Known \subseteq Urls /\ Cardinality(Known) = stats.resources
  /\ stats.resources \in 0..MaxResources /\ stats.bytes \in 0..MaxTotalBytes
  /\ {aborted, cut, shown} \subseteq BOOLEAN

(* A document that is shown and kept needs nothing else, whichever fetches  *)
(* failed, ran over the budget or were cut off, however sheets import one   *)
(* another - but for the @import with a string of a sheet as deep as is     *)
(* allowed, which rewriteCss does not see; and it was not cut short.        *)
SelfContained ==
  shown => /\ ~cut
           /\ \A p \in placed : p.as = "live" =>
                /\ p.tag = "import" /\ p.depth = MaxCssDepth
                /\ \E u \in Urls : [form |-> "string", url |-> p.url] \in Elems(Imports[u])
=============================================================================
