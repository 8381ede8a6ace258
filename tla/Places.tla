------------------------------- MODULE Places -------------------------------
(* The places the shell of the application remembers (App.tsx, shell.ts,    *)
(* bookmarks.ts, deepLinks.ts, deepLink.ts, RunPortal.tsx): the portals     *)
(* visited last, the favourites, named bookmarks, links that the system     *)
(* hands over, and the test of the user's own portal.                       *)
EXTENDS Integers, FiniteSets, SequencesExt

CONSTANTS None,
          Places,         \* addresses of portals
          Names,          \* bookmark names, as normalised
          MaxRecent,      \* MAX_RECENT_PORTALS
          MaxFavorites,   \* MAX_FAVORITE_PORTALS
          MaxBookmarks,   \* MAX_BOOKMARKS
          MaxEvents,      \* bound on visits and clicks
          MaxTests,       \* bound on the tests of an address
          MaxLinks,       \* bound on the links handed over
          MaxRestarts     \* bound on reloads

PlacesAssumption == /\ {MaxRecent, MaxFavorites, MaxBookmarks} \subseteq Nat \ {0}
                    /\ {MaxEvents, MaxTests, MaxLinks, MaxRestarts} \subseteq Nat

VARIABLES
  place,                     \* the portal of the tab in front: socialService
  recent, favorites, marks,  \* the lists as shown, newest first
  storage,                   \* the same as saved
  events,                    \* what the user did: visits, stars and names
  param,                     \* the link that the address of the page names
  last,                      \* the link delivered last
  asked, opened,             \* the links handed over, and what was opened and why
  address, tests, probe,     \* the address to test, the tests under way, what is shown
  count                      \* tests, links and restarts

vars == <<place, recent, favorites, marks, storage, events, param, last, asked, opened,
          address, tests, probe, count>>
listVars  == <<recent, favorites, marks, storage, events>>
linkVars  == <<param, last, asked, opened>>
probeVars == <<address, tests, probe>>

Counts(f, bound) == /\ count[f] < bound
                    /\ count' = [count EXCEPT ![f] = @ + 1]
Happens(e) == Len(events) < MaxEvents /\ events' = Append(events, e)
First(list, n) == SubSeq(list, 1, IF Len(list) < n THEN Len(list) ELSE n)
-----------------------------------------------------------------------------
(* Lists.                                                                   *)

RememberPortal(list, p) == First(<<p>> \o SelectSeq(list, LAMBDA q : q # p), MaxRecent)
ToggleFavorite(list, p) ==
  IF Contains(list, p) THEN SelectSeq(list, LAMBDA q : q # p) ELSE First(<<p>> \o list, MaxFavorites)
AddBookmark(list, n, link) ==
  IF \E i \in DOMAIN list : list[i].name = n THEN list
  ELSE First(<<[name |-> n, link |-> link]>> \o list, MaxBookmarks)

(* A page of a portal arrives, in the tab in front or in another.           *)
Visit(p) ==
  /\ Happens([what |-> "visit", at |-> p])
  /\ place' \in {p, place}
  /\ recent' = RememberPortal(recent, p)
  /\ storage' = [storage EXCEPT !.recent = First(recent', MaxRecent)]
  /\ UNCHANGED <<favorites, marks, linkVars, probeVars, count>>

(* The star of the portal in front, or the list of what is saved.           *)
OnToggleFavorite(p) ==
  /\ p = place \/ Contains(favorites, p)
  /\ Happens([what |-> IF Contains(favorites, p) THEN "unstar" ELSE "star", at |-> p])
  /\ favorites' = ToggleFavorite(favorites, p)
  /\ storage' = [storage EXCEPT !.favorites = First(favorites', MaxFavorites)]
  /\ UNCHANGED <<place, recent, marks, linkVars, probeVars, count>>

(* The link is what the address bar says.  A list that got no longer is     *)
(* taken for a name that is there already.                                  *)
OnAddBookmark(n, link) ==
  /\ place # None
  /\ LET next == AddBookmark(marks, n, link)
     IN /\ Len(next) # Len(marks)
        /\ marks' = next
        /\ storage' = [storage EXCEPT !.marks = First(next, MaxBookmarks)]
  /\ Happens([what |-> "name", at |-> n])
  /\ UNCHANGED <<place, recent, favorites, linkVars, probeVars, count>>

OnRemoveBookmark(n) ==
  /\ \E i \in DOMAIN marks : marks[i].name = n
  /\ marks' = SelectSeq(marks, LAMBDA b : b.name # n)
  /\ storage' = [storage EXCEPT !.marks = First(marks', MaxBookmarks)]
  /\ Happens([what |-> "unname", at |-> n])
  /\ UNCHANGED <<place, recent, favorites, linkVars, probeVars, count>>

(* The portals of the roster: the favourites, the recent ones, the one open. *)
RosterPortals ==
  LET all == favorites \o recent \o (IF place = None THEN <<>> ELSE <<place>>)
      firsts == {i \in DOMAIN all : \A j \in 1..i - 1 : all[j] # all[i]}
  IN [i \in 1..Cardinality(firsts) |->
        LET at == CHOOSE x \in firsts : Cardinality({y \in firsts : y <= x}) = i
        IN [address |-> all[at], current |-> all[at] = place,
            starred |-> Contains(favorites, all[at])]]
-----------------------------------------------------------------------------
(* Links of the system.                                                     *)

Opens(l, by) == opened' = Append(opened, [link |-> l, by |-> by])

(* A link arrives while the application runs: in a message, or in the hash, *)
(* which is left as it is.                                                  *)
Deliver(l) ==
  /\ Counts("links", MaxLinks) /\ asked' = Append(asked, l)
  /\ \/ UNCHANGED param
     \/ param # l /\ param' = l
  /\ IF l = last THEN UNCHANGED <<last, opened>> ELSE last' = l /\ Opens(l, "delivery")
  /\ UNCHANGED <<place, listVars, probeVars>>

(* The page starts.  A link in its address is taken out and opened, instead *)
(* of the document that was in front.                                       *)
Starts(link, by) ==
  /\ param' = None /\ last' = None
  /\ IF link = None THEN UNCHANGED opened ELSE Opens(link, by)
  /\ recent' = storage.recent /\ favorites' = storage.favorites /\ marks' = storage.marks
  /\ tests' = {} /\ probe' = "idle"
  /\ UNCHANGED <<place, storage, events, address>>

Launch(l) == Counts("links", MaxLinks) /\ asked' = Append(asked, l) /\ Starts(l, "launch")
Reload == Counts("restarts", MaxRestarts) /\ UNCHANGED asked /\ Starts(param, "reload")
-----------------------------------------------------------------------------
(* The test of an address.  Its button stays enabled while a test runs.     *)

EditAddress(a) ==
  /\ address # a /\ address' = a
  /\ UNCHANGED <<place, listVars, linkVars, tests, probe, count>>

Test ==
  /\ address # None /\ Counts("tests", MaxTests)
  /\ tests' = tests \union {[n |-> count.tests, address |-> address]}
  /\ probe' = "checking"
  /\ UNCHANGED <<place, listVars, linkVars, address>>

AdvanceProbe(ok) == IF ok THEN "reachable" ELSE "unreachable"
TestEnds(t, ok) ==
  /\ t \in tests /\ tests' = tests \ {t}
  /\ probe' = AdvanceProbe(ok)
  /\ UNCHANGED <<place, listVars, linkVars, address, count>>
-----------------------------------------------------------------------------
Init ==
  /\ place = None /\ recent = <<>> /\ favorites = <<>> /\ marks = <<>>
  /\ storage = [recent |-> <<>>, favorites |-> <<>>, marks |-> <<>>]
  /\ events = <<>> /\ param = None /\ last = None /\ asked = <<>> /\ opened = <<>>
  /\ address = None /\ tests = {} /\ probe = "idle"
  /\ count = [tests |-> 0, links |-> 0, restarts |-> 0]

Next ==
  \/ \E p \in Places : \/ Visit(p) \/ OnToggleFavorite(p)
                       \/ Deliver(p) \/ Launch(p) \/ EditAddress(p)
  \/ \E n \in Names : \/ \E p \in Places : OnAddBookmark(n, p)
                      \/ OnRemoveBookmark(n)
  \/ Reload
  \/ Test
  \/ \E t \in tests, ok \in BOOLEAN : TestEnds(t, ok)
-----------------------------------------------------------------------------
TypeOK ==
  /\ place \in Places \union {None} /\ address \in Places \union {None}
  /\ Len(recent) <= MaxRecent /\ Len(favorites) <= MaxFavorites /\ Len(marks) <= MaxBookmarks
  /\ probe \in {"idle", "checking", "reachable", "unreachable"}
  /\ param \in Places \union {None}

LastOf(kinds, x) == SelectLastInSeq(events, LAMBDA e : e.what \in kinds /\ e.at = x)
Later(kind, i) == {events[j].at : j \in {k \in DOMAIN events : k > i /\ events[k].what = kind}}

(* What the shell shows is what the user did, across reloads: the recent    *)
(* portals are those visited last, in that order; what was starred last and *)
(* not taken back is a favourite until MaxFavorites others were starred     *)
(* after it; and a name that was accepted stays until it is removed.        *)
ListsKept ==
  /\ \A p \in Places :
       LET v == LastOf({"visit"}, p)
           f == LastOf({"star", "unstar"}, p)
       IN /\ IF v = 0 THEN ~Contains(recent, p)
             ELSE LET n == Cardinality(Later("visit", v)) + 1
                  IN n <= MaxRecent => recent[n] = p
          /\ f # 0 /\ events[f].what = "star" /\ ~Contains(favorites, p)
               => Cardinality(Later("star", f)) >= MaxFavorites
          /\ Contains(favorites, p) => f # 0 /\ events[f].what = "star"
  /\ \A n \in Later("name", 0) :
       (\E i \in DOMAIN marks : marks[i].name = n) <=> events[LastOf({"name", "unname"}, n)].what = "name"
  /\ storage = [recent |-> recent, favorites |-> favorites, marks |-> marks]

(* The roster has no portal twice, pins the favourites above the others and *)
(* always has the portal that is open.                                      *)
RosterWhole ==
  LET r == RosterPortals
  IN /\ \A i, j \in DOMAIN r : /\ r[i].address = r[j].address => i = j
                               /\ r[j].starred /\ i <= j => r[i].starred
     /\ place # None => \E i \in DOMAIN r : r[i].address = place /\ r[i].current

(* A link that was handed over is opened at once, and only then: one that   *)
(* comes again right after itself is not opened again, and a reload opens   *)
(* none but one that the hash still names.  No test is announced that is    *)
(* not under way.                                                           *)
OpenedOnce ==
  LET first == SelectSeq(opened, LAMBDA o : o.by # "reload")
      again == SelectSeq(opened, LAMBDA o : o.by = "reload")
  IN /\ Len(first) <= Len(asked)
     /\ asked # <<>> => first # <<>> /\ first[Len(first)].link = asked[Len(asked)]
     /\ \A i \in DOMAIN opened : opened[i].by = "reload" =>
          \E j \in 1..i - 1 : opened[j] = [link |-> opened[i].link, by |-> "delivery"]
     /\ Len(again) <= count.restarts
     /\ probe = "checking" => tests # {}
=============================================================================
