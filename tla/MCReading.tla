----------------------------- MODULE MCReading ------------------------------
(* Reading through the mixnet on small instances, and around it the shell   *)
(* of the application, whose parts share no state with it or one another.   *)
(*   tabs:      a page of a Nym service, which may redirect to a clearnet   *)
(*              page; the ids of tabs are interchangeable.                  *)
(*   loader:    documents with a reference of every kind.                   *)
(*   media, offline, downloads: see Browsing.                               *)
(*   messages:  threads, invites and the address book.                      *)
(*   letters:   the client, what it delivers and what is sent.              *)
(*   places:    recent and favourite portals and bookmarks.                 *)
(*   links:     links that the system hands over, tests of an address.      *)
EXTENDS Browsing, TLC, Integers, Sequences, FiniteSets

CONSTANTS nym, deep, web, site

VARIABLES client, listeners, tracked, mail, open, thread, read, shown, recipient, edited,
          draft, sending, contacts, book, pendingInvite, petname, typedFor, count,
          place, recent, favorites, marks, storage, events, param, last, handed, opened,
          address, tests, probe

messageVars  == <<client, listeners, tracked, mail, open, thread, read, shown, recipient,
                  edited, draft, sending, contacts, book, pendingInvite, petname, typedFor>>
placeVars    == <<place, recent, favorites, marks, storage, events, param, last, handed,
                  opened, address, tests, probe>>

Pages     == {nym, deep, web}
Service   == nym :> site @@ deep :> site @@ web :> None
Origin    == nym :> site @@ deep :> site @@ web :> web
Redirects == nym :> {web} @@ deep :> {} @@ web :> {}
Symmetric == Permutations(Ids)

(* Sheets that import each other in a circle and name images, and documents *)
(* with a reference of every kind, one of them to nothing that is there.    *)
Linked    == {"s1", "s2", "s3", "i1", "i2", "p"}
Imported  == [u \in Linked |->
                CASE u = "s1" -> <<[form |-> "string", url |-> "s2"]>>
                  [] u = "s2" -> <<[form |-> "string", url |-> "s3"],
                                   [form |-> "url", url |-> "i1"]>>
                  [] u = "s3" -> <<[form |-> "string", url |-> "s1"]>>
                  [] u = "p"  -> <<[form |-> "url", url |-> "s1"],
                                   [form |-> "string", url |-> "s3"]>>
                  [] OTHER    -> <<>>]
Named     == [u \in Linked |-> CASE u = "s2" -> <<"i1", "bad">>
                                    [] u = "p"  -> <<"i2">>
                                    [] OTHER    -> <<>>]
Bytes     == [u \in Linked |-> IF u = "i2" THEN 2 ELSE 1]
Refs(tag, urls) == [i \in DOMAIN urls |-> [tag |-> tag, url |-> urls[i]]]
ReadPages ==
  {Refs("icon", <<"i1", "i2">>) \o Refs("link", <<"s1", "bad">>) \o Refs("style", <<"p">>),
   Refs("attribute", <<"i1">>) \o Refs("object", <<"i1", "bad", "p">>)
     \o Refs("image", <<"i2", "bad">>) \o Refs("poster", <<"i1">>)
     \o Refs("media", <<"i2">>) \o Refs("source", <<"s1", "bad">>)
     \o Refs("svg", <<"i1">>) \o Refs("a", <<"p", "bad">>) \o Refs("other", <<"i1">>)}

WithCard  == {"p"}
Styled    == {"s1", "s2", "s3", "p"}

\* The document of a download loses a byte from version to version.
Versions  == <<3, 2>>
EachFilm  == [u \in Films |-> 2]

Keys == {"ann", "bob"}
Sites == {"x", "y"}

(* Invites of one inviter to the two addresses, one carried by a link to    *)
(* the other, and one of which a voucher was taken away.                    *)
Carried(invite, at) == [invite |-> invite, address |-> at]
Signed(at) == [service |-> at, inviter |-> "ann", note |-> "hello", vouches |-> {"bob"},
               sig |-> [by |-> "ann", service |-> at, note |-> "hello", vouches |-> {"bob"}]]
Offered == {Carried(Signed("x"), "x"), Carried(Signed("y"), "y"), Carried(Signed("x"), "y"),
            Carried([Signed("y") EXCEPT !.vouches = {}], "y")}
Book == INSTANCE Messages WITH
          Addresses <- Sites, Names <- {"amy", "ben"}, Tags <- {}, Texts <- {"hi"},
          Offered <- Offered, MaxVouches <- 1, MaxStarts <- 1, MaxArrivals <- 1,
          MaxSends <- 1, MaxInvites <- 2, MaxRestarts <- 1,
          inbox <- mail, active <- open, seen <- shown, pending <- pendingInvite
Letters == INSTANCE Messages WITH
          Addresses <- Sites, Names <- {}, Tags <- {"t"}, Texts <- {"hi", "yo"},
          Offered <- {}, MaxVouches <- 1, MaxStarts <- 2, MaxArrivals <- 3,
          MaxSends <- 1, MaxInvites <- 0, MaxRestarts <- 1,
          inbox <- mail, active <- open, seen <- shown, pending <- pendingInvite
Shelves == INSTANCE Places WITH
          Places <- {"x", "y", "z"}, Names <- {"amy", "ben"}, MaxRecent <- 2,
          MaxFavorites <- 1, MaxBookmarks <- 1, MaxEvents <- 5, MaxTests <- 0,
          MaxLinks <- 0, MaxRestarts <- 1, asked <- handed
Links == INSTANCE Places WITH
          Places <- {"x", "y"}, Names <- {}, MaxRecent <- 1,
          MaxFavorites <- 1, MaxBookmarks <- 1, MaxEvents <- 0, MaxTests <- 2,
          MaxLinks <- 3, MaxRestarts <- 2, asked <- handed
ASSUME /\ Book!MessagesAssumption /\ Book!InvitesVerify /\ Letters!MessagesAssumption
       /\ Shelves!PlacesAssumption /\ Links!PlacesAssumption

-----------------------------------------------------------------------------
ReadingInit ==
  /\ BrowsingInit
  /\ IF focus = "messages" THEN Book!Init
     ELSE IF focus = "letters" THEN Letters!Init
     ELSE client = 0 /\ listeners = 0 /\ tracked = 0 /\ mail = 0 /\ open = 0 /\ thread = 0
          /\ read = 0 /\ shown = 0 /\ recipient = 0 /\ edited = 0 /\ draft = 0 /\ sending = 0
          /\ contacts = 0 /\ book = 0 /\ pendingInvite = 0 /\ petname = 0 /\ typedFor = 0
  /\ IF focus \in {"places", "links"} THEN Shelves!Init
     ELSE place = 0 /\ recent = 0 /\ favorites = 0 /\ marks = 0 /\ storage = 0 /\ events = 0
          /\ param = 0 /\ last = 0 /\ handed = 0 /\ opened = 0 /\ address = 0 /\ tests = 0
          /\ probe = 0
  /\ focus \notin {"messages", "letters", "places", "links"} => count = 0

ReadingNext ==
  \/ BrowsingNext /\ UNCHANGED <<messageVars, placeVars, count>>
  \/ /\ UNCHANGED browsingVars
     /\ \/ focus = "messages" /\ Book!Next /\ UNCHANGED placeVars
        \/ focus = "letters" /\ Letters!Next /\ UNCHANGED placeVars
        \/ focus = "places" /\ Shelves!Next /\ UNCHANGED messageVars
        \/ focus = "links" /\ Links!Next /\ UNCHANGED messageVars

ReadingSpec == ReadingInit /\ [][ReadingNext]_<<browsingVars, messageVars, placeVars, count>>
(* Bounds on the tabs: only the end of a load waits to be rendered, one at a *)
(* time; and once a click wrote over what it was not shown, nothing is       *)
(* claimed or explored.                                                      *)
Explored ==
  focus = "tabs" =>
    /\ ~stale'
    /\ \/ <<seen, card>>' = <<tabs, prompt>>'
       \/ <<seen, card>> = <<tabs, prompt>> /\ seq' = seq
-----------------------------------------------------------------------------
(* The properties of the shell, as its modules state them.                  *)

ReadingTypeOK == /\ BrowsingTypeOK
                 /\ focus = "messages"  => Book!TypeOK
                 /\ focus = "letters"   => Letters!TypeOK
                 /\ focus = "places"    => Shelves!TypeOK
                 /\ focus = "links"     => Links!TypeOK

(* What the shell keeps for the user is what happened, across reloads and   *)
(* overlapping sends, starts and visits: a contact is saved under the name  *)
(* typed for its own invite, signed by the inviter it names; what is sent   *)
(* in a contact's thread goes to the contact; messages count as unread that *)
(* came and were not shown, and none comes twice; the recent portals,       *)
(* favourites and bookmarks are those visited, starred and named; the       *)
(* roster shows each portal once; and a link handed over is opened once.    *)
ShellKeeps == /\ focus = "messages" => Book!ContactsSound /\ Book!GoesToContact
              /\ focus \in {"messages", "letters"} => Letters!UnreadExact
              /\ focus = "places" => Shelves!ListsKept /\ Shelves!RosterWhole
              /\ focus = "links"  => Links!OpenedOnce
=============================================================================
