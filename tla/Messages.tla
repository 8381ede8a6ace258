------------------------------ MODULE Messages ------------------------------
(* Messages by Nym address and the address book (App.tsx, messaging.ts,     *)
(* share.ts, contacts.ts, signInvite and verifyInvite of identity.ts): the  *)
(* messaging client and what it delivers, the threads of the inbox and what *)
(* of them is read, and contacts, which are saved from the invite a link    *)
(* carried, under a name the user types.                                    *)
EXTENDS Integers, FiniteSets, SequencesExt

CONSTANTS None,
          Keys,         \* key pairs that sign invites
          Addresses,    \* of services and peers
          Names,        \* petnames, as normalised
          Tags,         \* sender tags
          Texts,        \* what a message says
          Offered,      \* the invites that links carry
          MaxVouches,   \* MAX_INVITE_VOUCHES
          MaxStarts, MaxArrivals, MaxSends, MaxInvites, MaxRestarts   \* bounds

MessagesAssumption == {MaxVouches, MaxStarts, MaxArrivals, MaxSends, MaxInvites, MaxRestarts} \subseteq Nat

VARIABLES
  client,      \* "off", "starting", "subscribed" to its events, or "on": selfAddress is set
  listeners,   \* the SDK clients whose events are subscribed to
  tracked,     \* the replies that the ReplyTracker has accepted
  inbox,       \* messages in the order they came
  active,      \* the thread that is open
  thread,      \* fly.messages.activeThread
  read,        \* per thread, how many of its messages were there when it was open
  seen,        \* the positions of the inbox that were shown in an open thread
  recipient, edited, draft, sending,   \* the fields, and the sends under way
  contacts, book,                      \* the address book and fly.contacts
  pending, petname, typedFor,          \* the invite shown, the name typed, and for which
  count                                \* starts, arrivals, sends, invites and restarts

vars == <<client, listeners, tracked, inbox, active, thread, read, seen, recipient, edited,
          draft, sending, contacts, book, pending, petname, typedFor, count>>
threadVars  == <<active, thread, read, seen>>
writeVars   == <<recipient, edited, draft, sending>>
contactVars == <<contacts, book, pending, petname, typedFor>>
clientVars  == <<client, listeners, tracked>>

Counts(f, bound) == /\ count[f] < bound
                    /\ count' = [count EXCEPT ![f] = @ + 1]

-----------------------------------------------------------------------------
(* Invites.  A signature is what was signed and by whom.                    *)

SignInvite(k, service, note, vouches) ==
  LET clean == vouches \ {k}
  IN [service |-> service, inviter |-> k, note |-> note, vouches |-> clean,
      sig |-> [by |-> k, service |-> service, note |-> note, vouches |-> clean]]

VerifyInvite(invite, address) ==
  /\ invite.note # None
  /\ invite.service = address
  /\ Cardinality(invite.vouches) <= MaxVouches
  /\ invite.sig = [by |-> invite.inviter, service |-> invite.service,
                   note |-> invite.note, vouches |-> invite.vouches]

(* An invite that is signed here verifies at the address it is for, and     *)
(* at no other, whomever it vouches for.                                    *)
InvitesVerify ==
  \A k \in Keys, s, address \in Addresses, vouches \in SUBSET Keys :
    Cardinality(vouches \ {k}) <= MaxVouches =>
      (VerifyInvite(SignInvite(k, s, "hello", vouches), address) <=> s = address)

(* A link with an invite is opened: loadInto shows the invite before it     *)
(* fetches the page, but returns before that when the document is at hand   *)
(* (cached, or a film that is streamed): then the invite is not shown, and  *)
(* one that was pending stays.                                              *)
Invited(offer, atHand) ==
  /\ Counts("invites", MaxInvites)
  /\ IF atHand THEN UNCHANGED <<pending, petname, typedFor>>
     ELSE pending' = offer /\ petname' = None /\ typedFor' = None
  /\ UNCHANGED <<clientVars, inbox, threadVars, writeVars, contacts, book>>

TypeName(n) ==
  /\ pending # None /\ petname # n
  /\ petname' = n /\ typedFor' = pending
  /\ UNCHANGED <<clientVars, inbox, threadVars, writeVars, contacts, book, pending, count>>

DismissInvite ==
  /\ pending # None /\ pending' = None
  /\ UNCHANGED <<clientVars, inbox, threadVars, writeVars, contacts, book, petname, typedFor, count>>

AddContact(list, c) == IF \E i \in DOMAIN list : list[i].name = c.name THEN list ELSE Append(list, c)

AcceptInvite ==
  /\ pending # None /\ petname # None
  /\ VerifyInvite(pending.invite, pending.address)
  /\ LET next == AddContact(contacts, [name |-> petname, address |-> pending.address,
                                       inviter |-> pending.invite.inviter, for |-> typedFor])
     IN contacts' = next /\ book' = IF next = contacts THEN book ELSE next
  /\ pending' = None /\ petname' = None /\ typedFor' = None
  /\ UNCHANGED <<clientVars, inbox, threadVars, writeVars, count>>

RemoveContact(n) ==
  /\ \E i \in DOMAIN contacts : contacts[i].name = n
  /\ contacts' = SelectSeq(contacts, LAMBDA c : c.name # n)
  /\ book' = contacts'
  /\ UNCHANGED <<clientVars, inbox, threadVars, writeVars, pending, petname, typedFor, count>>
-----------------------------------------------------------------------------
(* Threads.                                                                 *)

ThreadKey(box, i) == IF box[i].tag = None THEN <<"direct", i>> ELSE <<"tag", box[i].tag>>
MessagesOf(box, k) == {i \in DOMAIN box : ThreadKey(box, i) = k}
ContactThread(address) == <<"contact", address>>
IsContactThread(k) == k # None /\ k[1] = "contact"

Threads(box) == {ThreadKey(box, i) : i \in DOMAIN box}
                  \union {ContactThread(contacts[i].address) : i \in DOMAIN contacts}
ReadCount(k) == IF k \in DOMAIN read THEN read[k] ELSE 0
Unread(k) == LET n == Cardinality(MessagesOf(inbox, k)) - ReadCount(k)
             IN IF n < 0 THEN 0 ELSE n

(* The effects after a render: the thread that is open, when one is, is     *)
(* read, and saved.                                                         *)
ReadOnSelect(box, k) == \* mutant: what arrives in the open thread stays unread
  /\ thread' = IF k = None THEN thread ELSE k
  /\ read' = IF k = None \/ k = active THEN read
             ELSE [x \in DOMAIN read \union {k} |->
                     IF x = k THEN Cardinality(MessagesOf(box, k)) ELSE read[x]]
  /\ seen' = seen \union (IF k = None THEN {} ELSE MessagesOf(box, k))
Rendered(box, k) ==
  /\ thread' = IF k = None THEN thread ELSE k
  /\ read' = IF k = None THEN read
             ELSE [x \in DOMAIN read \union {k} |->
                     IF x = k THEN Cardinality(MessagesOf(box, k)) ELSE read[x]]
  /\ seen' = seen \union (IF k = None THEN {} ELSE MessagesOf(box, k))

SelectThread(k) ==
  /\ k \in Threads(inbox)
  /\ active' = k /\ Rendered(inbox, k)
  /\ IF IsContactThread(k) THEN recipient' = k[2] /\ edited' = FALSE
     ELSE UNCHANGED <<recipient, edited>>
  /\ UNCHANGED <<clientVars, inbox, draft, sending, contactVars, count>>
-----------------------------------------------------------------------------
(* The client.  A start that fails after its subscriptions leaves them: the *)
(* next start creates another SDK client beside the first.                  *)

StartMessaging ==
  /\ client = "off" /\ Counts("starts", MaxStarts)
  /\ client' = "starting"
  /\ UNCHANGED <<listeners, tracked, inbox, threadVars, writeVars, contactVars>>

Subscribed ==
  /\ client = "starting" /\ client' = "subscribed"
  /\ listeners' = listeners + 1
  /\ UNCHANGED <<tracked, inbox, threadVars, writeVars, contactVars, count>>

Connected ==
  /\ client = "subscribed" /\ client' = "on"
  /\ UNCHANGED <<listeners, tracked, inbox, threadVars, writeVars, contactVars, count>>

StartFails ==
  /\ client \in {"starting", "subscribed"} /\ client' = "off"
  /\ UNCHANGED <<listeners, tracked, inbox, threadVars, writeVars, contactVars, count>>

(* An SDK client delivers a message, which another may have delivered.      *)
Receive(m) ==
  /\ listeners > 0 /\ Counts("arrivals", MaxArrivals)
  /\ tracked' = tracked \union {m}
  /\ IF m \in tracked THEN UNCHANGED <<inbox, threadVars>>
     ELSE /\ inbox' = Append(inbox, m)
          /\ Rendered(inbox', active) /\ UNCHANGED active
  /\ UNCHANGED <<client, listeners, writeVars, contactVars>>

EditRecipient(a) ==
  /\ client = "on" /\ recipient # a
  /\ recipient' = a /\ edited' = TRUE
  /\ UNCHANGED <<clientVars, inbox, threadVars, draft, sending, contactVars, count>>

EditDraft(t) ==
  /\ client = "on" /\ draft # t /\ draft' = t
  /\ UNCHANGED <<clientVars, inbox, threadVars, recipient, edited, sending, contactVars, count>>

(* The button stays enabled while a send is under way.                      *)
Send ==
  /\ client = "on" /\ recipient # None /\ draft # None
  /\ Counts("sends", MaxSends)
  /\ sending' = sending \union {[to |-> recipient, text |-> draft, n |-> count.sends,
                                 open |-> active, edited |-> edited]}
  /\ UNCHANGED <<clientVars, inbox, threadVars, recipient, edited, draft, contactVars>>

SendEnds(s) ==
  /\ s \in sending /\ sending' = sending \ {s}
  /\ draft' \in {None, draft}
  /\ UNCHANGED <<clientVars, inbox, threadVars, recipient, edited, contactVars, count>>

(* The page is reloaded.                                                    *)
Restart ==
  /\ Counts("restarts", MaxRestarts)
  /\ client' = "off" /\ listeners' = 0 /\ tracked' = {} /\ inbox' = <<>>
  /\ active' = thread /\ read' = <<>> /\ seen' = {}
  /\ recipient' = None /\ edited' = FALSE /\ draft' = None /\ sending' = {}
  /\ contacts' = book /\ pending' = None /\ petname' = None /\ typedFor' = None
  /\ UNCHANGED <<thread, book>>
-----------------------------------------------------------------------------
Init ==
  /\ client = "off" /\ listeners = 0 /\ tracked = {} /\ inbox = <<>>
  /\ active = None /\ thread = None /\ read = <<>> /\ seen = {}
  /\ recipient = None /\ edited = FALSE /\ draft = None /\ sending = {}
  /\ contacts = <<>> /\ book = <<>> /\ pending = None /\ petname = None /\ typedFor = None
  /\ count = [starts |-> 0, arrivals |-> 0, sends |-> 0, invites |-> 0, restarts |-> 0]

Next ==
  \/ \E offer \in Offered, atHand \in BOOLEAN : Invited(offer, atHand)
  \/ \E n \in Names : TypeName(n) \/ RemoveContact(n)
  \/ DismissInvite \/ AcceptInvite
  \/ \E k \in Threads(inbox) : SelectThread(k)
  \/ StartMessaging \/ Subscribed \/ Connected \/ StartFails
  \/ \E m \in [tag : Tags \union {None}, text : Texts] : Receive(m)
  \/ \E a \in Addresses : EditRecipient(a)
  \/ \E t \in Texts : EditDraft(t)
  \/ Send
  \/ \E s \in sending : SendEnds(s)
  \/ Restart
-----------------------------------------------------------------------------
TypeOK ==
  /\ client \in {"off", "starting", "subscribed", "on"} /\ listeners \in 0..MaxStarts
  /\ \A i \in DOMAIN inbox : inbox[i].text \in Texts
  /\ recipient \in Addresses \union {None} /\ draft \in Texts \union {None}
  /\ \A i \in DOMAIN contacts : contacts[i].name \in Names /\ contacts[i].address \in Addresses
  /\ read \in [DOMAIN read -> 0..Len(inbox)]

(* A contact has the name that was typed while its own invite was shown,    *)
(* and its inviter signed an invite to its address; no two have one name,   *)
(* and what is shown is what the next start of the page loads.              *)
ContactsSound ==
  /\ contacts = book
  /\ \A i \in DOMAIN contacts :
       LET c == contacts[i]
       IN /\ c.for # None /\ c.for.address = c.address
          /\ c.for.invite.sig.by = c.inviter /\ c.for.invite.sig.service = c.address
          /\ \A j \in DOMAIN contacts : contacts[j].name = c.name => j = i

(* A thread counts as unread exactly the messages that came while it was    *)
(* not open and were not shown since, whichever of several clients          *)
(* delivered them, and no message is there twice.                           *)
UnreadExact ==
  /\ \A k \in Threads(inbox) : Unread(k) = Cardinality(MessagesOf(inbox, k) \ seen)
  /\ \A i, j \in DOMAIN inbox : inbox[i] = inbox[j] => i = j

(* What is sent while the thread of a contact is open goes to that contact, *)
(* unless the user typed another address, reloads included.                 *)
GoesToContact ==
  \A s \in sending : IsContactThread(s.open) /\ ~s.edited => s.to = s.open[2]
=============================================================================
