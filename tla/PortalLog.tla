----------------------------- MODULE PortalLog -----------------------------
(***************************************************************************)
(* What the portal promises its readers, with no protocol: every author has *)
(* one history that only grows, one entry at a time, and any copy anybody   *)
(* holds of it - a replica on screen, a replica on disk - is a beginning of  *)
(* that history.  A copy may go back to a shorter beginning (it is reset,   *)
(* trimmed, reloaded, or overwritten by an older one), never to a different  *)
(* one.  Portal.tla is shown to implement this.                             *)
(***************************************************************************)
EXTENDS SequencesExt

CONSTANTS Authors, Entries, Copies

VARIABLES history,   \* history[a]: the entries author a has published, in order
          copies     \* copies[c][a]: what copy c holds of it

vars == <<history, copies>>

Init ==
  /\ history = [a \in Authors |-> <<>>]
  /\ copies = [c \in Copies |-> [a \in Authors |-> <<>>]]

Publish(a) ==
  /\ \E e \in Entries : history' = [history EXCEPT ![a] = Append(@, e)]
  /\ UNCHANGED copies

(* Some copies change, each to a beginning of every author's history.      *)
Refresh ==
  /\ copies' \in [Copies -> [Authors -> Seq(Entries)]]
  /\ \A c \in Copies, a \in Authors : IsPrefix(copies'[c][a], history[a])
  /\ UNCHANGED history

Next == Refresh \/ \E a \in Authors : Publish(a)

Spec == Init /\ [][Next]_vars
=============================================================================
