----------------------------- MODULE MCFetchNym -----------------------------
(* Small instances of FetchNym: single calls to a current provider p and to *)
(* an older one l, and batches.                                              *)
EXTENDS FetchNym, TLC

CONSTANTS c1, b1, b2, i1, i2, i3, i4, p, l

\* A call to the older provider while a batch of three items runs on two workers
\* to the current one.  OwnApi: the two name different API addresses, which no
\* caller in the program does.
ThreeItems == (b1 :> <<i1, i2, i3>>)
ThreeTo == [r \in {c1, i1, i2, i3} |-> IF r = c1 THEN l ELSE p]
BatchToP == (b1 :> p)
OwnApi == [c \in Callers |-> IF c = c1 THEN 1 ELSE 0]

\* A batch that may find out that the provider sends no tags, and a second one
\* that then falls back to single calls; one worker.  Two of the batches and
\* the call are begun.
FallbackItems == (b1 :> <<i1, i2>>) @@ (b2 :> <<i3, i4>>)
FallbackTo == [r \in {c1, i1, i2, i3, i4} |-> l]
FallbackBatchTo == [b \in {b1, b2} |-> l]
OneApi == [c \in Callers |-> 0]
=============================================================================
