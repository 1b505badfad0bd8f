-------------------------------- MODULE Blob --------------------------------
(* One object of the hosted blob store (src/hosted/blob.ts, market.ts),     *)
(* seen through its conditional writes. A put carries the etag its writer   *)
(* has read; it may land late, after its writer has given it up, or never,  *)
(* and it takes effect only if the etag is still the current one.           *)
EXTENDS Naturals, FiniteSets

CONSTANT MaxInFlight    \* bound on the writes under way at the same time

VARIABLES
    content,    \* what a read returns
    etag,       \* version of content; 0 while the object does not exist
    puts,       \* conditional writes still under way
    landed      \* the last put of each writer, once it has taken effect

Put(writer, new) == [writer |-> writer, seen |-> etag, content |-> new]

\* A new put makes its writer forget the fate of the earlier ones.
Send(put) ==
    /\ Cardinality(puts) < MaxInFlight
    /\ puts' = puts \cup {put}
    /\ landed' = {old \in landed : old.writer # put.writer}
    /\ UNCHANGED <<content, etag>>

\* The etags of all other puts under way are old now: none of them can take
\* effect any more. A put that is lost stays under way for ever.
Lands(put) ==
    /\ put \in puts /\ put.seen = etag
    /\ puts' = {}
    /\ content' = put.content
    /\ etag' = etag + 1
    /\ landed' = landed \cup {put}

Forget(writer) ==
    /\ landed' = {old \in landed : old.writer # writer}
    /\ UNCHANGED <<content, etag, puts>>
=============================================================================
