---------------------------- MODULE Publications ----------------------------
(* The native progress that the operator's bridge publishes to the hosted   *)
(* site (scripts/bridge.ts publish, src/hosted/runs.ts). All runs share one *)
(* blob of conditional writes. The bridge of one run holds that run's lock  *)
(* while it publishes; the bridges of different runs do not know of each    *)
(* other, any write may lose its answer, and a bridge may die.              *)
EXTENDS Naturals, FiniteSets

CONSTANTS
    Runs,           \* requests with a native run
    MaxProgress,    \* bound on the changes of a run's local records
    MaxRuns,        \* runs kept on the site (20 in the code)
    MaxAttempts,    \* attempts of one publication (3 in the code)
    MaxInFlight,    \* bound on the writes under way at the same time
    MaxWrites,      \* bound on the writes that take effect
    MaxNow          \* bound on the wall clock

VARIABLES
    progress, etag, puts, landed,   \* the blob, see Blob
    facts,                          \* per run: the version of its local records
    bridge,                         \* per run: the publication in progress
    confirmed,                      \* per run: the last version known as published (history)
    now                             \* the wall clock, behind revision

store == <<progress, etag, puts, landed>>
pvars == <<store, facts, bridge, confirmed, now>>

Store == INSTANCE Blob WITH content <- progress

Empty == [revision |-> 0, runs |-> {}]
NoPut == [writer |-> "none", seen |-> 0, content |-> Empty]
Resting == [pc |-> "idle", version |-> 0, attempt |-> 1, put |-> NoPut]

PInit ==
    /\ progress = Empty
    /\ etag = 0
    /\ puts = {}
    /\ landed = {}
    /\ facts = [run \in Runs |-> 0]
    /\ bridge = [run \in Runs |-> Resting]
    /\ confirmed = [run \in Runs |-> 0]
    /\ now = 0

Others(runs, run) == {entry \in runs : entry.run # run}
Later(prior) == IF now > prior THEN now ELSE prior + 1

\* Mutant: the entries of the other runs are left out.
ReplacedAlone(prior, run, version) ==
    [revision |-> Later(prior.revision), runs |-> {[run |-> run, version |-> version]}]

\* The document with the newest entry of this run; the order of its list, in
\* which that entry comes first, is left out.
Replaced(prior, run, version) ==
    [revision |-> Later(prior.revision),
     runs |-> Others(prior.runs, run) \cup {[run |-> run, version |-> version]}]

-----------------------------------------------------------------------------
\* The bridge takes a native step, under the run's lock.
steps(run) ==
    /\ bridge[run].pc = "idle"
    /\ facts[run] < MaxProgress
    /\ facts' = [facts EXCEPT ![run] = @ + 1]
    /\ UNCHANGED <<store, bridge, confirmed, now>>

\* publish reads the local records once, before publishRun.
publish(run) ==
    /\ bridge[run].pc = "idle"
    /\ bridge' = [bridge EXCEPT ![run] = [Resting EXCEPT !.pc = "read", !.version = facts[run]]]
    /\ UNCHANGED <<store, facts, confirmed, now>>

\* The publication is over; the bridge keeps its local facts either way.
Over(run, known) ==
    /\ bridge' = [bridge EXCEPT ![run] = Resting]
    /\ confirmed' = [confirmed EXCEPT ![run] = IF known THEN bridge[run].version ELSE @]
    /\ Store!Forget(run)
    /\ UNCHANGED <<facts, now>>

\* The limit is reached, or the document cannot be read.
readFails(run) ==
    /\ bridge[run].pc = "read"
    /\ Over(run, FALSE)

readThenPut(run) ==
    /\ bridge[run].pc = "read"
    /\ Cardinality(Others(progress.runs, run)) < MaxRuns
    /\ etag < MaxWrites
    /\ LET put == Store!Put(run, Replaced(progress, run, bridge[run].version))
       IN  /\ Store!Send(put)
           /\ bridge' = [bridge EXCEPT ![run].pc = "put", ![run].put = put]
    /\ UNCHANGED <<facts, confirmed, now>>

putConfirmed(run) ==
    /\ bridge[run].pc = "put"
    /\ bridge[run].put \in landed
    /\ Over(run, TRUE)

\* A conflict, an outage, a timeout or a lost answer.
putFails(run) ==
    /\ bridge[run].pc = "put"
    /\ IF bridge[run].attempt = MaxAttempts THEN Over(run, FALSE)
       ELSE /\ bridge' = [bridge EXCEPT ![run].pc = "read", ![run].attempt = @ + 1]
            /\ UNCHANGED <<store, facts, confirmed, now>>

\* The process dies; its write may still land.
dies(run) ==
    /\ bridge[run].pc # "idle"
    /\ Over(run, FALSE)

putLands ==
    /\ \E put \in puts : Store!Lands(put)
    /\ UNCHANGED <<facts, bridge, confirmed, now>>

tick ==
    /\ now < MaxNow
    /\ now' = now + 1
    /\ UNCHANGED <<store, facts, bridge, confirmed>>

PNext ==
    \/ \E run \in Runs :
          \/ steps(run) \/ publish(run) \/ dies(run)
          \/ readFails(run) \/ readThenPut(run) \/ putConfirmed(run) \/ putFails(run)
    \/ putLands \/ tick

-----------------------------------------------------------------------------
\* The versions of a run that the site shows.
Published(run) == {entry.version : entry \in {entry \in progress.runs : entry.run = run}}

\* No entry goes back or runs ahead of the local records, a confirmed version
\* stays, and a changed document has a later revision and one entry per run.
Stands ==
    /\ \A run \in Runs :
          /\ \A old \in Published(run) : \E new \in Published(run)' : old <= new
          /\ confirmed'[run] > 0 => \E new \in Published(run)' : confirmed'[run] <= new
          /\ \A new \in Published(run)' : new <= facts'[run]
    /\ progress' # progress => progress'.revision > progress.revision
    /\ \A one, other \in progress'.runs : one.run = other.run => one = other

\* What the site shows of a run never goes back, through retries, late writes
\* and restarted bridges; a confirmed publication is not lost to another run's
\* bridge, and every change has a revision of its own for the pages to order it
\* by (runs.ts:15-20, state-client.mjs:11).
PublishedStands == [][Stands]_pvars
=============================================================================
