--------------------------- MODULE SemanticIndex ---------------------------
(***************************************************************************)
(* The semantic index: a registry row per source that is also the durable  *)
(* queue of indexing work, and the vectors made from the source.  Workers  *)
(* of several replicas, possibly of two generations of the embedding       *)
(* model, claim rows under a lease, embed outside any transaction and      *)
(* commit only what is still theirs; searches read the vectors and check   *)
(* what they found against the source.  Database triggers keep the row in  *)
(* step with the source.  Text is a version number.                        *)
(***************************************************************************)
EXTENDS Naturals, Sequences, FiniteSets, SequencesExt

CONSTANTS Indexers,      \* worker processes
          GenerationOf,  \* the embedding identity each is configured with
          Searches,      \* concurrent retrievals, of the newest generation
          ActiveLeases,  \* rows being indexed at a time
          IndexAttempts, \* attempts before a row is FAILED
          CallsAMinute,  \* inference calls admitted a minute
          MaxTouches,    \* changes of the source
          MaxLeaseTokens \* claims

ASSUME IndexAssumption ==
    /\ ActiveLeases \in Nat \ {0} /\ IndexAttempts \in Nat \ {0}
    /\ GenerationOf \in [Indexers -> Nat \ {0}]

VARIABLES
    origin,      \* the source: [text, present, readable]
    entry,       \* its semantic_source row, or NoEntry
    chunks,      \* vectors stored for it: set of [text, gen]
    registered,  \* generations in the order they were registered
    admitted,    \* calls admitted in the current minute
    tokens,      \* lease tokens issued
    indexer,     \* worker -> what it is doing
    search       \* retrieval -> what it is doing

indexVars == <<origin, entry, chunks, registered, admitted, tokens, indexer, search>>

NoEntry == [status |-> "NONE", revision |-> 0, gen |-> 0, attempts |-> 0,
            token |-> 0, live |-> FALSE, fingerprint |-> 0]
\* vimla_semantic_touch: new work at the next revision; a row that was deleted
\* starts at revision 1 again.
Touched(e) == [NoEntry EXCEPT !.status = "PENDING", !.revision = e.revision + 1, !.gen = e.gen]
AtRest == [at |-> "idle", job |-> NoEntry, text |-> 0]
NoSearch == [at |-> "idle", hit |-> NoEntry, text |-> 0, source |-> 0]

SemanticInit ==
    /\ origin = [text |-> 1, present |-> TRUE, readable |-> TRUE]
    /\ entry = Touched(NoEntry)
    /\ chunks = {}
    /\ registered = <<>>
    /\ admitted = 0
    /\ tokens = 0
    /\ indexer = [w \in Indexers |-> AtRest]
    /\ search = [q \in Searches |-> NoSearch]

----------------------------------------------------------------------------
(* The source and the triggers on its table *)

EditSource ==
    /\ origin.present /\ origin.text < MaxTouches
    /\ origin' = [origin EXCEPT !.text = @ + 1]
    /\ entry' = Touched(entry)
    /\ chunks' = {}
    /\ UNCHANGED <<registered, admitted, tokens, indexer, search>>

DeleteSource ==
    /\ origin.present
    /\ origin' = [origin EXCEPT !.present = FALSE]
    /\ entry' = NoEntry
    /\ chunks' = {}
    /\ UNCHANGED <<registered, admitted, tokens, indexer, search>>

RestoreSource ==
    /\ ~origin.present /\ origin.text < MaxTouches
    /\ origin' = [origin EXCEPT !.present = TRUE, !.text = @ + 1]
    /\ entry' = Touched(NoEntry)
    /\ UNCHANGED <<chunks, registered, admitted, tokens, indexer, search>>

RevokeReader ==
    /\ origin.readable
    /\ origin' = [origin EXCEPT !.readable = FALSE]
    /\ UNCHANGED <<entry, chunks, registered, admitted, tokens, indexer, search>>

NewMinute ==
    /\ admitted > 0
    /\ admitted' = 0
    /\ UNCHANGED <<origin, entry, chunks, registered, tokens, indexer, search>>

IndexLeaseExpires ==
    /\ entry.live
    /\ entry' = [entry EXCEPT !.live = FALSE]
    /\ UNCHANGED <<origin, chunks, registered, admitted, tokens, indexer, search>>

----------------------------------------------------------------------------
(* SemanticIndexer *)

To(w, v) == indexer' = [indexer EXCEPT ![w] = v]
Active(w) == registered /= <<>> /\ Last(registered) = GenerationOf[w]

\* A row the worker leaves: another status, no lease.
Unleased(e, status) == [e EXCEPT !.status = status, !.token = 0, !.live = FALSE]

\* runBatch: register the generation; a generation that is not the newest does
\* nothing; rows of older generations are queued afresh, vectors of rows that
\* are not READY are dropped, a crashed last attempt is FAILED.
Rollover(w, e) ==
    IF e /= NoEntry /\ e.gen /= GenerationOf[w]
    THEN [Unleased(e, "PENDING") EXCEPT !.gen = GenerationOf[w], !.attempts = 0, !.fingerprint = 0]
    ELSE e
Exhausted(e) ==
    IF e.status = "RUNNING" /\ ~e.live /\ e.attempts >= IndexAttempts
    THEN Unleased(e, "FAILED") ELSE e

runBatch(w) ==
    /\ indexer[w].at = "idle"
    /\ registered' = IF GenerationOf[w] \in ToSet(registered) THEN registered
                     ELSE Append(registered, GenerationOf[w])
    /\ IF Last(registered') /= GenerationOf[w]
       THEN UNCHANGED <<entry, chunks, indexer>>
       ELSE /\ entry' = Exhausted(Rollover(w, entry))
            /\ chunks' = IF entry'.status = "READY" THEN chunks ELSE {}
            /\ To(w, [AtRest EXCEPT !.at = "claiming"])
    /\ UNCHANGED <<origin, admitted, tokens, search>>

\* claim, under one advisory lock for all replicas.
Workable(e) == e.status = "PENDING" \/ (e.status = "RUNNING" /\ ~e.live)

claimEntry(w) ==
    /\ indexer[w].at = "claiming"
    /\ IF /\ Active(w) /\ entry.gen = GenerationOf[w]
          /\ Workable(entry) /\ entry.attempts < IndexAttempts
          /\ Cardinality({e \in {entry} : e.status = "RUNNING" /\ e.live}) < ActiveLeases
       THEN /\ tokens < MaxLeaseTokens
            /\ tokens' = tokens + 1
            /\ entry' = [entry EXCEPT !.status = "RUNNING", !.token = tokens',
                                      !.live = TRUE, !.attempts = @ + 1]
            /\ To(w, [AtRest EXCEPT !.at = "loading", !.job = entry'])
       ELSE UNCHANGED <<tokens, entry>> /\ To(w, AtRest)
    /\ UNCHANGED <<origin, chunks, registered, admitted, search>>

SameRevision(w) ==
    LET job == indexer[w].job IN
    /\ entry.revision = job.revision /\ entry.gen = GenerationOf[w]
    /\ entry.status = "RUNNING"

\* The row is still the one this worker claimed, under the same lease.
owned(w) ==
    LET job == indexer[w].job IN
    /\ entry.revision = job.revision /\ entry.gen = GenerationOf[w]
    /\ entry.status = "RUNNING" /\ entry.token = job.token

\* Give the row back with this status, if it is still owned; then claim on.
Release(w, e) ==
    /\ entry' = IF owned(w) THEN e ELSE entry
    /\ To(w, [AtRest EXCEPT !.at = "claiming"])

\* load, then semanticChunks: no eligible text skips the source.
LoadSource(w) ==
    /\ indexer[w].at = "loading"
    /\ \/ /\ origin.present
          /\ To(w, [indexer[w] EXCEPT !.at = "admitting", !.text = origin.text])
          /\ UNCHANGED entry
       \/ Release(w, Unleased(entry, "SKIPPED"))
    /\ UNCHANGED <<origin, chunks, registered, admitted, tokens, search>>

\* admitSemanticCall: a denied call takes nothing from the counters, and the
\* row gives its attempt back.
admitSemanticCall == admitted < CallsAMinute

AdmitIndexing(w) ==
    /\ indexer[w].at = "admitting"
    /\ IF admitSemanticCall
       THEN admitted' = admitted + 1 /\ UNCHANGED entry
            /\ To(w, [indexer[w] EXCEPT !.at = "embedding"])
       ELSE UNCHANGED admitted
            /\ Release(w, [Unleased(entry, "PENDING") EXCEPT !.attempts = @ - 1])
    /\ UNCHANGED <<origin, chunks, registered, tokens, search>>

\* The provider answers; the source is read once more.
Embedded(w) ==
    /\ indexer[w].at = "embedding"
    /\ IF origin.present /\ origin.text = indexer[w].text
       THEN To(w, [indexer[w] EXCEPT !.at = "committing"]) /\ UNCHANGED entry
       ELSE Release(w, Unleased(entry, "PENDING"))
    /\ UNCHANGED <<origin, chunks, registered, admitted, tokens, search>>

\* Anything that throws: another attempt, or the end of them.
EmbeddingFails(w) ==
    /\ indexer[w].at \in {"loading", "admitting", "embedding"}
    /\ Release(w, Unleased(entry, IF indexer[w].job.attempts >= IndexAttempts
                                  THEN "FAILED" ELSE "PENDING"))
    /\ UNCHANGED <<origin, chunks, registered, admitted, tokens, search>>

\* The last transaction: READY and the new vectors, under the unexpired lease.
CommitChunks(w) ==
    /\ indexer[w].at = "committing"
    /\ IF owned(w) /\ entry.live
       THEN /\ entry' = [Unleased(entry, "READY") EXCEPT !.fingerprint = indexer[w].text]
            /\ chunks' = {[text |-> indexer[w].text, gen |-> GenerationOf[w]]}
       ELSE UNCHANGED <<entry, chunks>>
    /\ To(w, [AtRest EXCEPT !.at = "claiming"])
    /\ UNCHANGED <<origin, registered, admitted, tokens, search>>

IndexerCrash(w) ==
    /\ indexer[w].at \notin {"idle", "claiming"}
    /\ To(w, AtRest)
    /\ UNCHANGED <<origin, entry, chunks, registered, admitted, tokens, search>>

----------------------------------------------------------------------------
(* SemanticSearchService.retrieve *)

SearchTo(q, v) == search' = [search EXCEPT ![q] = v]

\* The query is admitted and embedded; the hits are the vectors of READY rows
\* of the newest generation among what the actor may read.
Hits(q) ==
    /\ search[q] = NoSearch
    /\ registered /= <<>> /\ admitSemanticCall
    /\ admitted' = admitted + 1
    /\ entry.status = "READY" /\ entry.gen = Last(registered)
    /\ origin.present /\ origin.readable
    /\ \E c \in chunks : SearchTo(q, [NoSearch EXCEPT !.at = "hydrating", !.hit = entry])
    /\ UNCHANGED <<origin, entry, chunks, registered, tokens, indexer>>

\* The source is loaded for the actor and must be what was indexed.
Hydrate(q) ==
    /\ search[q].at = "hydrating"
    /\ SearchTo(q, IF origin.present /\ origin.readable
                      /\ origin.text = search[q].hit.fingerprint
                   THEN [search[q] EXCEPT !.at = "checking", !.text = origin.text]
                   ELSE NoSearch)
    /\ UNCHANGED <<origin, entry, chunks, registered, admitted, tokens, indexer>>

\* The row must not have moved since the hit.
StillCurrent(q) ==
    /\ entry.status = "READY" /\ entry.revision = search[q].hit.revision
    /\ entry.gen = search[q].hit.gen /\ entry.fingerprint = search[q].hit.fingerprint

\* The candidate is kept ("source" remembers the source at this moment).
Candidate(q) ==
    /\ search[q].at = "checking"
    /\ SearchTo(q, IF StillCurrent(q)
                   THEN [search[q] EXCEPT !.at = "answered",
                            !.source = IF origin.present THEN origin.text ELSE 0]
                   ELSE NoSearch)
    /\ UNCHANGED <<origin, entry, chunks, registered, admitted, tokens, indexer>>

SemanticNext ==
    \/ EditSource \/ DeleteSource \/ RestoreSource \/ RevokeReader \/ NewMinute \/ IndexLeaseExpires
    \/ \E w \in Indexers :
        \/ runBatch(w) \/ claimEntry(w) \/ LoadSource(w) \/ AdmitIndexing(w) \/ Embedded(w)
        \/ EmbeddingFails(w) \/ CommitChunks(w) \/ IndexerCrash(w)
    \/ \E q \in Searches : Hits(q) \/ Hydrate(q) \/ Candidate(q)

\* "Changed/deleted sources cannot be resurrected by late results": a READY row
\* has exactly the vectors of the text its source has now, made by the row's
\* generation, however late a worker that lost its lease, its generation or
\* its source answers; and what a search returns was the source's text at the
\* moment it made its last check.
IndexIsCurrent ==
    /\ entry.status = "READY" =>
          /\ origin.present /\ entry.fingerprint = origin.text
          /\ chunks = {[text |-> origin.text, gen |-> entry.gen]}
    /\ \A q \in Searches : search[q].at = "answered" => search[q].text = search[q].source
=============================================================================
