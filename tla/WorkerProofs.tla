---------------------------- MODULE WorkerProofs ----------------------------
(***************************************************************************)
(* Proofs about what the background workers and the operator leave behind, *)
(* for any number of workers, handlers, attempts and retries: the semantic *)
(* index is of the text its sources have now, an email is sent once for    *)
(* every key that guarded it, the attempts of one invocation agree, a run  *)
(* of the operator tells what it did, and the slots and the circuit of the *)
(* self-hosted model's adapter are exact.                                  *)
(*                                                                         *)
(* None is inductive alone.  The index needs that a worker that still owns *)
(* its row read the text of now, because every change of the source takes  *)
(* the lease away; the emails sent and being sent are counted against the  *)
(* keys, the one held and those Redis lost; the attempts need the order of *)
(* their writes: row, artifact, answer; the operator needs that a handler  *)
(* that is still at work is at the steps of the current round, and that    *)
(* its counts are what the steps before it say; the pool needs that the    *)
(* queue holds each waiting call once and no other, and that a permit of   *)
(* the circuit's present generation was given while it was not open.       *)
(***************************************************************************)
EXTENDS SemanticIndex, Notifications, Executors, Operator, LocalInference,
        FiniteSetTheorems, SequenceTheorems, WellFoundedInduction, TLAPS

-----------------------------------------------------------------------------
(* The semantic index.                                                     *)

(* A row of the registry. *)
EntryFields == {"status", "revision", "gen", "attempts", "token", "live", "fingerprint"}

(* What the proof needs of a registry row. *)
EntryOK(e) == DOMAIN e = EntryFields /\ e.token \in Nat

(* A worker, and the token of the lease it took. *)
IndexerOK(i) ==
    /\ DOMAIN i = {"at", "job", "text"}
    /\ i.at \in {"idle", "claiming", "loading", "admitting", "embedding", "committing"}
    /\ i.at \in {"loading", "admitting", "embedding", "committing"} =>
          i.job.token \in Nat \ {0} /\ i.job.token <= tokens

(* The shape of the state, and tokens given out in order. *)
IndexTypeOK ==
    /\ DOMAIN origin = {"text", "present", "readable"}
    /\ EntryOK(entry) /\ entry.token <= tokens
    /\ tokens \in Nat
    /\ DOMAIN indexer = Indexers /\ \A w \in Indexers : IndexerOK(indexer[w])
    /\ DOMAIN search = Searches
    /\ \A q \in Searches : DOMAIN search[q] = {"at", "hit", "text", "source"}

(* A READY row describes the text its source has now, and so do its chunks. *)
ReadyIsCurrent ==
    entry.status = "READY" =>
          /\ origin.present /\ entry.fingerprint = origin.text
          /\ chunks = {[text |-> origin.text, gen |-> entry.gen]}

(* A source that is gone has no row. *)
GoneIsEmpty == ~origin.present => entry = NoEntry

(* A worker about to commit that still owns the row holds the text of now: every change of
   the source takes the row away from it. *)
OwnerIsCurrent ==
    \A w \in Indexers :
        indexer[w].at = "committing" /\ entry.token = indexer[w].job.token =>
            indexer[w].text = origin.text

(* What a search read is what the hit was indexed for, until the last check replaces it. *)
SearchIsCurrent ==
    \A q \in Searches :
        /\ search[q].at = "checking" => search[q].text = search[q].hit.fingerprint
        /\ search[q].at = "answered" => search[q].text = search[q].source

(* The inductive invariant. *)
IndexInv == IndexTypeOK /\ ReadyIsCurrent /\ GoneIsEmpty /\ OwnerIsCurrent /\ SearchIsCurrent

(* The row of no source. *)
LEMMA NoEntryFacts ==
    /\ DOMAIN NoEntry = EntryFields /\ NoEntry.token = 0 /\ NoEntry.status = "NONE"
    /\ EntryOK(NoEntry)
  BY DEF NoEntry, EntryFields, EntryOK

(* A touched row is under no lease. *)
LEMMA TouchedFacts ==
    ASSUME NEW e, EntryOK(e)
    PROVE  EntryOK(Touched(e)) /\ Touched(e).token = 0 /\ Touched(e).status = "PENDING"
  BY NoEntryFacts DEF NoEntry, EntryFields, EntryOK, Touched

(* So is a released one. *)
LEMMA UnleasedFacts ==
    ASSUME NEW e, NEW s, EntryOK(e)
    PROVE  /\ EntryOK(Unleased(e, s))
           /\ Unleased(e, s).token = 0 /\ Unleased(e, s).status = s
           /\ Unleased(e, s).gen = e.gen
  BY DEF EntryFields, EntryOK, Unleased

(* A row that is neither the one of a claim nor READY, under no lease, disturbs nothing. *)
LEMMA RowStep ==
    ASSUME IndexInv, EntryOK(entry'), entry'.token = 0 \/ entry'.token = entry.token,
           entry' = entry \/ entry'.status # "READY",
           UNCHANGED <<origin, tokens, chunks>>,
           entry = NoEntry => entry' = NoEntry
    PROVE  /\ EntryOK(entry)' /\ entry'.token <= tokens' /\ tokens' \in Nat
           /\ ReadyIsCurrent' /\ GoneIsEmpty'
  BY NoEntryFacts DEF IndexInv, IndexTypeOK, ReadyIsCurrent, GoneIsEmpty, EntryOK, NoEntry

----------------------------------------------------------------------------
(* A worker moves, the row is left alone or set to one without a lease. *)
LEMMA WorkerStep ==
    ASSUME IndexInv, NEW w \in Indexers, NEW v, To(w, v), IndexerOK(v),
           v.at = "committing" /\ entry.token = v.job.token => v.text = origin.text,
           EntryOK(entry'), entry'.token = 0 \/ entry'.token = entry.token,
           entry' = entry \/ (entry # NoEntry /\ entry'.status # "READY"),
           UNCHANGED <<origin, tokens, chunks, search>>
    PROVE  IndexInv'
<1>1. /\ EntryOK(entry)' /\ entry'.token <= tokens' /\ tokens' \in Nat
      /\ ReadyIsCurrent' /\ GoneIsEmpty'
  BY RowStep
<1>2. DOMAIN indexer' = Indexers /\ indexer'[w] = v /\ \A u \in Indexers \ {w} : indexer'[u] = indexer[u]
  BY DEF To, IndexInv, IndexTypeOK
<1>3. \A u \in Indexers : IndexerOK(indexer[u])'
  BY <1>2 DEF IndexerOK, IndexInv, IndexTypeOK
<1>4. OwnerIsCurrent'
  BY <1>2, <1>3 DEF OwnerIsCurrent, IndexInv, IndexTypeOK, IndexerOK
<1>5. SearchIsCurrent'
  BY DEF SearchIsCurrent, IndexInv
<1> QED  BY <1>1, <1>2, <1>3, <1>4, <1>5 DEF IndexInv, IndexTypeOK

(* A worker at rest, or between two rows. *)
LEMMA IdleOK ==
    /\ IndexerOK(AtRest) /\ AtRest.at = "idle"
    /\ IndexerOK([AtRest EXCEPT !.at = "claiming"]) /\ [AtRest EXCEPT !.at = "claiming"].at = "claiming"
  BY DEF IndexerOK, AtRest

(* A worker lets its row go, in whatever status but READY. *)
LEMMA ReleaseStep ==
    ASSUME IndexInv, NEW w \in Indexers, NEW e, Release(w, e), EntryOK(e), e.token = 0, e.status # "READY",
           UNCHANGED <<origin, tokens, chunks, search>>
    PROVE  IndexInv'
<1>1. entry' = entry \/ (entry' = e /\ entry # NoEntry)
  BY NoEntryFacts DEF Release, owned
<1>2. EntryOK(entry')
  BY <1>1 DEF IndexInv, IndexTypeOK
<1>3. To(w, [AtRest EXCEPT !.at = "claiming"])
  BY DEF Release
<1> QED  BY <1>1, <1>2, <1>3, IdleOK, WorkerStep

(* The initial states satisfy the invariant. *)
LEMMA IndexInit == SemanticInit => IndexInv
<1> SUFFICES ASSUME SemanticInit PROVE IndexInv
  OBVIOUS
<1>1. EntryOK(entry) /\ entry.token = 0 /\ entry.status = "PENDING"
  BY NoEntryFacts, TouchedFacts DEF SemanticInit
<1>2. \A w \in Indexers : IndexerOK(indexer[w]) /\ indexer[w].at = "idle"
  BY IdleOK DEF SemanticInit
<1>3. \A q \in Searches : DOMAIN search[q] = {"at", "hit", "text", "source"} /\ search[q].at = "idle"
  BY DEF SemanticInit, NoSearch
<1> QED  BY <1>1, <1>2, <1>3 DEF SemanticInit, IndexInv, IndexTypeOK, ReadyIsCurrent, GoneIsEmpty,
            OwnerIsCurrent, SearchIsCurrent

(* The source changes or goes: whoever holds a lease has lost it. *)
LEMMA SourceStep ==
    ASSUME IndexInv, EditSource \/ DeleteSource \/ RestoreSource
    PROVE  IndexInv'
<1>1. EntryOK(entry') /\ entry'.token = 0 /\ entry'.status # "READY"
  BY NoEntryFacts, TouchedFacts DEF EditSource, DeleteSource, RestoreSource, IndexInv, IndexTypeOK
<1>2. DOMAIN origin' = {"text", "present", "readable"} /\ (~origin'.present => entry' = NoEntry)
  BY DEF EditSource, DeleteSource, RestoreSource, IndexInv, IndexTypeOK
<1>3. UNCHANGED <<tokens, indexer, search>>
  BY DEF EditSource, DeleteSource, RestoreSource
<1>4. IndexTypeOK'
  BY <1>1, <1>2, <1>3 DEF IndexInv, IndexTypeOK, IndexerOK, EntryOK
<1>5. OwnerIsCurrent'
  BY <1>1, <1>3, <1>4 DEF OwnerIsCurrent, IndexTypeOK, IndexerOK
<1>6. SearchIsCurrent' /\ GoneIsEmpty' /\ ReadyIsCurrent'
  BY <1>1, <1>2, <1>3 DEF SearchIsCurrent, IndexInv, GoneIsEmpty, ReadyIsCurrent, NoEntry
<1> QED  BY <1>4, <1>5, <1>6 DEF IndexInv

(* Rights, minutes and leases change no text and no token. *)
LEMMA OtherStep ==
    ASSUME IndexInv, RevokeReader \/ NewMinute \/ IndexLeaseExpires
    PROVE  IndexInv'
<1>1. EntryOK(entry') /\ entry'.token = entry.token /\ entry'.status = entry.status
      /\ entry'.fingerprint = entry.fingerprint /\ entry'.gen = entry.gen
      /\ (entry = NoEntry => entry' = NoEntry)
  BY DEF RevokeReader, NewMinute, IndexLeaseExpires, IndexInv, IndexTypeOK, EntryOK, EntryFields, NoEntry
<1>2. DOMAIN origin' = {"text", "present", "readable"} /\ origin'.present = origin.present
      /\ origin'.text = origin.text
  BY DEF RevokeReader, NewMinute, IndexLeaseExpires, IndexInv, IndexTypeOK
<1>3. UNCHANGED <<chunks, tokens, indexer, search>>
  BY DEF RevokeReader, NewMinute, IndexLeaseExpires
<1>4. IndexTypeOK'
  BY <1>1, <1>2, <1>3 DEF IndexInv, IndexTypeOK, IndexerOK
<1>5. OwnerIsCurrent'
  BY <1>1, <1>2, <1>3 DEF OwnerIsCurrent, IndexInv
<1>6. SearchIsCurrent'
  BY <1>3 DEF SearchIsCurrent, IndexInv
<1>7. GoneIsEmpty' /\ ReadyIsCurrent'
  BY <1>1, <1>2, <1>3 DEF IndexInv, GoneIsEmpty, ReadyIsCurrent, NoEntry
<1> QED  BY <1>4, <1>5, <1>6, <1>7 DEF IndexInv

(* A worker starts a batch: rows of another generation, or without attempts left, are reset. *)
LEMMA BatchStep ==
    ASSUME IndexInv, NEW w \in Indexers, runBatch(w)
    PROVE  IndexInv'
<1>1. CASE UNCHANGED <<entry, chunks, indexer>>
  <2>1. UNCHANGED <<origin, entry, chunks, tokens, indexer, search>>
    BY <1>1 DEF runBatch
  <2> QED  BY <2>1 DEF IndexInv, IndexTypeOK, IndexerOK, EntryOK, ReadyIsCurrent, GoneIsEmpty,
              OwnerIsCurrent, SearchIsCurrent, NoEntry
<1>2. CASE /\ entry' = Exhausted(Rollover(w, entry))
           /\ chunks' = IF entry'.status = "READY" THEN chunks ELSE {}
           /\ To(w, [AtRest EXCEPT !.at = "claiming"])
  <2> DEFINE rolled == Rollover(w, entry)
  <2>1. /\ EntryOK(rolled) /\ (rolled.token = 0 \/ rolled.token = entry.token)
        /\ rolled = entry \/ (entry # NoEntry /\ rolled.status # "READY")
    <3>1. CASE entry # NoEntry /\ entry.gen /= GenerationOf[w]
      <4> DEFINE u == Unleased(entry, "PENDING")
      <4>1. EntryOK(u) /\ u.token = 0 /\ u.status = "PENDING"
        BY UnleasedFacts DEF IndexInv, IndexTypeOK
      <4>2. rolled = [u EXCEPT !.gen = GenerationOf[w], !.attempts = 0, !.fingerprint = 0]
        BY <3>1 DEF Rollover
      <4> HIDE DEF u
      <4>3. EntryOK(rolled) /\ rolled.token = 0 /\ rolled.status = "PENDING"
        BY <4>1, <4>2 DEF EntryOK, EntryFields
      <4> QED  BY <4>3, <3>1
    <3>2. CASE ~(entry # NoEntry /\ entry.gen /= GenerationOf[w])
      BY <3>2 DEF Rollover, IndexInv, IndexTypeOK
    <3> QED  BY <3>1, <3>2
  <2> HIDE DEF rolled
  <2>2. /\ EntryOK(entry') /\ (entry'.token = 0 \/ entry'.token = entry.token)
        /\ entry' = entry \/ (entry # NoEntry /\ entry'.status # "READY")
    <3>1. CASE rolled.status = "RUNNING" /\ ~rolled.live /\ rolled.attempts >= IndexAttempts
      <4>1. entry' = Unleased(rolled, "FAILED")
        BY <1>2, <3>1 DEF Exhausted, rolled
      <4>2. rolled # NoEntry
        BY <3>1, NoEntryFacts
      <4> QED  BY <4>1, <4>2, <2>1, UnleasedFacts
    <3>2. CASE ~(rolled.status = "RUNNING" /\ ~rolled.live /\ rolled.attempts >= IndexAttempts)
      <4>1. entry' = rolled
        BY <1>2, <3>2 DEF Exhausted, rolled
      <4> QED  BY <4>1, <2>1
    <3> QED  BY <3>1, <3>2
  <2>3. UNCHANGED <<origin, tokens, search>>
    BY DEF runBatch
  <2>4. entry'.token <= tokens /\ tokens \in Nat
    BY <2>2 DEF IndexInv, IndexTypeOK
  <2>5. ReadyIsCurrent'
    BY <1>2, <2>2, <2>3 DEF IndexInv, ReadyIsCurrent
  <2>6. GoneIsEmpty'
    BY <2>2, <2>3 DEF IndexInv, GoneIsEmpty, NoEntry
  <2> DEFINE v == [AtRest EXCEPT !.at = "claiming"]
  <2>7. IndexerOK(v) /\ v.at = "claiming"
    BY IdleOK
  <2> HIDE DEF v
  <2>8. DOMAIN indexer' = Indexers /\ indexer'[w] = v /\ \A u \in Indexers \ {w} : indexer'[u] = indexer[u]
    BY <1>2 DEF To, IndexInv, IndexTypeOK, v
  <2>9. \A u \in Indexers : IndexerOK(indexer[u])'
    BY <2>3, <2>7, <2>8 DEF IndexerOK, IndexInv, IndexTypeOK
  <2>10. OwnerIsCurrent'
    BY <2>2, <2>3, <2>7, <2>8, <2>9 DEF OwnerIsCurrent, IndexInv, IndexTypeOK, IndexerOK
  <2>11. SearchIsCurrent'
    BY <2>3 DEF SearchIsCurrent, IndexInv
  <2> QED  BY <2>2, <2>3, <2>4, <2>5, <2>6, <2>8, <2>9, <2>10, <2>11 DEF IndexInv, IndexTypeOK
<1> QED  BY <1>1, <1>2 DEF runBatch

(* A worker takes a row under a token nobody has. *)
LEMMA ClaimStep ==
    ASSUME IndexInv, NEW w \in Indexers, claimEntry(w)
    PROVE  IndexInv'
<1>1. CASE UNCHANGED <<tokens, entry>> /\ To(w, AtRest)
  BY <1>1, WorkerStep, IdleOK DEF claimEntry, IndexInv, IndexTypeOK
<1>2. CASE /\ Workable(entry) /\ tokens' = tokens + 1
           /\ entry' = [entry EXCEPT !.status = "RUNNING", !.token = tokens',
                                      !.live = TRUE, !.attempts = @ + 1]
           /\ To(w, [AtRest EXCEPT !.at = "loading", !.job = entry'])
  <2>1. EntryOK(entry') /\ entry'.token = tokens + 1 /\ entry'.status = "RUNNING"
    BY <1>2 DEF EntryOK, EntryFields, IndexInv, IndexTypeOK
  <2>2. UNCHANGED <<origin, chunks, search>>
    BY DEF claimEntry
  <2> DEFINE v == [AtRest EXCEPT !.at = "loading", !.job = entry']
  <2>3. DOMAIN v = {"at", "job", "text"} /\ v.at = "loading" /\ v.job = entry'
    BY DEF AtRest
  <2> HIDE DEF v
  <2>4. DOMAIN indexer' = Indexers /\ indexer'[w] = v /\ \A u \in Indexers \ {w} : indexer'[u] = indexer[u]
    BY <1>2 DEF To, IndexInv, IndexTypeOK, v
  <2>5. tokens \in Nat /\ tokens' \in Nat /\ entry'.token <= tokens'
    BY <1>2, <2>1 DEF IndexInv, IndexTypeOK
  <2>6. \A u \in Indexers : IndexerOK(indexer[u])'
    <3>1. IndexerOK(indexer[w])'
      <4>1. v.job.token \in Nat \ {0} /\ v.job.token <= tokens'
        BY <2>1, <2>3, <2>5
      <4> QED  BY <4>1, <2>3, <2>4 DEF IndexerOK
    <3>2. ASSUME NEW u \in Indexers \ {w} PROVE IndexerOK(indexer[u])'
      <4>1. IndexerOK(indexer[u]) /\ indexer'[u] = indexer[u] /\ tokens' = tokens + 1
        BY <1>2, <2>4 DEF IndexInv, IndexTypeOK
      <4> QED  BY <4>1, <2>5 DEF IndexerOK
    <3> QED  BY <3>1, <3>2
  <2>7. OwnerIsCurrent'
    BY <2>1, <2>3, <2>4, <2>5 DEF OwnerIsCurrent, IndexInv, IndexTypeOK, IndexerOK
  <2>8. origin.present
    BY <1>2, NoEntryFacts DEF Workable, IndexInv, GoneIsEmpty
  <2>9. SearchIsCurrent' /\ GoneIsEmpty' /\ ReadyIsCurrent'
    BY <2>1, <2>2, <2>8 DEF SearchIsCurrent, GoneIsEmpty, ReadyIsCurrent, IndexInv
  <2> QED  BY <2>1, <2>2, <2>4, <2>5, <2>6, <2>7, <2>9 DEF IndexInv, IndexTypeOK
<1> QED  BY <1>1, <1>2 DEF claimEntry

(* A worker loads, asks for room, embeds, or fails on the way. *)
LEMMA WorkStep ==
    ASSUME IndexInv, NEW w \in Indexers,
           LoadSource(w) \/ AdmitIndexing(w) \/ Embedded(w) \/ EmbeddingFails(w) \/ IndexerCrash(w)
    PROVE  IndexInv'
<1>i. IndexerOK(indexer[w])
  BY DEF IndexInv, IndexTypeOK
<1>u. \A s : EntryOK(Unleased(entry, s)) /\ Unleased(entry, s).token = 0 /\ Unleased(entry, s).status = s
  BY UnleasedFacts DEF IndexInv, IndexTypeOK
<1>1. CASE LoadSource(w)
  <2>1. CASE Release(w, Unleased(entry, "SKIPPED"))
    BY <1>1, <2>1, <1>u, ReleaseStep DEF LoadSource
  <2>2. CASE To(w, [indexer[w] EXCEPT !.at = "admitting", !.text = origin.text]) /\ UNCHANGED entry
    <3> DEFINE v == [indexer[w] EXCEPT !.at = "admitting", !.text = origin.text]
    <3>1. IndexerOK(v) /\ v.at = "admitting"
      BY <1>1, <1>i DEF LoadSource, IndexerOK
    <3> HIDE DEF v
    <3> QED  BY <1>1, <2>2, <3>1, WorkerStep DEF LoadSource, v, IndexInv, IndexTypeOK
  <2> QED  BY <1>1, <2>1, <2>2 DEF LoadSource
<1>2. CASE AdmitIndexing(w)
  <2>1. CASE Release(w, [Unleased(entry, "PENDING") EXCEPT !.attempts = @ - 1])
    <3> DEFINE u == Unleased(entry, "PENDING")
    <3>1. EntryOK(u) /\ u.token = 0 /\ u.status = "PENDING"
      BY <1>u
    <3> HIDE DEF u
    <3> DEFINE e == [u EXCEPT !.attempts = @ - 1]
    <3>2. EntryOK(e) /\ e.token = 0 /\ e.status = "PENDING"
      BY <3>1 DEF EntryOK, EntryFields
    <3>3. Release(w, e)
      BY <2>1 DEF u
    <3> HIDE DEF e
    <3> QED  BY <1>2, <3>2, <3>3, ReleaseStep DEF AdmitIndexing
  <2>2. CASE UNCHANGED entry /\ To(w, [indexer[w] EXCEPT !.at = "embedding"])
    <3> DEFINE v == [indexer[w] EXCEPT !.at = "embedding"]
    <3>1. IndexerOK(v) /\ v.at = "embedding"
      BY <1>2, <1>i DEF AdmitIndexing, IndexerOK
    <3> HIDE DEF v
    <3> QED  BY <1>2, <2>2, <3>1, WorkerStep DEF AdmitIndexing, v, IndexInv, IndexTypeOK
  <2> QED  BY <1>2, <2>1, <2>2 DEF AdmitIndexing
<1>3. CASE Embedded(w)
  <2>1. CASE Release(w, Unleased(entry, "PENDING"))
    BY <1>3, <2>1, <1>u, ReleaseStep DEF Embedded
  <2>2. CASE /\ origin.text = indexer[w].text
             /\ To(w, [indexer[w] EXCEPT !.at = "committing"]) /\ UNCHANGED entry
    <3> DEFINE v == [indexer[w] EXCEPT !.at = "committing"]
    <3>1. IndexerOK(v) /\ v.at = "committing" /\ v.text = origin.text
      BY <1>3, <2>2, <1>i DEF Embedded, IndexerOK
    <3> HIDE DEF v
    <3> QED  BY <1>3, <2>2, <3>1, WorkerStep DEF Embedded, v, IndexInv, IndexTypeOK
  <2> QED  BY <1>3, <2>1, <2>2 DEF Embedded
<1>4. CASE EmbeddingFails(w)
  <2>1. PICK s \in {"FAILED", "PENDING"} : Release(w, Unleased(entry, s))
    BY <1>4 DEF EmbeddingFails
  <2> QED  BY <1>4, <2>1, <1>u, ReleaseStep DEF EmbeddingFails
<1>5. CASE IndexerCrash(w)
  BY <1>5, WorkerStep, IdleOK DEF IndexerCrash, IndexInv, IndexTypeOK
<1> QED  BY <1>1, <1>2, <1>3, <1>4, <1>5

(* A worker that still owns the row writes the chunks of the text it embedded. *)
LEMMA CommitStep ==
    ASSUME IndexInv, NEW w \in Indexers, CommitChunks(w)
    PROVE  IndexInv'
<1> DEFINE v == [AtRest EXCEPT !.at = "claiming"]
<1>1. IndexerOK(v) /\ v.at = "claiming" /\ To(w, v)
  BY IdleOK DEF CommitChunks
<1>2. UNCHANGED <<origin, tokens, search>>
  BY DEF CommitChunks
<1> HIDE DEF v
<1>3. CASE UNCHANGED <<entry, chunks>>
  BY <1>1, <1>2, <1>3, WorkerStep DEF IndexInv, IndexTypeOK
<1>4. CASE /\ owned(w)
           /\ entry' = [Unleased(entry, "READY") EXCEPT !.fingerprint = indexer[w].text]
           /\ chunks' = {[text |-> indexer[w].text, gen |-> GenerationOf[w]]}
  <2>1. indexer[w].text = origin.text /\ entry.gen = GenerationOf[w] /\ entry # NoEntry
    BY <1>4, NoEntryFacts DEF owned, IndexInv, OwnerIsCurrent, CommitChunks
  <2> DEFINE u == Unleased(entry, "READY")
  <2>2. EntryOK(u) /\ u.token = 0 /\ u.status = "READY" /\ u.gen = entry.gen
    BY UnleasedFacts DEF IndexInv, IndexTypeOK
  <2> HIDE DEF u
  <2>3. entry' = [u EXCEPT !.fingerprint = indexer[w].text]
    BY <1>4 DEF u
  <2>4. EntryOK(entry') /\ entry'.token = 0 /\ entry'.gen = entry.gen /\ entry'.fingerprint = origin.text
    BY <2>1, <2>2, <2>3 DEF EntryOK, EntryFields
  <2>5. origin.present
    BY <2>1 DEF IndexInv, GoneIsEmpty
  <2>6. ReadyIsCurrent' /\ GoneIsEmpty'
    BY <1>2, <1>4, <2>1, <2>4, <2>5 DEF ReadyIsCurrent, GoneIsEmpty
  <2>7. DOMAIN indexer' = Indexers /\ indexer'[w] = v /\ \A x \in Indexers \ {w} : indexer'[x] = indexer[x]
    BY <1>1 DEF To, IndexInv, IndexTypeOK
  <2>8. \A x \in Indexers : IndexerOK(indexer[x])'
    BY <1>1, <1>2, <2>7 DEF IndexerOK, IndexInv, IndexTypeOK
  <2>9. OwnerIsCurrent'
    BY <1>1, <2>4, <2>7, <2>8 DEF OwnerIsCurrent, IndexerOK
  <2>10. SearchIsCurrent'
    BY <1>2 DEF SearchIsCurrent, IndexInv
  <2> QED  BY <1>2, <2>4, <2>6, <2>7, <2>8, <2>9, <2>10 DEF IndexInv, IndexTypeOK
<1> QED  BY <1>3, <1>4 DEF CommitChunks

(* A search moves on, or gives up. *)
LEMMA SearchStep ==
    ASSUME IndexInv, NEW q \in Searches, Hits(q) \/ Hydrate(q) \/ Candidate(q)
    PROVE  IndexInv'
<1>1. UNCHANGED <<origin, entry, chunks, tokens, indexer>>
  BY DEF Hits, Hydrate, Candidate
<1>2. PICK v : /\ SearchTo(q, v) /\ DOMAIN v = {"at", "hit", "text", "source"}
               /\ v.at = "checking" => v.text = v.hit.fingerprint
               /\ v.at = "answered" => v.text = v.source
  <2>0. DOMAIN search[q] = {"at", "hit", "text", "source"}
    BY DEF IndexInv, IndexTypeOK
  <2>n. DOMAIN NoSearch = {"at", "hit", "text", "source"} /\ NoSearch.at = "idle"
    BY DEF NoSearch
  <2>1. CASE SearchTo(q, NoSearch)
    BY <2>1, <2>n
  <2>2. CASE Hits(q)
    <3> DEFINE v == [NoSearch EXCEPT !.at = "hydrating", !.hit = entry]
    <3>1. DOMAIN v = {"at", "hit", "text", "source"} /\ v.at = "hydrating"
      BY <2>n
    <3>2. SearchTo(q, v)
      BY <2>2 DEF Hits
    <3> HIDE DEF v
    <3> QED  BY <3>1, <3>2
  <2>3. CASE Hydrate(q) /\ ~SearchTo(q, NoSearch)
    <3> DEFINE v == [search[q] EXCEPT !.at = "checking", !.text = origin.text]
    <3>1. SearchTo(q, v) /\ origin.text = search[q].hit.fingerprint
      BY <2>3 DEF Hydrate, SearchTo
    <3>2. DOMAIN v = {"at", "hit", "text", "source"} /\ v.at = "checking" /\ v.text = origin.text
          /\ v.hit = search[q].hit
      BY <2>0
    <3> HIDE DEF v
    <3> QED  BY <3>1, <3>2
  <2>4. CASE Candidate(q) /\ ~SearchTo(q, NoSearch)
    <3> DEFINE now == IF origin.present THEN origin.text ELSE 0
               v == [search[q] EXCEPT !.at = "answered", !.source = now]
    <3>1. SearchTo(q, v) /\ StillCurrent(q)
      BY <2>4 DEF Candidate, SearchTo
    <3>2. search[q].text = now
      BY <2>4, <3>1 DEF StillCurrent, Candidate, IndexInv, SearchIsCurrent, ReadyIsCurrent
    <3> HIDE DEF now
    <3>3. DOMAIN v = {"at", "hit", "text", "source"} /\ v.at = "answered" /\ v.text = search[q].text
          /\ v.source = now
      BY <2>0
    <3> HIDE DEF v
    <3> QED  BY <3>1, <3>2, <3>3
  <2> QED  BY <2>1, <2>2, <2>3, <2>4
<1>3. DOMAIN search' = Searches /\ search'[q] = v /\ \A x \in Searches \ {q} : search'[x] = search[x]
  BY <1>2 DEF SearchTo, IndexInv, IndexTypeOK
<1>4. SearchIsCurrent'
  BY <1>2, <1>3 DEF SearchIsCurrent, IndexInv
<1>5. IndexTypeOK'
  BY <1>1, <1>2, <1>3 DEF IndexInv, IndexTypeOK, IndexerOK, EntryOK
<1>6. ReadyIsCurrent' /\ GoneIsEmpty' /\ OwnerIsCurrent'
  BY <1>1 DEF IndexInv, ReadyIsCurrent, GoneIsEmpty, OwnerIsCurrent, NoEntry
<1> QED  BY <1>4, <1>5, <1>6 DEF IndexInv

(* Every step preserves the invariant. *)
LEMMA IndexNext == IndexInv /\ [SemanticNext]_indexVars => IndexInv'
<1> SUFFICES ASSUME IndexInv, [SemanticNext]_indexVars PROVE IndexInv'
  OBVIOUS
<1>1. CASE UNCHANGED indexVars
  BY <1>1 DEF indexVars, IndexInv, IndexTypeOK, IndexerOK, EntryOK, ReadyIsCurrent, GoneIsEmpty,
              OwnerIsCurrent, SearchIsCurrent, NoEntry
<1>2. CASE SemanticNext
  BY <1>2, SourceStep, OtherStep, BatchStep, ClaimStep, WorkStep, CommitStep, SearchStep DEF SemanticNext
<1> QED  BY <1>1, <1>2

(* For any number of workers, searches, texts and generations: a READY row and its chunks are of
   the text the source has now, and what a search answers with is what the source says at that
   moment (SemanticIndexer.process and runBatch, SemanticSearchService.retrieve). *)
THEOREM IndexStaysCurrent == SemanticInit /\ [][SemanticNext]_indexVars => []IndexIsCurrent
<1>1. IndexInv => IndexIsCurrent
  BY DEF IndexInv, ReadyIsCurrent, SearchIsCurrent, IndexIsCurrent
<1> QED  BY <1>1, IndexInit, IndexNext, PTL

-----------------------------------------------------------------------------
(* Email deliveries.                                                       *)

(* A worker that has taken a delivery. *)
SenderFields == {"step", "of", "now", "tries", "error"}

(* A worker that has taken a delivery. *)
SenderOK(s) ==
    s.step # "IDLE" => DOMAIN s = SenderFields /\ s.of \in DeliveryIds

(* The shape of the state. *)
MailTypeOK ==
    /\ DOMAIN sender = Senders /\ \A w \in Senders : SenderOK(sender[w])
    /\ DOMAIN sentKey = Occurrences
    /\ mailed \in [Occurrences -> Nat] /\ keyLost \in [Occurrences -> Nat]
    /\ DOMAIN age = Occurrences

(* The worker is at this step of an email of the occurrence. *)
At(step, w, o) == sender[w].step = step /\ sender[w].of[1] = o

(* The workers that have asked the provider to send the occurrence. *)
Sending(o) == {w \in Senders : At("SENDING", w, o)}

(* Nobody will ask again: the occurrence is too late and no worker is about to. *)
Closed(o) ==
    age[o] = "LATE" /\ \A w \in Senders : ~At("EMAIL", w, o) /\ ~At("SENDING", w, o)

(* The one email that needs no lost key: its key is held, or nobody will ask again. *)
Spent(o) == IF sentKey[o] \/ Closed(o) THEN 1 ELSE 0

(* What was sent and what is being sent is paid for: by keys that were lost, and once more by
   the key that is held. *)
Paid(o) == mailed[o] + Cardinality(Sending(o)) <= keyLost[o] + Spent(o)

(* The inductive invariant. *)
MailInv == MailTypeOK /\ \A o \in Occurrences : Paid(o)

(* There are finitely many workers, so those sending can be counted. *)
LEMMA SendingCounted ==
    ASSUME NEW o
    PROVE  IsFiniteSet(Sending(o)) /\ Cardinality(Sending(o)) \in Nat
<1>1. Sending(o) \subseteq Senders
  BY DEF Sending
<1> QED  BY <1>1, NotificationsAssumption, FS_Subset, FS_CardinalityType DEF NotificationsAssumption

(* Nobody begins to send the occurrence, and what paid for it still does. *)
LEMMA PaidStays ==
    ASSUME MailInv, NEW o \in Occurrences, Sending(o)' \subseteq Sending(o),
           mailed'[o] = mailed[o], keyLost'[o] \in Nat,
           \/ keyLost'[o] = keyLost[o] /\ (sentKey[o] \/ Closed(o) => sentKey'[o] \/ Closed(o)')
           \/ keyLost'[o] = keyLost[o] + 1
    PROVE  Paid(o)'
<1>1. Cardinality(Sending(o)') <= Cardinality(Sending(o)) /\ Cardinality(Sending(o)') \in Nat
  BY SendingCounted, FS_Subset, FS_CardinalityType
<1>2. /\ mailed[o] \in Nat /\ keyLost[o] \in Nat /\ Cardinality(Sending(o)) \in Nat
      /\ mailed[o] + Cardinality(Sending(o)) <= keyLost[o] + Spent(o)
  BY SendingCounted DEF MailInv, MailTypeOK, Paid
<1>3. CASE keyLost'[o] = keyLost[o] /\ (sentKey[o] \/ Closed(o) => sentKey'[o] \/ Closed(o)')
  <2>1. Spent(o)' \in {0, 1} /\ Spent(o) \in {0, 1} /\ (Spent(o) = 1 => Spent(o)' = 1)
    BY <1>3 DEF Spent
  <2>2. Spent(o) <= Spent(o)'
    BY <2>1
  <2> QED  BY <1>1, <1>2, <1>3, <2>1, <2>2 DEF Paid
<1>4. CASE keyLost'[o] = keyLost[o] + 1
  <2>1. Spent(o)' \in {0, 1} /\ Spent(o) \in {0, 1}
    BY DEF Spent
  <2> QED  BY <1>1, <1>2, <1>4, <2>1 DEF Paid
<1> QED  BY <1>3, <1>4

(* What a step of one worker comes to. *)
Moves(w, s) ==
    /\ DOMAIN sender' = Senders /\ sender'[w] = s
    /\ \A v \in Senders \ {w} : sender'[v] = sender[v]

(* A worker changes, the others do not. *)
LEMMA MovesTo ==
    ASSUME MailInv, NEW w \in Senders, NEW s, sender' = [sender EXCEPT ![w] = s]
    PROVE  Moves(w, s)
  BY DEF MailInv, MailTypeOK, Moves

(* The worker of the next step. *)
LEMMA StepTo ==
    ASSUME MailInv, NEW w \in Senders, sender[w].step # "IDLE", NEW step
    PROVE  /\ SenderOK([sender[w] EXCEPT !.step = step])
           /\ [sender[w] EXCEPT !.step = step].step = step
           /\ [sender[w] EXCEPT !.step = step].of = sender[w].of
  BY DEF MailInv, MailTypeOK, SenderOK, SenderFields

(* The worker of a failed send. *)
LEMMA FailsWith ==
    ASSUME MailInv, NEW w \in Senders, sender[w].step # "IDLE", NEW class
    PROVE  LET s == [sender[w] EXCEPT !.step = "ERROR", !.error = class]
           IN  SenderOK(s) /\ s.step = "ERROR" /\ s.of = sender[w].of
  BY DEF MailInv, MailTypeOK, SenderOK, SenderFields

(* A step that neither begins an email nor sends one. *)
LEMMA QuietStep ==
    ASSUME MailInv, NEW w \in Senders, NEW s, Moves(w, s), SenderOK(s),
           s.step \notin {"EMAIL", "SENDING"},
           UNCHANGED <<age, sentKey, mailed, keyLost>>
    PROVE  MailInv'
<1>1. MailTypeOK'
  BY DEF MailInv, MailTypeOK, Moves, SenderOK, DeliveryIds, Channels
<1>2. \A v \in Senders, o \in Occurrences :
          /\ At("SENDING", v, o)' => At("SENDING", v, o)
          /\ At("EMAIL", v, o)' => At("EMAIL", v, o)
  BY DEF At, Moves
<1>3. ASSUME NEW o \in Occurrences PROVE Paid(o)'
  <2>1. Sending(o)' \subseteq Sending(o) /\ (Closed(o) => Closed(o)')
    BY <1>2 DEF Sending, Closed
  <2> QED  BY <2>1, PaidStays DEF MailInv, MailTypeOK
<1> QED  BY <1>1, <1>3 DEF MailInv

(* The initial states satisfy the invariant. *)
LEMMA MailInit == NoticeInit => MailInv
<1> SUFFICES ASSUME NoticeInit PROVE MailInv
  OBVIOUS
<1>1. \A w \in Senders : sender[w].step = "IDLE"
  BY DEF NoticeInit, SenderIdle
<1>2. MailTypeOK
  BY <1>1 DEF NoticeInit, MailTypeOK, SenderOK
<1>3. ASSUME NEW o \in Occurrences PROVE Paid(o)
  <2>1. Sending(o) = {}
    BY <1>1 DEF Sending, At
  <2> QED  BY <2>1, FS_EmptySet DEF NoticeInit, Paid, Spent
<1> QED  BY <1>2, <1>3 DEF MailInv

(* Steps that leave the workers alone, the clock among them. *)
LEMMA AsideStep ==
    ASSUME MailInv, UNCHANGED <<sender, sentKey, mailed, keyLost>>, DOMAIN age' = Occurrences,
           \A o \in Occurrences : age[o] = "LATE" => age'[o] = "LATE"
    PROVE  MailInv'
<1>1. MailTypeOK'
  BY DEF MailInv, MailTypeOK, SenderOK, DeliveryIds, Channels
<1>2. \A step : \A v \in Senders, o \in Occurrences : At(step, v, o)' <=> At(step, v, o)
  BY DEF At
<1>3. ASSUME NEW o \in Occurrences PROVE Paid(o)'
  <2>1. Sending(o)' \subseteq Sending(o) /\ (Closed(o) => Closed(o)')
    BY <1>2 DEF Sending, Closed
  <2> QED  BY <2>1, PaidStays DEF MailInv, MailTypeOK
<1> QED  BY <1>1, <1>3 DEF MailInv

(* A worker takes a delivery: an email only while it is not late. *)
LEMMA TakesStep ==
    ASSUME MailInv, NEW w \in Senders, NEW d \in DeliveryIds, ProcessDelivery(w, d)
    PROVE  MailInv'
<1>1. UNCHANGED <<age, sentKey, mailed, keyLost>>
  BY DEF ProcessDelivery
<1>2. CASE UNCHANGED sender
  BY <1>1, <1>2, AsideStep DEF MailInv, MailTypeOK
<1>3. CASE ~UNCHANGED sender
  <2>1. PICK n : sender' = [sender EXCEPT ![w] =
                                 [step |-> IF StillWanted(d) THEN d[2] ELSE "SKIP",
                                  of |-> d, now |-> Came, tries |-> n, error |-> "NONE"]]
    BY <1>3 DEF ProcessDelivery
  <2> DEFINE s == [step |-> IF StillWanted(d) THEN d[2] ELSE "SKIP",
                   of |-> d, now |-> Came, tries |-> n, error |-> "NONE"]
  <2>2. DOMAIN s = SenderFields /\ s.of = d /\ s.step = IF StillWanted(d) THEN d[2] ELSE "SKIP"
    BY DEF SenderFields
  <2>3. sender' = [sender EXCEPT ![w] = s]
    BY <2>1
  <2> HIDE DEF s
  <2>4. SenderOK(s) /\ s.step # "SENDING" /\ (s.step = "EMAIL" => age[d[1]] # "LATE")
    BY <2>2 DEF SenderOK, StillWanted, DeliveryIds, Channels
  <2>5. Moves(w, s)
    BY <2>3, MovesTo
  <2>6. MailTypeOK'
    BY <1>1, <2>4, <2>5 DEF MailInv, MailTypeOK, Moves, SenderOK, DeliveryIds, Channels
  <2>7. \A v \in Senders, o \in Occurrences :
          /\ At("SENDING", v, o)' => At("SENDING", v, o)
          /\ At("EMAIL", v, o)' => At("EMAIL", v, o) \/ age[o] # "LATE"
    BY <2>2, <2>4, <2>5 DEF At, Moves
  <2>8. ASSUME NEW o \in Occurrences PROVE Paid(o)'
    <3>1. Sending(o)' \subseteq Sending(o) /\ (Closed(o) => Closed(o)')
      BY <1>1, <2>7 DEF Sending, Closed
    <3> QED  BY <1>1, <3>1, PaidStays DEF MailInv, MailTypeOK
  <2> QED  BY <2>6, <2>8 DEF MailInv
<1> QED  BY <1>2, <1>3

(* A worker takes the dispatch key: nobody has it, so it pays for one more email. *)
LEMMA DispatchStep ==
    ASSUME MailInv, NEW w \in Senders, ClaimDispatch(w)
    PROVE  MailInv'
<1>0. sender[w].step = "EMAIL"
  BY DEF ClaimDispatch
<1>1. PICK o \in Occurrences : sender[w].of[1] = o
  BY <1>0 DEF MailInv, MailTypeOK, SenderOK, DeliveryIds
<1>2. PICK step : /\ SenderTo(w, step)
                  /\ (step = "SENT" /\ sentKey[o]) \/ (step = "SENDING" /\ ~sentKey[o])
  <2>1. CASE KeyHeld(sender[w].of)
    <3>1. SenderTo(w, "SENT") /\ sentKey[o]
      BY <1>1, <2>1 DEF ClaimDispatch, KeyHeld
    <3> QED  BY <3>1
  <2>2. CASE ~KeyHeld(sender[w].of)
    <3>1. SenderTo(w, "SENDING") /\ ~sentKey[o]
      BY <1>1, <2>2 DEF ClaimDispatch, KeyHeld
    <3> QED  BY <3>1
  <2> QED  BY <2>1, <2>2
<1>3. PICK s : Moves(w, s) /\ SenderOK(s) /\ s.step = step /\ s.of = sender[w].of
  <2> DEFINE s == [sender[w] EXCEPT !.step = step]
  <2>1. Moves(w, s)
    BY <1>2, MovesTo DEF SenderTo
  <2>2. SenderOK(s) /\ s.step = step /\ s.of = sender[w].of
    BY <1>0, StepTo
  <2> HIDE DEF s
  <2> QED  BY <2>1, <2>2
<1>4. UNCHANGED <<age, mailed, keyLost>> /\ sentKey' = [sentKey EXCEPT ![o] = TRUE]
  BY <1>1 DEF ClaimDispatch
<1>6. At("EMAIL", w, o)
  BY <1>0, <1>1 DEF At
<1>7. sentKey'[o] /\ DOMAIN sentKey' = Occurrences
      /\ \A x \in Occurrences \ {o} : sentKey'[x] = sentKey[x]
  BY <1>4 DEF MailInv, MailTypeOK
<1>8. MailTypeOK'
  BY <1>3, <1>4, <1>7 DEF MailInv, MailTypeOK, Moves, SenderOK, DeliveryIds, Channels
<1>9. \A v \in Senders, x \in Occurrences :
         /\ At("SENDING", v, x)' => At("SENDING", v, x) \/ (v = w /\ x = o /\ step = "SENDING")
         /\ At("EMAIL", v, x)' => At("EMAIL", v, x)
  BY <1>1, <1>2, <1>3 DEF At, Moves
<1>10. ASSUME NEW x \in Occurrences, x # o \/ step = "SENT" PROVE Paid(x)'
  <2>1. Sending(x)' \subseteq Sending(x)
    BY <1>9, <1>10, <1>2 DEF Sending
  <2>2. sentKey[x] \/ Closed(x) => sentKey'[x] \/ Closed(x)'
    BY <1>4, <1>7, <1>9, <1>10, <1>2 DEF Closed
  <2> QED  BY <1>4, <2>1, <2>2, PaidStays DEF MailInv, MailTypeOK
<1>11. ASSUME step = "SENDING" PROVE Paid(o)'
  <2>1. Spent(o) = 0 /\ Spent(o)' = 1
    BY <1>2, <1>6, <1>7, <1>11 DEF Spent, Closed
  <2>2. Sending(o)' \subseteq Sending(o) \cup {w}
    BY <1>9 DEF Sending
  <2>s. PICK S, T : S = Sending(o) /\ T = Sending(o)'
    OBVIOUS
  <2>t. IsFiniteSet(S) /\ Cardinality(S) \in Nat /\ T \subseteq S \cup {w}
    BY <2>s, <2>2, SendingCounted
  <2>u. IsFiniteSet(S \cup {w}) /\ Cardinality(S \cup {w}) <= Cardinality(S) + 1
    <3>1. \/ Cardinality(S \cup {w}) = Cardinality(S)
          \/ Cardinality(S \cup {w}) = Cardinality(S) + 1
      BY <2>t, FS_AddElement
    <3> QED  BY <2>t, <3>1, FS_AddElement
  <2>v. Cardinality(T) <= Cardinality(S \cup {w}) /\ Cardinality(T) \in Nat
    BY <2>t, <2>u, FS_Subset, FS_CardinalityType
  <2>w. Cardinality(S \cup {w}) \in Nat
    BY <2>u, FS_CardinalityType
  <2>x. Cardinality(T) <= Cardinality(S) + 1
    BY <2>t, <2>u, <2>v, <2>w
  <2>3. Cardinality(Sending(o)') <= Cardinality(Sending(o)) + 1 /\ Cardinality(Sending(o)') \in Nat
    BY <2>s, <2>v, <2>x
  <2>4. /\ mailed[o] \in Nat /\ keyLost[o] \in Nat /\ Cardinality(Sending(o)) \in Nat
        /\ mailed[o] + Cardinality(Sending(o)) <= keyLost[o] + Spent(o)
    BY SendingCounted DEF MailInv, MailTypeOK, Paid
  <2> QED  BY <1>4, <2>1, <2>3, <2>4 DEF Paid
<1> QED  BY <1>2, <1>8, <1>10, <1>11 DEF MailInv

(* The mail service answers: what was being sent was sent, or gives a key back. *)
LEMMA AnswerStep ==
    ASSUME MailInv, NEW w \in Senders, ProviderAnswers(w)
    PROVE  MailInv'
<1>1. UNCHANGED <<age, keyLost>> /\ sender[w].step = "SENDING"
  BY DEF ProviderAnswers
<1>2. PICK o \in Occurrences : sender[w].of[1] = o
  BY <1>1 DEF MailInv, MailTypeOK, SenderOK, DeliveryIds
<1>3. w \in Sending(o) /\ ~Closed(o)
  BY <1>1, <1>2 DEF At, Sending, Closed
<1>4. PICK s : /\ Moves(w, s) /\ SenderOK(s) /\ s.step \in {"SENT", "ERROR"}
               /\ \/ /\ mailed' = [mailed EXCEPT ![o] = @ + 1] /\ UNCHANGED sentKey
                  \/ /\ sentKey' = [sentKey EXCEPT ![o] = FALSE] /\ UNCHANGED mailed
  <2>1. CASE /\ mailed' = [mailed EXCEPT ![o] = @ + 1] /\ UNCHANGED sentKey
             /\ SenderTo(w, "SENT")
    <3> DEFINE s == [sender[w] EXCEPT !.step = "SENT"]
    <3>1. Moves(w, s)
      BY <2>1, MovesTo DEF SenderTo
    <3>2. SenderOK(s) /\ s.step = "SENT"
      BY <1>1, StepTo
    <3> HIDE DEF s
    <3> QED  BY <2>1, <3>1, <3>2
  <2>2. ASSUME NEW class, SenderFails(w, class),
               sentKey' = [sentKey EXCEPT ![o] = FALSE], UNCHANGED mailed
        PROVE  \E s : /\ Moves(w, s) /\ SenderOK(s) /\ s.step \in {"SENT", "ERROR"}
                      /\ sentKey' = [sentKey EXCEPT ![o] = FALSE] /\ UNCHANGED mailed
    <3> DEFINE s == [sender[w] EXCEPT !.step = "ERROR", !.error = class]
    <3>1. Moves(w, s)
      BY <2>2, MovesTo DEF SenderFails
    <3>2. SenderOK(s) /\ s.step = "ERROR"
      BY <1>1, FailsWith
    <3> HIDE DEF s
    <3> QED  BY <2>2, <3>1, <3>2
  <2> QED  BY <1>2, <2>1, <2>2 DEF ProviderAnswers
<1>5. \A v \in Senders, x \in Occurrences :
         /\ At("SENDING", v, x)' => At("SENDING", v, x) /\ v # w
         /\ At("EMAIL", v, x)' => At("EMAIL", v, x)
  BY <1>4 DEF At, Moves
<1>6. /\ DOMAIN sentKey' = Occurrences /\ mailed' \in [Occurrences -> Nat]
      /\ \A x \in Occurrences \ {o} : sentKey'[x] = sentKey[x] /\ mailed'[x] = mailed[x]
      /\ \/ mailed'[o] = mailed[o] + 1 /\ sentKey'[o] = sentKey[o]
         \/ mailed'[o] = mailed[o]
  BY <1>4 DEF MailInv, MailTypeOK
<1>7. MailTypeOK'
  BY <1>1, <1>4, <1>6 DEF MailInv, MailTypeOK, Moves, SenderOK, DeliveryIds, Channels
<1>8. ASSUME NEW x \in Occurrences \ {o} PROVE Paid(x)'
  <2>1. Sending(x)' \subseteq Sending(x) /\ (Closed(x) => Closed(x)')
    BY <1>1, <1>5 DEF Sending, Closed
  <2> QED  BY <1>1, <1>6, <2>1, PaidStays DEF MailInv, MailTypeOK
<1>9. Paid(o)'
  <2>1. Sending(o)' \subseteq Sending(o) \ {w}
    BY <1>5 DEF Sending
  <2>2. Cardinality(Sending(o)') <= Cardinality(Sending(o)) - 1 /\ Cardinality(Sending(o)') \in Nat
    BY <1>3, <2>1, SendingCounted, FS_RemoveElement, FS_Subset, FS_CardinalityType
  <2>3. /\ mailed[o] \in Nat /\ keyLost[o] \in Nat /\ Cardinality(Sending(o)) \in Nat
        /\ mailed[o] + Cardinality(Sending(o)) <= keyLost[o] + Spent(o)
    BY SendingCounted DEF MailInv, MailTypeOK, Paid
  <2>4. Spent(o) \in {0, 1} /\ Spent(o)' \in {0, 1}
    BY DEF Spent
  <2>5. CASE mailed'[o] = mailed[o] + 1 /\ sentKey'[o] = sentKey[o]
    <3>1. Spent(o) = 1 => Spent(o)' = 1
      BY <1>3, <2>5 DEF Spent
    <3> QED  BY <1>1, <2>2, <2>3, <2>4, <2>5, <3>1 DEF Paid
  <2>6. CASE mailed'[o] = mailed[o]
    BY <1>1, <2>2, <2>3, <2>4, <2>6 DEF Paid
  <2> QED  BY <1>6, <2>5, <2>6
<1> QED  BY <1>7, <1>8, <1>9 DEF MailInv

(* The other steps of a worker, a crash among them. *)
LEMMA OtherSenderStep ==
    ASSUME MailInv, NEW w \in Senders,
           \/ SkipDelivery(w) \/ DeliverInApp(w) \/ BudgetExhausted(w) \/ MarkDelivered(w)
           \/ MarkReminderDelivered(w) \/ RecordError(w) \/ SenderStops(w)
    PROVE  MailInv'
<1>1. UNCHANGED <<age, sentKey, mailed, keyLost>>
  BY DEF SkipDelivery, DeliverInApp, BudgetExhausted, MarkDelivered, MarkReminderDelivered,
         RecordError, SenderStops
<1>2. SenderOK(SenderIdle) /\ SenderIdle.step = "IDLE"
  BY DEF SenderOK, SenderIdle
<1>3. \/ sender' = [sender EXCEPT ![w] = SenderIdle]
      \/ \E step \in {"SENT", "DONE"} :
            sender[w].step # "IDLE" /\ sender' = [sender EXCEPT ![w] = [sender[w] EXCEPT !.step = step]]
      \/ sender[w].step # "IDLE" /\ sender' = [sender EXCEPT ![w] =
                                        [sender[w] EXCEPT !.step = "ERROR", !.error = "retryable"]]
  BY DEF SkipDelivery, DeliverInApp, BudgetExhausted, MarkDelivered, MarkReminderDelivered,
         RecordError, SenderStops, SenderTo, SenderFails
<1>4. PICK s : Moves(w, s) /\ SenderOK(s) /\ s.step \notin {"EMAIL", "SENDING"}
  <2>1. CASE sender' = [sender EXCEPT ![w] = SenderIdle]
    BY <1>2, <2>1, MovesTo
  <2>2. ASSUME NEW step \in {"SENT", "DONE"}, sender[w].step # "IDLE",
               sender' = [sender EXCEPT ![w] = [sender[w] EXCEPT !.step = step]]
        PROVE  \E s : Moves(w, s) /\ SenderOK(s) /\ s.step \notin {"EMAIL", "SENDING"}
    BY <2>2, StepTo, MovesTo
  <2>3. CASE sender[w].step # "IDLE" /\ sender' = [sender EXCEPT ![w] =
                                        [sender[w] EXCEPT !.step = "ERROR", !.error = "retryable"]]
    <3> DEFINE s == [sender[w] EXCEPT !.step = "ERROR", !.error = "retryable"]
    <3>1. Moves(w, s)
      BY <2>3, MovesTo
    <3>2. SenderOK(s) /\ s.step = "ERROR"
      BY <2>3, FailsWith
    <3> HIDE DEF s
    <3> QED  BY <3>1, <3>2
  <2> QED  BY <1>3, <2>1, <2>2, <2>3
<1> QED  BY <1>1, <1>4, QuietStep

(* Redis loses keys: each one lost pays for an email. *)
LEMMA LossStep ==
    ASSUME MailInv, DeliveryQueueLost
    PROVE  MailInv'
<1>1. /\ UNCHANGED <<sender, mailed, age>> /\ sentKey' = [o \in Occurrences |-> FALSE]
      /\ keyLost' = [o \in Occurrences |-> IF o \in {x \in Occurrences : sentKey[x]}
                                           THEN keyLost[o] + 1 ELSE keyLost[o]]
  BY DEF DeliveryQueueLost, LosesKeys
<1>2. \A step : \A v \in Senders, o \in Occurrences : At(step, v, o)' <=> At(step, v, o)
  BY <1>1 DEF At
<1>3. MailTypeOK'
  BY <1>1 DEF MailInv, MailTypeOK, SenderOK, DeliveryIds, Channels
<1>4. ASSUME NEW o \in Occurrences PROVE Paid(o)'
  <2>1. Sending(o)' \subseteq Sending(o) /\ (Closed(o) => Closed(o)')
    BY <1>1, <1>2 DEF Sending, Closed
  <2>2. /\ mailed'[o] = mailed[o] /\ keyLost'[o] \in Nat
        /\ IF sentKey[o] THEN keyLost'[o] = keyLost[o] + 1 ELSE keyLost'[o] = keyLost[o]
    BY <1>1 DEF MailInv, MailTypeOK
  <2> QED  BY <2>1, <2>2, PaidStays
<1> QED  BY <1>3, <1>4 DEF MailInv

(* The key expires: its occurrence is closed, or the key counts as lost. *)
LEMMA ExpiryStep ==
    ASSUME MailInv, NEW o \in Occurrences, KeyExpires(o)
    PROVE  MailInv'
<1>1. /\ UNCHANGED <<sender, mailed, age>> /\ sentKey' = [sentKey EXCEPT ![o] = FALSE]
      /\ \A w \in Senders : sender[w].step # "IDLE" => sender[w].of[1] # o
  BY DEF KeyExpires
<1>2. /\ keyLost' \in [Occurrences -> Nat]
      /\ \A x \in Occurrences \ {o} : keyLost'[x] = keyLost[x] /\ sentKey'[x] = sentKey[x]
      /\ \/ age[o] = "LATE" /\ keyLost'[o] = keyLost[o]
         \/ keyLost'[o] = keyLost[o] + 1
  BY <1>1 DEF KeyExpires, LosesKeys, MailInv, MailTypeOK
<1>3. \A step : \A v \in Senders, x \in Occurrences : At(step, v, x)' <=> At(step, v, x)
  BY <1>1 DEF At
<1>4. MailTypeOK'
  BY <1>1, <1>2 DEF MailInv, MailTypeOK, SenderOK, DeliveryIds, Channels
<1>5. ASSUME NEW x \in Occurrences PROVE Paid(x)'
  <2>1. Sending(x)' \subseteq Sending(x) /\ (Closed(x) => Closed(x)')
    BY <1>1, <1>3 DEF Sending, Closed
  <2>2. x = o /\ age[o] = "LATE" => Closed(o)'
    BY <1>1 DEF Closed, At
  <2> QED  BY <1>1, <1>2, <2>1, <2>2, PaidStays
<1> QED  BY <1>4, <1>5 DEF MailInv

(* Every step preserves the invariant. *)
LEMMA MailNext == MailInv /\ [NoticeNext]_noticeVars => MailInv'
<1> SUFFICES ASSUME MailInv, [NoticeNext]_noticeVars PROVE MailInv'
  OBVIOUS
<1>1. CASE UNCHANGED noticeVars
  BY <1>1, AsideStep DEF noticeVars, MailInv, MailTypeOK
<1>2. CASE \/ LoadReminder \/ UpdateReminder \/ DeleteReminder
           \/ \E inApp, email \in BOOLEAN : UpdatePreferences(inApp, email)
           \/ Reconcile \/ ReconcilerStops \/ RequeueExecutable
           \/ \E d \in DeliveryIds : BackoffPasses(d) \/ DeliveryLapses(d)
           \/ \E o \in Occurrences : MarkRead({o})
           \/ MarkRead(Unread)
  <2>1. UNCHANGED <<sender, sentKey, mailed, keyLost, age>>
    BY <1>2 DEF LoadReminder, UpdateReminder, updateReminder, DeleteReminder, UpdatePreferences,
          Reconcile, ReadDue, ReadOwners, FailLateReminder, createDueDeliveries, ReconcilerStops,
          RequeueExecutable, BackoffPasses, DeliveryLapses, MarkRead
  <2> QED  BY <2>1, AsideStep DEF MailInv, MailTypeOK
<1>3. ASSUME NEW o \in Occurrences, OccurrenceAges(o) PROVE MailInv'
  BY <1>3, AsideStep DEF OccurrenceAges, MailInv, MailTypeOK
<1>4. ASSUME NEW w \in Senders, SenderTakes(w) \/ SenderStep(w) \/ SenderStops(w) PROVE MailInv'
  BY <1>4, TakesStep, DispatchStep, AnswerStep, OtherSenderStep DEF SenderTakes, SenderStep
<1> QED  BY <1>1, <1>2, <1>3, <1>4, LossStep, ExpiryStep DEF NoticeNext

(* For any number of occurrences, workers, retries and losses: an occurrence is emailed once, and
   once more at most for every time Redis lost its dispatch key while it could still be sent
   (the key NotificationService.sendEmailOnce sets before it calls the provider). *)
THEOREM AtMostOneEmail == NoticeInit /\ [][NoticeNext]_noticeVars => []EmailedOnce
<1>1. MailInv => EmailedOnce
  <2> SUFFICES ASSUME MailInv, NEW o \in Occurrences PROVE mailed[o] <= 1 + keyLost[o]
    BY DEF EmailedOnce
  <2>1. /\ mailed[o] \in Nat /\ keyLost[o] \in Nat /\ Cardinality(Sending(o)) \in Nat
        /\ mailed[o] + Cardinality(Sending(o)) <= keyLost[o] + Spent(o) /\ Spent(o) \in {0, 1}
    BY SendingCounted DEF MailInv, MailTypeOK, Paid, Spent
  <2> QED  BY <2>1
<1> QED  BY <1>1, MailInit, MailNext, PTL

-----------------------------------------------------------------------------
(* Evaluator and Vimla executors.                                          *)

(* An attempt. *)
ExecFields == {"at", "input", "result", "tool", "answer"}

(* The steps only an evaluator is at, and those only a tool is at. *)
EvaluatorSteps == {"resolved", "evaluated", "persisted"}
ToolSteps == {"planning", "chosen"}

(* An executor that has not answered has no answer, and only its own kind of
   invocation brings it to its steps. *)
ExecOK(e) ==
    /\ DOMAIN e = ExecFields
    /\ e.at \in {"idle", "done"} \cup EvaluatorSteps \cup ToolSteps
    /\ e.at # "done" => e.answer = "none"
    /\ e.at \in EvaluatorSteps => contract.kind = "EVALUATOR"
    /\ e.at \in ToolSteps => contract.kind = "VIMLA"
    /\ e.at = "chosen" => e.tool \in ExecTools

(* The shape of the state. *)
ExecTypeOK ==
    /\ DOMAIN exec = Attempts /\ \A r \in Attempts : ExecOK(exec[r])
    /\ \E X : evaluation \in Seq(X)

(* The unique key of the evaluation rows. *)
OneRowARun ==
    \A i, j \in DOMAIN evaluation : evaluation[i].run = evaluation[j].run => i = j

(* The row of the attempt is on record. *)
Recorded(r) == \E i \in DOMAIN evaluation : evaluation[i] = RowOf(r)

(* The row comes before the artifact and the artifact before the answer. *)
RecordedBefore ==
    \A r \in Attempts :
        /\ exec[r].at = "persisted" => Recorded(r)
        /\ contract.kind = "EVALUATOR" /\ exec[r].answer \in Verdicts =>
              Recorded(r) /\ outcome = <<exec[r].result>> /\ exec[r].answer = exec[r].result.outcome

(* At most one outcome artifact. *)
OneOutcome == outcome = <<>> \/ \E v : outcome = <<v>>

(* The row of the tool and its effect come together. *)
OneTool ==
    /\ toolRow = NoTool => effects = <<>>
    /\ toolRow # NoTool => effects = <<toolRow>>
    /\ \A r \in Attempts :
          contract.kind = "VIMLA" /\ exec[r].answer \in {"PASS", "REPLAYED"} => toolRow # NoTool

(* The inductive invariant. *)
ExecutorInv == ExecTypeOK /\ OneRowARun /\ RecordedBefore /\ OneOutcome /\ OneTool

(* An attempt that has not started. *)
LEMMA NotStartedOK == ExecOK(NotStarted) /\ NotStarted.at = "idle" /\ NotStarted.answer = "none"
  BY DEF NotStarted, ExecOK, ExecFields, EvaluatorSteps, ToolSteps

(* The initial states satisfy the invariant. *)
LEMMA ExecInit == ExecutorInit => ExecutorInv
<1> SUFFICES ASSUME ExecutorInit PROVE ExecutorInv
  OBVIOUS
<1>1. ExecTypeOK /\ \A r \in Attempts : exec[r].at = "idle" /\ exec[r].answer = "none"
  <2>1. evaluation \in Seq({})
    BY DEF ExecutorInit
  <2> QED  BY <2>1, NotStartedOK DEF ExecutorInit, ExecTypeOK
<1>2. DOMAIN evaluation = {}
  BY DEF ExecutorInit
<1> QED  BY <1>1, <1>2 DEF ExecutorInit, ExecutorInv, OneRowARun, RecordedBefore, OneOutcome, OneTool,
            Verdicts

(* The attempt r goes on to e. *)
Becomes(r, e) ==
    /\ DOMAIN exec' = Attempts /\ exec'[r] = e
    /\ \A s \in Attempts \ {r} : exec'[s] = exec[s]

(* One attempt moves, the others do not. *)
LEMMA GotoBecomes ==
    ASSUME ExecutorInv, NEW r \in Attempts, NEW e, Goto(r, e)
    PROVE  Becomes(r, e)
  BY DEF ExecutorInv, ExecTypeOK, Goto, Becomes

(* An attempt answers and keeps what it read and found. *)
LEMMA Answered ==
    ASSUME ExecutorInv, NEW r \in Attempts, NEW a, Answer(r, a)
    PROVE  \E e : /\ Becomes(r, e) /\ DOMAIN e = ExecFields /\ e.at = "done" /\ e.answer = a
                  /\ e.result = exec[r].result /\ e.input = exec[r].input
<1> DEFINE e == [exec[r] EXCEPT !.at = "done", !.answer = a]
<1>1. Becomes(r, e)
  BY GotoBecomes DEF Answer
<1>2. DOMAIN e = ExecFields /\ e.at = "done" /\ e.answer = a /\ e.result = exec[r].result
      /\ e.input = exec[r].input
  BY DEF ExecutorInv, ExecTypeOK, ExecOK, ExecFields
<1> HIDE DEF e
<1> QED  BY <1>1, <1>2

(* A step of one attempt that writes nothing, and claims nothing. *)
LEMMA QuietExec ==
    ASSUME ExecutorInv, NEW r \in Attempts, NEW e, Becomes(r, e), ExecOK(e), e.at # "persisted",
           e.answer \notin {"PASS", "FAIL", "REPLAYED"},
           UNCHANGED <<contract, evaluation, outcome, toolRow, effects>>
    PROVE  ExecutorInv'
<1>1. ExecTypeOK'
  BY DEF ExecutorInv, ExecTypeOK, Becomes, ExecOK, ExecFields, EvaluatorSteps, ToolSteps, ExecTools, Attempts
<1>2. OneRowARun' /\ OneOutcome'
  BY DEF ExecutorInv, OneRowARun, OneOutcome
<1>3. \A s \in Attempts \ {r} : exec'[s] = exec[s] /\ (Recorded(s) => Recorded(s)')
  BY DEF Becomes, Recorded, RowOf
<1>4. RecordedBefore'
  BY <1>3 DEF ExecutorInv, RecordedBefore, Becomes, Verdicts, Attempts
<1>5. OneTool'
  BY <1>3 DEF ExecutorInv, OneTool, Becomes, NoTool, Attempts
<1> QED  BY <1>1, <1>2, <1>4, <1>5 DEF ExecutorInv

(* An answer that claims nothing. *)
LEMMA QuietAnswer ==
    ASSUME ExecutorInv, NEW r \in Attempts, NEW a \in {"RETRY", "TERMINAL", "NO_ACTION"}, Answer(r, a),
           UNCHANGED <<contract, evaluation, outcome, toolRow, effects>>
    PROVE  ExecutorInv'
<1>1. PICK e : Becomes(r, e) /\ DOMAIN e = ExecFields /\ e.at = "done" /\ e.answer = a
  BY Answered
<1>2. ExecOK(e)
  BY <1>1 DEF ExecOK, EvaluatorSteps, ToolSteps
<1> QED  BY <1>1, <1>2, QuietExec

(* Steps outside the executors. *)
LEMMA StoreStep ==
    ASSUME ExecutorInv, UNCHANGED <<contract, evaluation, outcome, toolRow, effects, exec>>
    PROVE  ExecutorInv'
<1>1. ExecTypeOK'
  BY DEF ExecutorInv, ExecTypeOK, ExecOK, ExecFields, EvaluatorSteps, ToolSteps, ExecTools, Attempts
<1>2. \A s \in Attempts : Recorded(s)' <=> Recorded(s)
  BY DEF Recorded, RowOf
<1>3. OneRowARun' /\ OneOutcome'
  BY DEF ExecutorInv, OneRowARun, OneOutcome
<1>4. RecordedBefore'
  BY <1>2 DEF ExecutorInv, RecordedBefore, Verdicts, Attempts
<1>5. OneTool'
  BY DEF ExecutorInv, OneTool, NoTool, Attempts
<1> QED  BY <1>1, <1>3, <1>4, <1>5 DEF ExecutorInv

(* Steps of an attempt that write nothing. *)
LEMMA WorkExec ==
    ASSUME ExecutorInv, NEW r \in Attempts,
           \/ ExecutionFails(r) \/ StartEvaluation(r) \/ Replay(r) \/ Evaluate(r) \/ Planned(r)
    PROVE  ExecutorInv'
<1>0. UNCHANGED <<contract, evaluation, outcome, toolRow, effects>>
  BY DEF ExecutionFails, StartEvaluation, Replay, Evaluate, Planned
<1>1. CASE \E a \in {"RETRY", "TERMINAL", "NO_ACTION"} : Answer(r, a)
  BY <1>0, <1>1, QuietAnswer
<1>2. CASE ~\E a \in {"RETRY", "TERMINAL", "NO_ACTION"} : Answer(r, a)
  <2>0. ExecOK(exec[r])
    BY DEF ExecutorInv, ExecTypeOK
  <2>1. PICK e : Goto(r, e) /\ ExecOK(e) /\ e.at # "persisted" /\ e.answer = "none"
    <3>1. CASE StartEvaluation(r)
      <4> DEFINE v == resolveArtifacts
                 e == [NotStarted EXCEPT !.at = "resolved", !.input = v]
      <4>1. Goto(r, e) /\ contract.kind = "EVALUATOR"
        BY <1>2, <3>1 DEF StartEvaluation
      <4> HIDE DEF v
      <4>2. DOMAIN e = ExecFields /\ e.at = "resolved" /\ e.answer = "none"
        BY DEF NotStarted, ExecFields
      <4> HIDE DEF e
      <4>3. ExecOK(e)
        BY <4>1, <4>2 DEF ExecOK, EvaluatorSteps, ToolSteps
      <4> QED  BY <4>1, <4>2, <4>3
    <3>2. CASE Replay(r) \/ Evaluate(r)
      <4>1. PICK v : Goto(r, [exec[r] EXCEPT !.at = "evaluated", !.result = v])
        BY <1>2, <3>2 DEF Replay, Evaluate
      <4> DEFINE e == [exec[r] EXCEPT !.at = "evaluated", !.result = v]
      <4>2. exec[r].at = "resolved"
        BY <3>2 DEF Replay, Evaluate
      <4>3. DOMAIN e = ExecFields /\ e.at = "evaluated" /\ e.answer = "none"
        BY <2>0, <4>2 DEF ExecOK, ExecFields
      <4>4. Goto(r, e)
        BY <4>1
      <4> HIDE DEF e
      <4>5. ExecOK(e)
        BY <2>0, <4>2, <4>3 DEF ExecOK, EvaluatorSteps, ToolSteps
      <4> QED  BY <4>3, <4>4, <4>5
    <3>3. CASE Planned(r)
      <4>1. PICK t \in ExecTools : Goto(r, [exec[r] EXCEPT !.at = "chosen", !.tool = t])
        BY <1>2, <3>3 DEF Planned
      <4> DEFINE e == [exec[r] EXCEPT !.at = "chosen", !.tool = t]
      <4>2. exec[r].at = "planning"
        BY <3>3 DEF Planned
      <4>3. DOMAIN e = ExecFields /\ e.at = "chosen" /\ e.answer = "none" /\ e.tool = t
        BY <2>0, <4>2 DEF ExecOK, ExecFields
      <4>4. Goto(r, e)
        BY <4>1
      <4> HIDE DEF e
      <4>5. ExecOK(e)
        BY <2>0, <4>2, <4>3 DEF ExecOK, EvaluatorSteps, ToolSteps
      <4> QED  BY <4>3, <4>4, <4>5
    <3> QED  BY <1>2, <3>1, <3>2, <3>3 DEF ExecutionFails
  <2> QED  BY <1>0, <2>1, GotoBecomes, QuietExec
<1> QED  BY <1>1, <1>2

(* An attempt records its result, or finds the row of the same run. *)
LEMMA PersistResultStep ==
    ASSUME ExecutorInv, NEW r \in Attempts, persistResult(r)
    PROVE  ExecutorInv'
<1>1. exec[r].at = "evaluated" /\ UNCHANGED <<contract, outcome, toolRow, effects>>
  BY DEF persistResult
<1>2. ExecOK(exec[r])
  BY DEF ExecutorInv, ExecTypeOK
<1>3. CASE Answer(r, "TERMINAL") /\ UNCHANGED evaluation
  BY <1>1, <1>3, QuietAnswer
<1>4. CASE /\ Goto(r, [exec[r] EXCEPT !.at = "persisted"])
           /\ \/ OwnRows(r) = {} /\ evaluation' = Append(evaluation, RowOf(r))
              \/ /\ OwnRows(r) # {} /\ UNCHANGED evaluation
                 /\ \A i \in OwnRows(r) : evaluation[i] = RowOf(r)
  <2> DEFINE e == [exec[r] EXCEPT !.at = "persisted"]
  <2>1. /\ DOMAIN e = ExecFields /\ e.at = "persisted" /\ e.answer = "none"
        /\ e.input = exec[r].input /\ e.result = exec[r].result
    BY <1>1, <1>2 DEF ExecOK, ExecFields
  <2>2. Becomes(r, e)
    BY <1>4, GotoBecomes
  <2> HIDE DEF e
  <2>3. contract.kind = "EVALUATOR" /\ contract' = contract
    BY <1>1, <1>2 DEF ExecOK, EvaluatorSteps
  <2>r. RowOf(r).run = r
    BY DEF RowOf
  <2>4. PICK row : row = RowOf(r) /\ row.run = r
    BY <2>r
  <2>5. row = RowOf(r)'
    BY <2>1, <2>2, <2>4 DEF RowOf, Becomes
  <2>6. /\ \E X : evaluation' \in Seq(X)
        /\ DOMAIN evaluation \subseteq DOMAIN evaluation'
        /\ \A i \in DOMAIN evaluation : evaluation'[i] = evaluation[i]
        /\ \E i \in DOMAIN evaluation' : evaluation'[i] = row
        /\ OneRowARun'
    <3>1. CASE UNCHANGED evaluation /\ OwnRows(r) # {} /\ \A i \in OwnRows(r) : evaluation[i] = RowOf(r)
      <4>1. PICK i \in OwnRows(r) : evaluation[i] = row
        BY <2>4, <3>1
      <4>2. i \in DOMAIN evaluation
        BY DEF OwnRows
      <4> QED  BY <3>1, <4>1, <4>2 DEF ExecutorInv, ExecTypeOK, OneRowARun
    <3>2. CASE OwnRows(r) = {} /\ evaluation' = Append(evaluation, RowOf(r))
      <4>1. PICK X : evaluation \in Seq(X)
        BY DEF ExecutorInv, ExecTypeOK
      <4>2. PICK Y : Y = X \cup {row}
        OBVIOUS
      <4>3. evaluation \in Seq(Y) /\ row \in Y
        BY <4>1, <4>2
      <4>4. evaluation' = Append(evaluation, row)
        BY <2>4, <3>2
      <4>5. /\ evaluation' \in Seq(Y) /\ DOMAIN evaluation' = 1..(Len(evaluation) + 1)
            /\ DOMAIN evaluation = 1..Len(evaluation) /\ Len(evaluation) \in Nat
            /\ \A i \in DOMAIN evaluation : evaluation'[i] = evaluation[i]
            /\ evaluation'[Len(evaluation) + 1] = row
        BY <4>3, <4>4
      <4>6. \A i \in DOMAIN evaluation : evaluation[i].run # r
        BY <3>2 DEF OwnRows
      <4>7. OneRowARun'
        BY <2>4, <4>5, <4>6 DEF ExecutorInv, OneRowARun
      <4> QED  BY <4>5, <4>7
    <3> QED  BY <1>4, <3>1, <3>2
  <2>7. ExecTypeOK'
    BY <2>1, <2>2, <2>3, <2>6 DEF ExecutorInv, ExecTypeOK, Becomes, ExecOK, ExecFields, EvaluatorSteps,
           ToolSteps, ExecTools, Attempts
  <2>8. \A s \in Attempts \ {r} : exec'[s] = exec[s] /\ (Recorded(s) => Recorded(s)')
    BY <2>2, <2>6 DEF Becomes, Recorded, RowOf
  <2>9. Recorded(r)'
    BY <2>5, <2>6 DEF Recorded
  <2>10. RecordedBefore'
    BY <1>1, <2>1, <2>2, <2>8, <2>9 DEF ExecutorInv, RecordedBefore, Becomes, Verdicts, Attempts
  <2>11. OneTool' /\ OneOutcome'
    BY <1>1, <2>1, <2>2, <2>8 DEF ExecutorInv, OneTool, OneOutcome, Becomes, NoTool, Attempts
  <2> QED  BY <2>6, <2>7, <2>10, <2>11 DEF ExecutorInv
<1> QED  BY <1>3, <1>4 DEF persistResult

(* An attempt publishes what it recorded, or finds the version that says the same. *)
LEMMA OutcomeStep ==
    ASSUME ExecutorInv, NEW r \in Attempts, ensureOutcomeArtifact(r)
    PROVE  ExecutorInv'
<1> DEFINE v == exec[r].result
           a == IF Accepted(outcome, v) THEN v.outcome ELSE "TERMINAL"
<1>1. /\ exec[r].at = "persisted" /\ outcome' = createArtifact(outcome, v) /\ Answer(r, a)
      /\ UNCHANGED <<contract, evaluation, toolRow, effects>>
  BY DEF ensureOutcomeArtifact
<1>2. ExecOK(exec[r])
  BY DEF ExecutorInv, ExecTypeOK
<1>3. PICK e : /\ Becomes(r, e) /\ DOMAIN e = ExecFields /\ e.at = "done" /\ e.answer = a
               /\ e.result = v /\ e.input = exec[r].input
  BY <1>1, Answered
<1>4. contract.kind = "EVALUATOR" /\ contract' = contract
  BY <1>1, <1>2 DEF ExecOK, EvaluatorSteps
<1>5. /\ OneOutcome' /\ (Accepted(outcome, v) => outcome' = <<v>>)
      /\ \A x : outcome = <<x>> => outcome' = <<x>>
  <2>1. CASE outcome = <<>>
    BY <1>1, <2>1 DEF createArtifact, OneOutcome
  <2>2. ASSUME NEW x, outcome = <<x>> PROVE outcome' = <<x>> /\ (Accepted(outcome, v) => v = x)
    BY <1>1, <2>2 DEF createArtifact, Accepted, matchingVersion
  <2> QED  BY <2>1, <2>2 DEF ExecutorInv, OneOutcome
<1>6. RowOf(r)' = RowOf(r)
  BY <1>3 DEF Becomes, RowOf
<1>7. Recorded(r)'
  BY <1>1, <1>6 DEF ExecutorInv, RecordedBefore, Recorded
<1>8. \A s \in Attempts \ {r} : exec'[s] = exec[s] /\ (Recorded(s) => Recorded(s)')
  BY <1>1, <1>3 DEF Becomes, Recorded, RowOf
<1> HIDE DEF v
<1>9. e.answer \in Verdicts => outcome' = <<e.result>> /\ e.answer = e.result.outcome
  BY <1>3, <1>5 DEF Verdicts
<1> HIDE DEF a
<1>10. RecordedBefore'
  <2>1. ASSUME NEW s \in Attempts \ {r}
        PROVE  /\ exec'[s].at = "persisted" => Recorded(s)'
               /\ exec'[s].answer \in Verdicts => 
                     Recorded(s)' /\ outcome' = <<exec'[s].result>> /\ exec'[s].answer = exec'[s].result.outcome
    BY <1>4, <1>5, <1>8 DEF ExecutorInv, RecordedBefore
  <2>2. /\ exec'[r].at # "persisted"
        /\ exec'[r].answer \in Verdicts => 
                     Recorded(r)' /\ outcome' = <<exec'[r].result>> /\ exec'[r].answer = exec'[r].result.outcome
    BY <1>3, <1>7, <1>9 DEF Becomes
  <2> QED  BY <2>1, <2>2 DEF RecordedBefore, Verdicts, Attempts
<1>11. ExecTypeOK'
  BY <1>1, <1>3, <1>4 DEF ExecutorInv, ExecTypeOK, Becomes, ExecOK, ExecFields, EvaluatorSteps,
           ToolSteps, ExecTools, Attempts
<1>12. OneTool' /\ OneRowARun'
  BY <1>1, <1>3, <1>4 DEF ExecutorInv, OneTool, OneRowARun, Becomes, NoTool, Attempts
<1> QED  BY <1>5, <1>10, <1>11, <1>12 DEF ExecutorInv

(* A tool runs once, or is found to have run. *)
LEMMA ToolStep ==
    ASSUME ExecutorInv, NEW r \in Attempts, StartTool(r) \/ executeToolExactlyOnce(r)
    PROVE  ExecutorInv'
<1>0. UNCHANGED <<contract, evaluation, outcome>> /\ contract.kind = "VIMLA"
  BY DEF StartTool, executeToolExactlyOnce, ExecutorInv, ExecTypeOK, ExecOK, ToolSteps
<1>1. CASE StartTool(r) /\ Answer(r, "TERMINAL")
  BY <1>1, <1>0, QuietAnswer DEF StartTool
<1>2. CASE StartTool(r) /\ ~Answer(r, "TERMINAL") /\ toolRow = NoTool
  <2> DEFINE v == buildDependencyContext
             e == [NotStarted EXCEPT !.at = "planning", !.input = v]
  <2>1. Goto(r, e) /\ UNCHANGED <<toolRow, effects>>
    BY <1>2 DEF StartTool
  <2> HIDE DEF v
  <2>2. DOMAIN e = ExecFields /\ e.at = "planning" /\ e.answer = "none"
    BY DEF NotStarted, ExecFields
  <2> HIDE DEF e
  <2>3. ExecOK(e)
    BY <1>0, <2>2 DEF ExecOK, EvaluatorSteps, ToolSteps
  <2> QED  BY <1>0, <2>1, <2>2, <2>3, GotoBecomes, QuietExec
<1>3. ASSUME NEW a \in {"PASS", "REPLAYED"}, Answer(r, a), toolRow' # NoTool, effects' = <<toolRow'>>,
             toolRow # NoTool => toolRow' = toolRow
      PROVE  ExecutorInv'
  <2>1. PICK e : Becomes(r, e) /\ DOMAIN e = ExecFields /\ e.at = "done" /\ e.answer = a
    BY <1>3, Answered
  <2>2. ExecTypeOK'
    BY <1>0, <2>1 DEF ExecutorInv, ExecTypeOK, Becomes, ExecOK, ExecFields, EvaluatorSteps,
           ToolSteps, ExecTools, Attempts
  <2>3. \A s \in Attempts \ {r} : exec'[s] = exec[s] /\ (Recorded(s) => Recorded(s)')
    BY <1>0, <2>1 DEF Becomes, Recorded, RowOf
  <2>4. RecordedBefore'
    BY <1>0, <2>1, <2>3 DEF ExecutorInv, RecordedBefore, Becomes, Attempts
  <2>5. OneTool'
    BY <1>3 DEF OneTool, NoTool
  <2> QED  BY <1>0, <2>2, <2>4, <2>5 DEF ExecutorInv, OneRowARun, OneOutcome
<1>4. CASE StartTool(r) /\ toolRow # NoTool
  BY <1>3, <1>4 DEF StartTool, ExecutorInv, OneTool
<1>5. CASE executeToolExactlyOnce(r)
  <2>1. CASE toolRow = NoTool
    <3>1. exec[r].tool \in ExecTools
      BY <1>5 DEF executeToolExactlyOnce, ExecutorInv, ExecTypeOK, ExecOK
    <3>2. toolRow' = exec[r].tool /\ effects' = <<toolRow'>>
      BY <1>5, <2>1 DEF executeToolExactlyOnce, ExecutorInv, OneTool
    <3> QED  BY <1>3, <1>5, <2>1, <3>1, <3>2 DEF executeToolExactlyOnce, NoTool, ExecTools
  <2>2. CASE toolRow # NoTool
    BY <1>3, <1>5, <2>2 DEF executeToolExactlyOnce, ExecutorInv, OneTool, NoTool
  <2> QED  BY <2>1, <2>2
<1> QED  BY <1>1, <1>2, <1>4, <1>5

(* Every step preserves the invariant. *)
LEMMA ExecNext == ExecutorInv /\ [ExecutorNext]_executorVars => ExecutorInv'
<1> SUFFICES ASSUME ExecutorInv, [ExecutorNext]_executorVars PROVE ExecutorInv'
  OBVIOUS
<1>1. CASE \/ UNCHANGED executorVars \/ NextAttempt \/ \E c \in 1..2 : Produce(c)
           \/ \E e \in 1..MaxVersions, c \in 1..2 : createVersion(e, c)
  <2>1. UNCHANGED <<contract, evaluation, outcome, toolRow, effects, exec>>
    BY <1>1 DEF executorVars, NextAttempt, Produce, createVersion
  <2> QED  BY <2>1, StoreStep
<1>2. ASSUME NEW r \in Attempts,
             \/ ExecutionFails(r) \/ StartEvaluation(r) \/ Replay(r) \/ Evaluate(r)
             \/ persistResult(r) \/ ensureOutcomeArtifact(r)
             \/ StartTool(r) \/ Planned(r) \/ executeToolExactlyOnce(r)
      PROVE  ExecutorInv'
  BY <1>2, WorkExec, PersistResultStep, OutcomeStep, ToolStep
<1> QED  BY <1>1, <1>2 DEF ExecutorNext

(* For any number of attempts and versions: an attempt that reports a verdict has it on record,
   in the one row of its run and in the one outcome artifact, and a tool that reports success has
   had its effect exactly once (persistResult and ensureOutcomeArtifact of the evaluator,
   executeToolExactlyOnce of the Vimla executor). *)
THEOREM AttemptsAlwaysAgree == ExecutorInit /\ [][ExecutorNext]_executorVars => []AttemptsAgree
<1>1. ExecutorInv => AttemptsAgree
  <2> SUFFICES ASSUME ExecutorInv, NEW r \in Attempts
               PROVE  /\ contract.kind = "EVALUATOR" /\ exec[r].answer \in Verdicts =>
                           /\ outcome = <<exec[r].result>> /\ exec[r].answer = exec[r].result.outcome
                           /\ \E i \in DOMAIN evaluation : OwnRows(r) = {i} /\ evaluation[i] = RowOf(r)
                      /\ contract.kind = "VIMLA" /\ exec[r].answer \in {"PASS", "REPLAYED"} =>
                           effects = <<toolRow>>
    BY DEF AttemptsAgree
  <2>1. ASSUME Recorded(r)
        PROVE  \E i \in DOMAIN evaluation : OwnRows(r) = {i} /\ evaluation[i] = RowOf(r)
    <3>1. PICK i \in DOMAIN evaluation : evaluation[i] = RowOf(r)
      BY <2>1 DEF Recorded
    <3>2. evaluation[i].run = r
      BY <3>1 DEF RowOf
    <3>3. OwnRows(r) = {i}
      BY <3>2 DEF OwnRows, ExecutorInv, OneRowARun
    <3> QED  BY <3>1, <3>3
  <2> QED  BY <2>1 DEF ExecutorInv, RecordedBefore, OneTool
<1> QED  BY <1>1, ExecInit, ExecNext, PTL

-----------------------------------------------------------------------------
(* The operator.                                                           *)

RunStatuses ==
    {"none", "PLANNING", "AWAITING_CLARIFICATION", "AWAITING_CONFIRMATION", "EXECUTING"}
       \cup Terminal

StepStatuses == Unfinished \cup {"EXECUTED", "FAILED", "SKIPPED"}

Plans == Outputs \cup {"none"}

Runs == [status : RunStatuses, output : Plans, round : 1..MaxRounds, token : Nat, given : Nat]

Places ==
    {"idle", "plan", "publish", "planned", "begin", "mayConfirm", "accept", "mayStep",
     "list", "step", "stepFailed", "clarify", "finish"}

Ops == [pc : Places, output : Plans, round : Nat, at : Nat, done : Nat, failed : Nat]

StepRows(t) == t = <<>> \/ t \in [Tools -> StepStatuses]

ConsentOK(c) == DOMAIN c = {"direct", "on", "changes"} /\ c.changes \in Nat

(* The shape of the state. *)
RowsOK ==
    /\ run \in Runs
    /\ StepRows(tool)
    /\ ConsentOK(consent)
    /\ effect \in [(1..MaxRounds) \X Tools -> Nat]

(* What took effect is what the steps of the round say, once each. *)
EffectsOK(r, t, e) ==
    /\ \A x \in (1..MaxRounds) \X Tools : e[x] <= 1
    /\ \A x \in (1..MaxRounds) \X Tools : x[1] > r.round => e[x] = 0
    /\ \A k \in Tools : e[<<r.round, k>>] > 0 <=> t # <<>> /\ t[k] = "EXECUTED"

(* The steps are those of the plan that was published, and stand where the *)
(* status of the run lets them stand. *)
PlanOK(r, t, acc) ==
    /\ t # <<>> => r.output \in {"tools", "toolsConfirmed"}
    /\ r.status = "none" => t = <<>>
    /\ r.status \in {"EXECUTING", "AWAITING_CONFIRMATION"} => t # <<>>
    /\ r.status = "AWAITING_CONFIRMATION" => r.output = "toolsConfirmed"
    /\ t # <<>> =>
         /\ t[1] # "NEEDS_CONFIRMATION"
         /\ r.output = "tools" => t[2] # "NEEDS_CONFIRMATION"
         /\ r.output = "toolsConfirmed" /\ r.round \notin acc =>
               t[2] \in {"NEEDS_CONFIRMATION", "FAILED", "SKIPPED"} /\ r.status # "EXECUTING"
         /\ \A k \in Tools :
              /\ t[k] = "SKIPPED" => r.status = "CANCELED"
              /\ r.status \in {"PLANNING", "AWAITING_CONFIRMATION"} =>
                    t[k] \in {"PENDING", "NEEDS_CONFIRMATION"}
              /\ r.status = "EXECUTING" => t[k] # "NEEDS_CONFIRMATION"

(* The status of a run that is over tells what its steps say. *)
EndsOK(r, t, c) ==
    /\ r.status = "SUCCEEDED" /\ t # <<>> => \A k \in Tools : t[k] = "EXECUTED"
    /\ r.status = "CANCELED" /\ t # <<>> => \A k \in Tools : t[k] # "EXECUTED"
    /\ r.status = "FAILED" /\ c.changes = 0 /\ t # <<>> => \A k \in Tools : t[k] # "EXECUTED"
    /\ r.status = "PARTIAL" => /\ t # <<>>
                               /\ \E k \in Tools : t[k] = "EXECUTED"
                               /\ \E k \in Tools : t[k] # "EXECUTED"
    /\ r.status = "AWAITING_CLARIFICATION" /\ ~c.direct => r.output = "clarify"
    /\ ~c.on => c.changes > 0

(* What a handler has counted is what the steps before it say. *)
CountsOK(o, t) ==
    /\ \A k \in Tools : k < o.at => t[k] \in {"EXECUTED", "FAILED"}
    /\ o.done = 0 <=> \A k \in Tools : k < o.at => t[k] # "EXECUTED"
    /\ o.failed = 0 <=> \A k \in Tools : k < o.at => t[k] # "FAILED"

Early == {"none", "PLANNING", "AWAITING_CONFIRMATION"}

(* A handler works on the plan that was published, and on the steps of     *)
(* the round that is current; only a question may be of an earlier one.    *)
HandlerOK(o, r, t, c) ==
    /\ o.round <= r.round
    /\ o.pc \in {"plan", "planned"} /\ o.output # "none" =>
         /\ o.round = r.round => o.output = r.output
         /\ o.output # "clarify" => o.round = r.round
    /\ o.pc = "begin" => t # <<>> /\ o.output = r.output
    /\ o.pc = "clarify" => c.direct
    /\ o.pc \in {"mayStep", "list", "step", "stepFailed", "finish", "clarify"} =>
         t # <<>> /\ r.status \notin Early
    /\ o.pc \in {"step", "stepFailed", "finish"} =>
         /\ o.round = r.round
         /\ o.at \in 1..3
         /\ o.pc = "finish" <=> o.at = 3
         /\ r.status = "EXECUTING" => CountsOK(o, t)

RunOK(r, t, acc, c) == PlanOK(r, t, acc) /\ EndsOK(r, t, c)

(* The inductive invariant: but for the effects, of runs that no late      *)
(* question has taken back. *)
OperatorInv ==
    /\ RowsOK
    /\ op \in [OpHandlers -> Ops]
    /\ crossed \in BOOLEAN
    /\ EffectsOK(run, tool, effect)
    /\ ~crossed => /\ RunOK(run, tool, accepted, consent)
                   /\ \A h \in OpHandlers : HandlerOK(op[h], run, tool, consent)

(* What a step may do to the run under the other handlers. *)
Onward(r, t, r2, t2) ==
    /\ r2.round = r.round /\ r2.output = r.output
    /\ t # <<>> => t2 # <<>>
    /\ r.status \notin Early => r2.status \notin Early
    /\ r.status \notin Early /\ r.status # "EXECUTING" => r2.status # "EXECUTING"
    /\ t # <<>> => \A k \in Tools : t[k] \in {"EXECUTED", "FAILED"} => t2[k] = t[k]

(* A list of steps is not empty. *)
LEMMA StepsThere ==
  ASSUME NEW t \in [Tools -> StepStatuses]
  PROVE  t # <<>> /\ DOMAIN t = Tools
  BY SMT DEF Tools

(* A function over no steps is the empty list. *)
LEMMA NoSteps ==
  ASSUME NEW t, DOMAIN t = DOMAIN <<>>, t = [k \in DOMAIN t |-> t[k]]
  PROVE  t = <<>>
  BY SMT

LEMMA OnwardKeeps ==
  ASSUME NEW o \in Ops, NEW r \in Runs, NEW r2 \in Runs, NEW t, NEW t2, NEW c,
         StepRows(t), StepRows(t2), HandlerOK(o, r, t, c), Onward(r, t, r2, t2)
  PROVE  HandlerOK(o, r2, t2, c)
  BY DEF Ops, Runs, StepRows, HandlerOK, Onward, CountsOK

LEMMA IdleHandler ==
  /\ OpIdle \in Ops
  /\ \A r \in Runs : \A t, c : HandlerOK(OpIdle, r, t, c)
  BY DEF OpIdle, Ops, Places, Plans, Runs, HandlerOK

(* One handler goes on, the run goes onward or stays. *)
LEMMA HandlerStep ==
  ASSUME OperatorInv, NEW h \in OpHandlers, NEW o \in Ops, OpBecomes(h, o),
         RowsOK', crossed' \in BOOLEAN, EffectsOK(run', tool', effect'), consent' = consent,
         ~crossed' => /\ ~crossed
                      /\ RunOK(run', tool', accepted', consent)
                      /\ Onward(run, tool, run', tool')
                      /\ HandlerOK(o, run', tool', consent)
  PROVE  OperatorInv'
  <1>1. op' \in [OpHandlers -> Ops] /\ \A g \in OpHandlers : op'[g] = IF g = h THEN o ELSE op[g]
    BY DEF OperatorInv, OpBecomes
  <1>2. ASSUME ~crossed', NEW g \in OpHandlers
        PROVE  HandlerOK(op'[g], run', tool', consent')
    <2>1. CASE g = h
      BY <1>1, <1>2, <2>1
    <2>2. CASE g # h
      BY <1>1, <1>2, <2>2, OnwardKeeps DEF OperatorInv, RowsOK
    <2> QED BY <2>1, <2>2
  <1> QED BY <1>1, <1>2 DEF OperatorInv

LEMMA OnwardSame == \A r, t : Onward(r, t, r, t)
  BY DEF Onward

(* One handler goes on, and nothing else changes. *)
LEMMA QuietHandler ==
  ASSUME OperatorInv, NEW h \in OpHandlers, NEW o \in Ops, OpBecomes(h, o),
         UNCHANGED <<run, tool, consent>>, HistorySame,
         ~crossed => HandlerOK(o, run, tool, consent)
  PROVE  OperatorInv'
  <1>1. RowsOK' /\ crossed' \in BOOLEAN /\ EffectsOK(run', tool', effect')
    BY DEF OperatorInv, RowsOK, HistorySame
  <1>2. ~crossed' => /\ ~crossed
                      /\ RunOK(run', tool', accepted', consent)
                      /\ Onward(run, tool, run', tool')
                      /\ HandlerOK(o, run', tool', consent)
    BY OnwardSame DEF OperatorInv, HistorySame
  <1> QED BY <1>1, <1>2, HandlerStep

LEMMA OperatorStart == OperatorInit => OperatorInv
  <1> SUFFICES ASSUME OperatorInit PROVE OperatorInv
    OBVIOUS
  <1>0. run \in Runs /\ ConsentOK(consent)
    <2>1. run \in Runs
      BY OperatorAssumption DEF OperatorInit, Runs, RunStatuses, Plans
    <2>2. ConsentOK(consent)
      BY DEF OperatorInit, ConsentOK
    <2> QED BY <2>1, <2>2
  <1>1. RowsOK
    BY <1>0 DEF OperatorInit, RowsOK, StepRows
  <1>2. op \in [OpHandlers -> Ops] /\ \A h \in OpHandlers : op[h] = OpIdle
    BY IdleHandler DEF OperatorInit
  <1>3. EffectsOK(run, tool, effect)
    BY OperatorAssumption DEF OperatorInit, EffectsOK, Tools
  <1>4. RunOK(run, tool, accepted, consent)
    BY DEF OperatorInit, RunOK, PlanOK, EndsOK
  <1>5. \A h \in OpHandlers : HandlerOK(op[h], run, tool, consent)
    BY <1>1, <1>2, IdleHandler DEF RowsOK
  <1> QED BY <1>1, <1>2, <1>3, <1>4, <1>5 DEF OperatorInv, OperatorInit

-----------------------------------------------------------------------------
(* The steps in which only the handler changes.                            *)

LEMMA OpTyped ==
  ASSUME OperatorInv, NEW h \in OpHandlers
  PROVE  /\ op[h] \in Ops /\ run \in Runs /\ StepRows(tool) /\ ConsentOK(consent)
         /\ ~crossed => HandlerOK(op[h], run, tool, consent) /\ RunOK(run, tool, accepted, consent)
  BY DEF OperatorInv, RowsOK

LEMMA RoundIsNat == \A r \in Runs : r.round \in Nat
  BY OperatorAssumption DEF Runs

LEMMA DoneStep ==
  ASSUME OperatorInv, NEW h \in OpHandlers, OpDone(h), UNCHANGED <<run, tool, consent>>, HistorySame
  PROVE  OperatorInv'
  BY OpTyped, IdleHandler, QuietHandler DEF OpDone

LEMMA ResumeStep ==
  ASSUME OperatorInv, NEW h \in OpHandlers, resumeExisting(h), UNCHANGED <<tool, consent>>, HistorySame
  PROVE  OperatorInv'
  <1> USE OpTyped
  <1>1. CASE /\ run.status = "PLANNING"
             /\ OpBecomes(h, [OpIdle EXCEPT !.pc = "plan", !.output = run.output, !.round = run.round])
             /\ UNCHANGED run
    <2>1. PICK o : o = [OpIdle EXCEPT !.pc = "plan", !.output = run.output, !.round = run.round]
      OBVIOUS
    <2>2. /\ o = [pc |-> "plan", output |-> run.output, round |-> run.round, at |-> 0,
                  done |-> 0, failed |-> 0]
          /\ run.output \in Plans /\ run.round \in Nat
      BY <2>1, RoundIsNat DEF OpIdle, Runs
    <2>3. o \in Ops /\ HandlerOK(o, run, tool, consent)
      BY <2>2 DEF Ops, Places, HandlerOK
    <2> QED BY <1>1, <2>1, <2>3, QuietHandler
  <1>2. CASE /\ run.status \in {"EXECUTING", "AWAITING_CONFIRMATION"}
             /\ OpBecomes(h, [OpIdle EXCEPT
                    !.pc = IF run.status = "EXECUTING" THEN "mayStep" ELSE "mayConfirm"])
             /\ UNCHANGED run
    <2>1. PICK o : o = [OpIdle EXCEPT
                    !.pc = IF run.status = "EXECUTING" THEN "mayStep" ELSE "mayConfirm"]
      OBVIOUS
    <2>2. o \in Ops /\ (~crossed => HandlerOK(o, run, tool, consent))
      BY <1>2, <2>1 DEF OpIdle, Ops, Runs, Places, Plans, HandlerOK, RunOK, PlanOK, Early
    <2> QED BY <1>2, <2>1, <2>2, QuietHandler
  <1>3. CASE OpDone(h) /\ UNCHANGED run
    BY <1>3, DoneStep
  <1> QED BY <1>1, <1>2, <1>3 DEF resumeExisting

LEMMA LookStep ==
  ASSUME OperatorInv, NEW h \in OpHandlers, NEW pc \in {"mayConfirm", "accept"}, OpTo(h, pc),
         UNCHANGED <<run, tool, consent>>, HistorySame
  PROVE  OperatorInv'
  <1> USE OpTyped
  <1>1. PICK o : o = [op[h] EXCEPT !.pc = pc]
    OBVIOUS
  <1>2. o \in Ops /\ (~crossed => HandlerOK(o, run, tool, consent))
    BY <1>1 DEF Ops, Places, HandlerOK
  <1> QED BY <1>1, <1>2, QuietHandler DEF OpTo

LEMMA ListStep ==
  ASSUME OperatorInv, NEW h \in OpHandlers, ListSteps(h)
  PROVE  OperatorInv'
  <1> USE OpTyped
  <1>1. PICK o : o = [OpIdle EXCEPT !.pc = IF tool = <<>> THEN "finish" ELSE "step",
                                    !.round = run.round, !.at = 1]
    OBVIOUS
  <1>2. /\ o = [pc |-> IF tool = <<>> THEN "finish" ELSE "step", output |-> "none",
                round |-> run.round, at |-> 1, done |-> 0, failed |-> 0]
        /\ run.round \in Nat
    BY <1>1, RoundIsNat DEF OpIdle
  <1>3. o \in Ops
    BY <1>2 DEF Ops, Places, Plans
  <1>4. ASSUME ~crossed PROVE HandlerOK(o, run, tool, consent)
    BY <1>2, <1>4 DEF ListSteps, OpAt, HandlerOK, CountsOK, Tools
  <1> QED BY <1>1, <1>3, <1>4, QuietHandler DEF ListSteps

LEMMA BeginListing ==
  ASSUME OperatorInv, NEW h \in OpHandlers, Executing(h), UNCHANGED <<run, tool, consent>>, HistorySame,
         ~crossed => tool # <<>> /\ run.status \notin Early
  PROVE  OperatorInv'
  <1> USE OpTyped
  <1>1. PICK o : o = [OpIdle EXCEPT !.pc = "list"]
    OBVIOUS
  <1>2. o \in Ops /\ (~crossed => HandlerOK(o, run, tool, consent))
    BY <1>1 DEF OpIdle, Ops, Places, Plans, Runs, HandlerOK
  <1> QED BY <1>1, <1>2, QuietHandler DEF Executing

(* The record of a handler that has counted a step. *)
LEMMA CountedOp ==
  ASSUME NEW o1 \in Ops, NEW d \in Nat, NEW f \in Nat, NEW o,
         o = [pc |-> IF o1.at + 1 \in Tools THEN "step" ELSE "finish", output |-> o1.output,
              round |-> o1.round, at |-> o1.at + 1, done |-> o1.done + d, failed |-> o1.failed + f]
  PROVE  /\ o \in Ops /\ o.pc = (IF o1.at + 1 \in Tools THEN "step" ELSE "finish")
         /\ o.at = o1.at + 1 /\ o.done = o1.done + d /\ o.failed = o1.failed + f
         /\ o.round = o1.round
  <1>1. /\ o1.output \in Plans /\ o1.round \in Nat /\ o1.at \in Nat
        /\ o1.done \in Nat /\ o1.failed \in Nat
    BY DEF Ops
  <1>2. o1.at + 1 \in Nat /\ o1.done + d \in Nat /\ o1.failed + f \in Nat
    BY <1>1
  <1>3. (IF o1.at + 1 \in Tools THEN "step" ELSE "finish") \in Places
    BY DEF Places
  <1> QED BY <1>1, <1>2, <1>3 DEF Ops

(* A handler counts a step: by its outcome, as long as the run is EXECUTING. *)
LEMMA CountStep ==
  ASSUME OperatorInv, NEW h \in OpHandlers, op[h].pc \in {"step", "stepFailed"},
         NEW d \in Nat, NEW f \in Nat, Counted(h, d, f),
         RowsOK', EffectsOK(run', tool', effect'), run' = run, consent' = consent,
         accepted' = accepted, crossed' = crossed,
         ~crossed => /\ RunOK(run, tool', accepted, consent)
                     /\ Onward(run, tool, run, tool')
                     /\ run.status = "EXECUTING" =>
                           \/ tool'[op[h].at] = "EXECUTED" /\ d = 1 /\ f = 0
                           \/ tool'[op[h].at] = "FAILED" /\ d = 0 /\ f = 1
  PROVE  OperatorInv'
  <1> USE OpTyped
  <1>1. PICK o1 : o1 = op[h]
    OBVIOUS
  <1>2. PICK o : o = [op[h] EXCEPT !.pc = IF op[h].at + 1 \in Tools THEN "step" ELSE "finish",
                                   !.at = @ + 1, !.done = @ + d, !.failed = @ + f]
    OBVIOUS
  <1>3. OpBecomes(h, o)
    BY <1>2 DEF Counted
  <1>4. /\ o \in Ops /\ o.pc = (IF o1.at + 1 \in Tools THEN "step" ELSE "finish")
        /\ o.at = o1.at + 1 /\ o.done = o1.done + d /\ o.failed = o1.failed + f
        /\ o.round = o1.round
    <2>1. o1 \in Ops
      BY <1>1
    <2>2. o = [pc |-> IF o1.at + 1 \in Tools THEN "step" ELSE "finish", output |-> o1.output,
               round |-> o1.round, at |-> o1.at + 1, done |-> o1.done + d,
               failed |-> o1.failed + f]
      BY <1>1, <1>2, <2>1 DEF Ops
    <2> QED BY <2>1, <2>2, CountedOp
  <1>5. ASSUME ~crossed PROVE HandlerOK(o, run', tool', consent)
    <2>1. HandlerOK(o1, run, tool', consent) /\ o1 \in Ops
      BY <1>1, <1>5, OnwardKeeps DEF RowsOK
    <2>2. /\ o1.pc \in {"step", "stepFailed"} /\ o1.round = run.round /\ o1.at \in Tools
          /\ tool' # <<>> /\ run.status \notin Early
      BY <1>1, <2>1 DEF HandlerOK, Ops, Tools
    <2>3. o.at \in 1..3 /\ (o.pc = "finish" <=> o.at = 3) /\ o.pc \in {"step", "finish"}
      BY <1>4, <2>2 DEF Tools
    <2>4. ASSUME run.status = "EXECUTING" PROVE CountsOK(o, tool')
      <3>1. CountsOK(o1, tool')
        BY <2>1, <2>2, <2>4 DEF HandlerOK
      <3>2. \/ tool'[o1.at] = "EXECUTED" /\ d = 1 /\ f = 0
            \/ tool'[o1.at] = "FAILED" /\ d = 0 /\ f = 1
        BY <1>1, <1>5, <2>4
      <3>3. \A k \in Tools : k < o.at <=> k < o1.at \/ k = o1.at
        BY <1>4, <2>2 DEF Tools
      <3>4. o1.done \in Nat /\ o1.failed \in Nat
        BY <2>1 DEF Ops
      <3>5. o.done = o1.done + d /\ o.failed = o1.failed + f
        BY <1>4
      <3>6. /\ o.done = 0 <=> o1.done = 0 /\ tool'[o1.at] # "EXECUTED"
            /\ o.failed = 0 <=> o1.failed = 0 /\ tool'[o1.at] # "FAILED"
        BY <3>2, <3>4, <3>5
      <3> QED BY <2>2, <3>1, <3>2, <3>3, <3>6 DEF CountsOK
    <2> QED BY <1>4, <2>1, <2>2, <2>3, <2>4 DEF HandlerOK
  <1> QED BY <1>3, <1>4, <1>5, HandlerStep DEF OperatorInv

(* The step a handler is at, in the round that is current. *)
LEMMA AtStep ==
  ASSUME OperatorInv, NEW h \in OpHandlers, ~crossed, op[h].pc \in {"step", "stepFailed"}
  PROVE  /\ op[h].round = run.round /\ op[h].at \in Tools /\ DOMAIN tool = Tools
         /\ tool \in [Tools -> StepStatuses] /\ tool # <<>> /\ StepThere(h)
  <1>1. /\ op[h].round = run.round /\ op[h].at \in Tools /\ tool # <<>>
        /\ tool \in [Tools -> StepStatuses]
    BY OpTyped DEF HandlerOK, Ops, StepRows, Tools
  <1> QED BY <1>1 DEF StepThere

LEMMA PassStepStep ==
  ASSUME OperatorInv, NEW h \in OpHandlers, PassStep(h)
  PROVE  OperatorInv'
  <1>1. PICK d, f : /\ d = IF StepIs(h, {"EXECUTED"}) THEN 1 ELSE 0
                    /\ f = IF StepIs(h, {"FAILED", "NEEDS_CONFIRMATION"}) THEN 1 ELSE 0
    OBVIOUS
  <1>2. d \in Nat /\ f \in Nat /\ Counted(h, d, f) /\ op[h].pc = "step"
    BY <1>1 DEF PassStep, OpAt
  <1>3. /\ RowsOK' /\ EffectsOK(run', tool', effect') /\ run' = run /\ consent' = consent
        /\ accepted' = accepted /\ crossed' = crossed /\ tool' = tool
    BY DEF OperatorInv, RowsOK, PassStep, HistorySame
  <1>4. ASSUME ~crossed, run.status = "EXECUTING"
        PROVE  \/ tool[op[h].at] = "EXECUTED" /\ d = 1 /\ f = 0
               \/ tool[op[h].at] = "FAILED" /\ d = 0 /\ f = 1
    BY <1>1, <1>2, <1>4, AtStep, OpTyped
       DEF PassStep, StepOpen, StepIs, StepStatuses, Unfinished, RunOK, PlanOK
  <1> QED BY <1>2, <1>3, <1>4, CountStep, OpTyped, OnwardSame

LEMMA ThrowStep ==
  ASSUME OperatorInv, NEW h \in OpHandlers, StepThrows(h)
  PROVE  OperatorInv'
  <1> USE OpTyped
  <1>1. PICK owner \in resolveTaskOwner :
               OpTo(h, IF owner = "clarify" THEN "clarify" ELSE "stepFailed")
    BY DEF StepThrows
  <1>2. owner = "clarify" => consent.direct
    BY <1>1 DEF resolveTaskOwner
  <1>3. PICK o : o = [op[h] EXCEPT !.pc = IF owner = "clarify" THEN "clarify" ELSE "stepFailed"]
    OBVIOUS
  <1>4. o \in Ops
    BY <1>3 DEF Ops, Places
  <1>5. ASSUME ~crossed PROVE HandlerOK(o, run, tool, consent)
    BY <1>2, <1>3, <1>5 DEF StepThrows, OpAt, Ops, HandlerOK, CountsOK
  <1> QED BY <1>1, <1>3, <1>4, <1>5, QuietHandler DEF StepThrows, OpTo

-----------------------------------------------------------------------------
(* The steps in which the run changes.                                     *)

LEMMA TakenBackFacts ==
  ASSUME OperatorInv
  PROVE  /\ StepRows(TakenBack) /\ (TakenBack = <<>> <=> tool = <<>>)
         /\ tool # <<>> => \A k \in Tools :
               TakenBack[k] = IF tool[k] \in Unfinished THEN "FAILED" ELSE tool[k]
  <1>1. CASE tool = <<>>
    <2>1. TakenBack = [k \in DOMAIN <<>> |-> IF tool[k] \in Unfinished THEN "FAILED" ELSE tool[k]]
      BY <1>1 DEF TakenBack
    <2>2. TakenBack = <<>>
      BY <2>1, NoSteps
    <2> QED BY <1>1, <2>2 DEF StepRows
  <1>2. CASE tool # <<>>
    <2>1. tool \in [Tools -> StepStatuses] /\ DOMAIN tool = Tools
      BY <1>2 DEF OperatorInv, RowsOK, StepRows
    <2>2. TakenBack \in [Tools -> StepStatuses]
      BY <2>1 DEF TakenBack, StepStatuses, Unfinished
    <2>3. TakenBack # <<>>
      BY <2>2, StepsThere
    <2> QED BY <1>2, <2>1, <2>2, <2>3 DEF TakenBack, StepRows
  <1> QED BY <1>1, <1>2

LEMMA RevokedRows ==
  ASSUME OperatorInv, ContextRevoked, failDirectChatContextRevoked, UNCHANGED consent, HistorySame
  PROVE  /\ RowsOK' /\ EffectsOK(run', tool', effect')
         /\ ~crossed => RunOK(run', tool', accepted', consent) /\ Onward(run, tool, run', tool')
  <1>1. CASE UNCHANGED <<run, tool>>
    BY <1>1, OnwardSame DEF OperatorInv, RowsOK, HistorySame
  <1>2. CASE ~UNCHANGED <<run, tool>>
    <2>1. PICK s : s = IF run.status = "EXECUTING" /\ \E k \in DOMAIN tool : tool[k] = "EXECUTED"
                       THEN IF \E k \in DOMAIN TakenBack : TakenBack[k] = "FAILED"
                            THEN "PARTIAL" ELSE "SUCCEEDED"
                       ELSE "FAILED"
      OBVIOUS
    <2>2. /\ run.status \notin Terminal /\ tool' = TakenBack
          /\ run' = [run EXCEPT !.token = 0, !.status = s]
      BY <1>2, <2>1 DEF failDirectChatContextRevoked
    <2>3. /\ run' \in Runs /\ run'.status = s /\ run'.round = run.round /\ run'.output = run.output
          /\ s \in {"PARTIAL", "SUCCEEDED", "FAILED"}
      BY <2>1, <2>2 DEF OperatorInv, RowsOK, Runs, RunStatuses, Terminal
    <2>4. RowsOK'
      BY <2>2, <2>3, TakenBackFacts DEF OperatorInv, RowsOK, HistorySame
    <2>5. EffectsOK(run', tool', effect')
      BY <2>2, <2>3, TakenBackFacts DEF OperatorInv, EffectsOK, HistorySame, Unfinished
    <2>6. ASSUME ~crossed PROVE RunOK(run', tool', accepted', consent) /\ Onward(run, tool, run', tool')
      <3>1. RunOK(run, tool, accepted, consent) /\ accepted' = accepted
        BY <2>6 DEF OperatorInv, HistorySame
      <3>2. Onward(run, tool, run', tool')
        BY <2>2, <2>3, TakenBackFacts DEF Onward, Early, Unfinished
      <3>3. PlanOK(run', tool', accepted)
        BY <2>2, <2>3, <3>1, TakenBackFacts DEF PlanOK, RunOK, Unfinished, Terminal, Tools
      <3>4. consent.changes > 0
        BY <3>1 DEF RunOK, EndsOK, ContextRevoked, loadFrozenDirectChatContext,
                    validateOperatorContextDisclosure
      <3>5. EndsOK(run', tool', consent)
        <4>1. CASE tool = <<>>
          <5>1. s = "FAILED"
            BY <2>1, <4>1
          <5> QED BY <2>3, <3>1, <3>4, <5>1 DEF RunOK, EndsOK, OperatorInv, RowsOK, ConsentOK
        <4>2. CASE tool # <<>>
          <5>1. DOMAIN tool = Tools /\ DOMAIN TakenBack = Tools /\ tool \in [Tools -> StepStatuses]
            BY <4>2, TakenBackFacts DEF OperatorInv, RowsOK, StepRows
          <5>2. \A k \in Tools : tool[k] # "SKIPPED"
            BY <2>2, <3>1, <4>2 DEF RunOK, PlanOK, Terminal
          <5>3. \A k \in Tools : TakenBack[k] \in {"EXECUTED", "FAILED"}
                    /\ (TakenBack[k] = "EXECUTED" <=> tool[k] = "EXECUTED")
            BY <4>2, <5>1, <5>2, TakenBackFacts DEF StepStatuses, Unfinished
          <5>4. /\ s = "SUCCEEDED" => \A k \in Tools : TakenBack[k] = "EXECUTED"
                /\ s = "PARTIAL" => /\ \E k \in Tools : TakenBack[k] = "EXECUTED"
                                    /\ \E k \in Tools : TakenBack[k] # "EXECUTED"
            BY <2>1, <5>1, <5>3
          <5> QED BY <2>2, <2>3, <3>1, <3>4, <4>2, <5>4, TakenBackFacts
                  DEF RunOK, EndsOK, OperatorInv, RowsOK, ConsentOK
        <4> QED BY <4>1, <4>2
      <3> QED BY <3>1, <3>2, <3>3, <3>5 DEF RunOK
    <2> QED BY <2>4, <2>5, <2>6
  <1> QED BY <1>1, <1>2

LEMMA RevokeStep ==
  ASSUME OperatorInv, NEW h \in OpHandlers, ContextRevoked, failDirectChatContextRevoked, OpDone(h),
         UNCHANGED consent, HistorySame
  PROVE  OperatorInv'
  <1>1. run' \in Runs
    BY RevokedRows DEF RowsOK
  <1> QED BY <1>1, RevokedRows, IdleHandler, HandlerStep DEF OpDone, HistorySame, OperatorInv

(* A change of the run alone, in its status or its token. *)
LEMMA StatusStep ==
  ASSUME OperatorInv, NEW h \in OpHandlers, NEW o \in Ops, OpBecomes(h, o),
         NEW s \in RunStatuses, run' \in Runs, run'.status = s,
         run'.round = run.round, run'.output = run.output,
         UNCHANGED <<tool, consent>>, UNCHANGED <<effect, accepted>>, crossed' \in BOOLEAN,
         ~crossed' => /\ ~crossed
                      /\ RunOK(run', tool, accepted, consent)
                      /\ Onward(run, tool, run', tool)
                      /\ HandlerOK(o, run', tool, consent)
  PROVE  OperatorInv'
  <1>1. RowsOK'
    BY DEF OperatorInv, RowsOK
  <1>2. EffectsOK(run', tool', effect')
    BY DEF OperatorInv, EffectsOK
  <1> QED BY <1>1, <1>2, HandlerStep

LEMMA SettleFacts ==
  ASSUME OperatorInv, NEW from, NEW to \in RunStatuses, Settle(from, to)
  PROVE  /\ run' \in Runs /\ run'.round = run.round /\ run'.output = run.output
         /\ run'.status = IF run.status \in from THEN to ELSE run.status
  BY DEF OperatorInv, RowsOK, Settle, Runs

LEMMA CreateStep ==
  ASSUME OperatorInv, NEW h \in OpHandlers, createRun(h)
  PROVE  OperatorInv'
  <1>1. CASE run.status # "none"
    BY <1>1, ResumeStep DEF createRun
  <1>2. CASE run.status = "none"
    <2>1. PICK o : o = [OpIdle EXCEPT !.pc = "plan", !.round = run.round]
      OBVIOUS
    <2>2. /\ run' = [run EXCEPT !.status = "PLANNING"] /\ OpBecomes(h, o)
          /\ UNCHANGED <<tool, consent>> /\ UNCHANGED <<effect, accepted>> /\ crossed' = crossed
      BY <1>2, <2>1 DEF createRun, HistorySame
    <2>3. /\ o = [pc |-> "plan", output |-> "none", round |-> run.round, at |-> 0,
                  done |-> 0, failed |-> 0]
          /\ run.round \in Nat /\ run \in Runs
      BY <2>1, OpTyped, RoundIsNat DEF OpIdle
    <2>4. /\ run' \in Runs /\ run'.round = run.round /\ run'.output = run.output
          /\ run'.status = "PLANNING" /\ "PLANNING" \in RunStatuses
      BY <2>2, <2>3 DEF Runs, RunStatuses
    <2>5. o \in Ops /\ HandlerOK(o, run', tool, consent)
      BY <2>3, <2>4 DEF Ops, Places, Plans, HandlerOK
    <2>6. ~crossed => RunOK(run', tool, accepted, consent) /\ Onward(run, tool, run', tool)
      BY <1>2, <2>4, OpTyped DEF RunOK, PlanOK, EndsOK, Onward, Early
    <2> QED BY <2>2, <2>4, <2>5, <2>6, StatusStep DEF OperatorInv
  <1> QED BY <1>1, <1>2

LEMMA ShowStep ==
  ASSUME OperatorInv, NEW h \in OpHandlers, ShowToken(h)
  PROVE  OperatorInv'
  <1>1. CASE ContextRevoked
    BY <1>1, RevokeStep DEF ShowToken
  <1>2. CASE ~ContextRevoked /\ UNCHANGED run
    BY <1>2, DoneStep DEF ShowToken
  <1>3. CASE ~ContextRevoked /\ rotateConfirmationToken
    <2>1. /\ run' \in Runs /\ run'.round = run.round /\ run'.output = run.output
          /\ run'.status = run.status /\ run.status \in RunStatuses
      <3>1. run.given \in Nat /\ run.given + 1 \in Nat
        BY OpTyped DEF Runs
      <3>2. run' = [run EXCEPT !.given = run.given + 1, !.token = run.given + 1]
        BY <1>3 DEF rotateConfirmationToken
      <3> QED BY <3>1, <3>2, OpTyped DEF Runs
    <2>2. ~crossed => RunOK(run', tool, accepted, consent) /\ Onward(run, tool, run', tool)
      BY <2>1, OpTyped DEF RunOK, PlanOK, EndsOK, Onward
    <2> QED BY <1>3, <2>1, <2>2, StatusStep, IdleHandler DEF ShowToken, OpDone, HistorySame, OperatorInv
  <1> QED BY <1>1, <1>2, <1>3 DEF ShowToken

LEMMA ConfirmStep ==
  ASSUME OperatorInv, NEW h \in OpHandlers, confirmRun(h)
  PROVE  OperatorInv'
  BY RevokeStep, LookStep DEF confirmRun

(* A handler that may go on to the steps. *)
LEMMA MayStep ==
  ASSUME OperatorInv, NEW h \in OpHandlers, OpTo(h, "mayStep")
  PROVE  \E o \in Ops : /\ OpBecomes(h, o)
                        /\ \A r \in Runs : \A t, c :
                              /\ op[h].round <= r.round /\ t # <<>> /\ r.status \notin Early
                              => HandlerOK(o, r, t, c)
  <1>1. PICK o : o = [op[h] EXCEPT !.pc = "mayStep"]
    OBVIOUS
  <1>2. o \in Ops /\ o.pc = "mayStep" /\ o.round = op[h].round
    BY <1>1, OpTyped DEF Ops, Places
  <1>3. \A r \in Runs : \A t, c :
            op[h].round <= r.round /\ t # <<>> /\ r.status \notin Early => HandlerOK(o, r, t, c)
    BY <1>2 DEF HandlerOK
  <1> QED BY <1>1, <1>2, <1>3 DEF OpTo

LEMMA AcceptStep ==
  ASSUME OperatorInv, NEW h \in OpHandlers, NEW t \in 1..MaxTokens, acceptConfirmation(h, t)
  PROVE  OperatorInv'
  <1>1. CASE OpDone(h) /\ UNCHANGED <<run, tool, accepted>>
    BY <1>1, DoneStep DEF acceptConfirmation, HistorySame
  <1>2. CASE run.status = "EXECUTING" /\ OpTo(h, "mayStep") /\ UNCHANGED <<run, tool, accepted>>
    <2>1. PICK o \in Ops : /\ OpBecomes(h, o)
                           /\ \A r \in Runs : \A s, c :
                                /\ op[h].round <= r.round /\ s # <<>> /\ r.status \notin Early
                                => HandlerOK(o, r, s, c)
      BY <1>2, MayStep
    <2>2. ~crossed => HandlerOK(o, run, tool, consent)
      BY <1>2, <2>1, OpTyped DEF HandlerOK, RunOK, PlanOK, Early
    <2> QED BY <1>2, <2>1, <2>2, QuietHandler DEF acceptConfirmation, HistorySame
  <1>3. CASE /\ run.status = "AWAITING_CONFIRMATION"
             /\ tool' = [k \in DOMAIN tool |->
                           IF tool[k] = "NEEDS_CONFIRMATION" THEN "CONFIRMED" ELSE tool[k]]
             /\ accepted' = accepted \cup {run.round}
             /\ run' = [run EXCEPT !.status = "EXECUTING", !.token = 0]
             /\ OpTo(h, "mayStep")
    <2>1. PICK o \in Ops : /\ OpBecomes(h, o)
                           /\ \A r \in Runs : \A s, c :
                                /\ op[h].round <= r.round /\ s # <<>> /\ r.status \notin Early
                                => HandlerOK(o, r, s, c)
      BY <1>3, MayStep
    <2>2. /\ run' \in Runs /\ run'.round = run.round /\ run'.output = run.output
          /\ run'.status = "EXECUTING"
      BY <1>3, OpTyped DEF Runs, RunStatuses
    <2>3. /\ StepRows(tool') /\ (tool' = <<>> <=> tool = <<>>)
          /\ tool # <<>> => \A k \in Tools :
               tool'[k] = IF tool[k] = "NEEDS_CONFIRMATION" THEN "CONFIRMED" ELSE tool[k]
      <3>1. CASE tool = <<>>
        <4>1. PICK t2 : t2 = [k \in DOMAIN <<>> |->
                           IF tool[k] = "NEEDS_CONFIRMATION" THEN "CONFIRMED" ELSE tool[k]]
          OBVIOUS
        <4>2. t2 = <<>>
          BY <4>1, NoSteps
        <4> QED BY <1>3, <3>1, <4>1, <4>2 DEF StepRows
      <3>2. CASE tool # <<>>
        <4>1. tool \in [Tools -> StepStatuses] /\ DOMAIN tool = Tools
          BY <3>2, OpTyped DEF StepRows
        <4>2. tool' \in [Tools -> StepStatuses]
          BY <1>3, <4>1 DEF StepStatuses, Unfinished
        <4>3. tool' # <<>>
          BY <4>2, StepsThere
        <4> QED BY <1>3, <3>2, <4>1, <4>2, <4>3 DEF StepRows
      <3> QED BY <3>1, <3>2
    <2>4. /\ RowsOK' /\ consent' = consent /\ effect' = effect /\ crossed' = crossed
      BY <2>2, <2>3 DEF OperatorInv, RowsOK, acceptConfirmation
    <2>5. EffectsOK(run', tool', effect')
      BY <2>2, <2>3, <2>4 DEF OperatorInv, EffectsOK
    <2>6. ASSUME ~crossed
          PROVE  /\ RunOK(run', tool', accepted', consent) /\ Onward(run, tool, run', tool')
                 /\ HandlerOK(o, run', tool', consent)
      <3>1. /\ RunOK(run, tool, accepted, consent) /\ HandlerOK(op[h], run, tool, consent)
            /\ tool # <<>> /\ tool' # <<>>
        BY <1>3, <2>3, <2>6, OpTyped DEF RunOK, PlanOK
      <3>2. PlanOK(run', tool', accepted')
        BY <1>3, <2>2, <2>3, <3>1 DEF RunOK, PlanOK, Tools
      <3>3. EndsOK(run', tool', consent)
        BY <2>2, <3>1 DEF RunOK, EndsOK
      <3>4. Onward(run, tool, run', tool')
        BY <1>3, <2>2, <2>3, <3>1 DEF Onward, Early
      <3>5. HandlerOK(o, run', tool', consent)
        BY <2>1, <2>2, <3>1 DEF HandlerOK, Early
      <3> QED BY <3>2, <3>3, <3>4, <3>5 DEF RunOK
    <2> QED BY <2>1, <2>4, <2>5, <2>6, HandlerStep DEF OperatorInv
  <1> QED BY <1>1, <1>2, <1>3 DEF acceptConfirmation

LEMMA CancelStep ==
  ASSUME OperatorInv, NEW h \in OpHandlers, cancelRun(h)
  PROVE  OperatorInv'
  <1>1. /\ run' \in Runs /\ run'.round = run.round /\ run'.output = run.output
        /\ run'.status = "CANCELED" /\ run.status = "AWAITING_CONFIRMATION"
    BY OpTyped DEF cancelRun, Cancelable, Runs, RunStatuses, Terminal
  <1>2. /\ StepRows(tool') /\ (tool' = <<>> <=> tool = <<>>)
        /\ tool # <<>> => \A k \in Tools :
             tool'[k] = IF tool[k] \in Unfinished THEN "SKIPPED" ELSE tool[k]
    <2>1. CASE tool = <<>>
      <3>1. PICK t2 : t2 = [k \in DOMAIN <<>> |-> IF tool[k] \in Unfinished THEN "SKIPPED" ELSE tool[k]]
        OBVIOUS
      <3>2. t2 = <<>>
        BY <3>1, NoSteps
      <3> QED BY <2>1, <3>1, <3>2 DEF cancelRun, StepRows
    <2>2. CASE tool # <<>>
      <3>1. tool \in [Tools -> StepStatuses] /\ DOMAIN tool = Tools
        BY <2>2, OpTyped DEF StepRows
      <3>2. tool' \in [Tools -> StepStatuses]
        BY <3>1 DEF cancelRun, StepStatuses, Unfinished
      <3>3. tool' # <<>>
        BY <3>2, StepsThere
      <3> QED BY <2>2, <3>1, <3>2, <3>3 DEF cancelRun, StepRows
    <2> QED BY <2>1, <2>2
  <1>3. /\ RowsOK' /\ consent' = consent /\ effect' = effect /\ crossed' = crossed
        /\ accepted' = accepted
    BY <1>1, <1>2 DEF OperatorInv, RowsOK, cancelRun, HistorySame
  <1>4. EffectsOK(run', tool', effect')
    BY <1>1, <1>2, <1>3 DEF OperatorInv, EffectsOK, Unfinished
  <1>5. ASSUME ~crossed
        PROVE  RunOK(run', tool', accepted', consent) /\ Onward(run, tool, run', tool')
    <2>1. RunOK(run, tool, accepted, consent) /\ tool # <<>> /\ tool \in [Tools -> StepStatuses]
      BY <1>1, <1>5, OpTyped DEF RunOK, PlanOK, StepRows
    <2>2. \A k \in Tools : tool'[k] = "SKIPPED"
      BY <1>1, <1>2, <2>1 DEF RunOK, PlanOK, Unfinished
    <2>3. PlanOK(run', tool', accepted')
      BY <1>1, <1>2, <1>3, <2>1, <2>2 DEF RunOK, PlanOK, Tools
    <2>4. EndsOK(run', tool', consent)
      BY <1>1, <2>1, <2>2 DEF RunOK, EndsOK
    <2>5. Onward(run, tool, run', tool')
      BY <1>1, <1>2, <2>1 DEF Onward, Early, RunOK, PlanOK
    <2> QED BY <2>3, <2>4, <2>5 DEF RunOK
  <1>6. OpBecomes(h, op[h])
    BY DEF OperatorInv, cancelRun, OpBecomes
  <1>7. ~crossed => HandlerOK(op[h], run', tool', consent)
    BY <1>1, <1>2, <1>5, OpTyped, OnwardKeeps
  <1>8. PICK o : o = op[h]
    OBVIOUS
  <1> QED BY <1>3, <1>4, <1>5, <1>6, <1>7, <1>8, OpTyped, HandlerStep DEF OperatorInv

LEMMA ContinueStep ==
  ASSUME OperatorInv, NEW h \in OpHandlers, continueRun(h)
  PROVE  OperatorInv'
  <1> USE OpTyped
  <1>1. PICK o : o = [OpIdle EXCEPT !.pc = "plan", !.round = run.round + 1]
    OBVIOUS
  <1>2. /\ o = [pc |-> "plan", output |-> "none", round |-> run.round + 1, at |-> 0,
                done |-> 0, failed |-> 0]
        /\ run.round \in Nat /\ run.round + 1 \in 1..MaxRounds
    <2>1. run.round \in Nat /\ run.round >= 1 /\ run.round < MaxRounds
      BY RoundIsNat, OperatorAssumption DEF continueRun, Runs
    <2>2. run.round + 1 \in 1..MaxRounds
      BY <2>1, OperatorAssumption
    <2>3. o = [pc |-> "plan", output |-> "none", round |-> run.round + 1, at |-> 0,
               done |-> 0, failed |-> 0]
      BY <1>1 DEF OpIdle
    <2> QED BY <2>1, <2>2, <2>3
  <1>3. o \in Ops
    BY <1>2 DEF Ops, Places, Plans
  <1>4. /\ run' \in Runs /\ run'.round = run.round + 1 /\ run'.output = "none"
        /\ run'.status = "PLANNING" /\ tool' = <<>>
    BY <1>2 DEF continueRun, Runs, RunStatuses, Plans
  <1>5. /\ RowsOK' /\ consent' = consent /\ effect' = effect /\ crossed' = crossed
        /\ accepted' = accepted
    BY <1>4 DEF OperatorInv, RowsOK, StepRows, continueRun, HistorySame
  <1>6. EffectsOK(run', tool', effect')
    <2>1. \A k \in Tools : <<run.round + 1, k>> \in (1..MaxRounds) \X Tools
      BY <1>2
    <2>2. EffectsOK(run, tool, effect)
      BY DEF OperatorInv
    <2>3. \A k \in Tools : effect[<<run.round + 1, k>>] = 0
      BY <1>2, <2>1, <2>2 DEF EffectsOK
    <2>4. \A x \in (1..MaxRounds) \X Tools : x[1] > run.round + 1 => effect[x] = 0
      <3> SUFFICES ASSUME NEW x \in (1..MaxRounds) \X Tools, x[1] > run.round + 1
                   PROVE  effect[x] = 0
        OBVIOUS
      <3>1. x[1] \in Nat /\ x[1] > run.round
        BY <1>2, OperatorAssumption
      <3> QED BY <2>2, <3>1 DEF EffectsOK
    <2> QED BY <1>4, <1>5, <2>2, <2>3, <2>4 DEF EffectsOK
  <1>7. ASSUME ~crossed PROVE RunOK(run', tool', accepted', consent)
    BY <1>4, <1>7 DEF RunOK, PlanOK, EndsOK
  <1>8. op' \in [OpHandlers -> Ops] /\ \A g \in OpHandlers : op'[g] = IF g = h THEN o ELSE op[g]
    BY <1>1, <1>3 DEF OperatorInv, continueRun, OpBecomes
  <1>9. ASSUME ~crossed, NEW g \in OpHandlers PROVE HandlerOK(op'[g], run', tool', consent')
    <2>1. CASE g = h
      BY <1>2, <1>4, <1>8, <2>1 DEF HandlerOK
    <2>2. CASE g # h
      <3>1. run.output = "clarify" /\ run.status = "AWAITING_CLARIFICATION" /\ ~consent.direct
        BY <1>9 DEF continueRun, RunOK, EndsOK
      <3>2. tool = <<>>
        BY <1>9, <3>1 DEF RunOK, PlanOK
      <3>3. HandlerOK(op[g], run, tool, consent) /\ op[g] \in Ops
        BY <1>9
      <3>4. /\ op[g].pc \notin {"begin", "mayStep", "list", "step", "stepFailed", "finish", "clarify"}
            /\ op[g].round \in Nat /\ op[g].round < run.round + 1
        BY <1>2, <3>2, <3>3 DEF HandlerOK, Ops
      <3>5. op[g].pc \in {"plan", "planned"} /\ op[g].output # "none" => op[g].output = "clarify"
        BY <3>1, <3>3 DEF HandlerOK
      <3> QED BY <1>2, <1>4, <1>8, <2>2, <3>4, <3>5 DEF HandlerOK
    <2> QED BY <2>1, <2>2
  <1> QED BY <1>5, <1>6, <1>7, <1>8, <1>9 DEF OperatorInv

LEMMA AskStep ==
  ASSUME OperatorInv, NEW h \in OpHandlers, NEW a \in Outputs, AskPlanner(h, a)
  PROVE  OperatorInv'
  <1> USE OpTyped
  <1>1. CASE ContextRevoked
    BY <1>1, RevokeStep DEF AskPlanner
  <1>2. CASE ~ContextRevoked /\ op[h].output = "none"
    <2>1. PICK o : o = [op[h] EXCEPT !.pc = "publish", !.output = a]
      OBVIOUS
    <2>2. o \in Ops /\ (~crossed => HandlerOK(o, run, tool, consent))
      BY <2>1 DEF Ops, Places, Plans, HandlerOK
    <2> QED BY <1>2, <2>1, <2>2, QuietHandler DEF AskPlanner
  <1>3. CASE ~ContextRevoked /\ op[h].output # "none"
    <2>1. PICK o : o = [op[h] EXCEPT !.pc = "planned"]
      OBVIOUS
    <2>2. o \in Ops /\ (~crossed => HandlerOK(o, run, tool, consent))
      BY <2>1 DEF AskPlanner, OpAt, Ops, Places, HandlerOK
    <2> QED BY <1>3, <2>1, <2>2, QuietHandler DEF AskPlanner, OpTo
  <1> QED BY <1>1, <1>2, <1>3

LEMMA PublishStep ==
  ASSUME OperatorInv, NEW h \in OpHandlers, PublishPlan(h)
  PROVE  OperatorInv'
  <1> USE OpTyped
  <1>1. CASE run.status = "PLANNING" /\ run.output = "none"
    <2>1. PICK o : o = [op[h] EXCEPT !.pc = "planned", !.round = run.round]
      OBVIOUS
    <2>2. /\ o \in Ops /\ o.pc = "planned" /\ o.round = run.round /\ o.output = op[h].output
          /\ o.output \in Plans
      BY <2>1, RoundIsNat DEF Ops, Places
    <2>3. /\ run' \in Runs /\ run'.round = run.round /\ run'.output = op[h].output
          /\ run'.status = run.status
      BY <1>1, <2>2 DEF PublishPlan, Runs
    <2>4. /\ RowsOK' /\ consent' = consent /\ effect' = effect /\ crossed' = crossed
          /\ accepted' = accepted /\ tool' = tool
      BY <2>3 DEF OperatorInv, RowsOK, PublishPlan, HistorySame
    <2>5. EffectsOK(run', tool', effect')
      BY <2>3, <2>4 DEF OperatorInv, EffectsOK
    <2>6. op' \in [OpHandlers -> Ops] /\ \A g \in OpHandlers : op'[g] = IF g = h THEN o ELSE op[g]
      BY <1>1, <2>1, <2>2 DEF OperatorInv, PublishPlan, OpBecomes
    <2>7. ASSUME ~crossed PROVE tool = <<>> /\ RunOK(run', tool', accepted', consent)
      <3>1. tool = <<>>
        BY <1>1, <2>7 DEF RunOK, PlanOK
      <3> QED BY <1>1, <2>3, <2>4, <2>7, <3>1 DEF RunOK, PlanOK, EndsOK
    <2>8. ASSUME ~crossed, NEW g \in OpHandlers PROVE HandlerOK(op'[g], run', tool', consent')
      <3>1. CASE g = h
        BY <2>2, <2>3, <2>6, <3>1, RoundIsNat DEF HandlerOK
      <3>2. CASE g # h
        BY <1>1, <2>3, <2>4, <2>6, <2>7, <2>8, <3>2 DEF HandlerOK
      <3> QED BY <3>1, <3>2
    <2> QED BY <2>4, <2>5, <2>6, <2>7, <2>8 DEF OperatorInv
  <1>2. CASE ~(run.status = "PLANNING" /\ run.output = "none") /\ run.output = "none"
    BY <1>2, DoneStep DEF PublishPlan
  <1>3. CASE run.output # "none"
    <2>1. PICK o : o = [op[h] EXCEPT !.pc = "planned", !.output = run.output, !.round = run.round]
      OBVIOUS
    <2>2. /\ o \in Ops /\ o.pc = "planned" /\ o.round = run.round /\ o.output = run.output
          /\ run.round \in Nat
      BY <2>1, RoundIsNat DEF Ops, Places, Runs
    <2>3. HandlerOK(o, run, tool, consent)
      BY <2>2 DEF HandlerOK
    <2> QED BY <1>3, <2>1, <2>2, <2>3, QuietHandler DEF PublishPlan
  <1> QED BY <1>1, <1>2, <1>3

LEMMA ClarifyStep ==
  ASSUME OperatorInv, NEW h \in OpHandlers, awaitClarification(h)
  PROVE  OperatorInv'
  <1> USE OpTyped
  <1>1. "AWAITING_CLARIFICATION" \in RunStatuses
    BY DEF RunStatuses
  <1>2. /\ run' \in Runs /\ run'.round = run.round /\ run'.output = run.output
        /\ run'.status = IF run.status \in {"EXECUTING", "PLANNING"}
                         THEN "AWAITING_CLARIFICATION" ELSE run.status
    BY <1>1, SettleFacts DEF awaitClarification
  <1>3. run'.status \in RunStatuses
    BY <1>2 DEF Runs
  <1>4. /\ crossed' \in BOOLEAN
        /\ ~crossed' => ~crossed /\ op[h].round = run.round
    BY Zenon DEF awaitClarification, OperatorInv
  <1>5. ASSUME ~crossed' PROVE RunOK(run', tool, accepted, consent) /\ Onward(run, tool, run', tool)
    <2>1. /\ RunOK(run, tool, accepted, consent) /\ HandlerOK(op[h], run, tool, consent)
          /\ op[h].round = run.round
      BY <1>4, <1>5
    <2>2. consent.direct \/ run.output = "clarify"
      BY <2>1 DEF awaitClarification, OpAt, HandlerOK
    <2>3. PlanOK(run', tool, accepted)
      BY <1>2, <2>1 DEF RunOK, PlanOK
    <2>4. EndsOK(run', tool, consent)
      BY <1>2, <2>1, <2>2 DEF RunOK, EndsOK
    <2>5. Onward(run, tool, run', tool)
      BY <1>2 DEF Onward, Early
    <2> QED BY <2>3, <2>4, <2>5 DEF RunOK
  <1> QED BY <1>2, <1>3, <1>4, <1>5, StatusStep, IdleHandler DEF awaitClarification, OpDone

(* A run that had no tools comes to its end. *)
LEMMA NoToolsStep ==
  ASSUME OperatorInv, NEW h \in OpHandlers, succeedWithoutTools(h) \/ failRun(h)
  PROVE  OperatorInv'
  <1> USE OpTyped
  <1>1. PICK s \in {"SUCCEEDED", "FAILED"} : Settle({"PLANNING"}, s)
    BY DEF succeedWithoutTools, failRun
  <1>2. s \in RunStatuses
    BY DEF RunStatuses, Terminal
  <1>3. /\ run' \in Runs /\ run'.round = run.round /\ run'.output = run.output
        /\ run'.status = IF run.status \in {"PLANNING"} THEN s ELSE run.status
    BY <1>1, <1>2, SettleFacts
  <1>4. run'.status \in RunStatuses
    BY <1>3 DEF Runs
  <1>5. /\ OpDone(h) /\ UNCHANGED <<tool, consent, effect, accepted, crossed>>
        /\ op[h].pc = "planned" /\ op[h].output \in {"answer", "invalid"}
    BY DEF succeedWithoutTools, failRun, HistorySame, OpAt
  <1>6. ASSUME ~crossed PROVE RunOK(run', tool, accepted, consent) /\ Onward(run, tool, run', tool)
    <2>1. /\ RunOK(run, tool, accepted, consent) /\ run.output \in {"answer", "invalid"}
          /\ tool = <<>>
      BY <1>5, <1>6 DEF HandlerOK, RunOK, PlanOK
    <2> QED BY <1>3, <2>1 DEF RunOK, PlanOK, EndsOK, Onward, Early
  <1> QED BY <1>3, <1>4, <1>5, <1>6, StatusStep, IdleHandler DEF OpDone, OperatorInv

LEMMA PrepareStep ==
  ASSUME OperatorInv, NEW h \in OpHandlers, replaceSteps(h)
  PROVE  OperatorInv'
  <1> USE OpTyped
  <1>1. CASE run.status # "PLANNING"
    BY <1>1, ResumeStep DEF replaceSteps
  <1>2. CASE run.status = "PLANNING"
    <2>1. PICK o : o = [op[h] EXCEPT !.pc = "begin"]
      OBVIOUS
    <2>2. o \in Ops /\ o.pc = "begin" /\ o.output = op[h].output /\ o.round = op[h].round
      BY <2>1 DEF Ops, Places
    <2>3. PICK p : p = prepareSteps(op[h].output)
      OBVIOUS
    <2>4. /\ p \in [Tools -> StepStatuses] /\ p # <<>>
          /\ \A k \in Tools : p[k] \in {"PENDING", "NEEDS_CONFIRMATION"}
          /\ p[1] = "PENDING"
          /\ p[2] = IF op[h].output = "toolsConfirmed" THEN "NEEDS_CONFIRMATION" ELSE "PENDING"
      <3>1. p \in [Tools -> StepStatuses]
        BY <2>3 DEF prepareSteps, StepStatuses, Unfinished
      <3>2. p # <<>>
        BY <3>1, StepsThere
      <3> QED BY <2>3, <3>1, <3>2 DEF prepareSteps, confirmationRequired, Tools
    <2>5. /\ run' = run /\ tool' = IF tool = <<>> THEN p ELSE tool
          /\ UNCHANGED <<consent, effect, accepted, crossed>>
          /\ OpBecomes(h, o) /\ tool' # <<>> /\ StepRows(tool')
      BY <1>2, <2>1, <2>3, <2>4 DEF replaceSteps, HistorySame, OpTo, StepRows
    <2>6. RowsOK'
      BY <2>5 DEF OperatorInv, RowsOK
    <2>7. EffectsOK(run', tool', effect')
      BY <2>4, <2>5 DEF OperatorInv, EffectsOK
    <2>8. ASSUME ~crossed
          PROVE  /\ RunOK(run', tool', accepted', consent) /\ Onward(run, tool, run', tool')
                 /\ HandlerOK(o, run', tool', consent)
      <3>1. /\ RunOK(run, tool, accepted, consent) /\ HandlerOK(op[h], run, tool, consent)
            /\ op[h].output = run.output /\ run.output \in {"tools", "toolsConfirmed"}
        BY <2>8 DEF replaceSteps, OpAt, HandlerOK
      <3>2. PlanOK(run', tool', accepted')
        BY <1>2, <2>4, <2>5, <3>1 DEF RunOK, PlanOK, Tools
      <3>3. EndsOK(run', tool', consent)
        BY <1>2, <2>5, <3>1 DEF RunOK, EndsOK
      <3>4. Onward(run, tool, run', tool')
        BY <2>5 DEF Onward
      <3>5. HandlerOK(o, run', tool', consent)
        BY <2>2, <2>5, <3>1 DEF HandlerOK
      <3> QED BY <3>2, <3>3, <3>4, <3>5 DEF RunOK
    <2> QED BY <2>2, <2>5, <2>6, <2>7, <2>8, HandlerStep DEF OperatorInv
  <1> QED BY <1>1, <1>2

LEMMA BeginStep ==
  ASSUME OperatorInv, NEW h \in OpHandlers, BeginExecution(h)
  PROVE  OperatorInv'
  <1> USE OpTyped
  <1>0. /\ UNCHANGED <<tool, consent, effect, accepted, crossed>> /\ op[h].pc = "begin"
        /\ ~crossed => tool # <<>> /\ op[h].output = run.output
    BY DEF BeginExecution, HistorySame, OpAt, HandlerOK
  <1>1. CASE run.status # "PLANNING" /\ resumeExisting(h)
    BY <1>0, <1>1, ResumeStep DEF HistorySame
  <1>2. CASE run.status = "EXECUTING" /\ Executing(h) /\ UNCHANGED run
    BY <1>0, <1>2, BeginListing DEF HistorySame, Early
  <1>3. CASE /\ run.status = "PLANNING" /\ confirmationRequired(op[h].output)
             /\ run' = [run EXCEPT !.status = "AWAITING_CONFIRMATION", !.given = @ + 1,
                                   !.token = run.given + 1]
             /\ OpDone(h)
    <2>1. /\ run' \in Runs /\ run'.round = run.round /\ run'.output = run.output
          /\ run'.status = "AWAITING_CONFIRMATION" /\ "AWAITING_CONFIRMATION" \in RunStatuses
      <3>1. run.given \in Nat /\ run.given + 1 \in Nat
        BY DEF Runs
      <3>2. run' = [run EXCEPT !.status = "AWAITING_CONFIRMATION", !.given = run.given + 1,
                               !.token = run.given + 1]
        BY <1>3
      <3>3. "AWAITING_CONFIRMATION" \in RunStatuses
        BY DEF RunStatuses
      <3> QED BY <3>1, <3>2, <3>3 DEF Runs
    <2>2. ~crossed => RunOK(run', tool, accepted, consent) /\ Onward(run, tool, run', tool)
      BY <1>0, <1>3, <2>1 DEF RunOK, PlanOK, EndsOK, Onward, Early, confirmationRequired
    <2> QED BY <1>0, <1>3, <2>1, <2>2, StatusStep, IdleHandler DEF OpDone, OperatorInv
  <1>4. CASE /\ run.status = "PLANNING" /\ ~confirmationRequired(op[h].output)
             /\ run' = [run EXCEPT !.status = "EXECUTING"] /\ Executing(h)
    <2>1. /\ run' \in Runs /\ run'.round = run.round /\ run'.output = run.output
          /\ run'.status = "EXECUTING" /\ "EXECUTING" \in RunStatuses
      BY <1>4 DEF Runs, RunStatuses
    <2>2. PICK o : o = [OpIdle EXCEPT !.pc = "list"]
      OBVIOUS
    <2>3. o \in Ops /\ o.pc = "list" /\ o.round = 0
      BY <2>2 DEF OpIdle, Ops, Places, Plans
    <2>4. ASSUME ~crossed
          PROVE  /\ RunOK(run', tool, accepted, consent) /\ Onward(run, tool, run', tool)
                 /\ HandlerOK(o, run', tool, consent)
      <3>1. RunOK(run, tool, accepted, consent) /\ tool # <<>> /\ run.output = "tools"
        BY <1>0, <1>4, <2>4 DEF RunOK, PlanOK, confirmationRequired
      <3>2. PlanOK(run', tool, accepted)
        BY <1>4, <2>1, <3>1 DEF RunOK, PlanOK, Tools
      <3>3. EndsOK(run', tool, consent)
        BY <2>1, <3>1 DEF RunOK, EndsOK
      <3>4. Onward(run, tool, run', tool)
        BY <1>4, <2>1 DEF Onward, Early
      <3>5. HandlerOK(o, run', tool, consent)
        BY <2>1, <2>3, <3>1, RoundIsNat DEF HandlerOK, Early
      <3> QED BY <3>2, <3>3, <3>4, <3>5 DEF RunOK
    <2> QED BY <1>0, <1>4, <2>1, <2>2, <2>3, <2>4, StatusStep DEF Executing, OperatorInv
  <1> QED BY <1>1, <1>2, <1>3, <1>4 DEF BeginExecution

LEMMA BeforeStep ==
  ASSUME OperatorInv, NEW h \in OpHandlers, BeforeSteps(h)
  PROVE  OperatorInv'
  <1>1. CASE ContextRevoked
    BY <1>1, RevokeStep DEF BeforeSteps
  <1>2. CASE ~ContextRevoked
    <2>1. ~crossed => tool # <<>> /\ run.status \notin Early
      BY OpTyped DEF BeforeSteps, OpAt, HandlerOK
    <2> QED BY <1>2, <2>1, BeginListing DEF BeforeSteps
  <1> QED BY <1>1, <1>2

LEMMA ExecuteStep ==
  ASSUME OperatorInv, NEW h \in OpHandlers, executeStep(h)
  PROVE  OperatorInv'
  <1> USE OpTyped
  <1>1. PICK k : k = op[h].at
    OBVIOUS
  <1>2. /\ op[h].pc = "step" /\ run.status = "EXECUTING" /\ k \in DOMAIN tool
        /\ tool[k] \in {"PENDING", "CONFIRMED"} /\ op[h].round = run.round
        /\ tool' = [tool EXCEPT ![k] = "EXECUTED"]
        /\ effect' = [effect EXCEPT ![<<run.round, k>>] = @ + 1]
        /\ Counted(h, 1, 0) /\ UNCHANGED <<run, consent, accepted, crossed>>
    BY <1>1 DEF executeStep, OpAt, StepOpen, StepIs, StepThere, dispatch
  <1>3. tool \in [Tools -> StepStatuses] /\ k \in Tools /\ tool # <<>>
    BY <1>2 DEF StepRows
  <1>4. /\ tool' \in [Tools -> StepStatuses]
        /\ \A j \in Tools : tool'[j] = IF j = k THEN "EXECUTED" ELSE tool[j]
    BY <1>2, <1>3 DEF StepStatuses
  <1>5. tool' # <<>>
    BY <1>4, StepsThere
  <1>6. PICK x : x = <<run.round, k>>
    OBVIOUS
  <1>7. /\ x \in (1..MaxRounds) \X Tools /\ x[1] = run.round
        /\ \A j \in Tools : <<run.round, j>> \in (1..MaxRounds) \X Tools
        /\ \A j \in Tools : <<run.round, j>> = x <=> j = k
    BY <1>3, <1>6 DEF Runs
  <1>8. EffectsOK(run, tool, effect) /\ effect \in [(1..MaxRounds) \X Tools -> Nat]
    BY DEF OperatorInv, RowsOK
  <1>9. effect[x] = 0
    <2>1. ~(effect[x] > 0)
      BY <1>2, <1>3, <1>6, <1>8 DEF EffectsOK
    <2>2. effect[x] \in Nat
      BY <1>7, <1>8
    <2> QED BY <2>1, <2>2
  <1>10. /\ effect' \in [(1..MaxRounds) \X Tools -> Nat]
         /\ \A y \in (1..MaxRounds) \X Tools : effect'[y] = IF y = x THEN 1 ELSE effect[y]
    BY <1>2, <1>6, <1>7, <1>8, <1>9
  <1>11. RowsOK'
    BY <1>2, <1>4, <1>10 DEF OperatorInv, RowsOK, StepRows
  <1>12. EffectsOK(run', tool', effect')
    <2>1. \A y \in (1..MaxRounds) \X Tools : effect'[y] <= 1
      BY <1>8, <1>10 DEF EffectsOK
    <2>2. \A y \in (1..MaxRounds) \X Tools : y[1] > run.round => effect'[y] = 0
      <3> SUFFICES ASSUME NEW y \in (1..MaxRounds) \X Tools, y[1] > run.round
                   PROVE  effect'[y] = 0
        OBVIOUS
      <3>1. y # x
        BY <1>7, RoundIsNat
      <3> QED BY <1>8, <1>10, <3>1 DEF EffectsOK
    <2>3. ASSUME NEW j \in Tools
          PROVE  effect'[<<run.round, j>>] > 0 <=> tool'[j] = "EXECUTED"
      <3>1. PICK y \in (1..MaxRounds) \X Tools : y = <<run.round, j>>
        BY <1>7
      <3>2. effect'[y] = IF j = k THEN 1 ELSE effect[y]
        BY <1>7, <1>10, <3>1
      <3>3. effect[y] > 0 <=> tool[j] = "EXECUTED"
        BY <1>3, <1>8, <3>1 DEF EffectsOK
      <3> QED BY <1>4, <3>1, <3>2, <3>3
    <2> QED BY <1>2, <1>5, <2>1, <2>2, <2>3 DEF EffectsOK
  <1>13. ASSUME ~crossed
         PROVE  RunOK(run, tool', accepted, consent) /\ Onward(run, tool, run, tool')
    <2>1. RunOK(run, tool, accepted, consent)
      BY <1>13
    <2>2. PlanOK(run, tool', accepted)
      BY <1>2, <1>3, <1>4, <1>5, <2>1 DEF RunOK, PlanOK, Tools
    <2>3. EndsOK(run, tool', consent)
      BY <1>2, <2>1 DEF RunOK, EndsOK
    <2>4. Onward(run, tool, run, tool')
      BY <1>2, <1>3, <1>4, <1>5 DEF Onward
    <2> QED BY <2>2, <2>3, <2>4 DEF RunOK
  <1>14. tool'[op[h].at] = "EXECUTED"
    BY <1>1, <1>3, <1>4
  <1> QED BY <1>2, <1>11, <1>12, <1>13, <1>14, CountStep

LEMMA FailStep ==
  ASSUME OperatorInv, NEW h \in OpHandlers, markStepFailed(h)
  PROVE  OperatorInv'
  <1> USE OpTyped
  <1>0. op[h].pc = "stepFailed" /\ UNCHANGED <<run, consent, effect, accepted, crossed>>
    BY DEF markStepFailed, OpAt, HistorySame
  <1>1. CASE tool' = tool
    <2>1. RowsOK' /\ EffectsOK(run', tool', effect')
      BY <1>0, <1>1 DEF OperatorInv, RowsOK
    <2>2. PICK d \in Nat, f \in Nat :
             /\ Counted(h, d, f)
             /\ \/ StepThere(h) /\ tool[op[h].at] = "EXECUTED" /\ d = 1 /\ f = 0
                \/ /\ StepThere(h) => tool[op[h].at] # "EXECUTED"
                   /\ StepThere(h) /\ run.status = "EXECUTING" =>
                         tool' = [tool EXCEPT ![op[h].at] = "FAILED"]
                   /\ d = 0 /\ f = 1
      BY DEF markStepFailed
    <2>3. ASSUME ~crossed, run.status = "EXECUTING"
          PROVE  \/ tool'[op[h].at] = "EXECUTED" /\ d = 1 /\ f = 0
                 \/ tool'[op[h].at] = "FAILED" /\ d = 0 /\ f = 1
      BY <1>0, <1>1, <2>2, <2>3, AtStep
    <2> QED BY <1>0, <1>1, <2>1, <2>2, <2>3, CountStep, OnwardSame
  <1>2. CASE tool' # tool
    <2>1. PICK k : k = op[h].at
      OBVIOUS
    <2>2. /\ k \in DOMAIN tool /\ tool[k] # "EXECUTED" /\ run.status = "EXECUTING"
          /\ tool' = [tool EXCEPT ![k] = "FAILED"] /\ Counted(h, 0, 1)
      BY <1>2, <2>1 DEF markStepFailed, StepThere
    <2>3. tool \in [Tools -> StepStatuses] /\ k \in Tools /\ tool # <<>>
      BY <2>2 DEF StepRows
    <2>4. /\ tool' \in [Tools -> StepStatuses]
          /\ \A j \in Tools : tool'[j] = IF j = k THEN "FAILED" ELSE tool[j]
      BY <2>2, <2>3 DEF StepStatuses
    <2>5. tool' # <<>>
      BY <2>4, StepsThere
    <2>6. RowsOK'
      BY <1>0, <2>4 DEF OperatorInv, RowsOK, StepRows
    <2>7. EffectsOK(run', tool', effect')
      BY <1>0, <2>2, <2>3, <2>4, <2>5 DEF OperatorInv, EffectsOK
    <2>8. ASSUME ~crossed
          PROVE  RunOK(run, tool', accepted, consent) /\ Onward(run, tool, run, tool')
      <3>1. RunOK(run, tool, accepted, consent)
        BY <2>8
      <3>2. PlanOK(run, tool', accepted)
        BY <2>2, <2>3, <2>4, <2>5, <3>1 DEF RunOK, PlanOK, Tools
      <3>3. EndsOK(run, tool', consent)
        BY <2>2, <3>1 DEF RunOK, EndsOK
      <3>4. Onward(run, tool, run, tool')
        BY <2>2, <2>3, <2>4, <2>5 DEF Onward
      <3> QED BY <3>2, <3>3, <3>4 DEF RunOK
    <2>9. tool'[op[h].at] = "FAILED"
      BY <2>1, <2>3, <2>4
    <2> QED BY <1>0, <2>2, <2>6, <2>7, <2>8, <2>9, CountStep
  <1> QED BY <1>1, <1>2

LEMMA FinishStep ==
  ASSUME OperatorInv, NEW h \in OpHandlers, finishRun(h)
  PROVE  OperatorInv'
  <1> USE OpTyped
  <1>1. PICK s : s = IF op[h].failed = 0 THEN "SUCCEEDED"
                     ELSE IF op[h].done = 0 THEN "FAILED" ELSE "PARTIAL"
    OBVIOUS
  <1>2. s \in RunStatuses /\ s \in Terminal /\ s # "CANCELED"
    BY <1>1 DEF RunStatuses, Terminal
  <1>3. /\ run' \in Runs /\ run'.round = run.round /\ run'.output = run.output
        /\ run'.status = IF run.status \in {"EXECUTING"} THEN s ELSE run.status
    BY <1>1, <1>2, SettleFacts DEF finishRun
  <1>4. run'.status \in RunStatuses
    BY <1>3 DEF Runs
  <1>5. /\ OpDone(h) /\ UNCHANGED <<tool, consent, effect, accepted, crossed>> /\ op[h].pc = "finish"
    BY DEF finishRun, HistorySame, OpAt
  <1>6. ASSUME ~crossed PROVE RunOK(run', tool, accepted, consent) /\ Onward(run, tool, run', tool)
    <2>1. RunOK(run, tool, accepted, consent) /\ HandlerOK(op[h], run, tool, consent)
      BY <1>6
    <2>2. tool # <<>> /\ op[h].at = 3
      BY <1>5, <2>1 DEF HandlerOK
    <2>3. PlanOK(run', tool, accepted)
      BY <1>2, <1>3, <2>1, <2>2 DEF RunOK, PlanOK, Terminal
    <2>4. EndsOK(run', tool, consent)
      <3>1. CASE run.status # "EXECUTING"
        BY <1>3, <2>1, <3>1 DEF RunOK, EndsOK
      <3>2. CASE run.status = "EXECUTING"
        <4>1. CountsOK(op[h], tool)
          BY <1>5, <2>1, <3>2 DEF HandlerOK
        <4>2. /\ \A k \in Tools : tool[k] \in {"EXECUTED", "FAILED"}
              /\ op[h].done = 0 <=> \A k \in Tools : tool[k] # "EXECUTED"
              /\ op[h].failed = 0 <=> \A k \in Tools : tool[k] # "FAILED"
          BY <2>2, <4>1 DEF CountsOK, Tools
        <4> QED BY <1>1, <1>3, <2>1, <2>2, <3>2, <4>2 DEF RunOK, EndsOK
      <3> QED BY <3>1, <3>2
    <2>5. Onward(run, tool, run', tool)
      BY <1>2, <1>3 DEF Onward, Early, Terminal
    <2> QED BY <2>3, <2>4, <2>5 DEF RunOK
  <1> QED BY <1>3, <1>4, <1>5, <1>6, StatusStep, IdleHandler DEF OpDone, OperatorInv

LEMMA AroundStep ==
  ASSUME OperatorInv, ConsentChanges \/ TokenExpires
  PROVE  OperatorInv'
  <1>1. CASE ConsentChanges
    <2>1. /\ ConsentOK(consent') /\ consent'.direct = consent.direct /\ consent'.changes > 0
          /\ UNCHANGED <<run, tool, op, effect, accepted, crossed>>
      <3>1. PICK b, n : /\ consent' = [consent EXCEPT !.on = b, !.changes = n]
                        /\ n = consent.changes + 1
        BY <1>1, Zenon DEF ConsentChanges
      <3>2. ConsentOK(consent)
        BY DEF OperatorInv, RowsOK
      <3>3. DOMAIN consent' = DOMAIN consent /\ consent'.direct = consent.direct /\ consent'.changes = n
        BY <3>1, <3>2 DEF ConsentOK
      <3>4. n \in Nat /\ n > 0
        BY <3>1, <3>2 DEF ConsentOK
      <3>5. UNCHANGED <<run, tool, op, effect, accepted, crossed>>
        BY <1>1 DEF ConsentChanges, HistorySame
      <3> QED BY <3>2, <3>3, <3>4, <3>5 DEF ConsentOK
    <2>2. RowsOK' /\ EffectsOK(run', tool', effect')
      BY <2>1 DEF OperatorInv, RowsOK
    <2>3. ASSUME ~crossed
          PROVE  /\ RunOK(run', tool', accepted', consent')
                 /\ \A h \in OpHandlers : HandlerOK(op'[h], run', tool', consent')
      BY <2>1, <2>3 DEF OperatorInv, RunOK, EndsOK, HandlerOK, ConsentOK
    <2> QED BY <2>1, <2>2, <2>3 DEF OperatorInv
  <1>2. CASE TokenExpires
    <2>1. /\ run' \in Runs /\ run'.round = run.round /\ run'.output = run.output
          /\ run'.status = run.status
          /\ UNCHANGED <<consent, tool, op, effect, accepted, crossed>>
      BY <1>2 DEF OperatorInv, RowsOK, Runs, TokenExpires, HistorySame
    <2>2. RowsOK' /\ EffectsOK(run', tool', effect')
      BY <2>1 DEF OperatorInv, RowsOK, EffectsOK
    <2>3. ASSUME ~crossed
          PROVE  /\ RunOK(run', tool', accepted', consent')
                 /\ \A h \in OpHandlers : HandlerOK(op'[h], run', tool', consent')
      BY <2>1, <2>3 DEF OperatorInv, RunOK, PlanOK, EndsOK, HandlerOK
    <2> QED BY <2>1, <2>2, <2>3 DEF OperatorInv
  <1> QED BY <1>1, <1>2

LEMMA OperatorStep == OperatorInv /\ [OperatorNext]_operatorVars => OperatorInv'
  <1> SUFFICES ASSUME OperatorInv, [OperatorNext]_operatorVars PROVE OperatorInv'
    OBVIOUS
  <1>1. CASE UNCHANGED operatorVars
    BY <1>1 DEF operatorVars, OperatorInv, RowsOK
  <1>2. CASE ConsentChanges \/ TokenExpires
    BY <1>2, AroundStep
  <1>3. ASSUME NEW h \in OpHandlers,
               \/ createRun(h) \/ getRun(h) \/ ShowToken(h) \/ confirmRun(h) \/ continueRun(h)
               \/ cancelRun(h) \/ PublishPlan(h)
        PROVE  OperatorInv'
    <2>1. CASE getRun(h)
      BY <2>1, LookStep DEF getRun
    <2> QED BY <1>3, <2>1, CreateStep, ShowStep, ConfirmStep, ContinueStep, CancelStep, PublishStep
  <1>4. ASSUME NEW h \in OpHandlers,
               \/ awaitClarification(h) \/ succeedWithoutTools(h)
               \/ failRun(h) \/ replaceSteps(h) \/ BeginExecution(h) \/ BeforeSteps(h)
        PROVE  OperatorInv'
    BY <1>4, ClarifyStep, NoToolsStep, PrepareStep, BeginStep, BeforeStep
  <1>5. ASSUME NEW h \in OpHandlers,
               \/ ListSteps(h) \/ PassStep(h) \/ executeStep(h) \/ StepThrows(h)
               \/ markStepFailed(h) \/ finishRun(h) \/ HandlerDies(h)
        PROVE  OperatorInv'
    <2>1. CASE HandlerDies(h)
      BY <2>1, DoneStep DEF HandlerDies
    <2> QED BY <1>5, <2>1, ListStep, PassStepStep, ExecuteStep, ThrowStep, FailStep, FinishStep
  <1>6. ASSUME NEW h \in OpHandlers, NEW t \in 1..MaxTokens, acceptConfirmation(h, t)
        PROVE  OperatorInv'
    BY <1>6, AcceptStep
  <1>7. ASSUME NEW h \in OpHandlers, NEW a \in Outputs, AskPlanner(h, a)
        PROVE  OperatorInv'
    BY <1>7, AskStep
  <1> QED BY <1>1, <1>2, <1>3, <1>4, <1>5, <1>6, <1>7 DEF OperatorNext

LEMMA TruthOfRun == OperatorInv => RunTellsTruth
  <1> SUFFICES ASSUME OperatorInv PROVE RunTellsTruth
    OBVIOUS
  <1>1. \A x \in (1..MaxRounds) \X Tools : effect[x] <= 1
    BY DEF OperatorInv, EffectsOK
  <1>2. ASSUME ~crossed
        PROVE  /\ ConfirmedBeforeActing /\ SucceededIsWhole /\ CanceledIsNothing
               /\ FailedIsNothing /\ PartialIsSome
    <2>1. RunOK(run, tool, accepted, consent) /\ StepRows(tool)
      BY <1>2 DEF OperatorInv, RowsOK
    <2>2. /\ \A k \in Took : tool # <<>> /\ tool[k] = "EXECUTED"
          /\ \A k \in Tools : tool # <<>> /\ tool[k] = "EXECUTED" => k \in Took
          /\ Took \subseteq Tools
      BY DEF OperatorInv, EffectsOK, Took
    <2>3. tool # <<>> => DOMAIN tool = Tools
      BY <2>1 DEF StepRows
    <2>4. ConfirmedBeforeActing
      BY <2>1, <2>2 DEF ConfirmedBeforeActing, RunOK, PlanOK
    <2>5. SucceededIsWhole
      BY <2>1, <2>3 DEF SucceededIsWhole, RunOK, EndsOK
    <2>6. CanceledIsNothing /\ FailedIsNothing
      BY <2>1, <2>2 DEF CanceledIsNothing, FailedIsNothing, RunOK, EndsOK
    <2>7. PartialIsSome
      <3> SUFFICES ASSUME run.status = "PARTIAL" PROVE Took # {} /\ Took # DOMAIN tool
        BY DEF PartialIsSome
      <3>1. tool # <<>> /\ DOMAIN tool = Tools
        BY <2>1, <2>3 DEF RunOK, EndsOK
      <3>2. PICK i \in Tools : tool[i] = "EXECUTED"
        BY <2>1 DEF RunOK, EndsOK
      <3>3. PICK j \in Tools : tool[j] # "EXECUTED"
        BY <2>1 DEF RunOK, EndsOK
      <3>4. i \in Took /\ j \notin Took
        BY <2>2, <3>1, <3>2, <3>3
      <3> QED BY <3>1, <3>4
    <2> QED BY <2>4, <2>5, <2>6, <2>7
  <1> QED BY <1>1, <1>2 DEF RunTellsTruth

(* However many handlers serve repeated requests of one run, and whichever *)
(* of them die, a tool of the operator takes effect at most once a round;  *)
(* and the status of the run tells what took effect, but for the two cases *)
(* RunTellsTruth names. *)
THEOREM RunsAlwaysTellTruth == OperatorInit /\ [][OperatorNext]_operatorVars => []RunTellsTruth
  BY OperatorStart, OperatorStep, TruthOfRun, PTL
-----------------------------------------------------------------------------
(* The self-hosted model.  The pool is exact because a call in the queue   *)
(* is there once and has no slot, so that the slot of a call that leaves   *)
(* goes to exactly one other.  The circuit is obeyed because a permit of   *)
(* the present generation was given while it was not open, and a call in   *)
(* flight has the generation it was sent with.                             *)
CallFields == {"pc", "gen", "half", "slot", "aborted", "sent"}

HasSlot(k) == k.slot

Holders == {c \in Calls : HasSlot(call[c])}

CallsOK ==
    /\ DOMAIN call = Calls
    /\ \A c \in Calls : DOMAIN call[c] = CallFields

PoolOK ==
    /\ IsFiniteSet(Holders) /\ active = Cardinality(Holders) /\ active <= MaxSlots
    /\ waiters # <<>> => active = MaxSlots
    /\ \A c \in Calls : call[c].pc \in {"idle", "queued"} => ~HasSlot(call[c])

QueueOK ==
    /\ waiters \in Seq(Calls)
    /\ \A j, k \in 1..Len(waiters) : j # k => waiters[j] # waiters[k]
    /\ \A k \in 1..Len(waiters) : call[waiters[k]].pc = "queued"

(* A permit, and the generation of the circuit it is of. *)
PermitOK(k) ==
    /\ k.gen \in Nat /\ k.gen <= circuit.gen
    /\ k.pc \in {"queued", "granted"} /\ k.gen = circuit.gen => circuit.open # "open"
    /\ k.pc \in {"sent", "streaming"} => k.sent = k.gen

CircuitOK ==
    /\ DOMAIN circuit = {"gen", "open", "probing", "failures"}
    /\ circuit.gen \in Nat
    /\ \A c \in Calls : PermitOK(call[c])

InferenceInv == CallsOK /\ PoolOK /\ QueueOK /\ CircuitOK

LEMMA InferenceInitInv == InferenceInit => InferenceInv
<1> SUFFICES ASSUME InferenceInit PROVE InferenceInv
  OBVIOUS
<1>1. /\ call = [c \in Calls |-> NoCall] /\ waiters = <<>> /\ active = 0
      /\ circuit = [gen |-> 0, open |-> "closed", probing |-> FALSE, failures |-> 0]
  BY DEF InferenceInit
<1>2. /\ DOMAIN NoCall = CallFields /\ NoCall.pc = "idle" /\ NoCall.gen = 0
  BY DEF NoCall, CallFields
<1>3. ~HasSlot(NoCall)
  BY DEF NoCall, HasSlot
<1>4. CallsOK /\ QueueOK /\ CircuitOK
  BY <1>1, <1>2 DEF CallsOK, QueueOK, CircuitOK, PermitOK
<1>5. Holders = {}
  BY <1>1, <1>3 DEF Holders
<1>6. PoolOK
  BY <1>1, <1>3, <1>5, FS_EmptySet, LocalInferenceAssumption DEF PoolOK
<1> QED
  BY <1>4, <1>6 DEF InferenceInv

-----------------------------------------------------------------------------
(* The circuit moves on within a generation only by time; it opens or      *)
(* closes into the next one, and closes for a call of the present one.     *)
CircuitMoves(p) ==
    /\ DOMAIN circuit' = {"gen", "open", "probing", "failures"}
    /\ \/ circuit'.gen = circuit.gen /\ circuit'.open = circuit.open
       \/ circuit'.gen = circuit.gen + 1 /\ circuit'.open = "open"
       \/ circuit'.gen = circuit.gen + 1 /\ circuit'.open = "closed" /\ p.gen = circuit.gen

LEMMA CircuitKept ==
    ASSUME NEW k, DOMAIN k = {"gen", "open", "probing", "failures"}, NEW p
    PROVE  /\ DOMAIN releaseHalfOpenPermit(k, p) = {"gen", "open", "probing", "failures"}
           /\ releaseHalfOpenPermit(k, p).gen = k.gen /\ releaseHalfOpenPermit(k, p).open = k.open
           /\ DOMAIN claimCircuitPermission(k) = {"gen", "open", "probing", "failures"}
           /\ claimCircuitPermission(k).gen = k.gen /\ claimCircuitPermission(k).open = k.open
BY DEF releaseHalfOpenPermit, claimCircuitPermission

LEMMA CircuitFails ==
    ASSUME CircuitOK, NEW p, circuit' = recordFailure(circuit, p)
    PROVE  CircuitMoves(p)
<1>1. PICK n : n = circuit.failures + 1
  OBVIOUS
<1>2. \/ circuit' = circuit
      \/ circuit' = openCircuit(circuit)
      \/ circuit' = openCircuit([circuit EXCEPT !.failures = n])
      \/ circuit' = [circuit EXCEPT !.failures = n]
  BY <1>1 DEF recordFailure
<1> QED
  BY <1>2 DEF openCircuit, CircuitMoves, CircuitOK

LEMMA CircuitSucceeds ==
    ASSUME CircuitOK, NEW p, circuit' = recordSuccess(circuit, p)
    PROVE  CircuitMoves(p)
<1>1. \/ circuit' = circuit
      \/ /\ p.gen = circuit.gen
         /\ circuit' = [gen |-> circuit.gen + 1, open |-> "closed", probing |-> FALSE, failures |-> 0]
      \/ \E n : circuit' = [circuit EXCEPT !.failures = n]
  BY DEF recordSuccess
<1> QED
  BY <1>1 DEF CircuitMoves, CircuitOK

LEMMA CircuitReleases ==
    ASSUME CircuitOK, NEW p, circuit' = releaseHalfOpenPermit(circuit, p)
    PROVE  CircuitMoves(p)
BY CircuitKept DEF CircuitMoves, CircuitOK

(* The calls that do not act keep their permits, if they are granted or    *)
(* not, whatever the circuit does.                                         *)
SameCall(d) ==
    \/ call'[d] = call[d]
    \/ /\ call[d].pc = "queued" /\ call'[d].pc = "granted" /\ call'[d].gen = call[d].gen

LEMMA PermitsKept ==
    ASSUME CircuitOK, NEW c \in Calls, NEW p, CircuitMoves(p),
           \A d \in Calls \ {c} : SameCall(d),
           call'[c].gen \in Nat, call'[c].gen <= circuit.gen,
           call'[c].pc \notin {"queued", "granted"},
           call'[c].pc \in {"sent", "streaming"} => call'[c].sent = call'[c].gen
    PROVE  CircuitOK'
<1>1. circuit'.gen \in Nat /\ circuit.gen \in Nat /\ circuit.gen <= circuit'.gen
  BY DEF CircuitOK, CircuitMoves
<1>2. ASSUME NEW d \in Calls \ {c}
      PROVE  /\ call'[d].gen \in Nat /\ call'[d].gen <= circuit'.gen
             /\ call'[d].pc \in {"queued", "granted"} /\ call'[d].gen = circuit'.gen
                  => circuit'.open # "open"
             /\ call'[d].pc \in {"sent", "streaming"} => call'[d].sent = call'[d].gen
  <2>1. /\ call[d].gen \in Nat /\ call[d].gen <= circuit.gen
        /\ call[d].pc \in {"queued", "granted"} /\ call[d].gen = circuit.gen
             => circuit.open # "open"
        /\ call[d].pc \in {"sent", "streaming"} => call[d].sent = call[d].gen
    BY DEF CircuitOK, PermitOK
  <2>2. /\ call'[d].gen = call[d].gen
        /\ call'[d].pc \in {"queued", "granted"} => call[d].pc \in {"queued", "granted"}
        /\ call'[d].pc \in {"sent", "streaming"} => call'[d] = call[d]
    BY DEF SameCall
  <2>3. call[d].gen = circuit'.gen =>
          /\ call[d].gen = circuit.gen
          /\ circuit'.open = circuit.open
    BY <1>1, <2>1 DEF CircuitMoves
  <2> QED
    BY <1>1, <2>1, <2>2, <2>3
<1>3. \A d \in Calls : PermitOK(call[d])'
  BY <1>1, <1>2 DEF PermitOK
<1> QED
  BY <1>1, <1>3 DEF CircuitOK, CircuitMoves

-----------------------------------------------------------------------------
(* The slots.  A step that changes one call and not the queue, ...         *)
LEMMA OneCallMoves ==
    ASSUME CallsOK, PoolOK, QueueOK, NEW c \in Calls, NEW next, DOMAIN next = CallFields,
           call' = [call EXCEPT ![c] = next], waiters' = waiters, active' = active,
           call[c].pc # "queued", next.pc \notin {"idle", "queued"} \/ ~HasSlot(next),
           HasSlot(next) <=> HasSlot(call[c])
    PROVE  CallsOK' /\ PoolOK' /\ QueueOK' /\ call'[c] = next
           /\ \A d \in Calls \ {c} : SameCall(d)
<1>1. /\ call'[c] = next /\ DOMAIN call' = Calls
      /\ \A d \in Calls \ {c} : call'[d] = call[d]
  BY DEF CallsOK
<1>2. CallsOK'
  BY <1>1 DEF CallsOK
<1>3. \A d \in Calls : HasSlot(call'[d]) <=> HasSlot(call[d])
  BY <1>1
<1>4. Holders' = Holders
  BY <1>3 DEF Holders
<1>5. PoolOK'
  BY <1>1, <1>4 DEF PoolOK
<1>6. QueueOK'
  <2>1. \A k \in 1..Len(waiters) : waiters[k] \in Calls /\ waiters[k] # c
    BY DEF QueueOK
  <2> QED
    BY <1>1, <2>1 DEF QueueOK
<1> QED
  BY <1>1, <1>2, <1>5, <1>6 DEF SameCall

(* ... and the one place where slots are given back.                       *)
LEMMA SlotGivenBack ==
    ASSUME CallsOK, PoolOK, QueueOK, NEW c \in Calls, NEW next, DOMAIN next = CallFields,
           call[c].pc # "queued", next.pc # "queued", ~HasSlot(next), releaseSlotOnce(c, next)
    PROVE  CallsOK' /\ PoolOK' /\ QueueOK' /\ call'[c] = next
           /\ \A d \in Calls \ {c} : SameCall(d)
<1>1. CASE ~HasSlot(call[c])
  <2>1. call' = [call EXCEPT ![c] = next] /\ active' = active /\ waiters' = waiters
    BY <1>1 DEF releaseSlotOnce, HasSlot
  <2> QED
    BY <1>1, <2>1, OneCallMoves
<1>2. CASE HasSlot(call[c]) /\ waiters = <<>>
  <2>1. /\ active' = active - 1 /\ waiters' = <<>>
        /\ call' = [d \in Calls |-> IF d = c THEN next ELSE call[d]]
    BY <1>2 DEF releaseSlotOnce, HasSlot
  <2>2. /\ call'[c] = next /\ DOMAIN call' = Calls
        /\ \A d \in Calls \ {c} : call'[d] = call[d]
    BY <2>1
  <2>3. Holders' = Holders \ {c}
    BY <2>2 DEF Holders
  <2>4. c \in Holders /\ IsFiniteSet(Holders) /\ active = Cardinality(Holders)
    BY <1>2 DEF Holders, PoolOK
  <2>5. IsFiniteSet(Holders') /\ active' = Cardinality(Holders')
    BY <2>1, <2>3, <2>4, FS_RemoveElement
  <2>6. active' <= MaxSlots
    <3>1. active \in Nat /\ active <= MaxSlots
      BY <2>4, FS_CardinalityType DEF PoolOK
    <3> QED
      BY <2>1, <3>1, LocalInferenceAssumption
  <2>7. PoolOK'
    BY <2>1, <2>2, <2>5, <2>6 DEF PoolOK
  <2>8. QueueOK' /\ CallsOK'
    BY <2>1, <2>2 DEF QueueOK, CallsOK
  <2> QED
    BY <2>2, <2>7, <2>8 DEF SameCall
<1>3. CASE HasSlot(call[c]) /\ waiters # <<>>
  <2>1. PICK h : h = Head(waiters)
    OBVIOUS
  <2>2. /\ waiters \in Seq(Calls) /\ h \in Calls /\ h = waiters[1] /\ Len(waiters) >= 1
        /\ Len(waiters) \in Nat
    BY <1>3, <2>1 DEF QueueOK
  <2>3. call[h].pc = "queued" /\ h # c
    BY <2>2 DEF QueueOK
  <2>4. PICK granted : granted = [call[h] EXCEPT !.pc = "granted", !.slot = TRUE]
    OBVIOUS
  <2>5. /\ active' = active /\ waiters' = Tail(waiters)
        /\ call' = [d \in Calls |-> IF d = c THEN next
                                    ELSE IF d = h THEN granted ELSE call[d]]
    BY <1>3, <2>1, <2>4 DEF releaseSlotOnce, HasSlot
  <2>6. /\ DOMAIN granted = CallFields /\ granted.pc = "granted" /\ granted.gen = call[h].gen
    BY <2>2, <2>4 DEF CallsOK, CallFields
  <2>7. HasSlot(granted)
    <3>1. "slot" \in DOMAIN call[h]
      BY <2>2 DEF CallsOK, CallFields
    <3>2. granted.slot = TRUE
      BY <2>4, <3>1
    <3> QED
      BY <3>2 DEF HasSlot
  <2>8. /\ call'[c] = next /\ call'[h] = granted /\ DOMAIN call' = Calls
        /\ \A d \in Calls \ {c, h} : call'[d] = call[d]
    BY <2>2, <2>3, <2>5
  <2>9. h \notin Holders /\ c \in Holders
    BY <1>3, <2>2, <2>3 DEF PoolOK, Holders
  <2>10. Holders' = (Holders \ {c}) \cup {h}
    BY <2>2, <2>3, <2>7, <2>8 DEF Holders
  <2>11. IsFiniteSet(Holders') /\ Cardinality(Holders') = Cardinality(Holders)
    <3>1. /\ IsFiniteSet(Holders \ {c})
          /\ Cardinality(Holders \ {c}) = Cardinality(Holders) - 1
          /\ Cardinality(Holders) \in Nat
      BY <2>9, FS_RemoveElement, FS_CardinalityType DEF PoolOK
    <3>2. h \notin Holders \ {c}
      BY <2>9
    <3>3. /\ IsFiniteSet((Holders \ {c}) \cup {h})
          /\ Cardinality((Holders \ {c}) \cup {h}) = Cardinality(Holders \ {c}) + 1
      BY <3>1, <3>2, FS_AddElement
    <3> QED
      BY <2>10, <3>1, <3>3
  <2>12. PoolOK'
    <3>1. \A d \in Calls : call'[d].pc \in {"idle", "queued"} => ~HasSlot(call'[d])
      BY <2>6, <2>8 DEF PoolOK
    <3> QED
      BY <1>3, <2>5, <2>11, <3>1 DEF PoolOK
  <2>13. /\ waiters' \in Seq(Calls) /\ Len(waiters') = Len(waiters) - 1
         /\ \A k \in 1..Len(waiters') : waiters'[k] = waiters[k + 1] /\ k + 1 \in 1..Len(waiters)
    BY <1>3, <2>2, <2>5
  <2>14. QueueOK'
    <3>1. ASSUME NEW j \in 1..Len(waiters'), NEW k \in 1..Len(waiters'), j # k
          PROVE  waiters'[j] # waiters'[k]
      <4>1. /\ waiters'[j] = waiters[j + 1] /\ j + 1 \in 1..Len(waiters)
            /\ waiters'[k] = waiters[k + 1] /\ k + 1 \in 1..Len(waiters)
        BY <2>13
      <4>2. j + 1 # k + 1
        BY <3>1
      <4> QED
        BY <4>1, <4>2 DEF QueueOK
    <3>2. ASSUME NEW k \in 1..Len(waiters') PROVE call'[waiters'[k]].pc = "queued"
      <4>1. /\ waiters'[k] = waiters[k + 1] /\ k + 1 \in 1..Len(waiters) /\ k + 1 # 1
            /\ 1 \in 1..Len(waiters)
        BY <2>2, <2>13, <3>2
      <4>2. waiters'[k] \in Calls /\ call[waiters'[k]].pc = "queued" /\ waiters'[k] # h
        BY <2>2, <4>1 DEF QueueOK
      <4> QED
        BY <2>8, <4>2
    <3> QED
      BY <2>13, <3>1, <3>2 DEF QueueOK
  <2>15. CallsOK'
    BY <2>6, <2>8 DEF CallsOK
  <2> QED
    BY <2>3, <2>6, <2>8, <2>12, <2>14, <2>15 DEF SameCall
<1> QED
  BY <1>1, <1>2, <1>3

-----------------------------------------------------------------------------
(* The action half of SlotsAreExact.                                       *)
CircuitObeyed ==
    /\ \A c \in Calls : ~CallAt(c, "sent") /\ call'[c].pc = "sent" => circuit.open # "open"
    /\ circuit.open # "closed" /\ circuit'.open = "closed" =>
           \E c \in Calls : call[c].pc \in {"sent", "streaming"} /\ call[c].sent = circuit.gen

InferenceStep == InferenceInv' /\ CircuitObeyed

LEMMA NoCallIs ==
    /\ DOMAIN NoCall = CallFields /\ NoCall.pc = "idle" /\ NoCall.gen = 0 /\ ~HasSlot(NoCall)
<1>1. DOMAIN NoCall = CallFields /\ NoCall.pc = "idle" /\ NoCall.gen = 0
  BY DEF NoCall, CallFields
<1>2. ~HasSlot(NoCall)
  BY DEF NoCall, HasSlot
<1> QED
  BY <1>1, <1>2

(* A call ends, or its listener lets go of the slot.                       *)
LEMMA CallLeaves ==
    ASSUME InferenceInv, NEW c \in Calls, NEW next, DOMAIN next = CallFields,
           next.pc \in {"idle", "streaming", "closing"}, ~HasSlot(next),
           next.gen \in Nat, next.gen <= circuit.gen,
           next.pc = "streaming" => next.sent = next.gen,
           call[c].pc # "queued", releaseSlotOnce(c, next), CircuitMoves(call[c]),
           circuit.open # "closed" /\ circuit'.open = "closed" =>
             call[c].pc \in {"sent", "streaming"}
    PROVE  InferenceStep
<1>1. CallsOK /\ PoolOK /\ QueueOK /\ CircuitOK
  BY DEF InferenceInv
<1>2. /\ CallsOK' /\ PoolOK' /\ QueueOK' /\ call'[c] = next
      /\ \A d \in Calls \ {c} : SameCall(d)
  BY <1>1, SlotGivenBack
<1>3. CircuitOK'
  BY <1>1, <1>2, PermitsKept
<1>4. \A d \in Calls : call'[d].pc = "sent" => call[d].pc = "sent"
  BY <1>2 DEF SameCall
<1>5. ASSUME circuit.open # "closed", circuit'.open = "closed"
      PROVE  call[c].pc \in {"sent", "streaming"} /\ call[c].sent = circuit.gen
  <2>1. call[c].gen = circuit.gen /\ call[c].pc \in {"sent", "streaming"}
    BY <1>5 DEF CircuitMoves
  <2> QED
    BY <1>1, <2>1 DEF CircuitOK, PermitOK
<1> QED
  BY <1>1, <1>2, <1>3, <1>4, <1>5 DEF InferenceStep, InferenceInv, CircuitObeyed, CallAt

(* streamChat: a free slot, or the end of the queue.                       *)
LEMMA CallStarts ==
    ASSUME InferenceInv, NEW c \in Calls, streamChat(c)
    PROVE  InferenceStep
<1>1. CallsOK /\ PoolOK /\ QueueOK /\ CircuitOK
  BY DEF InferenceInv
<1>2. /\ CallAt(c, "idle") /\ circuit.open # "open" /\ circuit.gen \in Nat
      /\ circuit' = claimCircuitPermission(circuit)
  BY <1>1 DEF streamChat, claimRefused, CircuitOK
<1>3. /\ DOMAIN circuit' = {"gen", "open", "probing", "failures"}
      /\ circuit'.gen = circuit.gen /\ circuit'.open = circuit.open
  BY <1>1, <1>2, CircuitKept DEF CircuitOK
<1>4. PICK called : called = [NoCall EXCEPT !.gen = circuit'.gen, !.half = circuit.open = "elapsed"]
  OBVIOUS
<1>5. DOMAIN called = CallFields /\ called.gen = circuit.gen
  BY <1>3, <1>4 DEF NoCall, CallFields
<1>6. ~HasSlot(called)
  BY <1>4 DEF NoCall, HasSlot
<1>7. c \notin Holders
  BY <1>1, <1>2 DEF Holders, PoolOK, CallAt
<1>8. /\ \A d \in Calls : PermitOK(call[d]) /\ active \in Nat
      /\ IsFiniteSet(Holders) /\ active = Cardinality(Holders) /\ active <= MaxSlots
  BY <1>1, FS_CardinalityType DEF PoolOK, CircuitOK
<1>9. ASSUME NEW next, DOMAIN next = CallFields, next.pc \in {"granted", "queued"},
             next.gen = circuit.gen, call' = [call EXCEPT ![c] = next]
      PROVE  /\ CallsOK' /\ CircuitOK' /\ CircuitObeyed /\ call'[c] = next
             /\ \A d \in Calls \ {c} : call'[d] = call[d]
  <2>1. /\ call'[c] = next /\ DOMAIN call' = Calls
        /\ \A d \in Calls \ {c} : call'[d] = call[d]
    BY <1>1, <1>9 DEF CallsOK
  <2>2. \A d \in Calls : PermitOK(call[d])'
    BY <1>2, <1>3, <1>8, <1>9, <2>1 DEF PermitOK
  <2> QED
    BY <1>1, <1>2, <1>3, <1>9, <2>1, <2>2 DEF CallsOK, CircuitOK, CircuitObeyed, CallAt
<1>10. CASE active < MaxSlots /\ active' = active + 1 /\ waiters' = waiters
            /\ call' = [call EXCEPT ![c] = [called EXCEPT !.pc = "granted", !.slot = TRUE]]
  <2>1. PICK next : next = [called EXCEPT !.pc = "granted", !.slot = TRUE]
    OBVIOUS
  <2>2. DOMAIN next = CallFields /\ next.pc = "granted" /\ next.gen = circuit.gen
    BY <1>5, <2>1 DEF CallFields
  <2>3. HasSlot(next)
    <3>1. next.slot = TRUE
      BY <1>5, <2>1 DEF CallFields
    <3> QED
      BY <3>1 DEF HasSlot
  <2>4. /\ CallsOK' /\ CircuitOK' /\ CircuitObeyed /\ call'[c] = next
        /\ \A d \in Calls \ {c} : call'[d] = call[d]
    BY <1>9, <1>10, <2>1, <2>2
  <2>5. Holders' = Holders \cup {c}
    BY <2>3, <2>4 DEF Holders
  <2>6. IsFiniteSet(Holders') /\ active' = Cardinality(Holders')
    BY <1>7, <1>8, <1>10, <2>5, FS_AddElement
  <2>7. active' <= MaxSlots /\ waiters = <<>>
    BY <1>1, <1>8, <1>10, LocalInferenceAssumption DEF PoolOK
  <2>8. PoolOK'
    BY <1>1, <1>10, <2>2, <2>4, <2>6, <2>7 DEF PoolOK
  <2>9. QueueOK'
    BY <1>1, <1>10, <2>7 DEF QueueOK
  <2> QED
    BY <2>4, <2>8, <2>9 DEF InferenceStep, InferenceInv
<1>11. CASE active >= MaxSlots /\ active' = active /\ waiters' = Append(waiters, c)
            /\ call' = [call EXCEPT ![c] = [called EXCEPT !.pc = "queued"]]
  <2>1. PICK next : next = [called EXCEPT !.pc = "queued"]
    OBVIOUS
  <2>2. DOMAIN next = CallFields /\ next.pc = "queued" /\ next.gen = circuit.gen
        /\ next.slot = called.slot
    BY <1>5, <2>1 DEF CallFields
  <2>3. ~HasSlot(next)
    BY <1>6, <2>2 DEF HasSlot
  <2>4. /\ CallsOK' /\ CircuitOK' /\ CircuitObeyed /\ call'[c] = next
        /\ \A d \in Calls \ {c} : call'[d] = call[d]
    BY <1>9, <1>11, <2>1, <2>2
  <2>5. Holders' = Holders
    BY <1>7, <2>3, <2>4 DEF Holders
  <2>6. active = MaxSlots
    BY <1>8, <1>11, LocalInferenceAssumption
  <2>7. PoolOK'
    BY <1>1, <1>11, <2>3, <2>4, <2>5, <2>6 DEF PoolOK
  <2>8. /\ waiters \in Seq(Calls) /\ Len(waiters) \in Nat
        /\ waiters' \in Seq(Calls) /\ Len(waiters') = Len(waiters) + 1
        /\ waiters'[Len(waiters) + 1] = c
        /\ \A k \in 1..Len(waiters) : waiters'[k] = waiters[k] /\ waiters[k] # c
    <3>1. \A k \in 1..Len(waiters) : waiters[k] # c
      BY <1>1, <1>2 DEF QueueOK, CallAt
    <3> QED
      BY <1>1, <1>11, <3>1 DEF QueueOK
  <2>9. QueueOK'
    <3>1. ASSUME NEW j \in 1..Len(waiters'), NEW k \in 1..Len(waiters'), j # k
          PROVE  waiters'[j] # waiters'[k]
      <4>1. \A i \in 1..Len(waiters') : i \in 1..Len(waiters) \/ i = Len(waiters) + 1
        BY <2>8
      <4> QED
        BY <1>1, <2>8, <3>1, <4>1 DEF QueueOK
    <3>2. ASSUME NEW k \in 1..Len(waiters') PROVE call'[waiters'[k]].pc = "queued"
      <4>1. k \in 1..Len(waiters) \/ k = Len(waiters) + 1
        BY <2>8
      <4>2. CASE k \in 1..Len(waiters)
        <5>1. waiters[k] \in Calls \ {c} /\ call[waiters[k]].pc = "queued"
          BY <1>1, <2>8, <4>2 DEF QueueOK
        <5> QED
          BY <2>4, <2>8, <4>2, <5>1
      <4> QED
        BY <2>2, <2>4, <2>8, <4>1, <4>2
    <3> QED
      BY <2>8, <3>1, <3>2 DEF QueueOK
  <2> QED
    BY <2>4, <2>7, <2>9 DEF InferenceStep, InferenceInv
<1> QED
  BY <1>2, <1>4, <1>10, <1>11 DEF streamChat

(* A queued call that is aborted leaves the queue and nothing else.        *)
LEMMA QueuedAborts ==
    ASSUME InferenceInv, NEW c \in Calls, abortQueued(c)
    PROVE  InferenceStep
<1>1. CallsOK /\ PoolOK /\ QueueOK /\ CircuitOK
  BY DEF InferenceInv
<1>2. /\ call[c].pc = "queued" /\ call' = [call EXCEPT ![c] = NoCall] /\ active' = active
      /\ circuit' = releaseHalfOpenPermit(circuit, call[c])
  BY DEF abortQueued, CallAt
<1>3. PICK k \in DOMAIN waiters : waiters[k] = c /\ waiters' = RemoveAt(waiters, k)
  BY DEF abortQueued
<1>4. waiters \in Seq(Calls) /\ Len(waiters) \in Nat /\ k \in 1..Len(waiters)
  BY <1>1, <1>3 DEF QueueOK
<1>5. /\ waiters' \in Seq(Calls) /\ Len(waiters') = Len(waiters) - 1
      /\ \A j \in 1..Len(waiters') :
           waiters'[j] = IF j < k THEN waiters[j] ELSE waiters[j + 1]
  <2>1. PICK s, t : s = SubSeq(waiters, 1, k - 1) /\ t = SubSeq(waiters, k + 1, Len(waiters))
    OBVIOUS
  <2>2. /\ s \in Seq(Calls) /\ Len(s) = k - 1 /\ \A j \in 1..(k - 1) : s[j] = waiters[j]
    BY <1>4, <2>1, SubSeqProperties
  <2>3. /\ t \in Seq(Calls) /\ Len(t) = Len(waiters) - k
        /\ \A j \in 1..(Len(waiters) - k) : t[j] = waiters[k + j]
    BY <1>4, <2>1, SubSeqProperties
  <2>4. waiters' = s \o t
    BY <1>3, <2>1 DEF RemoveAt
  <2>5. /\ waiters' \in Seq(Calls) /\ Len(waiters') = Len(s) + Len(t)
        /\ \A j \in 1..(Len(s) + Len(t)) : waiters'[j] = IF j <= Len(s) THEN s[j] ELSE t[j - Len(s)]
    BY <2>2, <2>3, <2>4, ConcatProperties
  <2>6. Len(waiters') = Len(waiters) - 1
    BY <1>4, <2>2, <2>3, <2>5
  <2>7. ASSUME NEW j \in 1..Len(waiters')
        PROVE  waiters'[j] = IF j < k THEN waiters[j] ELSE waiters[j + 1]
    <3>1. CASE j < k
      <4>1. j \in 1..(k - 1) /\ j <= Len(s) /\ j \in 1..(Len(s) + Len(t))
        BY <1>4, <2>2, <2>5, <2>6, <2>7, <3>1
      <4> QED
        BY <2>2, <2>5, <3>1, <4>1
    <3>2. CASE ~(j < k)
      <4>0. /\ k \in Nat /\ j \in Nat /\ Len(waiters) \in Nat /\ k >= 1 /\ k <= Len(waiters)
            /\ j >= 1 /\ j <= Len(waiters) - 1 /\ j >= k
        BY <1>4, <2>6, <2>7, <3>2
      <4>1. /\ j - (k - 1) \in 1..(Len(waiters) - k) /\ ~(j <= Len(s))
            /\ j \in 1..(Len(s) + Len(t)) /\ k + (j - (k - 1)) = j + 1
        <5>1. j - (k - 1) \in 1..(Len(waiters) - k) /\ k + (j - (k - 1)) = j + 1
          BY <4>0
        <5>2. ~(j <= Len(s)) /\ Len(s) \in Nat /\ Len(t) \in Nat
          BY <4>0, <2>2, <2>3
        <5>3. j \in 1..(Len(s) + Len(t))
          BY <4>0, <2>2, <2>3
        <5> QED
          BY <5>1, <5>2, <5>3
      <4>2. waiters'[j] = t[j - (k - 1)]
        BY <2>2, <2>5, <4>1
      <4> QED
        BY <2>3, <3>2, <4>1, <4>2
    <3> QED
      BY <3>1, <3>2
  <2> QED
    BY <2>5, <2>6, <2>7
<1>6. PICK place \in [1..Len(waiters') -> 1..Len(waiters)] :
        /\ \A j \in 1..Len(waiters') : waiters'[j] = waiters[place[j]] /\ place[j] # k
        /\ \A i, j \in 1..Len(waiters') : i # j => place[i] # place[j]
  <2>1. PICK place : place = [j \in 1..Len(waiters') |-> IF j < k THEN j ELSE j + 1]
    OBVIOUS
  <2>2. Len(waiters') \in Int /\ k \in Int /\ Len(waiters) \in Int
    BY <1>4, <1>5
  <2>3. \A j \in 1..Len(waiters') : place[j] = IF j < k THEN j ELSE j + 1
    BY <2>1
  <2>4. ASSUME NEW j \in 1..Len(waiters')
        PROVE  place[j] \in 1..Len(waiters) /\ place[j] # k /\ waiters'[j] = waiters[place[j]]
    BY <1>4, <1>5, <2>2, <2>3, <2>4
  <2>5. ASSUME NEW i \in 1..Len(waiters'), NEW j \in 1..Len(waiters'), i # j
        PROVE  place[i] # place[j]
    BY <2>2, <2>3, <2>5
  <2>6. place \in [1..Len(waiters') -> 1..Len(waiters)]
    BY <2>1, <2>4
  <2> QED
    BY <2>4, <2>5, <2>6
<1>7. /\ call'[c] = NoCall /\ DOMAIN call' = Calls
      /\ \A d \in Calls \ {c} : call'[d] = call[d]
  BY <1>1, <1>2 DEF CallsOK
<1>8. CallsOK'
  BY <1>1, <1>7, NoCallIs DEF CallsOK
<1>9. Holders' = Holders
  <2>1. ~HasSlot(call[c])
    BY <1>1, <1>2 DEF PoolOK
  <2> QED
    BY <1>7, <2>1, NoCallIs DEF Holders
<1>10. PoolOK'
  <2>1. waiters # <<>>
    BY <1>4
  <2> QED
    BY <1>1, <1>2, <1>7, <1>9, <2>1, NoCallIs DEF PoolOK
<1>11. QueueOK'
  <2>1. ASSUME NEW i \in 1..Len(waiters'), NEW j \in 1..Len(waiters'), i # j
        PROVE  waiters'[i] # waiters'[j]
    <3>1. /\ place[i] \in 1..Len(waiters) /\ place[j] \in 1..Len(waiters) /\ place[i] # place[j]
          /\ waiters'[i] = waiters[place[i]] /\ waiters'[j] = waiters[place[j]]
      BY <1>6, <2>1
    <3> QED
      BY <1>1, <3>1 DEF QueueOK
  <2>2. ASSUME NEW j \in 1..Len(waiters') PROVE call'[waiters'[j]].pc = "queued"
    <3>1. place[j] \in 1..Len(waiters) /\ place[j] # k /\ waiters'[j] = waiters[place[j]]
      BY <1>6
    <3>2. waiters[place[j]] \in Calls \ {c} /\ call[waiters[place[j]]].pc = "queued"
      BY <1>1, <1>3, <1>4, <3>1 DEF QueueOK
    <3> QED
      BY <1>7, <3>1, <3>2
  <2> QED
    BY <1>5, <2>1, <2>2 DEF QueueOK
<1>12. CircuitMoves(call[c])
  BY <1>1, <1>2, CircuitReleases
<1>13. CircuitOK'
  BY <1>1, <1>7, <1>12, NoCallIs, PermitsKept DEF SameCall, CircuitOK
<1>14. CircuitObeyed
  <2>1. circuit'.open = circuit.open
    BY <1>1, <1>2, CircuitKept DEF CircuitOK
  <2> QED
    BY <1>7, <2>1, NoCallIs DEF CircuitObeyed, CallAt
<1> QED
  BY <1>8, <1>10, <1>11, <1>13, <1>14 DEF InferenceStep, InferenceInv

(* A call that got its slot is sent under a permit of the present circuit. *)
LEMMA CallSent ==
    ASSUME InferenceInv, NEW c \in Calls, refreshCircuitPermit(c)
    PROVE  InferenceStep
<1>1. CallsOK /\ PoolOK /\ QueueOK /\ CircuitOK
  BY DEF InferenceInv
<1>2. call[c].pc = "granted" /\ DOMAIN call[c] = CallFields /\ PermitOK(call[c])
  BY <1>1 DEF refreshCircuitPermit, CallAt, CallsOK, CircuitOK
<1>3. /\ DOMAIN circuit = {"gen", "open", "probing", "failures"} /\ circuit.gen \in Nat
      /\ \A d \in Calls : PermitOK(call[d])
  BY <1>1 DEF CircuitOK
<1>4. ASSUME NEW next, DOMAIN next = CallFields, next.pc = "sent", next.gen = circuit.gen,
             next.sent = circuit.gen, next.slot = call[c].slot,
             call' = [call EXCEPT ![c] = next], active' = active, waiters' = waiters,
             circuit'.gen = circuit.gen, circuit'.open = circuit.open,
             DOMAIN circuit' = DOMAIN circuit, circuit.open # "open"
      PROVE  InferenceStep
  <2>1. HasSlot(next) <=> HasSlot(call[c])
    BY <1>4 DEF HasSlot
  <2>2. /\ CallsOK' /\ PoolOK' /\ QueueOK' /\ call'[c] = next
        /\ \A d \in Calls \ {c} : SameCall(d)
    BY <1>1, <1>2, <1>4, <2>1, OneCallMoves
  <2>3. CircuitMoves(call[c])
    BY <1>3, <1>4 DEF CircuitMoves
  <2>4. CircuitOK'
    BY <1>1, <1>3, <1>4, <2>2, <2>3, PermitsKept
  <2> QED
    BY <1>4, <2>2, <2>4 DEF InferenceStep, InferenceInv, CircuitObeyed
<1>5. CASE call[c].gen = circuit.gen
  <2>1. PICK next : next = [call[c] EXCEPT !.pc = "sent", !.sent = circuit.gen]
    OBVIOUS
  <2>2. /\ call' = [call EXCEPT ![c] = next] /\ circuit' = circuit
        /\ active' = active /\ waiters' = waiters
    BY <1>1, <1>5, <2>1 DEF refreshCircuitPermit, CallsOK
  <2>3. /\ DOMAIN next = CallFields /\ next.pc = "sent" /\ next.gen = circuit.gen
        /\ next.sent = circuit.gen /\ next.slot = call[c].slot
    BY <1>2, <1>5, <2>1 DEF CallFields
  <2>4. circuit.open # "open"
    BY <1>2, <1>5 DEF PermitOK
  <2> QED
    BY <1>4, <2>2, <2>3, <2>4
<1>6. CASE call[c].gen # circuit.gen /\ claimRefused(circuit)
  <2>1. releaseSlotOnce(c, NoCall) /\ circuit' = circuit
    BY <1>6 DEF refreshCircuitPermit
  <2>2. CircuitMoves(call[c])
    BY <1>3, <2>1 DEF CircuitMoves
  <2> QED
    BY <1>2, <1>3, <2>1, <2>2, NoCallIs, CallLeaves
<1>7. CASE call[c].gen # circuit.gen /\ ~claimRefused(circuit)
  <2>1. PICK next : next = [call[c] EXCEPT !.pc = "sent", !.sent = circuit.gen,
                                           !.gen = circuit.gen, !.half = circuit.open = "elapsed"]
    OBVIOUS
  <2>2. /\ call' = [call EXCEPT ![c] = next] /\ circuit' = claimCircuitPermission(circuit)
        /\ active' = active /\ waiters' = waiters
    BY <1>1, <1>7, <2>1 DEF refreshCircuitPermit, CallsOK
  <2>3. /\ DOMAIN next = CallFields /\ next.pc = "sent" /\ next.gen = circuit.gen
        /\ next.sent = circuit.gen /\ next.slot = call[c].slot
    BY <1>2, <2>1 DEF CallFields
  <2>4. circuit.open # "open"
    BY <1>7 DEF claimRefused
  <2>5. /\ circuit'.gen = circuit.gen /\ circuit'.open = circuit.open
        /\ DOMAIN circuit' = DOMAIN circuit
    BY <1>3, <2>2, CircuitKept
  <2> QED
    BY <1>4, <2>2, <2>3, <2>4, <2>5
<1> QED
  BY <1>5, <1>6, <1>7

(* A call that was sent: its answer, its end, its failure and its abort.   *)
LEMMA CallGoesOn ==
    ASSUME InferenceInv, NEW c \in Calls,
           \/ FetchFails(c) \/ FetchCanceled(c) \/ FetchRejected(c) \/ FetchAnswers(c)
           \/ ReadTerminal(c) \/ ReadEnds(c) \/ ReadFails(c)
           \/ \E why \in {"canceled", "timeout"} : releaseOnAbort(c, why)
    PROVE  InferenceStep
<1>1. CallsOK /\ PoolOK /\ QueueOK /\ CircuitOK
  BY DEF InferenceInv
<1>2. /\ DOMAIN call[c] = CallFields /\ PermitOK(call[c]) /\ circuit.gen \in Nat
      /\ DOMAIN circuit = {"gen", "open", "probing", "failures"}
  BY <1>1 DEF CallsOK, CircuitOK
<1>3. ASSUME call[c].pc \in {"sent", "streaming", "closing"}, releaseSlotOnce(c, NoCall),
             CircuitMoves(call[c]),
             circuit.open # "closed" /\ circuit'.open = "closed" =>
               call[c].pc \in {"sent", "streaming"}
      PROVE  InferenceStep
  BY <1>2, <1>3, NoCallIs, CallLeaves
<1>4. CASE FetchFails(c)
  BY <1>1, <1>3, <1>4, CircuitFails DEF FetchFails, CallAt
<1>5. CASE FetchCanceled(c)
  BY <1>1, <1>3, <1>5, CircuitReleases DEF FetchCanceled, CallAt
<1>6. CASE FetchRejected(c)
  BY <1>1, <1>3, <1>6, CircuitSucceeds DEF FetchRejected, CallAt
<1>7. CASE ReadEnds(c)
  <2>1. circuit'.open = circuit.open
    BY <1>2, <1>7, CircuitKept DEF ReadEnds
  <2> QED
    BY <1>1, <1>3, <1>7, <2>1, CircuitReleases DEF ReadEnds
<1>8. CASE ReadFails(c)
  <2>1. PICK k : k = recordFailure(circuit, call[c])
    OBVIOUS
  <2>2. /\ DOMAIN k = {"gen", "open", "probing", "failures"}
        /\ \/ k.gen = circuit.gen /\ k.open = circuit.open
           \/ k.gen = circuit.gen + 1 /\ k.open = "open"
    <3>1. PICK n : n = circuit.failures + 1
      OBVIOUS
    <3>2. \/ k = circuit
          \/ k = openCircuit(circuit)
          \/ k = openCircuit([circuit EXCEPT !.failures = n])
          \/ k = [circuit EXCEPT !.failures = n]
      BY <2>1, <3>1 DEF recordFailure
    <3> QED
      BY <1>2, <3>2 DEF openCircuit
  <2>3. circuit' = releaseHalfOpenPermit(k, call[c]) /\ call[c].pc = "streaming"
        /\ releaseSlotOnce(c, NoCall)
    BY <1>8, <2>1 DEF ReadFails, CallAt
  <2>4. CircuitMoves(call[c])
    BY <2>2, <2>3, CircuitKept DEF CircuitMoves
  <2> QED
    BY <1>3, <2>3, <2>4
<1>9. ASSUME NEW why \in {"canceled", "timeout"}, releaseOnAbort(c, why) PROVE InferenceStep
  <2>1. PICK next : next = [call[c] EXCEPT !.aborted = why, !.slot = FALSE]
    OBVIOUS
  <2>2. /\ DOMAIN next = CallFields /\ next.pc = call[c].pc /\ next.gen = call[c].gen
        /\ next.sent = call[c].sent /\ next.slot = FALSE
    BY <1>2, <2>1 DEF CallFields
  <2>3. ~HasSlot(next)
    BY <2>2 DEF HasSlot
  <2>4. /\ call[c].pc \in {"streaming", "closing"} /\ releaseSlotOnce(c, next)
        /\ circuit' = releaseHalfOpenPermit(circuit, call[c])
    BY <1>9, <2>1 DEF releaseOnAbort
  <2>5. circuit'.open = circuit.open /\ CircuitMoves(call[c])
    BY <1>1, <1>2, <2>4, CircuitKept, CircuitReleases
  <2>6. next.gen \in Nat /\ next.gen <= circuit.gen /\ (next.pc = "streaming" => next.sent = next.gen)
    BY <1>2, <2>2 DEF PermitOK
  <2> QED
    BY <2>2, <2>3, <2>4, <2>5, <2>6, CallLeaves
<1>10. ASSUME NEW pc, \/ call[c].pc = "sent" /\ pc = "streaming"
                      \/ call[c].pc = "streaming" /\ pc = "closing",
              call' = [call EXCEPT ![c].pc = pc], active' = active, waiters' = waiters,
              CircuitMoves(call[c])
       PROVE  InferenceStep
  <2>1. PICK next : next = [call[c] EXCEPT !.pc = pc]
    OBVIOUS
  <2>2. /\ DOMAIN next = CallFields /\ next.pc = pc /\ next.gen = call[c].gen
        /\ next.sent = call[c].sent /\ next.slot = call[c].slot
    BY <1>2, <2>1 DEF CallFields
  <2>3. HasSlot(next) <=> HasSlot(call[c])
    BY <2>2 DEF HasSlot
  <2>4. call' = [call EXCEPT ![c] = next]
    BY <1>1, <1>10, <2>1 DEF CallsOK
  <2>5. call[c].pc \in {"sent", "streaming"} /\ pc \in {"streaming", "closing"}
    BY <1>10
  <2>6. /\ CallsOK' /\ PoolOK' /\ QueueOK' /\ call'[c] = next
        /\ \A d \in Calls \ {c} : SameCall(d)
    BY <1>1, <1>10, <2>2, <2>3, <2>4, <2>5, OneCallMoves
  <2>7. CircuitOK'
    BY <1>1, <1>2, <1>10, <2>2, <2>5, <2>6, PermitsKept DEF PermitOK
  <2>8. \A d \in Calls : call'[d].pc = "sent" => call[d].pc = "sent"
    BY <2>2, <2>5, <2>6 DEF SameCall
  <2>9. ASSUME circuit.open # "closed", circuit'.open = "closed"
        PROVE  call[c].sent = circuit.gen
    BY <1>2, <1>10, <2>5, <2>9 DEF CircuitMoves, PermitOK
  <2> QED
    BY <2>5, <2>6, <2>7, <2>8, <2>9 DEF InferenceStep, InferenceInv, CircuitObeyed, CallAt
<1>11. CASE FetchAnswers(c)
  <2>1. CircuitMoves(call[c])
    BY <1>2, <1>11 DEF FetchAnswers, CircuitMoves
  <2>2. /\ call[c].pc = "sent" /\ call' = [call EXCEPT ![c].pc = "streaming"]
        /\ active' = active /\ waiters' = waiters
    BY <1>11 DEF FetchAnswers, CallAt
  <2> QED
    BY <1>10, <2>1, <2>2
<1>12. CASE ReadTerminal(c)
  <2>1. CircuitMoves(call[c])
    BY <1>1, <1>12, CircuitSucceeds DEF ReadTerminal
  <2>2. /\ call[c].pc = "streaming" /\ call' = [call EXCEPT ![c].pc = "closing"]
        /\ active' = active /\ waiters' = waiters
    BY <1>12 DEF ReadTerminal, CallAt
  <2> QED
    BY <1>10, <2>1, <2>2
<1> QED
  BY <1>4, <1>5, <1>6, <1>7, <1>8, <1>9, <1>11, <1>12

LEMMA InferenceNextInv == InferenceInv /\ [InferenceNext]_inferenceVars =>
                            InferenceInv' /\ [CircuitObeyed]_inferenceVars
<1> SUFFICES ASSUME InferenceInv, [InferenceNext]_inferenceVars
             PROVE  InferenceStep \/ (InferenceInv' /\ UNCHANGED inferenceVars)
  BY DEF InferenceStep
<1>1. CASE UNCHANGED inferenceVars
  <2>1. circuit' = circuit /\ active' = active /\ waiters' = waiters /\ call' = call
    BY <1>1 DEF inferenceVars
  <2> QED
    BY <1>1, <2>1 DEF InferenceInv, CallsOK, PoolOK, QueueOK, CircuitOK, PermitOK, Holders
<1>2. CASE CircuitElapses
  <2>1. /\ circuit.open = "open" /\ circuit' = [circuit EXCEPT !.open = "elapsed"]
        /\ active' = active /\ waiters' = waiters /\ call' = call
    BY <1>2 DEF CircuitElapses
  <2>2. CircuitOK'
    BY <2>1 DEF InferenceInv, CircuitOK, PermitOK
  <2>3. circuit'.open = "elapsed"
    BY <2>1 DEF InferenceInv, CircuitOK
  <2>4. CallsOK' /\ PoolOK' /\ QueueOK'
    BY <2>1 DEF InferenceInv, CallsOK, PoolOK, QueueOK, Holders
  <2>5. CircuitObeyed
    BY <2>1, <2>3 DEF CircuitObeyed, CallAt
  <2> QED
    BY <2>2, <2>4, <2>5 DEF InferenceStep, InferenceInv
<1>3. CASE \E c \in Calls : streamChat(c)
  BY <1>3, CallStarts
<1>4. ASSUME NEW c \in Calls,
             \/ abortQueued(c) \/ refreshCircuitPermit(c) \/ FetchFails(c) \/ FetchCanceled(c)
             \/ FetchRejected(c) \/ FetchAnswers(c) \/ ReadTerminal(c) \/ ReadEnds(c)
             \/ ReadFails(c) \/ \E why \in {"canceled", "timeout"} : releaseOnAbort(c, why)
      PROVE  InferenceStep
  BY <1>4, QueuedAborts, CallSent, CallGoesOn
<1> QED
  BY <1>1, <1>2, <1>3, <1>4 DEF InferenceNext

(* For any number of calls, slots and places in the queue: every slot in   *)
(* use is of one call, none is free while a call waits, none is sent while *)
(* the circuit is open, and only a call of its present generation closes   *)
(* it.                                                                     *)
THEOREM SlotsStayExact ==
    InferenceInit /\ [][InferenceNext]_inferenceVars => SlotsAreExact
<1> DEFINE Exact == /\ active = Cardinality({c \in Calls : call[c].slot})
                    /\ active <= MaxSlots
                    /\ waiters # <<>> => active = MaxSlots
<1>1. InferenceInv => Exact
  BY DEF InferenceInv, PoolOK, Holders, HasSlot
<1>2. InferenceInit /\ [][InferenceNext]_inferenceVars => []Exact /\ [][CircuitObeyed]_inferenceVars
  <2> HIDE DEF Exact
  <2> QED
    BY <1>1, InferenceInitInv, InferenceNextInv, PTL
<1> QED
  BY <1>2, PTL DEF SlotsAreExact, CircuitObeyed
=============================================================================
