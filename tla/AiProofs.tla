------------------------------ MODULE AiProofs ------------------------------
(***************************************************************************)
(* Proofs about paid AI requests, for any number of messages, streams,     *)
(* invocations, turns and workers, with the reconciler beside them: what   *)
(* the rows say of money is what the engine did, and a turn that only one  *)
(* worker at a time executes is paid once.                                 *)
(*                                                                         *)
(* Whoever writes a row has decided before what it writes: a stream, a     *)
(* worker or the reconciler.  So the invariant says, for each step of      *)
(* each program, what it still knows of its row and its reservation; and   *)
(* it stays true because nobody takes back what others may know: a         *)
(* reservation is never made again, never changes its amount and is        *)
(* settled or released for good, a text stays, and the estimate of a turn  *)
(* is written once.                                                        *)
(*                                                                         *)
(* A worker that is the only one at its invocation knows more: that nobody *)
(* else asks the provider, stores an answer or admits its turn, so that    *)
(* the provider was not asked yet where it is about to ask.                *)
(***************************************************************************)
EXTENDS TextChat, ExternalAi, WellFoundedInduction, TLAPS

aiVars == <<ledgerVars, chatVars, turnVars>>

(* Messages and turns over one ledger, with one reconciler.                *)
AiBehaviour ==
    /\ LedgerInit /\ ChatInit /\ TurnsInit
    /\ [][(ChatNext /\ UNCHANGED turnVars) \/ (TurnsNext /\ UNCHANGED chatVars)]_aiVars

-----------------------------------------------------------------------------
(* Rows.                                                                   *)

ReqFields == {"status", "fin", "est", "cost", "text", "linked"}
TurnFields == {"status", "calls", "results", "bad"}
ResvFields == {"status", "est", "amount"}

HasText(row) == row.text

HasCalls(trn) == trn.calls

RowOK(row) == DOMAIN row = ReqFields /\ row.est \in Nat /\ row.cost \in Nat

ResvOK(rv) == DOMAIN rv = ResvFields /\ rv.est \in Nat /\ rv.amount \in Nat /\ rv.amount <= rv.est

Agrees(row, rv) ==
    /\ row.fin \in {"SETTLED", "RELEASED"} => rv.status = row.fin
    /\ row.status = "SUCCEEDED" => rv.status = "SETTLED" /\ HasText(row)

LedgerOK ==
    /\ DOMAIN req = Requests /\ DOMAIN turn = Requests /\ DOMAIN resv = Requests
    /\ \A r \in Requests : /\ RowOK(req[r]) /\ DOMAIN turn[r] = TurnFields
                           /\ ResvOK(resv[r]) /\ Agrees(req[r], resv[r])

(* A reservation goes on: it stays as it was made, and what is decided     *)
(* stays decided.                                                          *)
ResvGoes(old, new) ==
    /\ old.status # "NONE" => new.status # "NONE" /\ new.est = old.est
    /\ old.status \in {"SETTLED", "RELEASED"} => new.status = old.status

RowGoes(old, new) ==
    /\ HasText(old) => HasText(new)
    /\ old.status # "NONE" => new.status # "NONE"

(* What no step of anybody takes back ...                                  *)
Onward(r) ==
    /\ RowGoes(req[r], req'[r]) /\ ResvGoes(resv[r], resv'[r])
    /\ r \in Turns /\ turn[r].status # "NONE" =>
         turn'[r].status # "NONE" /\ req'[r].est = req[r].est

(* ... and what only the owner of a row changes.                           *)
Quiet(r) ==
    /\ Onward(r)
    /\ req'[r].est = req[r].est
    /\ HasText(req'[r]) => HasText(req[r])
    /\ HasCalls(turn'[r]) => HasCalls(turn[r])
    /\ req'[r].status = "CREATED" => req[r].status = "CREATED"

(* A write that leaves to the owner what is the owner's. *)
SameOwner(r, row, trn) ==
    /\ row.est = req[r].est
    /\ HasText(row) => HasText(req[r])
    /\ HasCalls(trn) => HasCalls(turn[r])
    /\ row.status = "CREATED" => req[r].status = "CREATED"

(* A table whose row r becomes v. *)
RowAt(new, old, r, v) ==
    /\ DOMAIN new = Requests /\ new[r] = v
    /\ \A q \in Requests \ {r} : new[q] = old[q]

LEMMA PutRow ==
  ASSUME NEW old, NEW new, NEW r \in Requests, NEW v, DOMAIN old = Requests,
         new = [old EXCEPT ![r] = v]
  PROVE  RowAt(new, old, r, v)
  BY DEF RowAt

LEMMA AgreesKept ==
  ASSUME NEW row, NEW old, NEW new, Agrees(row, old), ResvGoes(old, new)
  PROVE  Agrees(row, new)
  BY DEF Agrees, ResvGoes

LEMMA NothingMoves ==
  ASSUME LedgerOK, req' = req, turn' = turn, resv' = resv
  PROVE  LedgerOK' /\ \A q \in Requests : Quiet(q)
<1>1. LedgerOK'
  BY DEF LedgerOK
<1> QED
  BY <1>1 DEF Quiet, Onward, RowGoes, ResvGoes

(* A call of the engine. *)
LEMMA EngineMoves ==
  ASSUME LedgerOK, NEW r \in Requests, NEW rv, RowAt(resv', resv, r, rv),
         ResvOK(rv), ResvGoes(resv[r], rv), req' = req, turn' = turn
  PROVE  LedgerOK' /\ \A q \in Requests : Quiet(q)
<1>1. ASSUME NEW q \in Requests
      PROVE  ResvOK(resv'[q]) /\ ResvGoes(resv[q], resv'[q])
  <2>1. CASE q = r
    BY <2>1 DEF RowAt
  <2>2. CASE q # r
    BY <2>2 DEF RowAt, LedgerOK, ResvGoes
  <2> QED
    BY <2>1, <2>2
<1>2. \A q \in Requests : Agrees(req[q], resv'[q])
  BY <1>1, AgreesKept DEF LedgerOK
<1>3. LedgerOK'
  BY <1>1, <1>2 DEF LedgerOK, RowAt
<1> QED
  BY <1>1, <1>3 DEF Quiet, Onward, RowGoes

(* A write of a row, or of a row and its turn. *)
LEMMA RowMoves ==
  ASSUME LedgerOK, NEW r \in Requests, NEW row, NEW trn,
         RowAt(req', req, r, row), RowAt(turn', turn, r, trn), resv' = resv,
         RowOK(row), DOMAIN trn = TurnFields, Agrees(row, resv[r]), RowGoes(req[r], row),
         r \in Turns /\ turn[r].status # "NONE" => trn.status # "NONE" /\ row.est = req[r].est
  PROVE  /\ LedgerOK' /\ req'[r] = row /\ turn'[r] = trn
         /\ \A q \in Requests : Onward(q)
         /\ \A q \in Requests \ {r} : Quiet(q)
         /\ SameOwner(r, row, trn) => Quiet(r)
<1>1. req'[r] = row /\ turn'[r] = trn
  BY DEF RowAt
<1>2. \A q \in Requests \ {r} : req'[q] = req[q] /\ turn'[q] = turn[q] /\ resv'[q] = resv[q]
  BY DEF RowAt
<1>3. LedgerOK'
  <2>1. ASSUME NEW q \in Requests
        PROVE  /\ RowOK(req'[q]) /\ DOMAIN turn'[q] = TurnFields
               /\ ResvOK(resv'[q]) /\ Agrees(req'[q], resv'[q])
    <3>1. CASE q = r
      BY <1>1, <3>1 DEF LedgerOK
    <3>2. CASE q # r
      BY <1>2, <3>2 DEF LedgerOK
    <3> QED
      BY <3>1, <3>2
  <2> QED
    BY <2>1 DEF LedgerOK, RowAt
<1>4. \A q \in Requests \ {r} : Quiet(q)
  BY <1>2 DEF Quiet, Onward, RowGoes, ResvGoes
<1>5. Onward(r)
  BY <1>1 DEF Onward, ResvGoes
<1>6. SameOwner(r, row, trn) => Quiet(r)
  BY <1>1, <1>5 DEF Quiet, SameOwner
<1>7. \A q \in Requests : Onward(q)
  BY <1>4, <1>5 DEF Quiet
<1> QED
  BY <1>1, <1>3, <1>4, <1>6, <1>7

(* The calls of the engine. *)
LEMMA Reserves ==
  ASSUME LedgerOK, NEW r \in Requests, NEW est \in Nat, Reservable(r, est), reserveUsage(r, est),
         req' = req, turn' = turn
  PROVE  /\ LedgerOK' /\ \A q \in Requests : Quiet(q)
         /\ resv'[r].status # "NONE" /\ resv'[r].est = est
<1>0. DOMAIN resv = Requests /\ ResvOK(resv[r])
  BY DEF LedgerOK
<1>1. CASE resv[r].status = "NONE"
  <2>1. PICK rv : rv = [status |-> "ACTIVE", est |-> est, amount |-> 0]
    OBVIOUS
  <2>2. RowAt(resv', resv, r, rv)
    BY <1>0, <1>1, <2>1, PutRow DEF reserveUsage
  <2>3. ResvOK(rv) /\ ResvGoes(resv[r], rv) /\ rv.status # "NONE" /\ rv.est = est
    BY <1>1, <2>1 DEF ResvOK, ResvGoes, ResvFields
  <2>4. resv'[r] = rv
    BY <2>2 DEF RowAt
  <2> QED
    BY <2>2, <2>3, <2>4, EngineMoves
<1>2. CASE resv[r].status # "NONE"
  BY <1>2, NothingMoves DEF reserveUsage, Reservable
<1> QED
  BY <1>1, <1>2

LEMMA Settles ==
  ASSUME LedgerOK, NEW r \in Requests, NEW cost \in Nat, Settleable(r, cost),
         settleUsage(r, cost), cost <= resv[r].est, req' = req, turn' = turn
  PROVE  /\ LedgerOK' /\ \A q \in Requests : Quiet(q)
         /\ resv'[r].status = "SETTLED" /\ resv'[r].est = resv[r].est
<1>0. DOMAIN resv = Requests /\ ResvOK(resv[r])
  BY DEF LedgerOK
<1>1. PICK rv : rv = [resv[r] EXCEPT !.status = "SETTLED", !.amount = cost]
  OBVIOUS
<1>2. resv' = [resv EXCEPT ![r] = rv]
  BY <1>0, <1>1 DEF settleUsage
<1>3. RowAt(resv', resv, r, rv)
  BY <1>0, <1>2, PutRow
<1>4. ResvOK(rv) /\ rv.status = "SETTLED" /\ rv.est = resv[r].est
  BY <1>0, <1>1 DEF ResvOK, ResvFields
<1>5. resv[r].status \in {"ACTIVE", "SETTLED"}
  BY DEF Settleable
<1>6. ResvGoes(resv[r], rv)
  BY <1>4, <1>5 DEF ResvGoes
<1>7. resv'[r] = rv
  BY <1>3 DEF RowAt
<1> QED
  BY <1>3, <1>4, <1>6, <1>7, EngineMoves

LEMMA Releases ==
  ASSUME LedgerOK, NEW r \in Requests, Releasable(r), releaseUsage(r), req' = req, turn' = turn
  PROVE  /\ LedgerOK' /\ \A q \in Requests : Quiet(q)
         /\ resv'[r].status = "RELEASED" /\ resv'[r].est = resv[r].est
<1>0. DOMAIN resv = Requests /\ ResvOK(resv[r])
  BY DEF LedgerOK
<1>1. PICK rv : rv = [resv[r] EXCEPT !.status = "RELEASED"]
  OBVIOUS
<1>2. resv' = [resv EXCEPT ![r] = rv]
  BY <1>0, <1>1 DEF releaseUsage
<1>3. RowAt(resv', resv, r, rv)
  BY <1>0, <1>2, PutRow
<1>4. ResvOK(rv) /\ rv.status = "RELEASED" /\ rv.est = resv[r].est
  BY <1>0, <1>1 DEF ResvOK, ResvFields
<1>5. resv[r].status \in {"ACTIVE", "RELEASED"}
  BY DEF Releasable
<1>6. ResvGoes(resv[r], rv)
  BY <1>4, <1>5 DEF ResvGoes
<1>7. resv'[r] = rv
  BY <1>3 DEF RowAt
<1> QED
  BY <1>3, <1>4, <1>6, <1>7, EngineMoves

-----------------------------------------------------------------------------
(* The reconciler works on what it read.                                   *)

DecidedFields == {"pc", "r", "row", "trn", "rv", "do"}

(* What c, the reconciler at work on a request, knows of the request's row *)
(* and reservation.                                                        *)
RecKnows(c, row, rv) ==
    /\ c.pc \in {"found", "decided"}
    /\ RowOK(c.row)
    /\ HasText(c.row) => HasText(row)
    /\ c.pc = "decided" =>
         /\ DOMAIN c = DecidedFields /\ DOMAIN c.rv = ResvFields
         /\ c.do = "settle" => rv.status # "NONE" /\ c.row.cost <= rv.est
         /\ c.do = "finish" => rv.status = "SETTLED"
         /\ c.do = "fail" => c.rv.status = "NONE"
                               \/ (c.rv.status = "RELEASED" /\ rv.status = "RELEASED")

RecOK == rec.pc # "idle" => rec.r \in Requests /\ RecKnows(rec, req[rec.r], resv[rec.r])

LEMMA RecKnowsStill ==
  ASSUME NEW c, NEW row, NEW row2, NEW rv, NEW rv2, RecKnows(c, row, rv),
         RowGoes(row, row2), ResvGoes(rv, rv2)
  PROVE  RecKnows(c, row2, rv2)
  BY DEF RecKnows, RowGoes, ResvGoes

LEMMA RecRests ==
  ASSUME RecOK, rec' = rec, \A q \in Requests : Onward(q)
  PROVE  RecOK'
<1>1. CASE rec.pc = "idle"
  BY <1>1 DEF RecOK
<1>2. CASE rec.pc # "idle"
  <2>1. PICK c : c = rec
    OBVIOUS
  <2>2. PICK r : r = rec.r
    OBVIOUS
  <2>3. r \in Requests /\ RecKnows(c, req[r], resv[r])
    BY <1>2, <2>1, <2>2 DEF RecOK
  <2>4. RecKnows(c, req'[r], resv'[r])
    BY <2>3, RecKnowsStill DEF Onward
  <2> QED
    BY <2>1, <2>2, <2>3, <2>4 DEF RecOK
<1> QED
  BY <1>1, <1>2

LEMMA RecIdle ==
  ASSUME rec' = Idle
  PROVE  RecOK'
  BY DEF RecOK, Idle

LEMMA RecLearns ==
  ASSUME NEW c, NEW r \in Requests, rec' = c, c.r = r, RecKnows(c, req'[r], resv'[r])
  PROVE  RecOK'
  BY DEF RecOK

(* A scan, and the search for the reservation. *)
LEMMA ScanFits ==
  ASSUME LedgerOK, NEW r \in Requests, NEW alive, reconcile(r, alive)
  PROVE  LedgerOK' /\ RecOK' /\ \A q \in Requests : Quiet(q)
<1>1. LedgerOK' /\ \A q \in Requests : Quiet(q)
  BY NothingMoves DEF reconcile
<1>2. PICK c : c = [pc |-> "found", r |-> r, row |-> req[r], trn |-> turn[r]]
  OBVIOUS
<1>3. rec' = c /\ c.r = r /\ c.pc = "found" /\ c.row = req[r]
  BY <1>2 DEF reconcile
<1>4. RowOK(req[r]) /\ req' = req /\ resv' = resv
  BY DEF LedgerOK, reconcile
<1>5. RecKnows(c, req[r], resv[r])
  BY <1>3, <1>4 DEF RecKnows
<1> QED
  BY <1>1, <1>3, <1>4, <1>5, RecLearns

LEMMA RemedyKnows ==
  ASSUME NEW row, NEW trn, NEW rv, RowOK(row), ResvOK(rv), NEW do, do = Remedy(row, trn, rv)
  PROVE  /\ do = "settle" => rv.status # "NONE" /\ row.cost <= rv.est
         /\ do = "finish" => rv.status = "SETTLED"
         /\ do = "fail" => rv.status \in {"NONE", "RELEASED"}
  BY DEF Remedy

LEMMA FindFits ==
  ASSUME LedgerOK, RecOK, findReservation
  PROVE  LedgerOK' /\ RecOK' /\ \A q \in Requests : Quiet(q)
<1>1. LedgerOK' /\ \A q \in Requests : Quiet(q)
  BY NothingMoves DEF findReservation
<1>2. PICK r : r = rec.r
  OBVIOUS
<1>3. PICK do : do = Remedy(rec.row, rec.trn, resv[r])
  OBVIOUS
<1>4. PICK c : c = [pc |-> "decided", r |-> r, row |-> rec.row, trn |-> rec.trn,
                    rv |-> resv[r], do |-> do]
  OBVIOUS
<1>5. /\ r \in Requests /\ RowOK(rec.row) /\ ResvOK(resv[r])
      /\ HasText(rec.row) => HasText(req[r])
  BY <1>2 DEF RecOK, RecKnows, findReservation, LedgerOK
<1>6. rec' = c /\ req' = req /\ resv' = resv
  BY <1>2, <1>3, <1>4 DEF findReservation
<1>7. /\ do = "settle" => resv[r].status # "NONE" /\ rec.row.cost <= resv[r].est
      /\ do = "finish" => resv[r].status = "SETTLED"
      /\ do = "fail" => resv[r].status \in {"NONE", "RELEASED"}
  BY <1>3, <1>5, RemedyKnows
<1>8. /\ c.pc = "decided" /\ c.r = r /\ c.row = rec.row /\ c.rv = resv[r] /\ c.do = do
      /\ DOMAIN c = DecidedFields
  BY <1>4 DEF DecidedFields
<1>9. RecKnows(c, req[r], resv[r])
  <2>1. RowOK(c.row) /\ (HasText(c.row) => HasText(req[r]))
    BY <1>5, <1>8
  <2>2. DOMAIN c.rv = ResvFields /\ c.rv.status = resv[r].status
    BY <1>5, <1>8 DEF ResvOK
  <2>3. c.do = "settle" => resv[r].status # "NONE" /\ c.row.cost <= resv[r].est
    BY <1>7, <1>8
  <2> QED
    BY <1>7, <1>8, <2>1, <2>2, <2>3 DEF RecKnows
<1> QED
  BY <1>1, <1>5, <1>6, <1>8, <1>9, RecLearns

LEMMA ReconcileUsageFits ==
  ASSUME LedgerOK, RecOK, reconcileDurableUsage
  PROVE  LedgerOK' /\ RecOK' /\ \A q \in Requests : Quiet(q)
<1>1. PICK r : r = rec.r
  OBVIOUS
<1>2. /\ r \in Requests /\ RecKnows(rec, req[r], resv[r]) /\ rec.pc = "decided"
      /\ rec.do = "settle" /\ req' = req /\ turn' = turn
  BY <1>1 DEF RecOK, reconcileDurableUsage, Decided
<1>3. /\ rec.row.cost \in Nat /\ rec.row.cost <= resv[r].est
      /\ RowOK(rec.row) /\ (HasText(rec.row) => HasText(req[r]))
      /\ DOMAIN rec = DecidedFields /\ DOMAIN rec.rv = ResvFields
  BY <1>2 DEF RecKnows, RowOK
<1>4. CASE Settleable(r, rec.row.cost)
  <2>1. settleUsage(r, rec.row.cost) /\ rec' = [rec EXCEPT !.do = "finish"]
    BY <1>1, <1>4 DEF reconcileDurableUsage
  <2>2. /\ LedgerOK' /\ (\A q \in Requests : Quiet(q)) /\ resv'[r].status = "SETTLED"
    BY <1>2, <1>3, <1>4, <2>1, Settles
  <2>3. PICK c : c = [rec EXCEPT !.do = "finish"]
    OBVIOUS
  <2>4. /\ c.pc = "decided" /\ c.r = r /\ c.row = rec.row /\ c.rv = rec.rv /\ c.do = "finish"
        /\ DOMAIN c = DecidedFields
    BY <1>1, <1>2, <1>3, <2>3 DEF DecidedFields
  <2>5. RecKnows(c, req'[r], resv'[r])
    BY <1>2, <1>3, <2>2, <2>4 DEF RecKnows
  <2> QED
    BY <1>2, <2>1, <2>2, <2>3, <2>4, <2>5, RecLearns
<1>5. CASE ~Settleable(r, rec.row.cost)
  <2>1. resv' = resv /\ rec' = Idle
    BY <1>1, <1>5 DEF reconcileDurableUsage
  <2> QED
    BY <1>2, <2>1, NothingMoves, RecIdle
<1> QED
  BY <1>4, <1>5

LEMMA FailBeforeFits ==
  ASSUME LedgerOK, RecOK, failBeforeProvider
  PROVE  LedgerOK' /\ RecOK' /\ \A q \in Requests : Quiet(q)
<1>1. PICK r : r = rec.r
  OBVIOUS
<1>2. /\ r \in Requests /\ RecKnows(rec, req[r], resv[r]) /\ rec.pc = "decided"
      /\ req' = req /\ turn' = turn
  BY <1>1 DEF RecOK, failBeforeProvider, Decided
<1>3. /\ RowOK(rec.row) /\ (HasText(rec.row) => HasText(req[r]))
      /\ DOMAIN rec = DecidedFields /\ DOMAIN rec.rv = ResvFields
  BY <1>2 DEF RecKnows
<1>4. CASE Releasable(r)
  <2>1. releaseUsage(r) /\ rec' = [rec EXCEPT !.do = "fail", !.rv.status = "RELEASED"]
    BY <1>1, <1>4 DEF failBeforeProvider
  <2>2. /\ LedgerOK' /\ (\A q \in Requests : Quiet(q)) /\ resv'[r].status = "RELEASED"
    BY <1>2, <1>4, <2>1, Releases
  <2>3. PICK c : c = [rec EXCEPT !.do = "fail", !.rv.status = "RELEASED"]
    OBVIOUS
  <2>4. /\ c.pc = "decided" /\ c.r = r /\ c.row = rec.row /\ c.do = "fail"
        /\ c.rv = [rec.rv EXCEPT !.status = "RELEASED"]
        /\ DOMAIN c = DecidedFields
    BY <1>1, <1>2, <1>3, <2>3 DEF DecidedFields
  <2>5. DOMAIN c.rv = ResvFields /\ c.rv.status = "RELEASED"
    BY <1>3, <2>4 DEF ResvFields
  <2>6. RecKnows(c, req'[r], resv'[r])
    BY <1>2, <1>3, <2>2, <2>4, <2>5 DEF RecKnows
  <2> QED
    BY <1>2, <2>1, <2>2, <2>3, <2>4, <2>6, RecLearns
<1>5. CASE ~Releasable(r)
  <2>1. resv' = resv /\ rec' = Idle
    BY <1>1, <1>5 DEF failBeforeProvider
  <2> QED
    BY <1>2, <2>1, NothingMoves, RecIdle
<1> QED
  BY <1>4, <1>5

(* What the reconciler writes into a row and its turn. *)
LEMMA WriteMoves ==
  ASSUME LedgerOK, NEW r \in Requests, NEW row, NEW status, status # "NONE",
         Write(r, row, status), resv' = resv, RowOK(row), Agrees(row, resv[r]),
         row.status \notin {"NONE", "CREATED"}, row.est = req[r].est,
         HasText(row) <=> HasText(req[r])
  PROVE  LedgerOK' /\ \A q \in Requests : Quiet(q)
<1>1. PICK t : t = [turn[r] EXCEPT !.status = IF @ = "NONE" THEN @ ELSE status]
  OBVIOUS
<1>2. DOMAIN req = Requests /\ DOMAIN turn = Requests /\ DOMAIN turn[r] = TurnFields
  BY DEF LedgerOK
<1>3. turn' = [turn EXCEPT ![r] = t]
  BY <1>1, <1>2 DEF Write
<1>4. RowAt(req', req, r, row) /\ RowAt(turn', turn, r, t)
  BY <1>2, <1>3, PutRow DEF Write
<1>5. /\ DOMAIN t = TurnFields /\ t.calls = turn[r].calls
      /\ turn[r].status # "NONE" => t.status # "NONE"
  BY <1>1, <1>2 DEF TurnFields
<1>6. RowGoes(req[r], row)
  BY DEF RowGoes
<1>7. /\ LedgerOK' /\ \A q \in Requests \ {r} : Quiet(q)
      /\ SameOwner(r, row, t) => Quiet(r)
  BY <1>4, <1>5, <1>6, RowMoves
<1>8. SameOwner(r, row, t)
  BY <1>5 DEF SameOwner, HasCalls
<1> QED
  BY <1>7, <1>8

(* The row of a request with another status and another word about money. *)
Says(row, old, status, fin, linked) ==
    row = [old EXCEPT !.status = status, !.fin = fin, !.linked = linked]

LEMMA Restated ==
  ASSUME NEW old, RowOK(old), NEW status, NEW fin, NEW linked, NEW row,
         Says(row, old, status, fin, linked)
  PROVE  /\ RowOK(row) /\ row.status = status /\ row.fin = fin
         /\ row.est = old.est /\ (HasText(row) <=> HasText(old))
  BY DEF RowOK, ReqFields, HasText, Says

LEMMA FinalizeFits ==
  ASSUME LedgerOK, RecOK, Finalize
  PROVE  LedgerOK' /\ RecOK' /\ \A q \in Requests : Quiet(q)
<1>1. PICK r : r = rec.r
  OBVIOUS
<1>2. PICK status : status = IF rec.row.text /\ ~rec.trn.bad THEN "SUCCEEDED" ELSE "FAILED"
  OBVIOUS
<1>3. PICK row : row = [req[r] EXCEPT !.status = status, !.fin = "SETTLED", !.linked = TRUE]
  OBVIOUS
<1>4. /\ r \in Requests /\ RowOK(req[r]) /\ resv[r].status = "SETTLED"
      /\ HasText(rec.row) => HasText(req[r])
  BY <1>1 DEF RecOK, RecKnows, Finalize, Decided, LedgerOK
<1>5. Write(r, row, "SUCCEEDED") /\ rec' = Idle /\ resv' = resv
  BY <1>1, <1>2, <1>3 DEF Finalize
<1>6. /\ RowOK(row) /\ row.status = status /\ row.fin = "SETTLED"
      /\ row.est = req[r].est /\ (HasText(row) <=> HasText(req[r]))
  <2>1. Says(row, req[r], status, "SETTLED", TRUE)
    BY <1>3 DEF Says
  <2> QED
    BY <1>4, <2>1, Restated
<1>7. status \in {"SUCCEEDED", "FAILED"} /\ (status = "SUCCEEDED" => HasText(req[r]))
  BY <1>2, <1>4 DEF HasText
<1>8. Agrees(row, resv[r])
  BY <1>4, <1>6, <1>7 DEF Agrees
<1> QED
  BY <1>4, <1>5, <1>6, <1>7, <1>8, WriteMoves, RecIdle

LEMMA MarkFailedFits ==
  ASSUME LedgerOK, RecOK, MarkFailed
  PROVE  LedgerOK' /\ RecOK' /\ \A q \in Requests : Quiet(q)
<1>1. PICK r : r = rec.r
  OBVIOUS
<1>2. PICK fin : fin = rec.rv.status
  OBVIOUS
<1>3. PICK linked : linked = (fin # "NONE")
  OBVIOUS
<1>4. PICK row : row = [req[r] EXCEPT !.status = "FAILED", !.fin = fin, !.linked = linked]
  OBVIOUS
<1>5. /\ r \in Requests /\ RowOK(req[r])
      /\ fin = "NONE" \/ (fin = "RELEASED" /\ resv[r].status = "RELEASED")
  BY <1>1, <1>2 DEF RecOK, RecKnows, MarkFailed, Decided, LedgerOK
<1>6. Write(r, row, "FAILED_PRE_PROVIDER") /\ rec' = Idle /\ resv' = resv
  BY <1>1, <1>2, <1>3, <1>4 DEF MarkFailed
<1>7. /\ RowOK(row) /\ row.status = "FAILED" /\ row.fin = fin
      /\ row.est = req[r].est /\ (HasText(row) <=> HasText(req[r]))
  <2>1. Says(row, req[r], "FAILED", fin, linked)
    BY <1>4 DEF Says
  <2> QED
    BY <1>5, <2>1, Restated
<1>8. Agrees(row, resv[r])
  BY <1>5, <1>7 DEF Agrees
<1> QED
  BY <1>5, <1>6, <1>7, <1>8, WriteMoves, RecIdle

LEMMA HoldFits ==
  ASSUME LedgerOK, RecOK, holdAmbiguous
  PROVE  LedgerOK' /\ RecOK' /\ \A q \in Requests : Quiet(q)
<1>1. PICK r : r = rec.r
  OBVIOUS
<1>2. PICK linked : linked = (rec.rv.status # "NONE")
  OBVIOUS
<1>3. PICK row : row = [req[r] EXCEPT !.status = "RECONCILIATION_REQUIRED", !.fin = "HOLD",
                                      !.linked = linked]
  OBVIOUS
<1>4. r \in Requests /\ RowOK(req[r])
  BY <1>1 DEF RecOK, holdAmbiguous, Decided, LedgerOK
<1>5. Write(r, row, "RECONCILIATION_REQUIRED") /\ rec' = Idle /\ resv' = resv
  BY <1>1, <1>2, <1>3 DEF holdAmbiguous
<1>6. /\ RowOK(row) /\ row.status = "RECONCILIATION_REQUIRED" /\ row.fin = "HOLD"
      /\ row.est = req[r].est /\ (HasText(row) <=> HasText(req[r]))
  <2>1. Says(row, req[r], "RECONCILIATION_REQUIRED", "HOLD", linked)
    BY <1>3 DEF Says
  <2> QED
    BY <1>4, <2>1, Restated
<1>7. Agrees(row, resv[r])
  BY <1>6 DEF Agrees
<1> QED
  BY <1>4, <1>5, <1>6, <1>7, WriteMoves, RecIdle

(* Whatever the reconciler does, and whatever the user's other requests    *)
(* do: nobody else notices more than a status.                             *)
LEMMA ReconcilerFits ==
  ASSUME LedgerOK, RecOK, ReconcilerStep
  PROVE  LedgerOK' /\ RecOK' /\ \A q \in Requests : Quiet(q)
  BY FindFits, ReconcileUsageFits, FailBeforeFits, FinalizeFits, MarkFailedFits, HoldFits
     DEF ReconcilerStep

LEMMA OthersFit ==
  ASSUME LedgerOK, RecOK, OthersSpend
  PROVE  LedgerOK' /\ RecOK' /\ \A q \in Requests : Quiet(q)
<1>1. LedgerOK' /\ \A q \in Requests : Quiet(q)
  BY NothingMoves DEF OthersSpend
<1> QED
  BY <1>1, RecRests DEF OthersSpend, Quiet

-----------------------------------------------------------------------------
(* Streams.                                                                *)

FlowFields == {"pc", "r", "model", "res"}

(* A stream owns the row of its message once it has made it. *)
Owns(f) == f.pc \notin {"idle", "received", "routed"}

Textless == {"created", "admitted", "funded", "reserved", "linked", "started", "streaming",
             "metered"}

Funds == {"reserved", "linked", "started", "streaming", "metered", "durable", "settled", "stored"}

(* What a stream knows of its row and reservation. *)
FlowKnows(f, row, rv) ==
    /\ row.status # "NONE"
    /\ f.pc \in Textless => ~HasText(row)
    /\ f.pc \in Funds => rv.status # "NONE" /\ rv.est = row.est
    /\ f.pc \in {"metered", "durable"} => f.res.cost \in Nat
    /\ f.pc \in {"durable", "settled", "stored"} /\ f.res.kind = "done" => HasText(row)
    /\ f.pc = "stored" => f.res.kind = "done"
    /\ f.pc \in {"settled", "stored"} => rv.status = "SETTLED"
    /\ f.pc = "released" => rv.status = "RELEASED"

FlowShape(f) == DOMAIN f = FlowFields /\ (f.pc # "idle" => f.r \in ChatRequests)

TextHasRow(r) == HasText(req[r]) => req[r].status # "NONE"

FlowsOK ==
    /\ DOMAIN flow = Streams
    /\ \A s \in Streams :
         /\ FlowShape(flow[s])
         /\ Owns(flow[s]) => FlowKnows(flow[s], req[flow[s].r], resv[flow[s].r])
    /\ \A s, t \in Streams :
         Owns(flow[s]) /\ Owns(flow[t]) /\ flow[s].r = flow[t].r => s = t
    /\ \A r \in ChatRequests : TextHasRow(r)

Moves(s, f) ==
    /\ DOMAIN flow' = Streams /\ flow'[s] = f
    /\ \A t \in Streams \ {s} : flow'[t] = flow[t]

LEMMA PutFlow ==
  ASSUME NEW s \in Streams, NEW f, DOMAIN flow = Streams, flow' = [flow EXCEPT ![s] = f]
  PROVE  Moves(s, f)
  BY DEF Moves

LEMMA QuietKnows ==
  ASSUME NEW r, Quiet(r), NEW f, FlowKnows(f, req[r], resv[r])
  PROVE  FlowKnows(f, req'[r], resv'[r])
<1>1. PICK old : old = req[r]
  OBVIOUS
<1>2. PICK new : new = req'[r]
  OBVIOUS
<1>3. PICK rv : rv = resv[r]
  OBVIOUS
<1>4. PICK rv2 : rv2 = resv'[r]
  OBVIOUS
<1>5. RowGoes(old, new) /\ ResvGoes(rv, rv2) /\ new.est = old.est /\ (HasText(new) => HasText(old))
  BY <1>1, <1>2, <1>3, <1>4 DEF Quiet, Onward
<1>6. FlowKnows(f, old, rv)
  BY <1>1, <1>3
<1>7. FlowKnows(f, new, rv2)
  BY <1>5, <1>6 DEF FlowKnows, RowGoes, ResvGoes, Funds
<1> QED
  BY <1>2, <1>4, <1>7

LEMMA QuietText ==
  ASSUME NEW r, Quiet(r), TextHasRow(r)
  PROVE  TextHasRow(r)'
  BY DEF Quiet, Onward, RowGoes, TextHasRow

(* One stream moves. *)
LEMMA StreamMoves ==
  ASSUME FlowsOK, NEW s \in Streams, NEW f, Moves(s, f), FlowShape(f),
         Owns(f) => /\ FlowKnows(f, req'[f.r], resv'[f.r])
                    /\ \A t \in Streams \ {s} : Owns(flow[t]) => flow[t].r # f.r,
         \A t \in Streams \ {s} : Owns(flow[t]) => Quiet(flow[t].r),
         \A r \in ChatRequests : TextHasRow(r)'
  PROVE  FlowsOK'
<1>1. ASSUME NEW t \in Streams \ {s}
      PROVE  /\ flow'[t] = flow[t] /\ FlowShape(flow[t])
             /\ Owns(flow[t]) => FlowKnows(flow[t], req'[flow[t].r], resv'[flow[t].r])
  BY QuietKnows DEF Moves, FlowsOK
<1>2. DOMAIN flow' = Streams /\ flow'[s] = f
  BY DEF Moves
<1>3. ASSUME NEW t \in Streams
      PROVE  /\ FlowShape(flow'[t])
             /\ Owns(flow'[t]) => FlowKnows(flow'[t], req'[flow'[t].r], resv'[flow'[t].r])
  <2>1. CASE t = s
    BY <1>2, <2>1
  <2>2. CASE t # s
    BY <1>1, <2>2
  <2> QED
    BY <2>1, <2>2
<1>4. ASSUME NEW t \in Streams, NEW u \in Streams, Owns(flow'[t]), Owns(flow'[u]),
             flow'[t].r = flow'[u].r
      PROVE  t = u
  <2>1. CASE t = s
    BY <1>1, <1>2, <1>4, <2>1
  <2>2. CASE u = s
    BY <1>1, <1>2, <1>4, <2>2
  <2>3. CASE t # s /\ u # s
    BY <1>1, <1>4, <2>3 DEF FlowsOK
  <2> QED
    BY <2>1, <2>2, <2>3
<1> QED
  BY <1>2, <1>3, <1>4 DEF FlowsOK

LEMMA StreamsRest ==
  ASSUME FlowsOK, flow' = flow, \A r \in ChatRequests : Quiet(r)
  PROVE  FlowsOK'
<1>1. ASSUME NEW s \in Streams
      PROVE  /\ FlowShape(flow'[s])
             /\ Owns(flow'[s]) => FlowKnows(flow'[s], req'[flow'[s].r], resv'[flow'[s].r])
  <2>1. PICK f : f = flow[s]
    OBVIOUS
  <2>2. FlowShape(f) /\ (Owns(f) => FlowKnows(f, req[f.r], resv[f.r])) /\ flow'[s] = f
    BY <2>1 DEF FlowsOK
  <2>3. Owns(f) => f.r \in ChatRequests
    BY <2>2 DEF FlowShape, Owns
  <2>4. Owns(f) => FlowKnows(f, req'[f.r], resv'[f.r])
    BY <2>2, <2>3, QuietKnows
  <2> QED
    BY <2>2, <2>4
<1>2. \A r \in ChatRequests : TextHasRow(r)'
  BY QuietText DEF FlowsOK
<1> QED
  BY <1>1, <1>2 DEF FlowsOK

(* A stream that owns its row moves it on, and nobody else's. *)
LEMMA OwnerMoves ==
  ASSUME FlowsOK, NEW s \in Streams, Owns(flow[s]), NEW f, Moves(s, f), FlowShape(f),
         NEW r, r = flow[s].r, Onward(r), \A q \in Requests \ {r} : Quiet(q),
         Owns(f) => f.r = r /\ FlowKnows(f, req'[r], resv'[r])
  PROVE  FlowsOK'
<1>1. \A t \in Streams \ {s} : Owns(flow[t]) => flow[t].r # r /\ flow[t].r \in ChatRequests
  BY DEF FlowsOK, FlowShape, Owns
<1>2. \A t \in Streams \ {s} : Owns(flow[t]) => Quiet(flow[t].r)
  BY <1>1, ChatAssumption
<1>3. ASSUME NEW q \in ChatRequests
      PROVE  TextHasRow(q)'
  <2>1. CASE q = r
    <3>1. req[r].status # "NONE"
      BY DEF FlowsOK, FlowKnows
    <3> QED
      BY <2>1, <3>1 DEF Onward, RowGoes, TextHasRow
  <2>2. CASE q # r
    BY <2>2, QuietText, ChatAssumption DEF FlowsOK
  <2> QED
    BY <2>1, <2>2
<1> QED
  BY <1>1, <1>2, <1>3, StreamMoves

(* A stream that does not own a row yet, or no longer. *)
LEMMA VisitorMoves ==
  ASSUME FlowsOK, NEW s \in Streams, NEW f, Moves(s, f), FlowShape(f), ~Owns(f),
         \A q \in Requests : Quiet(q)
  PROVE  FlowsOK'
<1>1. \A t \in Streams \ {s} : Owns(flow[t]) => Quiet(flow[t].r)
  BY ChatAssumption DEF FlowsOK, FlowShape, Owns
<1>2. \A q \in ChatRequests : TextHasRow(q)'
  BY QuietText, ChatAssumption DEF FlowsOK
<1> QED
  BY <1>1, <1>2, StreamMoves

(* The two ways a stream goes on. *)
LEMMA ToMoves ==
  ASSUME FlowsOK, NEW s \in Streams, ~FlowAt(s, "idle"), NEW pc, To(s, pc)
  PROVE  \E f : /\ Moves(s, f) /\ FlowShape(f) /\ f.pc = pc
                /\ f.r = flow[s].r /\ f.res = flow[s].res
<1>1. PICK f : f = [flow[s] EXCEPT !.pc = pc]
  OBVIOUS
<1>2. DOMAIN flow = Streams /\ DOMAIN flow[s] = FlowFields /\ flow[s].r \in ChatRequests
  BY DEF FlowsOK, FlowShape, FlowAt
<1>3. /\ DOMAIN f = FlowFields /\ f.pc = pc
      /\ f.r = flow[s].r /\ f.res = flow[s].res
  BY <1>1, <1>2 DEF FlowFields
<1>4. flow' = [flow EXCEPT ![s] = f]
  BY <1>1, <1>2 DEF To
<1>5. Moves(s, f)
  BY <1>2, <1>4, PutFlow
<1> QED
  BY <1>2, <1>3, <1>5 DEF FlowShape

LEMMA EndMoves ==
  ASSUME FlowsOK, NEW s \in Streams, End(s)
  PROVE  \E f : Moves(s, f) /\ FlowShape(f) /\ ~Owns(f)
<1>1. PICK f : f = NoFlow
  OBVIOUS
<1>2. Moves(s, f)
  BY <1>1, PutFlow DEF FlowsOK, End
<1>3. FlowShape(f) /\ ~Owns(f)
  BY <1>1 DEF NoFlow, FlowShape, FlowFields, Owns
<1> QED
  BY <1>2, <1>3

-----------------------------------------------------------------------------
(* The largest estimate that is affordable is one. *)
LEMMA GreatestExists ==
  ASSUME NEW b \in Nat, NEW S \in SUBSET Nat, S # {}, \A x \in S : x <= b
  PROVE  \E m \in S : \A x \in S : m >= x
<1>1. PICK T : T = {b - x : x \in S}
  OBVIOUS
<1>2. T \in SUBSET Nat /\ T # {}
  <2>1. \A x \in S : b - x \in Nat
    OBVIOUS
  <2>2. \A t \in T : t \in Nat
    BY <1>1, <2>1
  <2>3. PICK x \in S : TRUE
    OBVIOUS
  <2>4. b - x \in T
    BY <1>1
  <2> QED
    BY <2>2, <2>4
<1>3. IsWellFoundedOn(OpToRel(<, Nat), Nat)
  BY NatLessThanWellFounded
<1>4. PICK n \in T : \A k \in T : <<k, n>> \notin OpToRel(<, Nat)
  BY <1>2, <1>3, WFMin
<1>5. PICK m \in S : n = b - m
  BY <1>1
<1>6. ASSUME NEW x \in S PROVE m >= x
  <2>1. b - x \in T /\ b - x \in Nat /\ n \in Nat
    BY <1>1, <1>2
  <2>2. ~(b - x < n)
    BY <1>4, <2>1 DEF OpToRel
  <2>3. m \in Nat /\ x \in Nat /\ b \in Nat
    OBVIOUS
  <2> QED
    BY <1>5, <2>2, <2>3
<1> QED
  BY <1>6

LEMMA FundedType == \A available : Funded(available) \in Nat
<1> SUFFICES ASSUME NEW available PROVE Funded(available) \in Nat
  OBVIOUS
<1>1. MinCost \in Nat /\ PrefCost \in Nat /\ MinCost <= PrefCost
  BY LedgerAssumption
<1>2. CASE MinCost <= available
  <2>1. PICK S : S = {est \in MinCost..PrefCost : est <= available}
    OBVIOUS
  <2>2. S \in SUBSET Nat /\ S # {} /\ \A x \in S : x <= PrefCost
    BY <1>1, <1>2, <2>1
  <2>3. \E m \in S : \A x \in S : m >= x
    BY <1>1, <2>2, GreatestExists
  <2>4. Max(S) \in S
    BY <2>3 DEF Max
  <2> QED
    BY <1>2, <2>1, <2>2, <2>4 DEF Funded
<1>3. CASE ~(MinCost <= available)
  BY <1>3 DEF Funded
<1> QED
  BY <1>2, <1>3

-----------------------------------------------------------------------------
(* The steps of a stream.                                                  *)

Apart == ChatRequests \cap Turns = {}

StreamDone ==
    /\ LedgerOK' /\ FlowsOK'
    /\ \A q \in Requests : Onward(q)
    /\ \A q \in Requests \ ChatRequests : Quiet(q)

(* A row of which only the status and the words about money are new. *)
Keeps(row, old) ==
    DOMAIN row = ReqFields /\ row.est = old.est /\ row.cost = old.cost /\ row.text = old.text

LEMMA KeptRow ==
  ASSUME NEW old, RowOK(old), NEW row, Keeps(row, old)
  PROVE  RowOK(row) /\ row.est = old.est /\ (HasText(row) <=> HasText(old))
  BY DEF Keeps, RowOK, HasText

LEMMA OwnerKnows ==
  ASSUME LedgerOK, FlowsOK, NEW s \in Streams, Owns(flow[s]), NEW r, r = flow[s].r
  PROVE  /\ r \in ChatRequests /\ r \in Requests /\ ~FlowAt(s, "idle")
         /\ FlowKnows(flow[s], req[r], resv[r])
         /\ RowOK(req[r]) /\ ResvOK(resv[r]) /\ Agrees(req[r], resv[r])
  BY ChatAssumption DEF LedgerOK, FlowsOK, FlowShape, Owns, FlowAt

(* An owner writes its row ... *)
LEMMA OwnerWrites ==
  ASSUME Apart, LedgerOK, FlowsOK, NEW s \in Streams, Owns(flow[s]), NEW r, r = flow[s].r,
         NEW row, ChatRow(r, row), turn' = turn, resv' = resv,
         RowOK(row), Agrees(row, resv[r]), RowGoes(req[r], row),
         NEW f, Moves(s, f), FlowShape(f),
         Owns(f) => f.r = r /\ FlowKnows(f, row, resv[r])
  PROVE  StreamDone
<1>0. PICK trn : trn = turn[r]
  OBVIOUS
<1>1. r \in Requests /\ r \notin Turns /\ DOMAIN trn = TurnFields
  BY <1>0, OwnerKnows DEF Apart, LedgerOK
<1>2. RowAt(req', req, r, row) /\ RowAt(turn', turn, r, trn)
  BY <1>0, <1>1, PutRow DEF LedgerOK, ChatRow, RowAt
<1>3. /\ LedgerOK' /\ req'[r] = row
      /\ \A q \in Requests : Onward(q)
      /\ \A q \in Requests \ {r} : Quiet(q)
  BY <1>1, <1>2, RowMoves
<1>4. Owns(f) => f.r = r /\ FlowKnows(f, req'[r], resv'[r])
  BY <1>3
<1>5. FlowsOK'
  BY <1>1, <1>3, <1>4, OwnerMoves
<1> QED
  BY <1>3, <1>5, OwnerKnows DEF StreamDone

LEMMA OwnerWritesOn ==
  ASSUME Apart, LedgerOK, FlowsOK, NEW s \in Streams, Owns(flow[s]), NEW r, r = flow[s].r,
         NEW row, ChatRow(r, row), turn' = turn, resv' = resv,
         RowOK(row), Agrees(row, resv[r]), RowGoes(req[r], row),
         NEW pc, To(s, pc),
         \A f : f.pc = pc /\ f.res = flow[s].res => FlowKnows(f, row, resv[r])
  PROVE  StreamDone
<1>1. PICK f : Moves(s, f) /\ FlowShape(f) /\ f.pc = pc /\ f.r = r /\ f.res = flow[s].res
  BY ToMoves, OwnerKnows
<1>2. FlowKnows(f, row, resv[r])
  BY <1>1
<1> QED
  BY <1>1, <1>2, OwnerWrites

LEMMA OwnerWritesLast ==
  ASSUME Apart, LedgerOK, FlowsOK, NEW s \in Streams, Owns(flow[s]), NEW r, r = flow[s].r,
         NEW row, ChatRow(r, row), turn' = turn, resv' = resv,
         RowOK(row), Agrees(row, resv[r]), RowGoes(req[r], row), End(s)
  PROVE  StreamDone
<1>1. PICK f : Moves(s, f) /\ FlowShape(f) /\ ~Owns(f)
  BY EndMoves
<1> QED
  BY <1>1, OwnerWrites

(* ... or calls the engine, or neither. *)
LEMMA OwnerGoesOn ==
  ASSUME FlowsOK, LedgerOK, LedgerOK', NEW s \in Streams, Owns(flow[s]), NEW r, r = flow[s].r,
         \A q \in Requests : Quiet(q), NEW pc, To(s, pc),
         \A f : f.pc = pc /\ f.res = flow[s].res => FlowKnows(f, req'[r], resv'[r])
  PROVE  StreamDone
<1>1. PICK f : Moves(s, f) /\ FlowShape(f) /\ f.pc = pc /\ f.r = r /\ f.res = flow[s].res
  BY ToMoves, OwnerKnows
<1>2. FlowKnows(f, req'[r], resv'[r])
  BY <1>1
<1>3. Onward(r) /\ \A q \in Requests : Onward(q)
  BY OwnerKnows DEF Quiet
<1>4. FlowsOK'
  BY <1>1, <1>2, <1>3, OwnerMoves
<1> QED
  BY <1>3, <1>4 DEF StreamDone

LEMMA StreamEnded ==
  ASSUME FlowsOK, LedgerOK', NEW s \in Streams, \A q \in Requests : Quiet(q), End(s)
  PROVE  StreamDone
<1>1. PICK f : Moves(s, f) /\ FlowShape(f) /\ ~Owns(f)
  BY EndMoves
<1>2. FlowsOK'
  BY <1>1, VisitorMoves
<1> QED
  BY <1>2 DEF StreamDone, Quiet

LEMMA VisitorGoesOn ==
  ASSUME FlowsOK, LedgerOK', NEW s \in Streams, \A q \in Requests : Quiet(q),
         NEW f, f.pc \in {"received", "routed"}, DOMAIN f = FlowFields, f.r \in ChatRequests,
         Moves(s, f)
  PROVE  StreamDone
<1>1. FlowShape(f) /\ ~Owns(f)
  BY DEF FlowShape, Owns
<1>2. FlowsOK'
  BY <1>1, VisitorMoves
<1> QED
  BY <1>2 DEF StreamDone, Quiet

LEMMA ArrivalFits ==
  ASSUME LedgerOK, FlowsOK, NEW s \in Streams, NEW r \in ChatRequests, NEW model,
         streamMessage(s, r, model)
  PROVE  StreamDone
<1>1. LedgerOK' /\ \A q \in Requests : Quiet(q)
  BY NothingMoves DEF streamMessage, ChatRest
<1>2. PICK f : f = [NoFlow EXCEPT !.pc = "received", !.r = r, !.model = model]
  OBVIOUS
<1>3. Moves(s, f)
  BY <1>2, PutFlow DEF streamMessage, FlowsOK
<1>4. f.pc = "received" /\ DOMAIN f = FlowFields /\ f.r = r
  BY <1>2 DEF NoFlow, FlowFields
<1> QED
  BY <1>1, <1>3, <1>4, VisitorGoesOn

LEMMA RoutingFits ==
  ASSUME LedgerOK, FlowsOK, NEW s \in Streams, resolveThreadModel(s)
  PROVE  StreamDone
<1>1. LedgerOK' /\ \A q \in Requests : Quiet(q)
  BY NothingMoves DEF resolveThreadModel, ChatRest
<1>2. PICK f : f = [flow[s] EXCEPT !.model = target', !.pc = "routed"]
  OBVIOUS
<1>3. DOMAIN flow = Streams /\ DOMAIN flow[s] = FlowFields /\ flow[s].r \in ChatRequests
  BY DEF FlowsOK, FlowShape, resolveThreadModel, FlowAt
<1>4. Moves(s, f)
  <2>1. flow' = [flow EXCEPT ![s] = f]
    BY <1>2, <1>3 DEF resolveThreadModel
  <2> QED
    BY <1>3, <2>1, PutFlow
<1>5. f.pc = "routed" /\ DOMAIN f = FlowFields /\ f.r \in ChatRequests
  BY <1>2, <1>3 DEF FlowFields
<1> QED
  BY <1>1, <1>4, <1>5, VisitorGoesOn

LEMMA EndingFits ==
  ASSUME LedgerOK, FlowsOK, NEW s \in Streams, End(s), req' = req, turn' = turn, resv' = resv
  PROVE  StreamDone
  BY NothingMoves, StreamEnded

(* The row is made by one stream: the others find it there.                *)
LEMMA BeginFits ==
  ASSUME Apart, LedgerOK, FlowsOK, NEW s \in Streams, beginOrReuseRequest(s)
  PROVE  StreamDone
<1>1. PICK r : r = flow[s].r
  OBVIOUS
<1>2. /\ r \in ChatRequests /\ r \in Requests /\ r \notin Turns /\ ~FlowAt(s, "idle")
      /\ turn' = turn /\ resv' = resv
  BY <1>1, ChatAssumption
     DEF FlowsOK, FlowShape, beginOrReuseRequest, FlowAt, ChatRest, Apart
<1>3. CASE req[r].status = "NONE"
  <2>1. PICK row : row = [NoRow EXCEPT !.status = "CREATED"]
    OBVIOUS
  <2>2. /\ RowOK(row) /\ row.status = "CREATED" /\ row.fin = "NONE" /\ ~HasText(row)
    BY <2>1 DEF NoRow, RowOK, ReqFields, HasText
  <2>3. ChatRow(r, row) /\ To(s, "created")
    BY <1>1, <1>3, <2>1 DEF beginOrReuseRequest
  <2>4. RowAt(req', req, r, row) /\ RowAt(turn', turn, r, turn[r])
    BY <1>2, <2>3, PutRow DEF LedgerOK, ChatRow, RowAt
  <2>5. ~HasText(req[r])
    BY <1>2, <1>3 DEF FlowsOK, TextHasRow
  <2>6. Agrees(row, resv[r]) /\ RowGoes(req[r], row)
    BY <1>3, <2>2, <2>5 DEF Agrees, RowGoes
  <2>7. /\ LedgerOK' /\ req'[r] = row
        /\ \A q \in Requests : Onward(q)
        /\ \A q \in Requests \ {r} : Quiet(q)
    BY <1>2, <2>2, <2>4, <2>6, RowMoves DEF LedgerOK
  <2>8. PICK f : Moves(s, f) /\ FlowShape(f) /\ f.pc = "created" /\ f.r = r
    BY <1>1, <1>2, <2>3, ToMoves
  <2>9. FlowKnows(f, req'[r], resv'[r])
    BY <2>2, <2>7, <2>8 DEF FlowKnows, Textless, Funds
  <2>10. \A t \in Streams \ {s} : Owns(flow[t]) => flow[t].r # r /\ flow[t].r \in ChatRequests
    BY <1>3 DEF FlowsOK, FlowKnows, FlowShape, Owns
  <2>11. \A t \in Streams \ {s} : Owns(flow[t]) => Quiet(flow[t].r)
    BY <2>7, <2>10, ChatAssumption
  <2>12. ASSUME NEW q \in ChatRequests
         PROVE  TextHasRow(q)'
    <3>1. CASE q = r
      BY <2>2, <2>7, <3>1 DEF TextHasRow
    <3>2. CASE q # r
      BY <2>7, <3>2, QuietText, ChatAssumption DEF FlowsOK
    <3> QED
      BY <3>1, <3>2
  <2>13. FlowsOK'
    BY <2>8, <2>9, <2>10, <2>11, <2>12, StreamMoves
  <2> QED
    BY <1>2, <2>7, <2>13 DEF StreamDone
<1>4. CASE req[r].status # "NONE"
  BY <1>1, <1>2, <1>4, EndingFits DEF beginOrReuseRequest
<1> QED
  BY <1>3, <1>4

LEMMA AcquireFits ==
  ASSUME LedgerOK, FlowsOK, NEW s \in Streams, acquire(s)
  PROVE  StreamDone
<1>1. LedgerOK' /\ \A q \in Requests : Quiet(q)
  BY NothingMoves DEF acquire, ChatRest
<1>2. PICK r : r = flow[s].r
  OBVIOUS
<1>3. Owns(flow[s]) /\ flow[s].pc = "created" /\ req' = req /\ resv' = resv
  BY DEF acquire, FlowAt, Owns, ChatRest
<1>4. CASE To(s, "admitted")
  <2>1. FlowKnows(flow[s], req[r], resv[r])
    BY <1>2, <1>3, OwnerKnows
  <2>2. \A f : f.pc = "admitted" => FlowKnows(f, req'[r], resv'[r])
    BY <1>3, <2>1 DEF FlowKnows, Textless, Funds
  <2> QED
    BY <1>1, <1>2, <1>3, <1>4, <2>2, OwnerGoesOn
<1>5. CASE End(s)
  BY <1>1, <1>5, StreamEnded
<1> QED
  BY <1>4, <1>5 DEF acquire

(* A row that only says FAILED, or is held. *)
LEMMA FailedRow ==
  ASSUME NEW old, NEW rv, RowOK(old), Agrees(old, rv), NEW row,
         row = [old EXCEPT !.status = "FAILED"]
  PROVE  Keeps(row, old) /\ row.status = "FAILED" /\ Agrees(row, rv) /\ RowGoes(old, row)
<1>1. Keeps(row, old) /\ row.status = "FAILED" /\ row.fin = old.fin
  BY DEF Keeps, RowOK, ReqFields
<1> QED
  BY <1>1 DEF Agrees, RowGoes, Keeps, HasText

LEMMA HeldRow ==
  ASSUME NEW old, NEW rv, RowOK(old), NEW row, row = Held(old)
  PROVE  Keeps(row, old) /\ Agrees(row, rv) /\ RowGoes(old, row)
<1>1. Keeps(row, old) /\ row.status = "RECONCILIATION_REQUIRED" /\ row.fin = "HOLD"
  BY DEF Keeps, RowOK, ReqFields, Held
<1> QED
  BY <1>1 DEF Agrees, RowGoes, Keeps, HasText

LEMMA FailingFits ==
  ASSUME Apart, LedgerOK, FlowsOK, NEW s \in Streams, Owns(flow[s]), NEW r, r = flow[s].r,
         ChatRow(r, [req[r] EXCEPT !.status = "FAILED"]), turn' = turn, resv' = resv, End(s)
  PROVE  StreamDone
<1>1. PICK row : row = [req[r] EXCEPT !.status = "FAILED"]
  OBVIOUS
<1>2. RowOK(req[r]) /\ Agrees(req[r], resv[r])
  BY OwnerKnows
<1>3. Keeps(row, req[r]) /\ Agrees(row, resv[r]) /\ RowGoes(req[r], row)
  BY <1>1, <1>2, FailedRow
<1>4. RowOK(row)
  BY <1>2, <1>3, KeptRow
<1> QED
  BY <1>1, <1>3, <1>4, OwnerWritesLast

LEMMA HoldingFits ==
  ASSUME Apart, LedgerOK, FlowsOK, NEW s \in Streams, Owns(flow[s]), NEW r, r = flow[s].r,
         ChatRow(r, Held(req[r])), turn' = turn, resv' = resv, End(s)
  PROVE  StreamDone
<1>1. PICK row : row = Held(req[r])
  OBVIOUS
<1>2. RowOK(req[r])
  BY OwnerKnows
<1>3. Keeps(row, req[r]) /\ Agrees(row, resv[r]) /\ RowGoes(req[r], row)
  BY <1>1, <1>2, HeldRow
<1>4. RowOK(row)
  BY <1>2, <1>3, KeptRow
<1> QED
  BY <1>1, <1>3, <1>4, OwnerWritesLast

LEMMA FundFits ==
  ASSUME Apart, LedgerOK, FlowsOK, NEW s \in Streams, FundRequest(s)
  PROVE  StreamDone
<1>1. PICK r : r = flow[s].r
  OBVIOUS
<1>2. PICK est : est = Funded(Available)
  OBVIOUS
<1>3. PICK row : row = [req[r] EXCEPT !.est = est]
  OBVIOUS
<1>4. Owns(flow[s]) /\ flow[s].pc = "admitted" /\ turn' = turn /\ resv' = resv
  BY DEF FundRequest, FlowAt, Owns, ChatRest
<1>5. /\ FlowKnows(flow[s], req[r], resv[r])
      /\ RowOK(req[r]) /\ Agrees(req[r], resv[r])
  BY <1>1, <1>4, OwnerKnows
<1>6. est \in Nat
  BY <1>2, FundedType
<1>7. /\ DOMAIN row = ReqFields /\ row.est = est /\ row.cost = req[r].cost
      /\ row.status = req[r].status /\ row.fin = req[r].fin /\ row.text = req[r].text
  BY <1>3, <1>5 DEF RowOK, ReqFields
<1>8. RowOK(row) /\ Agrees(row, resv[r]) /\ RowGoes(req[r], row)
  BY <1>5, <1>6, <1>7 DEF RowOK, Agrees, RowGoes, HasText
<1>9. row.status # "NONE" /\ ~HasText(row)
  BY <1>4, <1>5, <1>7 DEF FlowKnows, Textless, HasText
<1>10. \A f : f.pc = "funded" => FlowKnows(f, row, resv[r])
  BY <1>9 DEF FlowKnows, Textless, Funds
<1>11. ChatRow(r, row) /\ To(s, "funded")
  BY <1>1, <1>2, <1>3 DEF FundRequest
<1> QED
  BY <1>1, <1>4, <1>8, <1>10, <1>11, OwnerWritesOn

LEMMA ReserveFits ==
  ASSUME Apart, LedgerOK, FlowsOK, NEW s \in Streams, ReserveForMessage(s)
  PROVE  StreamDone
<1>1. PICK r : r = flow[s].r
  OBVIOUS
<1>2. Owns(flow[s]) /\ flow[s].pc = "funded" /\ turn' = turn
  BY DEF ReserveForMessage, FlowAt, Owns, ChatRest
<1>3. FlowKnows(flow[s], req[r], resv[r]) /\ r \in Requests /\ req[r].est \in Nat
  BY <1>1, <1>2, OwnerKnows DEF RowOK
<1>4. CASE Reservable(r, req[r].est)
  <2>1. reserveUsage(r, req[r].est) /\ To(s, "reserved") /\ req' = req
    BY <1>1, <1>4 DEF ReserveForMessage
  <2>2. /\ LedgerOK' /\ (\A q \in Requests : Quiet(q))
        /\ resv'[r].status # "NONE" /\ resv'[r].est = req[r].est
    BY <1>2, <1>3, <1>4, <2>1, Reserves
  <2>3. \A f : f.pc = "reserved" => FlowKnows(f, req'[r], resv'[r])
    BY <1>2, <1>3, <2>1, <2>2 DEF FlowKnows, Textless, Funds
  <2> QED
    BY <1>1, <1>2, <2>1, <2>2, <2>3, OwnerGoesOn
<1>5. CASE ~Reservable(r, req[r].est)
  BY <1>1, <1>2, <1>5, FailingFits DEF ReserveForMessage, Leave
<1> QED
  BY <1>4, <1>5

(* The plain updates on the way. *)
LEMMA MarkFits ==
  ASSUME Apart, LedgerOK, FlowsOK, NEW s \in Streams, NEW from, NEW to, NEW row,
         Mark(s, from, to, row), from \in Textless, to \in {"linked", "started", "streaming"},
         from \in Funds, NEW r, r = flow[s].r, Keeps(row, req[r]),
         row.status \notin {"NONE", "SUCCEEDED"},
         row.fin \in {"SETTLED", "RELEASED"} => row.fin = req[r].fin
  PROVE  StreamDone
<1>1. /\ flow[s].pc = from /\ Owns(flow[s]) /\ turn' = turn /\ resv' = resv
      /\ ChatRow(r, row) /\ To(s, to)
  BY DEF Mark, FlowAt, Owns, ChatRest, Textless
<1>2. /\ FlowKnows(flow[s], req[r], resv[r])
      /\ RowOK(req[r]) /\ Agrees(req[r], resv[r])
  BY <1>1, OwnerKnows
<1>3. RowOK(row) /\ row.est = req[r].est /\ (HasText(row) <=> HasText(req[r]))
  BY <1>2, KeptRow
<1>4. Agrees(row, resv[r]) /\ RowGoes(req[r], row)
  BY <1>2, <1>3 DEF Agrees, RowGoes
<1>5. \A f : f.pc = to => FlowKnows(f, row, resv[r])
  BY <1>1, <1>2, <1>3 DEF FlowKnows, Textless, Funds
<1> QED
  BY <1>1, <1>3, <1>4, <1>5, OwnerWritesOn

LEMMA MarksFit ==
  ASSUME Apart, LedgerOK, FlowsOK, NEW s \in Streams,
         MarkReserved(s) \/ MarkStarted(s) \/ MarkStreaming(s)
  PROVE  StreamDone
<1>1. PICK r : r = flow[s].r
  OBVIOUS
<1>2. flow[s].pc \in {"reserved", "linked", "started"}
  BY DEF MarkReserved, MarkStarted, MarkStreaming, Mark, FlowAt
<1>3. RowOK(req[r])
  BY <1>1, <1>2, OwnerKnows DEF Owns
<1>4. CASE MarkReserved(s)
  <2>1. PICK row : row = [req[r] EXCEPT !.status = "RESERVED", !.fin = "RESERVED",
                                        !.linked = TRUE]
    OBVIOUS
  <2>2. Keeps(row, req[r]) /\ row.status = "RESERVED" /\ row.fin = "RESERVED"
    BY <1>3, <2>1 DEF Keeps, RowOK, ReqFields
  <2>3. Mark(s, "reserved", "linked", row)
    BY <1>1, <1>4, <2>1 DEF MarkReserved
  <2> QED
    BY <1>1, <2>2, <2>3, MarkFits DEF Textless, Funds
<1>5. CASE MarkStarted(s)
  <2>1. PICK row : row = [req[r] EXCEPT !.status = "PROVIDER_STARTED"]
    OBVIOUS
  <2>2. Keeps(row, req[r]) /\ row.status = "PROVIDER_STARTED" /\ row.fin = req[r].fin
    BY <1>3, <2>1 DEF Keeps, RowOK, ReqFields
  <2>3. Mark(s, "linked", "started", row)
    BY <1>1, <1>5, <2>1 DEF MarkStarted
  <2> QED
    BY <1>1, <2>2, <2>3, MarkFits DEF Textless, Funds
<1>6. CASE MarkStreaming(s)
  <2>1. PICK row : row = [req[r] EXCEPT !.status = "STREAMING"]
    OBVIOUS
  <2>2. Keeps(row, req[r]) /\ row.status = "STREAMING" /\ row.fin = req[r].fin
    BY <1>3, <2>1 DEF Keeps, RowOK, ReqFields
  <2>3. Mark(s, "started", "streaming", row)
    BY <1>1, <1>6, <2>1 DEF MarkStreaming
  <2> QED
    BY <1>1, <2>2, <2>3, MarkFits DEF Textless, Funds
<1> QED
  BY <1>4, <1>5, <1>6

(* The provider's stream ends. *)
LEMMA AnswerFits ==
  ASSUME LedgerOK, FlowsOK, NEW s \in Streams, StreamEnds(s)
  PROVE  StreamDone
<1>1. PICK r : r = flow[s].r
  OBVIOUS
<1>2. /\ flow[s].pc = "streaming" /\ Owns(flow[s])
      /\ req' = req /\ turn' = turn /\ resv' = resv
  BY DEF StreamEnds, FlowAt, Owns, ChatRest
<1>3. /\ FlowKnows(flow[s], req[r], resv[r]) /\ RowOK(req[r]) /\ r \in ChatRequests
      /\ r \in Requests
  BY <1>1, <1>2, OwnerKnows
<1>4. PICK a \in Answers(req[r].est) :
         flow' = [flow EXCEPT ![s].res = a, ![s].pc = IF a.cost = 0 THEN "unknown" ELSE "metered"]
  BY <1>1 DEF StreamEnds
<1>5. a.cost \in Nat
  BY <1>3 DEF Answers, RowOK
<1>6. PICK pc : pc = IF a.cost = 0 THEN "unknown" ELSE "metered"
  OBVIOUS
<1>7. PICK f : f = [flow[s] EXCEPT !.res = a, !.pc = pc]
  OBVIOUS
<1>8. DOMAIN flow = Streams /\ DOMAIN flow[s] = FlowFields
  BY DEF FlowsOK, FlowShape
<1>9. flow' = [flow EXCEPT ![s] = f]
  BY <1>4, <1>6, <1>7, <1>8
<1>10. Moves(s, f)
  BY <1>8, <1>9, PutFlow
<1>11. DOMAIN f = FlowFields /\ f.pc = pc /\ f.r = r /\ f.res = a
  BY <1>1, <1>7, <1>8 DEF FlowFields
<1>12. FlowShape(f)
  BY <1>3, <1>11 DEF FlowShape
<1>13. LedgerOK' /\ \A q \in Requests : Quiet(q)
  BY <1>2, NothingMoves
<1>14. FlowKnows(f, req'[r], resv'[r])
  BY <1>2, <1>3, <1>5, <1>6, <1>11 DEF FlowKnows, Textless, Funds
<1>15. Onward(r) /\ \A q \in Requests : Onward(q)
  BY <1>3, <1>13 DEF Quiet
<1>16. FlowsOK'
  BY <1>1, <1>2, <1>10, <1>11, <1>12, <1>13, <1>14, <1>15, OwnerMoves
<1> QED
  BY <1>13, <1>15, <1>16 DEF StreamDone

LEMMA RejectionFits ==
  ASSUME LedgerOK, FlowsOK, NEW s \in Streams, ProviderRejects(s)
  PROVE  StreamDone
<1>1. PICK r : r = flow[s].r
  OBVIOUS
<1>2. Owns(flow[s]) /\ req' = req /\ turn' = turn
  BY DEF ProviderRejects, FlowAt, Owns, ChatRest
<1>3. FlowKnows(flow[s], req[r], resv[r]) /\ r \in Requests
  BY <1>1, <1>2, OwnerKnows
<1>4. CASE Releasable(r)
  <2>1. releaseUsage(r) /\ To(s, "released")
    BY <1>1, <1>4 DEF ProviderRejects
  <2>2. LedgerOK' /\ (\A q \in Requests : Quiet(q)) /\ resv'[r].status = "RELEASED"
    BY <1>2, <1>3, <1>4, <2>1, Releases
  <2>3. \A f : f.pc = "released" => FlowKnows(f, req'[r], resv'[r])
    BY <1>2, <1>3, <2>2 DEF FlowKnows, Textless, Funds
  <2> QED
    BY <1>1, <1>2, <2>1, <2>2, <2>3, OwnerGoesOn
<1>5. CASE ~Releasable(r)
  <2>1. resv' = resv /\ End(s)
    BY <1>1, <1>5 DEF ProviderRejects, Leave
  <2> QED
    BY <1>2, <2>1, EndingFits
<1> QED
  BY <1>4, <1>5

LEMMA RejectedFits ==
  ASSUME Apart, LedgerOK, FlowsOK, NEW s \in Streams, MarkRejected(s)
  PROVE  StreamDone
<1>1. PICK r : r = flow[s].r
  OBVIOUS
<1>2. PICK row : row = [req[r] EXCEPT !.status = "FAILED", !.fin = "RELEASED"]
  OBVIOUS
<1>3. flow[s].pc = "released" /\ Owns(flow[s]) /\ turn' = turn /\ resv' = resv
  BY DEF MarkRejected, FlowAt, Owns, ChatRest
<1>4. FlowKnows(flow[s], req[r], resv[r]) /\ RowOK(req[r])
  BY <1>1, <1>3, OwnerKnows
<1>5. Keeps(row, req[r]) /\ row.status = "FAILED" /\ row.fin = "RELEASED"
  BY <1>2, <1>4 DEF Keeps, RowOK, ReqFields
<1>6. RowOK(row) /\ (HasText(row) <=> HasText(req[r]))
  BY <1>4, <1>5, KeptRow
<1>7. Agrees(row, resv[r]) /\ RowGoes(req[r], row)
  BY <1>3, <1>4, <1>5, <1>6 DEF Agrees, RowGoes, FlowKnows
<1>8. ChatRow(r, row) /\ End(s)
  BY <1>1, <1>2 DEF MarkRejected, Leave
<1> QED
  BY <1>1, <1>3, <1>6, <1>7, <1>8, OwnerWritesLast

(* The cost is stored, and the text with it. *)
LEMMA PersistFits ==
  ASSUME Apart, LedgerOK, FlowsOK, NEW s \in Streams, persistDurableUsage(s)
  PROVE  StreamDone
<1>1. PICK r : r = flow[s].r
  OBVIOUS
<1>2. PICK text : text = (flow[s].res.kind \in {"done", "doneOver"})
  OBVIOUS
<1>3. PICK row : row = [req[r] EXCEPT !.cost = flow[s].res.cost, !.text = text]
  OBVIOUS
<1>4. Mark(s, "metered", "durable", row)
  BY <1>1, <1>2, <1>3 DEF persistDurableUsage
<1>5. /\ flow[s].pc = "metered" /\ Owns(flow[s]) /\ turn' = turn /\ resv' = resv
      /\ ChatRow(r, row) /\ To(s, "durable")
  BY <1>1, <1>4 DEF Mark, FlowAt, Owns, ChatRest
<1>6. /\ FlowKnows(flow[s], req[r], resv[r])
      /\ RowOK(req[r]) /\ Agrees(req[r], resv[r])
  BY <1>1, <1>5, OwnerKnows
<1>7. /\ DOMAIN row = ReqFields /\ row.est = req[r].est /\ row.cost = flow[s].res.cost
      /\ row.status = req[r].status /\ row.fin = req[r].fin /\ row.text = text
  BY <1>3, <1>6 DEF RowOK, ReqFields
<1>8. /\ ~HasText(req[r]) /\ flow[s].res.cost \in Nat /\ req[r].status # "NONE"
      /\ resv[r].status # "NONE" /\ resv[r].est = req[r].est
  BY <1>5, <1>6 DEF FlowKnows, Textless, Funds
<1>9. RowOK(row) /\ RowGoes(req[r], row)
  BY <1>6, <1>7, <1>8 DEF RowOK, RowGoes
<1>10. Agrees(row, resv[r])
  <2>1. req[r].status # "SUCCEEDED"
    BY <1>6, <1>8 DEF Agrees
  <2> QED
    BY <1>6, <1>7, <2>1 DEF Agrees
<1>11. ASSUME NEW f, f.pc = "durable", f.res = flow[s].res
       PROVE  FlowKnows(f, row, resv[r])
  <2>1. f.res.kind = "done" => HasText(row)
    BY <1>2, <1>7, <1>11 DEF HasText
  <2> QED
    BY <1>7, <1>8, <1>11, <2>1 DEF FlowKnows, Textless, Funds
<1> QED
  BY <1>1, <1>5, <1>9, <1>10, <1>11, OwnerWritesOn

LEMMA SettleMessageFits ==
  ASSUME LedgerOK, FlowsOK, NEW s \in Streams, SettleMessage(s)
  PROVE  StreamDone
<1>1. PICK r : r = flow[s].r
  OBVIOUS
<1>2. PICK cost : cost = flow[s].res.cost
  OBVIOUS
<1>3. /\ flow[s].pc = "durable" /\ Owns(flow[s]) /\ req' = req /\ turn' = turn
      /\ ~(cost > req[r].est)
  BY <1>1, <1>2 DEF SettleMessage, FlowAt, Owns, ChatRest, Over
<1>4. FlowKnows(flow[s], req[r], resv[r]) /\ r \in Requests /\ RowOK(req[r]) /\ ResvOK(resv[r])
  BY <1>1, <1>3, OwnerKnows
<1>5. cost \in Nat /\ cost <= resv[r].est
  BY <1>2, <1>3, <1>4 DEF FlowKnows, Funds, RowOK
<1>6. CASE Settleable(r, cost)
  <2>1. settleUsage(r, cost) /\ To(s, "settled")
    BY <1>1, <1>2, <1>6 DEF SettleMessage
  <2>2. /\ LedgerOK' /\ (\A q \in Requests : Quiet(q))
        /\ resv'[r].status = "SETTLED" /\ resv'[r].est = resv[r].est
    BY <1>3, <1>4, <1>5, <1>6, <2>1, Settles
  <2>3. \A f : f.pc = "settled" /\ f.res = flow[s].res => FlowKnows(f, req'[r], resv'[r])
    BY <1>3, <1>4, <2>2 DEF FlowKnows, Textless, Funds
  <2> QED
    BY <1>1, <1>3, <2>1, <2>2, <2>3, OwnerGoesOn
<1>7. CASE ~Settleable(r, cost)
  <2>1. resv' = resv /\ To(s, "refused")
    BY <1>1, <1>2, <1>7 DEF SettleMessage
  <2>2. LedgerOK' /\ \A q \in Requests : Quiet(q)
    BY <1>3, <2>1, NothingMoves
  <2>3. \A f : f.pc = "refused" => FlowKnows(f, req'[r], resv'[r])
    BY <1>3, <1>4, <2>1 DEF FlowKnows, Textless, Funds
  <2> QED
    BY <1>1, <1>3, <2>1, <2>2, <2>3, OwnerGoesOn
<1> QED
  BY <1>6, <1>7

LEMMA StoreFits ==
  ASSUME LedgerOK, FlowsOK, NEW s \in Streams, StoreAnswer(s)
  PROVE  StreamDone
<1>1. PICK r : r = flow[s].r
  OBVIOUS
<1>2. /\ flow[s].pc = "settled" /\ flow[s].res.kind = "done" /\ Owns(flow[s])
      /\ req' = req /\ turn' = turn /\ resv' = resv /\ To(s, "stored")
  BY DEF StoreAnswer, FlowAt, Owns, ChatRest
<1>3. FlowKnows(flow[s], req[r], resv[r])
  BY <1>1, <1>2, OwnerKnows
<1>4. LedgerOK' /\ \A q \in Requests : Quiet(q)
  BY <1>2, NothingMoves
<1>5. \A f : f.pc = "stored" /\ f.res = flow[s].res => FlowKnows(f, req'[r], resv'[r])
  BY <1>2, <1>3 DEF FlowKnows, Textless, Funds
<1> QED
  BY <1>1, <1>2, <1>4, <1>5, OwnerGoesOn

LEMMA FinishFits ==
  ASSUME Apart, LedgerOK, FlowsOK, NEW s \in Streams, FinishMessage(s)
  PROVE  StreamDone
<1>1. PICK r : r = flow[s].r
  OBVIOUS
<1>2. PICK status : status = IF FlowAt(s, "stored") THEN "SUCCEEDED" ELSE "FAILED"
  OBVIOUS
<1>3. PICK row : row = [req[r] EXCEPT !.status = status, !.fin = "SETTLED"]
  OBVIOUS
<1>4. /\ flow[s].pc \in {"stored", "settled"} /\ Owns(flow[s]) /\ turn' = turn /\ resv' = resv
  BY DEF FinishMessage, FlowAt, Owns, ChatRest
<1>5. FlowKnows(flow[s], req[r], resv[r]) /\ RowOK(req[r])
  BY <1>1, <1>4, OwnerKnows
<1>6. Keeps(row, req[r]) /\ row.status = status /\ row.fin = "SETTLED"
  BY <1>3, <1>5 DEF Keeps, RowOK, ReqFields
<1>7. RowOK(row) /\ (HasText(row) <=> HasText(req[r]))
  BY <1>5, <1>6, KeptRow
<1>8. resv[r].status = "SETTLED" /\ (status = "SUCCEEDED" => HasText(req[r])) /\ status # "NONE"
  BY <1>2, <1>4, <1>5 DEF FlowKnows, FlowAt
<1>9. Agrees(row, resv[r]) /\ RowGoes(req[r], row)
  BY <1>6, <1>7, <1>8 DEF Agrees, RowGoes
<1>10. ChatRow(r, row) /\ End(s)
  BY <1>1, <1>2, <1>3 DEF FinishMessage, Leave
<1> QED
  BY <1>1, <1>4, <1>7, <1>9, <1>10, OwnerWritesLast

LEMMA StreamFits ==
  ASSUME Apart, LedgerOK, FlowsOK, NEW s \in Streams, FlowStep(s)
  PROVE  StreamDone
<1>1. CASE resolveModelFails(s)
  BY <1>1, EndingFits DEF resolveModelFails, ChatRest
<1>2. CASE NotFunded(s)
  BY <1>2, FailingFits DEF NotFunded, Leave, FlowAt, Owns, ChatRest
<1>3. CASE markReconciliation(s)
  BY <1>3, HoldingFits DEF markReconciliation, Leave, FlowAt, Owns, ChatRest
<1>4. CASE markFundedBoundViolation(s)
  BY <1>4, HoldingFits DEF markFundedBoundViolation, Leave, FlowAt, Owns, ChatRest
<1>5. CASE SettlementFailed(s)
  BY <1>5, HoldingFits DEF SettlementFailed, Leave, FlowAt, Owns, ChatRest
<1> QED
  BY <1>1, <1>2, <1>3, <1>4, <1>5, RoutingFits, BeginFits, AcquireFits, FundFits, ReserveFits,
     MarksFit, AnswerFits, RejectionFits, RejectedFits, PersistFits, SettleMessageFits,
     StoreFits, FinishFits
     DEF FlowStep

(* A message's request, its crash, its slot and its conversation.          *)
LEMMA ChatKeeps ==
  ASSUME Apart, LedgerOK, RecOK, FlowsOK, ChatNext
  PROVE  /\ LedgerOK' /\ RecOK' /\ FlowsOK'
         /\ \A q \in Requests : Onward(q)
         /\ \A q \in Requests \ ChatRequests : Quiet(q)
<1>1. CASE StreamDone /\ rec' = rec
  BY <1>1, RecRests DEF StreamDone
<1>2. CASE LedgerOK' /\ RecOK' /\ flow' = flow /\ \A q \in Requests : Quiet(q)
  BY <1>2, StreamsRest, ChatAssumption DEF Quiet
<1>3. ASSUME NEW s \in Streams, NEW r \in ChatRequests, NEW m \in Targets, streamMessage(s, r, m)
      PROVE  StreamDone /\ rec' = rec
  BY <1>3, ArrivalFits DEF streamMessage, ChatRest
<1>4. ASSUME NEW s \in Streams, FlowStep(s)
      PROVE  StreamDone /\ rec' = rec
  <2>1. rec' = rec
    BY <1>4 DEF FlowStep, resolveThreadModel, resolveModelFails, beginOrReuseRequest, acquire,
       NotFunded, FundRequest, ReserveForMessage, MarkReserved, MarkStarted, MarkStreaming, Mark,
       StreamEnds, ProviderRejects, MarkRejected, markReconciliation, persistDurableUsage,
       markFundedBoundViolation, SettleMessage, SettlementFailed, StoreAnswer, FinishMessage,
       ChatRest
  <2> QED
    BY <1>4, <2>1, StreamFits
<1>5. ASSUME NEW s \in Streams, ApiCrash(s)
      PROVE  StreamDone /\ rec' = rec
  BY <1>5, EndingFits DEF ApiCrash
<1>6. ASSUME SlotsExpire \/ \E m \in Targets : setConversationDefaultTarget(m)
      PROVE  LedgerOK' /\ RecOK' /\ flow' = flow /\ \A q \in Requests : Quiet(q)
  <2>1. req' = req /\ turn' = turn /\ resv' = resv /\ rec' = rec /\ flow' = flow
    BY <1>6 DEF SlotsExpire, setConversationDefaultTarget, ChatRest
  <2>2. LedgerOK' /\ \A q \in Requests : Quiet(q)
    BY <2>1, NothingMoves
  <2> QED
    BY <2>1, <2>2, RecRests DEF Quiet
<1>7. ASSUME ChatReconciles \/ OthersSpend, UNCHANGED chatVars
      PROVE  LedgerOK' /\ RecOK' /\ flow' = flow /\ \A q \in Requests : Quiet(q)
  BY <1>7, ScanFits, ReconcilerFits, OthersFit, ChatAssumption DEF ChatReconciles, chatVars
<1> QED
  BY <1>1, <1>2, <1>3, <1>4, <1>5, <1>6, <1>7 DEF ChatNext

-----------------------------------------------------------------------------
(* Workers.                                                                *)

ExecFields == {"pc", "inv", "idx", "seen", "res"}

Admits == {"resume", "reserve", "link", "check", "start", "asked", "streams", "answered",
           "durable", "settle", "finish", "giveBack", "givenBack"}

Backed == Admits \ {"resume", "reserve"}

(* What a worker knows of the row, the reservation and the turn it works on. *)
ExecKnows(e, row, rv, trn) ==
    /\ e.pc \in Admits => trn.status # "NONE"
    /\ e.pc \in Backed => rv.status # "NONE" /\ rv.est = row.est
    /\ e.pc \in {"answered", "durable", "settle", "finish"} => e.res.cost \in Nat
    /\ e.pc \in {"durable", "settle", "finish"} => HasText(row) /\ e.res.cost <= rv.est
    /\ e.pc = "finish" => rv.status = "SETTLED"
    /\ e.pc = "givenBack" => rv.status = "RELEASED"

ExecShape(e) ==
    /\ DOMAIN e = ExecFields
    /\ e.pc # "idle" => e.inv \in Invs /\ e.idx \in 0..MaxTurns - 1

TurnOf(e) == <<e.inv, e.idx>>

TextHasTurn(r) == HasText(req[r]) => turn[r].status # "NONE"

ExecOK(w) ==
    /\ ExecShape(exec[w])
    /\ ~ExecAt(w, "idle") => ExecKnows(exec[w], req[Row(w)], resv[Row(w)], turn[Row(w)])

ExecsOK ==
    /\ DOMAIN exec = Workers
    /\ \A w \in Workers : ExecOK(w)
    /\ \A r \in Turns : TextHasTurn(r)

LEMMA RowIsTurn ==
  ASSUME ExecsOK, NEW w \in Workers, ~ExecAt(w, "idle")
  PROVE  Row(w) \in Turns /\ Row(w) \in Requests
<1>1. exec[w].inv \in Invs /\ exec[w].idx \in 0..MaxTurns - 1
  BY DEF ExecsOK, ExecOK, ExecShape, ExecAt
<1>2. Turns \subseteq Requests
  BY ExternalAiAssumption DEF Turns
<1> QED
  BY <1>1, <1>2 DEF Row, Turns

LEMMA OnwardKnows ==
  ASSUME NEW r \in Turns, Onward(r), NEW e, ExecKnows(e, req[r], resv[r], turn[r])
  PROVE  ExecKnows(e, req'[r], resv'[r], turn'[r])
<1>1. PICK old, new, rv, rv2, trn, trn2 :
         old = req[r] /\ new = req'[r] /\ rv = resv[r] /\ rv2 = resv'[r]
           /\ trn = turn[r] /\ trn2 = turn'[r]
  OBVIOUS
<1>2. /\ RowGoes(old, new) /\ ResvGoes(rv, rv2)
      /\ trn.status # "NONE" => trn2.status # "NONE" /\ new.est = old.est
  BY <1>1 DEF Onward
<1>3. ExecKnows(e, old, rv, trn)
  BY <1>1
<1>4. ExecKnows(e, new, rv2, trn2)
  BY <1>2, <1>3 DEF ExecKnows, RowGoes, ResvGoes, Backed, Admits
<1> QED
  BY <1>1, <1>4

WorkerMoves(w, e) ==
    /\ DOMAIN exec' = Workers /\ exec'[w] = e
    /\ \A v \in Workers \ {w} : exec'[v] = exec[v]

LEMMA ExecRests ==
  ASSUME ExecsOK, NEW w \in Workers, exec'[w] = exec[w], \A q \in Requests : Onward(q)
  PROVE  ExecOK(w)'
<1>1. CASE ExecAt(w, "idle")
  BY <1>1 DEF ExecsOK, ExecOK, ExecAt
<1>2. CASE ~ExecAt(w, "idle")
  <2>1. PICK r : r = Row(w)
    OBVIOUS
  <2>2. PICK e : e = exec[w]
    OBVIOUS
  <2>3. r \in Turns /\ r \in Requests /\ ExecKnows(e, req[r], resv[r], turn[r]) /\ ExecShape(e)
    BY <1>2, <2>1, <2>2, RowIsTurn DEF ExecsOK, ExecOK
  <2>4. ExecKnows(e, req'[r], resv'[r], turn'[r])
    BY <2>3, OnwardKnows
  <2>5. exec'[w] = e /\ Row(w)' = r
    BY <2>1, <2>2 DEF Row
  <2> QED
    BY <2>3, <2>4, <2>5 DEF ExecOK
<1> QED
  BY <1>1, <1>2

(* One worker moves. *)
LEMMA OneWorkerMoves ==
  ASSUME ExecsOK, NEW w \in Workers, NEW e, WorkerMoves(w, e), ExecShape(e),
         \A q \in Requests : Onward(q), \A r \in Turns : TextHasTurn(r)',
         e.pc # "idle" => ExecKnows(e, req'[TurnOf(e)], resv'[TurnOf(e)], turn'[TurnOf(e)])
  PROVE  ExecsOK'
<1>1. exec'[w] = e /\ DOMAIN exec' = Workers
  BY DEF WorkerMoves
<1>2. Row(w)' = TurnOf(e)
  BY <1>1 DEF Row, TurnOf
<1>3. ExecOK(w)'
  BY <1>1, <1>2 DEF ExecOK, ExecAt
<1>4. \A v \in Workers \ {w} : ExecOK(v)'
  BY ExecRests DEF WorkerMoves
<1> QED
  BY <1>1, <1>3, <1>4 DEF ExecsOK

LEMMA QuietTurn ==
  ASSUME NEW r \in Turns, Quiet(r), TextHasTurn(r)
  PROVE  TextHasTurn(r)'
  BY DEF Quiet, Onward, TextHasTurn

LEMMA WorkersRest ==
  ASSUME ExecsOK, exec' = exec, \A q \in Requests : Onward(q), \A r \in Turns : Quiet(r)
  PROVE  ExecsOK'
<1>1. \A w \in Workers : ExecOK(w)'
  BY ExecRests
<1>2. \A r \in Turns : TextHasTurn(r)'
  BY QuietTurn DEF ExecsOK
<1> QED
  BY <1>1, <1>2 DEF ExecsOK

(* What a step of a worker does: only the row it works on is not left as   *)
(* everybody else knows it.                                                *)
WorkerDone(w) ==
    /\ LedgerOK' /\ ExecsOK'
    /\ \A q \in Requests : Onward(q)
    /\ \A q \in Requests \ Turns : Quiet(q)
    /\ \A q \in Requests \ {Row(w)} : Quiet(q)

LEMMA IdleKnows ==
  ASSUME NEW e, e.pc \notin Admits, NEW row, NEW rv, NEW trn
  PROVE  ExecKnows(e, row, rv, trn)
  BY DEF ExecKnows, Admits, Backed

LEMMA WorkerKnows ==
  ASSUME LedgerOK, ExecsOK, NEW w \in Workers, ~ExecAt(w, "idle"), NEW r, r = Row(w)
  PROVE  /\ r \in Turns /\ r \in Requests
         /\ ExecKnows(exec[w], req[r], resv[r], turn[r])
         /\ RowOK(req[r]) /\ DOMAIN turn[r] = TurnFields
         /\ ResvOK(resv[r]) /\ Agrees(req[r], resv[r])
  BY RowIsTurn DEF LedgerOK, ExecsOK, ExecOK

(* The two ways a worker goes on. *)
LEMMA GotoMoves ==
  ASSUME ExecsOK, NEW w \in Workers, ~ExecAt(w, "idle"), NEW pc, Goto(w, pc)
  PROVE  \E e : /\ WorkerMoves(w, e) /\ ExecShape(e) /\ e.pc = pc
                /\ TurnOf(e) = Row(w) /\ e.res = exec[w].res
<1>1. PICK e : e = [exec[w] EXCEPT !.pc = pc]
  OBVIOUS
<1>2. /\ DOMAIN exec = Workers /\ DOMAIN exec[w] = ExecFields
      /\ exec[w].inv \in Invs /\ exec[w].idx \in 0..MaxTurns - 1
  BY DEF ExecsOK, ExecOK, ExecShape, ExecAt
<1>3. /\ DOMAIN e = ExecFields /\ e.pc = pc /\ e.inv = exec[w].inv /\ e.idx = exec[w].idx
      /\ e.res = exec[w].res
  BY <1>1, <1>2 DEF ExecFields
<1>4. exec' = [exec EXCEPT ![w] = e]
  BY <1>1, <1>2 DEF Goto
<1>5. WorkerMoves(w, e)
  BY <1>2, <1>4 DEF WorkerMoves
<1>6. ExecShape(e) /\ TurnOf(e) = Row(w)
  BY <1>2, <1>3 DEF ExecShape, TurnOf, Row
<1> QED
  BY <1>3, <1>5, <1>6

LEMMA FreeMoves ==
  ASSUME ExecsOK, NEW w \in Workers, exec' = [exec EXCEPT ![w] = Free]
  PROVE  \E e : WorkerMoves(w, e) /\ ExecShape(e) /\ e.pc = "idle"
<1>1. PICK e : e = Free
  OBVIOUS
<1>2. WorkerMoves(w, e)
  BY <1>1 DEF WorkerMoves, ExecsOK
<1>3. ExecShape(e) /\ e.pc = "idle"
  BY <1>1 DEF Free, ExecShape, ExecFields
<1> QED
  BY <1>2, <1>3

LEMMA ReturnMoves ==
  ASSUME ExecsOK, NEW w \in Workers, NEW final, Return(w, final)
  PROVE  \E e : WorkerMoves(w, e) /\ ExecShape(e) /\ e.pc = "idle"
  BY FreeMoves DEF Return

(* A worker writes its row and its turn. *)
Wrote(r, row, trn) == RowAt(req', req, r, row) /\ RowAt(turn', turn, r, trn)

LEMMA BothWrote ==
  ASSUME LedgerOK, NEW r \in Turns, NEW row, NEW trn, Both(r, row, trn)
  PROVE  Wrote(r, row, trn)
<1>1. r \in Requests
  BY ExternalAiAssumption DEF Turns
<1> QED
  BY <1>1, PutRow DEF LedgerOK, Both, Wrote

LEMMA TurnWritten ==
  ASSUME LedgerOK, ExecsOK, NEW r \in Turns, NEW row, NEW trn,
         Wrote(r, row, trn), resv' = resv, RowOK(row), DOMAIN trn = TurnFields,
         Agrees(row, resv[r]), RowGoes(req[r], row), trn.status # "NONE",
         turn[r].status # "NONE" => row.est = req[r].est
  PROVE  /\ LedgerOK' /\ req'[r] = row /\ turn'[r] = trn
         /\ \A q \in Requests : Onward(q)
         /\ \A q \in Requests \ Turns : Quiet(q)
         /\ \A q \in Requests \ {r} : Quiet(q)
         /\ \A q \in Turns : TextHasTurn(q)'
<1>1. r \in Requests /\ Turns \subseteq Requests
  BY ExternalAiAssumption DEF Turns
<1>2. RowAt(req', req, r, row) /\ RowAt(turn', turn, r, trn)
  BY DEF Wrote
<1>3. /\ LedgerOK' /\ req'[r] = row /\ turn'[r] = trn
      /\ \A q \in Requests : Onward(q)
      /\ \A q \in Requests \ {r} : Quiet(q)
  BY <1>1, <1>2, RowMoves
<1>4. ASSUME NEW q \in Turns
      PROVE  TextHasTurn(q)'
  <2>1. CASE q = r
    BY <1>3, <2>1 DEF TextHasTurn
  <2>2. CASE q # r
    BY <1>1, <1>3, <2>2, QuietTurn DEF ExecsOK
  <2> QED
    BY <2>1, <2>2
<1> QED
  BY <1>3, <1>4

LEMMA WorkerWritesOn ==
  ASSUME LedgerOK, ExecsOK, NEW w \in Workers, ~ExecAt(w, "idle"), NEW r, r = Row(w),
         NEW row, NEW trn, Wrote(r, row, trn), resv' = resv,
         RowOK(row), DOMAIN trn = TurnFields,
         Agrees(row, resv[r]), RowGoes(req[r], row), trn.status # "NONE",
         turn[r].status # "NONE" => row.est = req[r].est,
         NEW pc, Goto(w, pc),
         \A e : e.pc = pc /\ e.res = exec[w].res => ExecKnows(e, row, resv[r], trn)
  PROVE  WorkerDone(w)
<1>1. PICK e : /\ WorkerMoves(w, e) /\ ExecShape(e) /\ e.pc = pc /\ TurnOf(e) = r
               /\ e.res = exec[w].res
  BY GotoMoves
<1>2. r \in Turns
  BY RowIsTurn
<1>3. /\ LedgerOK' /\ req'[r] = row /\ turn'[r] = trn
      /\ \A q \in Requests : Onward(q)
      /\ \A q \in Requests \ Turns : Quiet(q)
      /\ \A q \in Requests \ {r} : Quiet(q)
      /\ \A q \in Turns : TextHasTurn(q)'
  BY <1>2, TurnWritten
<1>4. ExecKnows(e, req'[r], resv'[r], turn'[r])
  BY <1>1, <1>3
<1>5. ExecsOK'
  BY <1>1, <1>3, <1>4, OneWorkerMoves
<1> QED
  BY <1>3, <1>5 DEF WorkerDone

LEMMA WorkerWritesLast ==
  ASSUME LedgerOK, ExecsOK, NEW w \in Workers, ~ExecAt(w, "idle"), NEW r, r = Row(w),
         NEW row, NEW trn, Wrote(r, row, trn), resv' = resv,
         RowOK(row), DOMAIN trn = TurnFields,
         Agrees(row, resv[r]), RowGoes(req[r], row), trn.status # "NONE",
         turn[r].status # "NONE" => row.est = req[r].est,
         NEW final, Return(w, final)
  PROVE  WorkerDone(w)
<1>1. PICK e : WorkerMoves(w, e) /\ ExecShape(e) /\ e.pc = "idle"
  BY ReturnMoves
<1>2. r \in Turns
  BY RowIsTurn
<1>3. /\ LedgerOK' /\ (\A q \in Requests : Onward(q))
      /\ \A q \in Requests \ Turns : Quiet(q)
      /\ \A q \in Requests \ {r} : Quiet(q)
      /\ \A q \in Turns : TextHasTurn(q)'
  BY <1>2, TurnWritten
<1>4. ExecsOK'
  BY <1>1, <1>3, OneWorkerMoves
<1> QED
  BY <1>3, <1>4 DEF WorkerDone

(* A worker does not write: all is quiet, but for the engine. *)
LEMMA WorkerGoesOn ==
  ASSUME LedgerOK, ExecsOK, LedgerOK', NEW w \in Workers, \A q \in Requests : Quiet(q),
         NEW e, WorkerMoves(w, e), ExecShape(e),
         e.pc # "idle" => ExecKnows(e, req'[TurnOf(e)], resv'[TurnOf(e)], turn'[TurnOf(e)])
  PROVE  WorkerDone(w)
<1>1. \A q \in Requests : Onward(q)
  BY DEF Quiet
<1>2. Turns \subseteq Requests
  BY ExternalAiAssumption DEF Turns
<1>3. \A q \in Turns : TextHasTurn(q)'
  BY <1>2, QuietTurn DEF ExecsOK
<1>4. ExecsOK'
  BY <1>1, <1>3, OneWorkerMoves
<1> QED
  BY <1>1, <1>4 DEF WorkerDone

LEMMA WorkerGoesTo ==
  ASSUME LedgerOK, ExecsOK, LedgerOK', NEW w \in Workers, \A q \in Requests : Quiet(q),
         ~ExecAt(w, "idle"), NEW r, r = Row(w), NEW pc, Goto(w, pc),
         \A e : e.pc = pc /\ e.res = exec[w].res => ExecKnows(e, req'[r], resv'[r], turn'[r])
  PROVE  WorkerDone(w)
<1>1. PICK e : /\ WorkerMoves(w, e) /\ ExecShape(e) /\ e.pc = pc /\ TurnOf(e) = r
               /\ e.res = exec[w].res
  BY GotoMoves
<1>2. ExecKnows(e, req'[r], resv'[r], turn'[r])
  BY <1>1
<1> QED
  BY <1>1, <1>2, WorkerGoesOn

LEMMA WorkerFreed ==
  ASSUME LedgerOK, ExecsOK, NEW w \in Workers, exec' = [exec EXCEPT ![w] = Free],
         req' = req, turn' = turn, resv' = resv
  PROVE  WorkerDone(w)
<1>1. PICK e : WorkerMoves(w, e) /\ ExecShape(e) /\ e.pc = "idle"
  BY FreeMoves
<1>2. LedgerOK' /\ \A q \in Requests : Quiet(q)
  BY NothingMoves
<1> QED
  BY <1>1, <1>2, WorkerGoesOn

LEMMA WorkerReturns ==
  ASSUME LedgerOK, ExecsOK, NEW w \in Workers, NEW final, Return(w, final),
         req' = req, turn' = turn, resv' = resv
  PROVE  WorkerDone(w)
  BY WorkerFreed DEF Return

(* A worker goes where it needs to know nothing. *)
LEMMA WorkerStrolls ==
  ASSUME LedgerOK, ExecsOK, NEW w \in Workers, ~ExecAt(w, "idle"),
         NEW pc, pc \notin Admits, Goto(w, pc), req' = req, turn' = turn, resv' = resv
  PROVE  WorkerDone(w)
<1>1. LedgerOK' /\ \A q \in Requests : Quiet(q)
  BY NothingMoves
<1>2. PICK r : r = Row(w)
  OBVIOUS
<1>3. \A e : e.pc = pc => ExecKnows(e, req'[r], resv'[r], turn'[r])
  BY IdleKnows
<1> QED
  BY <1>1, <1>2, <1>3, WorkerGoesTo

-----------------------------------------------------------------------------
(* The steps of a run.                                                     *)

LEMMA ExecuteFits ==
  ASSUME LedgerOK, ExecsOK, NEW w \in Workers, NEW i \in Invs, execute(w, i)
  PROVE  WorkerDone(w)
<1>1. LedgerOK' /\ \A q \in Requests : Quiet(q)
  BY NothingMoves DEF execute
<1>2. PICK seen : seen = [k \in 0..MaxTurns - 1 |-> HistoryVerdict(<<i, k>>)]
  OBVIOUS
<1>3. PICK e : e = [Free EXCEPT !.pc = "history", !.inv = i, !.seen = seen]
  OBVIOUS
<1>4. exec' = [exec EXCEPT ![w] = e]
  BY <1>2, <1>3 DEF execute
<1>5. DOMAIN e = ExecFields /\ e.pc = "history" /\ e.inv = i /\ e.idx = 0
  BY <1>3 DEF Free, ExecFields
<1>6. 0 \in 0..MaxTurns - 1
  BY ExternalAiAssumption
<1>7. ExecShape(e) /\ e.pc \notin Admits
  BY <1>5, <1>6 DEF ExecShape, Admits
<1>8. WorkerMoves(w, e)
  BY <1>4 DEF WorkerMoves, ExecsOK
<1>9. ExecKnows(e, req'[TurnOf(e)], resv'[TurnOf(e)], turn'[TurnOf(e)])
  BY <1>7, IdleKnows
<1> QED
  BY <1>1, <1>7, <1>8, <1>9, WorkerGoesOn

LEMMA WalkFits ==
  ASSUME LedgerOK, ExecsOK, NEW w \in Workers, WalkHistory(w)
  PROVE  WorkerDone(w)
<1>1. ~ExecAt(w, "idle") /\ req' = req /\ turn' = turn /\ resv' = resv
  BY DEF WalkHistory, ExecAt
<1>2. \/ Goto(w, "begin") \/ Goto(w, "emit") \/ Goto(w, "tools")
      \/ Return(w, FALSE) \/ Return(w, TRUE)
  BY DEF WalkHistory
<1> QED
  BY <1>1, <1>2, WorkerStrolls, WorkerReturns DEF Admits

LEMMA CapacityFits ==
  ASSUME LedgerOK, ExecsOK, NEW w \in Workers, ReadCapacity(w)
  PROVE  WorkerDone(w)
  BY WorkerStrolls DEF ReadCapacity, ExecAt, Admits, ledgerVars

(* The turn is created, found, or refused. *)
LEMMA BeginTurnFits ==
  ASSUME LedgerOK, ExecsOK, NEW w \in Workers, beginOrReuseTurn(w)
  PROVE  WorkerDone(w)
<1>1. PICK r : r = Row(w)
  OBVIOUS
<1>2. PICK outcome : outcome = IF turn[r].status # "NONE" THEN ExistingOutcome(r)
                               ELSE NewOutcome(exec[w].inv, funds[w])
  OBVIOUS
<1>3. ~ExecAt(w, "idle") /\ resv' = resv
  BY DEF beginOrReuseTurn, ExecAt
<1>4. /\ r \in Turns /\ RowOK(req[r]) /\ TextHasTurn(r)
  BY <1>1, <1>3, WorkerKnows DEF ExecsOK
<1>5. /\ CASE outcome = "new" -> Goto(w, "resume") /\ running' = running
           [] outcome = "create" -> Goto(w, "reserve") /\ running' = running
           [] outcome \in {"emit", "tools"} -> Goto(w, outcome) /\ running' = running
           [] outcome \in {"wait", "retry"} -> Return(w, FALSE)
           [] OTHER -> Return(w, TRUE)
      /\ IF outcome = "create"
         THEN Both(r, [NoRow EXCEPT !.status = "CREATED",
                                    !.est = Funded(Min({funds[w], PlanAvailable}))],
                   [NoTurn EXCEPT !.status = "CREATED"])
         ELSE UNCHANGED <<req, turn>>
  BY <1>1, <1>2 DEF beginOrReuseTurn
<1>6. CASE outcome = "new"
  <2>1. turn[r].status # "NONE"
    BY <1>2, <1>6 DEF NewOutcome
  <2>2. Goto(w, "resume") /\ req' = req /\ turn' = turn
    BY <1>5, <1>6
  <2>3. LedgerOK' /\ \A q \in Requests : Quiet(q)
    BY <1>3, <2>2, NothingMoves
  <2>4. \A e : e.pc = "resume" => ExecKnows(e, req'[r], resv'[r], turn'[r])
    BY <2>1, <2>2 DEF ExecKnows, Backed, Admits
  <2> QED
    BY <1>1, <1>3, <2>2, <2>3, <2>4, WorkerGoesTo
<1>7. CASE outcome = "create"
  <2>1. turn[r].status = "NONE"
    <3>1. HistoryVerdict(r) # "create"
      BY DEF HistoryVerdict
    <3>2. ExistingOutcome(r) # "create"
      BY <3>1 DEF ExistingOutcome
    <3> QED
      BY <1>2, <1>7, <3>2
  <2>2. PICK est : est = Funded(Min({funds[w], PlanAvailable}))
    OBVIOUS
  <2>3. PICK row : row = [NoRow EXCEPT !.status = "CREATED", !.est = est]
    OBVIOUS
  <2>4. PICK trn : trn = [NoTurn EXCEPT !.status = "CREATED"]
    OBVIOUS
  <2>5. Both(r, row, trn) /\ Goto(w, "reserve")
    BY <1>5, <1>7, <2>2, <2>3, <2>4
  <2>6. est \in Nat
    BY <2>2, FundedType
  <2>7. RowOK(row) /\ row.status = "CREATED" /\ row.fin = "NONE" /\ ~HasText(row)
    BY <2>3, <2>6 DEF NoRow, RowOK, ReqFields, HasText
  <2>8. DOMAIN trn = TurnFields /\ trn.status = "CREATED"
    BY <2>4 DEF NoTurn, TurnFields
  <2>9. Agrees(row, resv[r]) /\ RowGoes(req[r], row)
    BY <1>4, <2>1, <2>7 DEF Agrees, RowGoes, TextHasTurn
  <2>10. \A e : e.pc = "reserve" => ExecKnows(e, row, resv[r], trn)
    BY <2>8 DEF ExecKnows, Backed, Admits
  <2> QED
    BY <1>1, <1>3, <1>4, <2>1, <2>5, <2>7, <2>8, <2>9, <2>10, WorkerWritesOn, BothWrote
<1>8. CASE outcome \notin {"new", "create"}
  <2>1. req' = req /\ turn' = turn
    BY <1>5, <1>8
  <2>2. \/ Goto(w, "emit") \/ Goto(w, "tools")
        \/ Return(w, FALSE) \/ Return(w, TRUE)
    BY <1>5, <1>8
  <2> QED
    BY <1>3, <2>1, <2>2, WorkerStrolls, WorkerReturns DEF Admits
<1> QED
  BY <1>6, <1>7, <1>8

(* A turn with another status. *)
LEMMA TurnRestated ==
  ASSUME NEW old, DOMAIN old = TurnFields, NEW status, NEW new,
         new = [old EXCEPT !.status = status]
  PROVE  DOMAIN new = TurnFields /\ new.status = status /\ new.calls = old.calls
           /\ new.bad = old.bad
  BY DEF TurnFields

LEMMA ResumeFits ==
  ASSUME LedgerOK, ExecsOK, NEW w \in Workers, ResumeTurn(w)
  PROVE  WorkerDone(w)
<1>1. PICK r : r = Row(w)
  OBVIOUS
<1>2. PICK status : status = IF turn[r].status \in UsageWaiting THEN "CREATED" ELSE turn[r].status
  OBVIOUS
<1>3. PICK trn : trn = [turn[r] EXCEPT !.status = status]
  OBVIOUS
<1>4. /\ exec[w].pc = "resume" /\ ~ExecAt(w, "idle") /\ resv' = resv /\ req' = req
      /\ Goto(w, "reserve")
  BY DEF ResumeTurn, ExecAt
<1>5. /\ r \in Turns /\ r \in Requests /\ RowOK(req[r]) /\ DOMAIN turn[r] = TurnFields
      /\ Agrees(req[r], resv[r]) /\ ExecKnows(exec[w], req[r], resv[r], turn[r])
  BY <1>1, <1>4, WorkerKnows
<1>6. DOMAIN trn = TurnFields /\ trn.status = status
  BY <1>3, <1>5, TurnRestated
<1>7. status # "NONE"
  BY <1>2, <1>4, <1>5 DEF ExecKnows, Admits
<1>8. Wrote(r, req[r], trn)
  <2>1. DOMAIN req = Requests /\ DOMAIN turn = Requests
    BY DEF LedgerOK
  <2>2. turn' = [turn EXCEPT ![r] = trn]
    BY <1>1, <1>2, <1>3, <1>5, <2>1 DEF ResumeTurn
  <2> QED
    BY <1>4, <1>5, <2>1, <2>2, PutRow DEF Wrote, RowAt
<1>9. \A e : e.pc = "reserve" => ExecKnows(e, req[r], resv[r], trn)
  BY <1>6, <1>7 DEF ExecKnows, Backed, Admits
<1>10. RowGoes(req[r], req[r])
  BY DEF RowGoes
<1> QED
  BY <1>1, <1>4, <1>5, <1>6, <1>7, <1>8, <1>9, <1>10, WorkerWritesOn

(* A turn ends before anything is paid. *)
LEMMA FailedTurnFits ==
  ASSUME LedgerOK, ExecsOK, NEW w \in Workers, ~ExecAt(w, "idle"), NEW r, r = Row(w),
         Both(r, [req[r] EXCEPT !.status = "FAILED", !.fin = "NONE"],
              [turn[r] EXCEPT !.status = "FAILED_PRE_PROVIDER"]),
         resv' = resv, NEW final, Return(w, final)
  PROVE  WorkerDone(w)
<1>1. PICK row : row = [req[r] EXCEPT !.status = "FAILED", !.fin = "NONE"]
  OBVIOUS
<1>2. PICK trn : trn = [turn[r] EXCEPT !.status = "FAILED_PRE_PROVIDER"]
  OBVIOUS
<1>3. r \in Turns /\ RowOK(req[r]) /\ DOMAIN turn[r] = TurnFields
  BY WorkerKnows
<1>4. Keeps(row, req[r]) /\ row.status = "FAILED" /\ row.fin = "NONE"
  BY <1>1, <1>3 DEF Keeps, RowOK, ReqFields
<1>5. RowOK(row) /\ row.est = req[r].est /\ (HasText(row) <=> HasText(req[r]))
  BY <1>3, <1>4, KeptRow
<1>6. Agrees(row, resv[r]) /\ RowGoes(req[r], row)
  BY <1>4, <1>5 DEF Agrees, RowGoes
<1>7. DOMAIN trn = TurnFields /\ trn.status = "FAILED_PRE_PROVIDER"
  BY <1>2, <1>3, TurnRestated
<1>8. Wrote(r, row, trn)
  BY <1>1, <1>2, <1>3, BothWrote
<1> QED
  BY <1>5, <1>6, <1>7, <1>8, WorkerWritesLast

LEMMA ReserveTurnFits ==
  ASSUME LedgerOK, ExecsOK, NEW w \in Workers, ReserveForTurn(w)
  PROVE  WorkerDone(w)
<1>1. PICK r : r = Row(w)
  OBVIOUS
<1>2. exec[w].pc = "reserve" /\ ~ExecAt(w, "idle")
  BY DEF ReserveForTurn, ExecAt
<1>3. /\ r \in Turns /\ r \in Requests /\ RowOK(req[r]) /\ req[r].est \in Nat
      /\ DOMAIN turn[r] = TurnFields /\ Agrees(req[r], resv[r])
      /\ turn[r].status # "NONE"
  BY <1>1, <1>2, WorkerKnows DEF ExecKnows, Admits, RowOK
<1>4. CASE Reservable(r, req[r].est)
  <2>1. reserveUsage(r, req[r].est) /\ Goto(w, "link") /\ req' = req /\ turn' = turn
    BY <1>1, <1>4 DEF ReserveForTurn
  <2>2. /\ LedgerOK' /\ (\A q \in Requests : Quiet(q))
        /\ resv'[r].status # "NONE" /\ resv'[r].est = req[r].est
    BY <1>3, <1>4, <2>1, Reserves
  <2>3. \A e : e.pc = "link" => ExecKnows(e, req'[r], resv'[r], turn'[r])
    BY <1>3, <2>1, <2>2 DEF ExecKnows, Backed, Admits
  <2> QED
    BY <1>1, <1>2, <2>1, <2>2, <2>3, WorkerGoesTo
<1>5. CASE ~Reservable(r, req[r].est) /\ resv[r].status = "NONE"
  <2>1. PICK status : status = IF ActiveReserved THEN "WAITING_FOR_USAGE_CAPACITY"
                               ELSE "BLOCKED_INSUFFICIENT_USAGE"
    OBVIOUS
  <2>2. PICK trn : trn = [turn[r] EXCEPT !.status = status]
    OBVIOUS
  <2>3. /\ turn' = [turn EXCEPT ![r].status = status]
        /\ Return(w, FALSE) /\ req' = req /\ resv' = resv
    BY <1>1, <1>5, <2>1 DEF ReserveForTurn
  <2>4. DOMAIN trn = TurnFields /\ trn.status # "NONE"
    BY <1>3, <2>1, <2>2, TurnRestated
  <2>5. DOMAIN req = Requests /\ DOMAIN turn = Requests
    BY DEF LedgerOK
  <2>6. turn' = [turn EXCEPT ![r] = trn]
    BY <1>3, <2>2, <2>3, <2>5
  <2>7. Wrote(r, req[r], trn)
    BY <1>3, <2>3, <2>5, <2>6, PutRow DEF Wrote, RowAt
  <2>8. RowGoes(req[r], req[r])
    BY DEF RowGoes
  <2> QED
    BY <1>1, <1>2, <1>3, <2>3, <2>4, <2>7, <2>8, WorkerWritesLast
<1>6. CASE ~Reservable(r, req[r].est) /\ resv[r].status # "NONE"
  BY <1>1, <1>2, <1>6, FailedTurnFits DEF ReserveForTurn
<1> QED
  BY <1>4, <1>5, <1>6

LEMMA NotReservedFits ==
  ASSUME LedgerOK, ExecsOK, NEW w \in Workers, ReservationFails(w)
  PROVE  WorkerDone(w)
  BY FailedTurnFits DEF ReservationFails, ExecAt

(* The updates on the way. *)
LEMMA MarkTurnFits ==
  ASSUME LedgerOK, ExecsOK, NEW w \in Workers, NEW from, NEW to, NEW row, NEW status,
         MarkTurn(w, from, to, row, status), from \in Backed,
         to \in {"check", "asked", "streams"}, NEW r, r = Row(w), Keeps(row, req[r]),
         row.status \notin {"NONE", "SUCCEEDED"}, status # "NONE",
         row.fin \in {"SETTLED", "RELEASED"} => row.fin = req[r].fin
  PROVE  WorkerDone(w)
<1>1. PICK trn : trn = [turn[r] EXCEPT !.status = status]
  OBVIOUS
<1>2. exec[w].pc = from /\ ~ExecAt(w, "idle") /\ resv' = resv /\ Goto(w, to)
  BY DEF MarkTurn, ExecAt, Backed, Admits
<1>3. /\ r \in Turns /\ RowOK(req[r]) /\ DOMAIN turn[r] = TurnFields
      /\ Agrees(req[r], resv[r]) /\ ExecKnows(exec[w], req[r], resv[r], turn[r])
  BY <1>2, WorkerKnows
<1>4. RowOK(row) /\ row.est = req[r].est /\ (HasText(row) <=> HasText(req[r]))
  BY <1>3, KeptRow
<1>5. Agrees(row, resv[r]) /\ RowGoes(req[r], row)
  BY <1>3, <1>4 DEF Agrees, RowGoes
<1>6. DOMAIN trn = TurnFields /\ trn.status = status
  BY <1>1, <1>3, TurnRestated
<1>7. Wrote(r, row, trn)
  BY <1>1, <1>3, BothWrote DEF MarkTurn
<1>8. \A e : e.pc = to => ExecKnows(e, row, resv[r], trn)
  BY <1>2, <1>3, <1>4, <1>6 DEF ExecKnows, Backed, Admits
<1> QED
  BY <1>2, <1>4, <1>5, <1>6, <1>7, <1>8, WorkerWritesOn

LEMMA MarkTurnsFit ==
  ASSUME LedgerOK, ExecsOK, NEW w \in Workers,
         LinkReservation(w) \/ callProvider(w) \/ TurnStreams(w)
  PROVE  WorkerDone(w)
<1>1. PICK r : r = Row(w)
  OBVIOUS
<1>2. ~ExecAt(w, "idle")
  BY DEF LinkReservation, callProvider, TurnStreams, MarkTurn, ExecAt
<1>3. RowOK(req[r])
  BY <1>1, <1>2, WorkerKnows
<1>4. CASE LinkReservation(w)
  <2>1. PICK row : row = [req[r] EXCEPT !.status = "RESERVED", !.fin = "RESERVED",
                                        !.linked = TRUE]
    OBVIOUS
  <2>2. Keeps(row, req[r]) /\ row.status = "RESERVED" /\ row.fin = "RESERVED"
    BY <1>3, <2>1 DEF Keeps, RowOK, ReqFields
  <2>3. MarkTurn(w, "link", "check", row, "RESERVED")
    BY <1>1, <1>4, <2>1 DEF LinkReservation
  <2> QED
    BY <1>1, <2>2, <2>3, MarkTurnFits DEF Backed, Admits
<1>5. CASE callProvider(w)
  <2>1. PICK row : row = [req[r] EXCEPT !.status = "PROVIDER_STARTED"]
    OBVIOUS
  <2>2. Keeps(row, req[r]) /\ row.status = "PROVIDER_STARTED" /\ row.fin = req[r].fin
    BY <1>3, <2>1 DEF Keeps, RowOK, ReqFields
  <2>3. MarkTurn(w, "start", "asked", row, "PROVIDER_STARTING")
    BY <1>1, <1>5, <2>1 DEF callProvider
  <2> QED
    BY <1>1, <2>2, <2>3, MarkTurnFits DEF Backed, Admits
<1>6. CASE TurnStreams(w)
  <2>1. PICK row : row = [req[r] EXCEPT !.status = "STREAMING"]
    OBVIOUS
  <2>2. Keeps(row, req[r]) /\ row.status = "STREAMING" /\ row.fin = req[r].fin
    BY <1>3, <2>1 DEF Keeps, RowOK, ReqFields
  <2>3. MarkTurn(w, "asked", "streams", row, "PROVIDER_IN_FLIGHT")
    BY <1>1, <1>6, <2>1 DEF TurnStreams
  <2> QED
    BY <1>1, <2>2, <2>3, MarkTurnFits DEF Backed, Admits
<1> QED
  BY <1>4, <1>5, <1>6

(* A step between two transactions. *)
LEMMA BackedGoes ==
  ASSUME LedgerOK, ExecsOK, NEW w \in Workers, exec[w].pc \in Backed,
         NEW pc, pc \in {"start", "giveBack"}, Goto(w, pc),
         req' = req, turn' = turn, resv' = resv
  PROVE  WorkerDone(w)
<1>1. PICK r : r = Row(w)
  OBVIOUS
<1>2. ~ExecAt(w, "idle")
  BY DEF ExecAt, Backed, Admits
<1>3. ExecKnows(exec[w], req[r], resv[r], turn[r])
  BY <1>1, <1>2, WorkerKnows
<1>4. LedgerOK' /\ \A q \in Requests : Quiet(q)
  BY NothingMoves
<1>5. \A e : e.pc = pc => ExecKnows(e, req'[r], resv'[r], turn'[r])
  BY <1>3 DEF ExecKnows, Backed, Admits
<1> QED
  BY <1>1, <1>2, <1>4, <1>5, WorkerGoesTo

LEMMA CheckFits ==
  ASSUME LedgerOK, ExecsOK, NEW w \in Workers, CheckRunning(w) \/ TurnRejected(w)
  PROVE  WorkerDone(w)
<1>1. /\ exec[w].pc \in Backed /\ (Goto(w, "start") \/ Goto(w, "giveBack"))
      /\ req' = req /\ turn' = turn /\ resv' = resv
  BY DEF CheckRunning, TurnRejected, ExecAt, Backed, Admits
<1> QED
  BY <1>1, BackedGoes

LEMMA HoldTurnFits ==
  ASSUME LedgerOK, ExecsOK, NEW w \in Workers, ~ExecAt(w, "idle"), NEW cost \in Nat,
         HoldTurn(w, cost), resv' = resv
  PROVE  WorkerDone(w)
<1>1. PICK r : r = Row(w)
  OBVIOUS
<1>2. PICK paid : paid = IF cost = 0 THEN req[r].cost ELSE cost
  OBVIOUS
<1>3. PICK row : row = HeldTurn(req[r], cost)
  OBVIOUS
<1>4. PICK trn : trn = [turn[r] EXCEPT !.status = "RECONCILIATION_REQUIRED"]
  OBVIOUS
<1>5. r \in Turns /\ RowOK(req[r]) /\ DOMAIN turn[r] = TurnFields
  BY <1>1, WorkerKnows
<1>6. /\ DOMAIN row = ReqFields /\ row.est = req[r].est /\ row.cost = paid
      /\ row.status = "RECONCILIATION_REQUIRED" /\ row.fin = "HOLD" /\ row.text = TRUE
  BY <1>2, <1>3, <1>5 DEF HeldTurn, RowOK, ReqFields
<1>7. paid \in Nat /\ req[r].est \in Nat
  BY <1>2, <1>5 DEF RowOK
<1>8. RowOK(row) /\ Agrees(row, resv[r]) /\ RowGoes(req[r], row)
  BY <1>6, <1>7 DEF RowOK, Agrees, RowGoes, HasText
<1>9. DOMAIN trn = TurnFields /\ trn.status = "RECONCILIATION_REQUIRED"
  BY <1>4, <1>5, TurnRestated
<1>10. Wrote(r, row, trn) /\ Return(w, TRUE)
  BY <1>1, <1>3, <1>4, <1>5, BothWrote DEF HoldTurn
<1> QED
  BY <1>1, <1>6, <1>8, <1>9, <1>10, WorkerWritesLast

LEMMA GiveBackFits ==
  ASSUME LedgerOK, ExecsOK, NEW w \in Workers, releaseReservationAfterSafeFailure(w)
  PROVE  WorkerDone(w)
<1>1. PICK r : r = Row(w)
  OBVIOUS
<1>2. exec[w].pc = "giveBack" /\ ~ExecAt(w, "idle")
  BY DEF releaseReservationAfterSafeFailure, ExecAt
<1>3. r \in Requests /\ ExecKnows(exec[w], req[r], resv[r], turn[r])
  BY <1>1, <1>2, WorkerKnows
<1>4. CASE Releasable(r)
  <2>1. releaseUsage(r) /\ Goto(w, "givenBack") /\ req' = req /\ turn' = turn
    BY <1>1, <1>4 DEF releaseReservationAfterSafeFailure
  <2>2. /\ LedgerOK' /\ (\A q \in Requests : Quiet(q))
        /\ resv'[r].status = "RELEASED" /\ resv'[r].est = resv[r].est
    BY <1>3, <1>4, <2>1, Releases
  <2>3. \A e : e.pc = "givenBack" => ExecKnows(e, req'[r], resv'[r], turn'[r])
    BY <1>2, <1>3, <2>1, <2>2 DEF ExecKnows, Backed, Admits
  <2> QED
    BY <1>1, <1>2, <2>1, <2>2, <2>3, WorkerGoesTo
<1>5. CASE ~Releasable(r)
  BY <1>1, <1>2, <1>5, HoldTurnFits DEF releaseReservationAfterSafeFailure
<1> QED
  BY <1>4, <1>5

LEMMA GivenBackFits ==
  ASSUME LedgerOK, ExecsOK, NEW w \in Workers, MarkGivenBack(w)
  PROVE  WorkerDone(w)
<1>1. PICK r : r = Row(w)
  OBVIOUS
<1>2. PICK row : row = [req[r] EXCEPT !.status = "FAILED", !.fin = "RELEASED"]
  OBVIOUS
<1>3. PICK trn : trn = [turn[r] EXCEPT !.status = "FAILED_SAFE_PROVIDER"]
  OBVIOUS
<1>4. exec[w].pc = "givenBack" /\ ~ExecAt(w, "idle") /\ resv' = resv /\ Return(w, TRUE)
  BY DEF MarkGivenBack, ExecAt
<1>5. /\ r \in Turns /\ RowOK(req[r]) /\ DOMAIN turn[r] = TurnFields
      /\ resv[r].status = "RELEASED"
  BY <1>1, <1>4, WorkerKnows DEF ExecKnows
<1>6. Keeps(row, req[r]) /\ row.status = "FAILED" /\ row.fin = "RELEASED"
  BY <1>2, <1>5 DEF Keeps, RowOK, ReqFields
<1>7. RowOK(row) /\ row.est = req[r].est /\ (HasText(row) <=> HasText(req[r]))
  BY <1>5, <1>6, KeptRow
<1>8. Agrees(row, resv[r]) /\ RowGoes(req[r], row)
  BY <1>5, <1>6, <1>7 DEF Agrees, RowGoes
<1>9. DOMAIN trn = TurnFields /\ trn.status = "FAILED_SAFE_PROVIDER"
  BY <1>3, <1>5, TurnRestated
<1>10. Wrote(r, row, trn)
  BY <1>1, <1>2, <1>3, <1>5, BothWrote DEF MarkGivenBack
<1> QED
  BY <1>1, <1>4, <1>7, <1>8, <1>9, <1>10, WorkerWritesLast

LEMMA UnknownFits ==
  ASSUME LedgerOK, ExecsOK, NEW w \in Workers, TurnUnknown(w)
  PROVE  WorkerDone(w)
  BY HoldTurnFits DEF TurnUnknown, ExecAt

LEMMA AnswerTurnFits ==
  ASSUME LedgerOK, ExecsOK, NEW w \in Workers, TurnAnswers(w)
  PROVE  WorkerDone(w)
<1>1. PICK r : r = Row(w)
  OBVIOUS
<1>2. /\ exec[w].pc = "streams" /\ ~ExecAt(w, "idle")
      /\ req' = req /\ turn' = turn /\ resv' = resv
  BY DEF TurnAnswers, ExecAt
<1>3. RowOK(req[r]) /\ ExecKnows(exec[w], req[r], resv[r], turn[r])
  BY <1>1, <1>2, WorkerKnows
<1>4. PICK kind \in {"text", "calls", "bad"}, cost \in 1..req[r].est + 1 :
         exec' = [exec EXCEPT ![w].res = [kind |-> kind, cost |-> cost], ![w].pc = "answered"]
  BY <1>1 DEF TurnAnswers
<1>5. cost \in Nat
  BY <1>3, <1>4 DEF RowOK
<1>6. PICK res : res = [kind |-> kind, cost |-> cost]
  OBVIOUS
<1>7. PICK e : e = [exec[w] EXCEPT !.res = res, !.pc = "answered"]
  OBVIOUS
<1>8. /\ DOMAIN exec = Workers /\ DOMAIN exec[w] = ExecFields
      /\ exec[w].inv \in Invs /\ exec[w].idx \in 0..MaxTurns - 1
  BY <1>2 DEF ExecsOK, ExecOK, ExecShape, ExecAt
<1>9. exec' = [exec EXCEPT ![w] = e]
  BY <1>4, <1>6, <1>7, <1>8
<1>10. /\ DOMAIN e = ExecFields /\ e.pc = "answered" /\ e.inv = exec[w].inv
       /\ e.idx = exec[w].idx /\ e.res = res
  BY <1>7, <1>8 DEF ExecFields
<1>11. WorkerMoves(w, e) /\ ExecShape(e) /\ TurnOf(e) = r
  BY <1>1, <1>8, <1>9, <1>10 DEF WorkerMoves, ExecShape, TurnOf, Row
<1>12. e.res.cost \in Nat
  BY <1>5, <1>6, <1>10
<1>13. ExecKnows(e, req'[r], resv'[r], turn'[r])
  BY <1>2, <1>3, <1>10, <1>12 DEF ExecKnows, Backed, Admits
<1>14. LedgerOK' /\ \A q \in Requests : Quiet(q)
  BY <1>2, NothingMoves
<1> QED
  BY <1>11, <1>13, <1>14, WorkerGoesOn

LEMMA StoreUsageFits ==
  ASSUME LedgerOK, ExecsOK, NEW w \in Workers, StoreUsage(w)
  PROVE  WorkerDone(w)
<1>1. PICK r : r = Row(w)
  OBVIOUS
<1>2. PICK cost : cost = exec[w].res.cost
  OBVIOUS
<1>3. exec[w].pc = "answered" /\ ~ExecAt(w, "idle") /\ resv' = resv
  BY DEF StoreUsage, ExecAt
<1>4. /\ r \in Turns /\ RowOK(req[r]) /\ DOMAIN turn[r] = TurnFields
      /\ Agrees(req[r], resv[r]) /\ ExecKnows(exec[w], req[r], resv[r], turn[r])
      /\ cost \in Nat /\ req[r].est \in Nat
  BY <1>1, <1>2, <1>3, WorkerKnows DEF ExecKnows, RowOK
<1>5. CASE cost > req[r].est
  BY <1>1, <1>2, <1>3, <1>4, <1>5, HoldTurnFits DEF StoreUsage
<1>6. CASE ~(cost > req[r].est)
  <2>1. PICK row : row = [req[r] EXCEPT !.cost = cost, !.text = TRUE]
    OBVIOUS
  <2>2. PICK calls : calls = (exec[w].res.kind = "calls")
    OBVIOUS
  <2>3. PICK bad : bad = (exec[w].res.kind = "bad")
    OBVIOUS
  <2>4. PICK trn : trn = [turn[r] EXCEPT !.status = "USAGE_DURABLE", !.calls = calls, !.bad = bad]
    OBVIOUS
  <2>5. Both(r, row, trn) /\ Goto(w, "durable")
    BY <1>1, <1>2, <1>6, <2>1, <2>2, <2>3, <2>4 DEF StoreUsage
  <2>6. /\ DOMAIN row = ReqFields /\ row.est = req[r].est /\ row.cost = cost
        /\ row.status = req[r].status /\ row.fin = req[r].fin /\ row.text = TRUE
    BY <1>4, <2>1 DEF RowOK, ReqFields
  <2>7. /\ RowOK(row) /\ Agrees(row, resv[r]) /\ RowGoes(req[r], row) /\ HasText(row)
    BY <1>4, <2>6 DEF RowOK, Agrees, RowGoes, HasText
  <2>8. DOMAIN trn = TurnFields /\ trn.status = "USAGE_DURABLE"
    BY <1>4, <2>4 DEF TurnFields
  <2>9. resv[r].status # "NONE" /\ resv[r].est = req[r].est /\ cost <= resv[r].est
    BY <1>3, <1>4, <1>6 DEF ExecKnows, Backed, Admits
  <2>10. \A e : e.pc = "durable" /\ e.res = exec[w].res => ExecKnows(e, row, resv[r], trn)
    BY <1>2, <1>4, <2>6, <2>7, <2>8, <2>9 DEF ExecKnows, Backed, Admits
  <2>11. Wrote(r, row, trn)
    BY <1>4, <2>5, BothWrote
  <2> QED
    BY <1>1, <1>3, <2>5, <2>6, <2>7, <2>8, <2>10, <2>11, WorkerWritesOn
<1> QED
  BY <1>5, <1>6

LEMMA SettlingFits ==
  ASSUME LedgerOK, ExecsOK, NEW w \in Workers, MarkSettling(w)
  PROVE  WorkerDone(w)
<1>1. PICK r : r = Row(w)
  OBVIOUS
<1>2. PICK trn : trn = [turn[r] EXCEPT !.status = "SETTLING"]
  OBVIOUS
<1>3. exec[w].pc = "durable" /\ ~ExecAt(w, "idle") /\ resv' = resv /\ Goto(w, "settle")
  BY DEF MarkSettling, MarkTurn, ExecAt
<1>4. /\ r \in Turns /\ RowOK(req[r]) /\ DOMAIN turn[r] = TurnFields
      /\ Agrees(req[r], resv[r]) /\ ExecKnows(exec[w], req[r], resv[r], turn[r])
  BY <1>1, <1>3, WorkerKnows
<1>5. DOMAIN trn = TurnFields /\ trn.status = "SETTLING"
  BY <1>2, <1>4, TurnRestated
<1>6. Wrote(r, req[r], trn)
  BY <1>1, <1>2, <1>4, BothWrote DEF MarkSettling, MarkTurn
<1>7. RowGoes(req[r], req[r])
  BY DEF RowGoes
<1>8. \A e : e.pc = "settle" /\ e.res = exec[w].res => ExecKnows(e, req[r], resv[r], trn)
  BY <1>3, <1>4, <1>5 DEF ExecKnows, Backed, Admits
<1> QED
  BY <1>1, <1>3, <1>4, <1>5, <1>6, <1>7, <1>8, WorkerWritesOn

LEMMA SettleTurnFits ==
  ASSUME LedgerOK, ExecsOK, NEW w \in Workers, SettleTurn(w)
  PROVE  WorkerDone(w)
<1>1. PICK r : r = Row(w)
  OBVIOUS
<1>2. PICK cost : cost = exec[w].res.cost
  OBVIOUS
<1>3. exec[w].pc = "settle" /\ ~ExecAt(w, "idle")
  BY DEF SettleTurn, ExecAt
<1>4. /\ r \in Requests /\ ExecKnows(exec[w], req[r], resv[r], turn[r])
      /\ cost \in Nat /\ cost <= resv[r].est
  BY <1>1, <1>2, <1>3, WorkerKnows DEF ExecKnows
<1>5. CASE Settleable(r, cost)
  <2>1. settleUsage(r, cost) /\ Goto(w, "finish") /\ req' = req /\ turn' = turn
    BY <1>1, <1>2, <1>5 DEF SettleTurn
  <2>2. /\ LedgerOK' /\ (\A q \in Requests : Quiet(q))
        /\ resv'[r].status = "SETTLED" /\ resv'[r].est = resv[r].est
    BY <1>4, <1>5, <2>1, Settles
  <2>3. \A e : e.pc = "finish" /\ e.res = exec[w].res =>
          ExecKnows(e, req'[r], resv'[r], turn'[r])
    BY <1>3, <1>4, <2>1, <2>2 DEF ExecKnows, Backed, Admits
  <2> QED
    BY <1>1, <1>3, <2>1, <2>2, <2>3, WorkerGoesTo
<1>6. CASE ~Settleable(r, cost)
  BY <1>1, <1>2, <1>3, <1>4, <1>6, HoldTurnFits DEF SettleTurn
<1> QED
  BY <1>5, <1>6

LEMMA FinishTurnFits ==
  ASSUME LedgerOK, ExecsOK, NEW w \in Workers, FinishTurn(w)
  PROVE  WorkerDone(w)
<1>1. PICK r : r = Row(w)
  OBVIOUS
<1>2. PICK status : status = IF exec[w].res.kind = "bad" THEN "FAILED" ELSE "SUCCEEDED"
  OBVIOUS
<1>3. PICK row : row = [req[r] EXCEPT !.status = status, !.fin = "SETTLED"]
  OBVIOUS
<1>4. PICK trn : trn = [turn[r] EXCEPT !.status = "SUCCEEDED"]
  OBVIOUS
<1>5. exec[w].pc = "finish" /\ ~ExecAt(w, "idle") /\ resv' = resv
  BY DEF FinishTurn, ExecAt
<1>6. /\ r \in Turns /\ RowOK(req[r]) /\ DOMAIN turn[r] = TurnFields
      /\ resv[r].status = "SETTLED" /\ HasText(req[r])
  BY <1>1, <1>5, WorkerKnows DEF ExecKnows
<1>7. Keeps(row, req[r]) /\ row.status = status /\ row.fin = "SETTLED"
  BY <1>3, <1>6 DEF Keeps, RowOK, ReqFields
<1>8. RowOK(row) /\ row.est = req[r].est /\ (HasText(row) <=> HasText(req[r]))
  BY <1>6, <1>7, KeptRow
<1>9. status # "NONE"
  BY <1>2
<1>10. Agrees(row, resv[r]) /\ RowGoes(req[r], row)
  BY <1>6, <1>7, <1>8, <1>9 DEF Agrees, RowGoes
<1>11. DOMAIN trn = TurnFields /\ trn.status = "SUCCEEDED"
  BY <1>4, <1>6, TurnRestated
<1>12. Both(r, row, trn)
  BY <1>1, <1>2, <1>3, <1>4 DEF FinishTurn
<1>13. Wrote(r, row, trn)
  BY <1>6, <1>12, BothWrote
<1>14. CASE Return(w, TRUE)
  BY <1>1, <1>5, <1>8, <1>10, <1>11, <1>13, <1>14, WorkerWritesLast
<1>15. ASSUME NEW pc, pc \notin Admits, Goto(w, pc)
       PROVE  WorkerDone(w)
  <2>1. \A e : e.pc = pc /\ e.res = exec[w].res => ExecKnows(e, row, resv[r], trn)
    BY <1>15, IdleKnows
  <2> QED
    BY <1>1, <1>5, <1>8, <1>10, <1>11, <1>13, <1>15, <2>1, WorkerWritesOn
<1>16. Return(w, TRUE) \/ Goto(w, "emit") \/ Goto(w, "tools")
  BY DEF FinishTurn
<1> QED
  BY <1>14, <1>15, <1>16 DEF Admits

(* Tool results are stored, and the run goes on to the next turn. *)
LEMMA ToolsStored ==
  ASSUME LedgerOK, ExecsOK, NEW w \in Workers, ~ExecAt(w, "idle"), NEW r, r = Row(w),
         turn' = [turn EXCEPT ![r].results = TRUE], req' = req, resv' = resv
  PROVE  LedgerOK' /\ \A q \in Requests : Quiet(q)
<1>1. PICK trn : trn = [turn[r] EXCEPT !.results = TRUE]
  OBVIOUS
<1>2. /\ r \in Turns /\ r \in Requests /\ RowOK(req[r]) /\ DOMAIN turn[r] = TurnFields
      /\ Agrees(req[r], resv[r])
  BY WorkerKnows
<1>3. DOMAIN trn = TurnFields /\ trn.status = turn[r].status /\ trn.calls = turn[r].calls
  BY <1>1, <1>2 DEF TurnFields
<1>4. DOMAIN req = Requests /\ DOMAIN turn = Requests
  BY DEF LedgerOK
<1>5. turn' = [turn EXCEPT ![r] = trn]
  BY <1>1, <1>2, <1>4
<1>6. RowAt(req', req, r, req[r]) /\ RowAt(turn', turn, r, trn)
  BY <1>2, <1>4, <1>5, PutRow DEF RowAt
<1>7. RowGoes(req[r], req[r])
  BY DEF RowGoes
<1>8. /\ LedgerOK' /\ \A q \in Requests \ {r} : Quiet(q)
      /\ SameOwner(r, req[r], trn) => Quiet(r)
  BY <1>2, <1>3, <1>6, <1>7, RowMoves
<1>9. SameOwner(r, req[r], trn)
  BY <1>3 DEF SameOwner, HasCalls
<1> QED
  BY <1>8, <1>9

NextTurn(w) ==
    exec' = [exec EXCEPT ![w].idx = @ + 1,
               ![w].pc = IF exec[w].seen[exec[w].idx] = "tools" THEN "history" ELSE "begin"]

LEMMA NextTurnMoves ==
  ASSUME ExecsOK, NEW w \in Workers, ~ExecAt(w, "idle"), exec[w].idx + 1 # MaxTurns, NextTurn(w)
  PROVE  \E e : WorkerMoves(w, e) /\ ExecShape(e) /\ e.pc \in {"history", "begin"}
                 /\ e.inv = exec[w].inv /\ e.idx = exec[w].idx + 1
<1>1. PICK pc : pc = IF exec[w].seen[exec[w].idx] = "tools" THEN "history" ELSE "begin"
  OBVIOUS
<1>2. PICK e : e = [exec[w] EXCEPT !.idx = @ + 1, !.pc = pc]
  OBVIOUS
<1>3. /\ DOMAIN exec = Workers /\ DOMAIN exec[w] = ExecFields
      /\ exec[w].inv \in Invs /\ exec[w].idx \in 0..MaxTurns - 1
  BY DEF ExecsOK, ExecOK, ExecShape, ExecAt
<1>4. exec' = [exec EXCEPT ![w] = e]
  BY <1>1, <1>2, <1>3 DEF NextTurn
<1>5. /\ DOMAIN e = ExecFields /\ e.pc = pc /\ e.inv = exec[w].inv
      /\ e.idx = exec[w].idx + 1
  BY <1>2, <1>3 DEF ExecFields
<1>6. e.idx \in 0..MaxTurns - 1
  BY <1>3, <1>5, ExternalAiAssumption
<1>7. WorkerMoves(w, e) /\ ExecShape(e)
  BY <1>3, <1>4, <1>5, <1>6 DEF WorkerMoves, ExecShape
<1> QED
  BY <1>1, <1>5, <1>7

LEMMA ToolsFit ==
  ASSUME LedgerOK, ExecsOK, NEW w \in Workers, ensureToolResults(w)
  PROVE  WorkerDone(w)
<1>1. PICK r : r = Row(w)
  OBVIOUS
<1>2. exec[w].pc = "tools" /\ ~ExecAt(w, "idle") /\ req' = req /\ resv' = resv
  BY DEF ensureToolResults, ExecAt
<1>3. \/ Return(w, TRUE) /\ turn' = turn
      \/ /\ turn' = [turn EXCEPT ![r].results = TRUE]
         /\ Return(w, TRUE) \/ (exec[w].idx + 1 # MaxTurns /\ NextTurn(w))
  BY <1>1 DEF ensureToolResults, NextTurn
<1>4. CASE Return(w, TRUE) /\ turn' = turn
  BY <1>2, <1>4, WorkerReturns
<1>5. ASSUME turn' = [turn EXCEPT ![r].results = TRUE]
      PROVE  LedgerOK' /\ \A q \in Requests : Quiet(q)
  BY <1>1, <1>2, <1>5, ToolsStored
<1>6. CASE turn' = [turn EXCEPT ![r].results = TRUE] /\ Return(w, TRUE)
  <2>1. PICK e : WorkerMoves(w, e) /\ ExecShape(e) /\ e.pc = "idle"
    BY <1>6, ReturnMoves
  <2> QED
    BY <1>5, <1>6, <2>1, WorkerGoesOn
<1>7. CASE turn' = [turn EXCEPT ![r].results = TRUE] /\ exec[w].idx + 1 # MaxTurns /\ NextTurn(w)
  <2>1. PICK e : WorkerMoves(w, e) /\ ExecShape(e) /\ e.pc \in {"history", "begin"}
    BY <1>2, <1>7, NextTurnMoves
  <2>2. ExecKnows(e, req'[TurnOf(e)], resv'[TurnOf(e)], turn'[TurnOf(e)])
    BY <2>1, IdleKnows DEF Admits
  <2> QED
    BY <1>5, <1>7, <2>1, <2>2, WorkerGoesOn
<1> QED
  BY <1>3, <1>4, <1>6, <1>7

LEMMA RunFits ==
  ASSUME LedgerOK, ExecsOK, NEW w \in Workers, ExecStep(w)
  PROVE  WorkerDone(w)
<1>1. CASE LoadFails(w)
  BY <1>1, WorkerReturns DEF LoadFails
<1>2. CASE ModelUnresolved(w)
  BY <1>2, WorkerReturns DEF ModelUnresolved
<1>3. CASE AdmissionFails(w)
  BY <1>3, WorkerReturns DEF AdmissionFails
<1>4. CASE emitArtifact(w)
  BY <1>4, WorkerReturns DEF emitArtifact
<1> QED
  BY <1>1, <1>2, <1>3, <1>4, WalkFits, CapacityFits, BeginTurnFits, ResumeFits, ReserveTurnFits,
     NotReservedFits, MarkTurnsFit, CheckFits, GiveBackFits, GivenBackFits, UnknownFits,
     AnswerTurnFits, StoreUsageFits, SettlingFits, SettleTurnFits, FinishTurnFits, ToolsFit
     DEF ExecStep

(* Runs, crashes and recovery of artifacts.                                *)
LEMMA TurnsKeep ==
  ASSUME LedgerOK, RecOK, ExecsOK, TurnsNext
  PROVE  /\ LedgerOK' /\ RecOK' /\ ExecsOK'
         /\ \A q \in Requests : Onward(q)
         /\ \A q \in Requests \ Turns : Quiet(q)
<1>0. Turns \subseteq Requests
  BY ExternalAiAssumption DEF Turns
<1>1. CASE \E w \in Workers : WorkerDone(w) /\ rec' = rec
  BY <1>1, RecRests DEF WorkerDone
<1>2. CASE LedgerOK' /\ RecOK' /\ exec' = exec /\ \A q \in Requests : Quiet(q)
  BY <1>0, <1>2, WorkersRest DEF Quiet
<1>3. ASSUME NEW w \in Workers, NEW i \in Invs, execute(w, i)
      PROVE  WorkerDone(w) /\ rec' = rec
  BY <1>3, ExecuteFits DEF execute
<1>4. ASSUME NEW w \in Workers, ExecStep(w)
      PROVE  WorkerDone(w) /\ rec' = rec
  <2>1. rec' = rec
    BY <1>4 DEF ExecStep, WalkHistory, LoadFails, ModelUnresolved, ReadCapacity, beginOrReuseTurn,
       AdmissionFails, ResumeTurn, ReserveForTurn, ReservationFails, LinkReservation, MarkTurn,
       CheckRunning, callProvider, TurnStreams, TurnRejected, releaseReservationAfterSafeFailure,
       MarkGivenBack, TurnUnknown, TurnAnswers, StoreUsage, MarkSettling, SettleTurn, FinishTurn,
       ensureToolResults, emitArtifact, TurnRest, ledgerVars
  <2> QED
    BY <1>4, <2>1, RunFits
<1>5. ASSUME NEW w \in Workers, WorkerDies(w)
      PROVE  WorkerDone(w) /\ rec' = rec
  BY <1>5, WorkerFreed DEF WorkerDies, ledgerVars
<1>6. ASSUME NEW i \in Invs, recover(i) \/ StopInvocation(i)
      PROVE  LedgerOK' /\ RecOK' /\ exec' = exec /\ \A q \in Requests : Quiet(q)
  <2>1. req' = req /\ turn' = turn /\ resv' = resv /\ rec' = rec /\ exec' = exec
    BY <1>6 DEF recover, StopInvocation, TurnRest
  <2>2. LedgerOK' /\ \A q \in Requests : Quiet(q)
    BY <2>1, NothingMoves
  <2> QED
    BY <2>1, <2>2, RecRests DEF Quiet
<1>7. ASSUME TurnsReconcile \/ OthersSpend, UNCHANGED turnVars
      PROVE  LedgerOK' /\ RecOK' /\ exec' = exec /\ \A q \in Requests : Quiet(q)
  BY <1>0, <1>7, ScanFits, ReconcilerFits, OthersFit DEF TurnsReconcile, turnVars
<1> QED
  BY <1>1, <1>2, <1>3, <1>4, <1>5, <1>6, <1>7 DEF TurnsNext

-----------------------------------------------------------------------------
(* What the rows say of money is what the engine did: for messages, turns  *)
(* and the reconciler on one ledger, whatever order they write in, whoever *)
(* dies, and whatever stale rows the reconciler works on.                  *)
AiInv == LedgerOK /\ RecOK /\ FlowsOK /\ ExecsOK

LEMMA AiInitInv == LedgerInit /\ ChatInit /\ TurnsInit => AiInv
<1> SUFFICES ASSUME LedgerInit, ChatInit, TurnsInit PROVE AiInv
  OBVIOUS
<1>1. RowOK(NoRow) /\ ~HasText(NoRow) /\ ResvOK(NoReservation)
      /\ DOMAIN NoTurn = TurnFields /\ Agrees(NoRow, NoReservation)
  BY DEF NoRow, NoReservation, NoTurn, RowOK, ResvOK, HasText, ReqFields, ResvFields,
         TurnFields, Agrees
<1>2. LedgerOK
  BY <1>1 DEF LedgerOK, LedgerInit
<1>3. RecOK
  BY DEF RecOK, LedgerInit, Idle
<1>4. FlowsOK
  BY <1>1, ChatAssumption
     DEF FlowsOK, ChatInit, NoFlow, FlowShape, FlowFields, Owns, TextHasRow, LedgerInit
<1>5. ExecsOK
  BY <1>1, ExternalAiAssumption
     DEF ExecsOK, TurnsInit, Free, ExecOK, ExecAt, ExecShape, ExecFields, TextHasTurn, LedgerInit,
         Turns
<1> QED
  BY <1>2, <1>3, <1>4, <1>5 DEF AiInv

AiStep ==
    [(ChatNext /\ UNCHANGED turnVars) \/ (TurnsNext /\ UNCHANGED chatVars)]_aiVars

LEMMA AiNextInv ==
  ASSUME Apart
  PROVE  AiInv /\ AiStep => AiInv'
<1> SUFFICES ASSUME AiInv, AiStep PROVE AiInv'
  OBVIOUS
<1>0. Turns \subseteq Requests \ ChatRequests /\ ChatRequests \subseteq Requests \ Turns
  BY ExternalAiAssumption, ChatAssumption DEF Turns, Apart
<1>1. CASE ChatNext /\ UNCHANGED turnVars
  <2>1. /\ LedgerOK' /\ RecOK' /\ FlowsOK'
        /\ (\A q \in Requests : Onward(q))
        /\ \A q \in Requests \ ChatRequests : Quiet(q)
    BY <1>1, ChatKeeps DEF AiInv
  <2>2. ExecsOK'
    BY <1>0, <1>1, <2>1, WorkersRest DEF AiInv, turnVars
  <2> QED
    BY <2>1, <2>2 DEF AiInv
<1>2. CASE TurnsNext /\ UNCHANGED chatVars
  <2>1. /\ LedgerOK' /\ RecOK' /\ ExecsOK'
        /\ \A q \in Requests \ Turns : Quiet(q)
    BY <1>2, TurnsKeep DEF AiInv
  <2>2. FlowsOK'
    BY <1>0, <1>2, <2>1, StreamsRest DEF AiInv, chatVars
  <2> QED
    BY <2>1, <2>2 DEF AiInv
<1>3. CASE UNCHANGED aiVars
  <2>1. req' = req /\ turn' = turn /\ resv' = resv /\ rec' = rec /\ flow' = flow /\ exec' = exec
    BY <1>3 DEF aiVars, ledgerVars, chatVars, turnVars
  <2>2. LedgerOK' /\ \A q \in Requests : Quiet(q)
    BY <2>1, NothingMoves DEF AiInv
  <2> QED
    BY <1>0, <2>1, <2>2, RecRests, StreamsRest, WorkersRest DEF AiInv, Quiet
<1> QED
  BY <1>1, <1>2, <1>3 DEF AiStep

THEOREM LedgerAlwaysAgrees ==
  ASSUME Apart
  PROVE  AiBehaviour => []LedgerAgrees
<1>1. AiInv => LedgerAgrees
  BY DEF AiInv, LedgerOK, RowOK, ResvOK, Agrees, HasText, LedgerAgrees
<1>2. AiInv /\ AiStep => AiInv'
  BY AiNextInv
<1> QED
  BY <1>1, <1>2, AiInitInv, PTL DEF AiBehaviour, AiStep

-----------------------------------------------------------------------------
(* A turn of an invocation that only one worker at a time executes.        *)

(* What is known of a turn's row while the provider is asked at most once. *)
PaidRow(row, trn, paid) ==
    /\ paid \in {0, 1}
    /\ paid = 1 => trn.status # "NONE" /\ row.status # "CREATED"
    /\ HasText(row) => row.status # "CREATED"

(* A turn whose text may be the artifact. *)
CanEmit(row, rv, trn) == rv.status = "SETTLED" /\ HasText(row) /\ ~HasCalls(trn)

Unasked == {"resume", "reserve", "link", "check", "start"}

Stored == {"durable", "settle", "finish"}

(* What the only worker knows besides. *)
SoloKnows(e, row, rv, trn, paid) ==
    /\ e.pc \in Unasked => paid = 0
    /\ e.pc \in Admits \ Stored => ~HasText(row)
    /\ e.pc \in Backed \ {"link"} => row.status # "CREATED"
    /\ e.pc \in Stored /\ e.res.kind = "text" => ~HasCalls(trn)
    /\ e.pc = "emit" => CanEmit(row, rv, trn)

PaidAt(r) == PaidRow(req[r], turn[r], paidCalls[r])

EmitAt(r) == CanEmit(req[r], resv[r], turn[r])

KnowsAt(e, r) == SoloKnows(e, req[r], resv[r], turn[r], paidCalls[r])

Runs(w, i) == ~ExecAt(w, "idle") /\ exec[w].inv = i

SawEmits(e, i) == \A k \in 0..MaxTurns - 1 : e.seen[k] = "emit" => EmitAt(<<i, k>>)

ArtifactOK(i) ==
    artifact[i] # NoArtifact => artifact[i] \in 0..MaxTurns - 1 /\ EmitAt(<<i, artifact[i]>>)

SoloOK(i) ==
    /\ \A v, w \in Workers : Runs(v, i) /\ Runs(w, i) => v = w
    /\ \A w \in Workers : Runs(w, i) => KnowsAt(exec[w], Row(w)) /\ SawEmits(exec[w], i)
    /\ \A k \in 0..MaxTurns - 1 : PaidAt(<<i, k>>)
    /\ ArtifactOK(i)

SoloInv ==
    /\ DOMAIN paidCalls = Requests /\ DOMAIN artifact = Invs
    /\ \A i \in Invs \ overlap : SoloOK(i)

(* A turn that its owner leaves alone. *)
LEMMA QuietSolo ==
  ASSUME NEW r \in Turns, Quiet(r), paidCalls'[r] = paidCalls[r]
  PROVE  /\ PaidAt(r) => PaidAt(r)'
         /\ EmitAt(r) => EmitAt(r)'
         /\ \A e : KnowsAt(e, r) => KnowsAt(e, r)'
<1>1. PICK old, new, rv, rv2, trn, trn2, paid :
         old = req[r] /\ new = req'[r] /\ rv = resv[r] /\ rv2 = resv'[r]
           /\ trn = turn[r] /\ trn2 = turn'[r] /\ paid = paidCalls[r]
  OBVIOUS
<1>2. /\ HasText(old) <=> HasText(new)
      /\ HasCalls(trn2) => HasCalls(trn)
      /\ new.status = "CREATED" => old.status = "CREATED"
      /\ trn.status # "NONE" => trn2.status # "NONE"
      /\ rv.status = "SETTLED" => rv2.status = "SETTLED"
  BY <1>1 DEF Quiet, Onward, RowGoes, ResvGoes
<1>3. PaidRow(old, trn, paid) => PaidRow(new, trn2, paid)
  BY <1>2 DEF PaidRow
<1>4. CanEmit(old, rv, trn) => CanEmit(new, rv2, trn2)
  BY <1>2 DEF CanEmit
<1>5. ASSUME NEW e, SoloKnows(e, old, rv, trn, paid)
      PROVE  SoloKnows(e, new, rv2, trn2, paid)
  BY <1>2, <1>4, <1>5 DEF SoloKnows
<1> QED
  BY <1>1, <1>3, <1>4, <1>5 DEF PaidAt, EmitAt, KnowsAt

(* An invocation goes on as it did. *)
LEMMA SoloStays ==
  ASSUME NEW i \in Invs, SoloOK(i),
         \A k \in 0..MaxTurns - 1 : PaidAt(<<i, k>>)' /\ (EmitAt(<<i, k>>) => EmitAt(<<i, k>>)'),
         \A v \in Workers : Runs(v, i)' =>
             Runs(v, i) /\ exec'[v].seen = exec[v].seen /\ KnowsAt(exec[v], Row(v))',
         \/ artifact'[i] = artifact[i]
         \/ artifact'[i] \in 0..MaxTurns - 1 /\ EmitAt(<<i, artifact'[i]>>)
  PROVE  SoloOK(i)'
<1>1. \A v, w \in Workers : Runs(v, i)' /\ Runs(w, i)' => v = w
  BY DEF SoloOK
<1>2. \A v \in Workers : Runs(v, i)' => SawEmits(exec[v], i)'
  BY DEF SoloOK, SawEmits
<1>3. ArtifactOK(i)'
  BY DEF SoloOK, ArtifactOK
<1> QED
  BY <1>1, <1>2, <1>3 DEF SoloOK

(* Nobody asks, and nobody starts a run. *)
LEMMA SoloRests ==
  ASSUME SoloInv, ExecsOK, \A q \in Turns : Quiet(q), paidCalls' = paidCalls, overlap' = overlap,
         \A v \in Workers : exec'[v] = exec[v] \/ exec'[v].pc = "idle",
         DOMAIN artifact' = Invs,
         \A i \in Invs : \/ artifact'[i] = artifact[i]
                         \/ artifact'[i] \in 0..MaxTurns - 1 /\ EmitAt(<<i, artifact'[i]>>)
  PROVE  SoloInv'
<1>1. ASSUME NEW i \in Invs, i \notin overlap
      PROVE  SoloOK(i)'
  <2>1. SoloOK(i)
    BY <1>1 DEF SoloInv
  <2>2. ASSUME NEW k \in 0..MaxTurns - 1
        PROVE  PaidAt(<<i, k>>)' /\ (EmitAt(<<i, k>>) => EmitAt(<<i, k>>)')
    <3>1. PICK r \in Turns : r = <<i, k>>
      BY DEF Turns
    <3>2. PaidAt(r) /\ Quiet(r) /\ paidCalls'[r] = paidCalls[r]
      BY <2>1, <3>1 DEF SoloOK
    <3>3. PaidAt(r)' /\ (EmitAt(r) => EmitAt(r)')
      BY <3>2, QuietSolo
    <3> QED
      BY <3>1, <3>3
  <2>3. ASSUME NEW v \in Workers, Runs(v, i)'
        PROVE  Runs(v, i) /\ exec'[v].seen = exec[v].seen /\ KnowsAt(exec[v], Row(v))'
    <3>1. exec'[v] = exec[v] /\ Runs(v, i)
      BY <2>3 DEF Runs, ExecAt
    <3>2. PICK r : r = Row(v)
      OBVIOUS
    <3>3. PICK e : e = exec[v]
      OBVIOUS
    <3>4. r \in Turns /\ KnowsAt(e, r)
      BY <2>1, <3>1, <3>2, <3>3, RowIsTurn DEF SoloOK, Runs
    <3>5. KnowsAt(e, r)'
      BY <3>4, QuietSolo
    <3>6. exec'[v] = e /\ Row(v)' = r
      BY <3>1, <3>2, <3>3 DEF Row
    <3> QED
      BY <3>1, <3>5, <3>6 DEF KnowsAt
  <2> QED
    BY <2>1, <2>2, <2>3, SoloStays
<1> QED
  BY <1>1 DEF SoloInv

(* A run goes on, or it ends: it does not turn to another invocation.      *)
Proceeds(w) ==
    /\ \A v \in Workers \ {w} : exec'[v] = exec[v]
    /\ exec'[w].pc = "idle" \/ (exec'[w].inv = exec[w].inv /\ exec'[w].seen = exec[w].seen)

(* What a step leaves of the row, turn, program and artifact it is about.  *)
SoloAfter(w, i, r) ==
    /\ PaidAt(r)' /\ (EmitAt(r) => EmitAt(r)')
    /\ exec'[w].pc = "idle" \/ KnowsAt(exec[w], Row(w))'
    /\ \/ artifact'[i] = artifact[i]
       \/ artifact'[i] \in 0..MaxTurns - 1 /\ EmitAt(<<i, artifact'[i]>>)

LEMMA WorkerSolo ==
  ASSUME SoloInv, ExecsOK, NEW w \in Workers, ~ExecAt(w, "idle"),
         NEW i, i = exec[w].inv, NEW r, r = Row(w),
         \A q \in Requests \ {r} : Quiet(q) /\ paidCalls'[q] = paidCalls[q],
         DOMAIN paidCalls' = Requests, DOMAIN artifact' = Invs, overlap' = overlap,
         \A j \in Invs \ {i} : artifact'[j] = artifact[j],
         Proceeds(w), i \notin overlap => SoloAfter(w, i, r)
  PROVE  SoloInv'
<1>0. Turns \subseteq Requests
  BY ExternalAiAssumption DEF Turns
<1>1. i \in Invs /\ r \in Turns
  BY RowIsTurn DEF ExecsOK, ExecOK, ExecShape, ExecAt
<1>2. ASSUME NEW j \in Invs, j \notin overlap
      PROVE  SoloOK(j)'
  <2>1. SoloOK(j)
    BY <1>2 DEF SoloInv
  <2>2. ASSUME NEW k \in 0..MaxTurns - 1
        PROVE  PaidAt(<<j, k>>)' /\ (EmitAt(<<j, k>>) => EmitAt(<<j, k>>)')
    <3>1. PICK q \in Turns : q = <<j, k>>
      BY DEF Turns
    <3>2. CASE q = r
      <4>1. i = j
        BY <3>1, <3>2 DEF Row
      <4> QED
        BY <1>2, <3>1, <3>2, <4>1 DEF SoloAfter
    <3>3. CASE q # r
      <4>1. PaidAt(q) /\ Quiet(q) /\ paidCalls'[q] = paidCalls[q]
        BY <1>0, <2>1, <3>1, <3>3 DEF SoloOK
      <4>2. PaidAt(q)' /\ (EmitAt(q) => EmitAt(q)')
        BY <4>1, QuietSolo
      <4> QED
        BY <3>1, <4>2
    <3> QED
      BY <3>2, <3>3
  <2>3. ASSUME NEW v \in Workers, Runs(v, j)'
        PROVE  Runs(v, j) /\ exec'[v].seen = exec[v].seen /\ KnowsAt(exec[v], Row(v))'
    <3>1. CASE v = w
      <4>1. exec'[w].pc # "idle" /\ exec'[w].inv = j
        BY <2>3, <3>1 DEF Runs, ExecAt
      <4>2. j = i /\ exec'[w].seen = exec[w].seen
        BY <4>1 DEF Proceeds
      <4>3. KnowsAt(exec[w], Row(w))'
        BY <1>2, <4>1, <4>2 DEF SoloAfter
      <4> QED
        BY <3>1, <4>2, <4>3 DEF Runs
    <3>2. CASE v # w
      <4>1. exec'[v] = exec[v] /\ Runs(v, j)
        BY <2>3, <3>2 DEF Runs, ExecAt, Proceeds
      <4>2. j # i
        BY <1>2, <2>1, <3>2, <4>1 DEF SoloOK, Runs
      <4>3. PICK q : q = Row(v)
        OBVIOUS
      <4>4. PICK e : e = exec[v]
        OBVIOUS
      <4>5. q \in Turns /\ KnowsAt(e, q)
        BY <2>1, <4>1, <4>3, <4>4, RowIsTurn DEF SoloOK, Runs
      <4>6. q # r
        BY <4>1, <4>2, <4>3 DEF Row, Runs
      <4>7. KnowsAt(e, q)'
        BY <1>0, <4>5, <4>6, QuietSolo
      <4>8. exec'[v] = e /\ Row(v)' = q
        BY <4>1, <4>3, <4>4 DEF Row
      <4> QED
        BY <4>1, <4>7, <4>8 DEF KnowsAt
    <3> QED
      BY <3>1, <3>2
  <2>4. \/ artifact'[j] = artifact[j]
        \/ artifact'[j] \in 0..MaxTurns - 1 /\ EmitAt(<<j, artifact'[j]>>)
    BY <1>2 DEF SoloAfter
  <2> QED
    BY <2>1, <2>2, <2>3, <2>4, SoloStays
<1> QED
  BY <1>2 DEF SoloInv

-----------------------------------------------------------------------------
(* The only worker's steps.                                                *)

Solo(w, r) ==
    /\ ~ExecAt(w, "idle") /\ r = Row(w) /\ r \in Turns
    /\ KnowsAt(exec[w], r) /\ SawEmits(exec[w], exec[w].inv) /\ PaidAt(r)

LEMMA SoloHas ==
  ASSUME SoloInv, ExecsOK, NEW w \in Workers, ~ExecAt(w, "idle"), exec[w].inv \notin overlap,
         NEW r, r = Row(w)
  PROVE  Solo(w, r)
<1>1. exec[w].inv \in Invs /\ exec[w].idx \in 0..MaxTurns - 1 /\ r \in Turns
  BY RowIsTurn DEF ExecsOK, ExecOK, ExecShape, ExecAt
<1>2. SoloOK(exec[w].inv)
  BY <1>1 DEF SoloInv
<1>3. r = <<exec[w].inv, exec[w].idx>>
  BY DEF Row
<1> QED
  BY <1>1, <1>2, <1>3 DEF SoloOK, Solo, Runs

(* Where a program goes on knows no more than where it was. *)
Follows(from, to) ==
    /\ to \in Unasked => from \in Unasked
    /\ to \in Admits \ Stored => from \in Admits \ Stored
    /\ to \in Backed \ {"link"} => from \in Backed \ {"link"}
    /\ to \in Stored => from \in Stored
    /\ to # "emit"

LEMMA KnowsOn ==
  ASSUME NEW e, NEW f, NEW row, NEW rv, NEW trn, NEW paid, SoloKnows(e, row, rv, trn, paid),
         Follows(e.pc, f.pc), f.pc \in Stored => f.res = e.res
  PROVE  SoloKnows(f, row, rv, trn, paid)
  BY DEF SoloKnows, Follows

LEMMA OwnerQuiet ==
  ASSUME NEW r, Onward(r), SameOwner(r, req'[r], turn'[r])
  PROVE  Quiet(r)
  BY DEF Quiet, SameOwner

(* The run goes on with what it knew, ... *)
LEMMA SoloGoes ==
  ASSUME ExecsOK, NEW w \in Workers, NEW r, Solo(w, r), Quiet(r), paidCalls'[r] = paidCalls[r],
         NEW pc, Goto(w, pc), Follows(exec[w].pc, pc), NEW i, artifact'[i] = artifact[i]
  PROVE  SoloAfter(w, i, r)
<1>1. PICK e : e = exec[w]
  OBVIOUS
<1>2. PICK f : WorkerMoves(w, f) /\ f.pc = pc /\ TurnOf(f) = r /\ f.res = e.res
  BY <1>1, GotoMoves DEF Solo
<1>3. PaidAt(r)' /\ (EmitAt(r) => EmitAt(r)') /\ KnowsAt(e, r)'
  BY <1>1, QuietSolo DEF Solo
<1>4. KnowsAt(f, r)'
  BY <1>1, <1>2, <1>3, KnowsOn DEF KnowsAt
<1>5. exec'[w] = f /\ Row(w)' = r
  BY <1>2 DEF WorkerMoves, Row, TurnOf
<1> QED
  BY <1>3, <1>4, <1>5 DEF SoloAfter, KnowsAt

(* ... or it learns that the text may be the artifact, or it is over. *)
LEMMA SoloEmits ==
  ASSUME ExecsOK, NEW w \in Workers, NEW r, Solo(w, r), Quiet(r), paidCalls'[r] = paidCalls[r],
         Goto(w, "emit"), EmitAt(r)', NEW i, artifact'[i] = artifact[i]
  PROVE  SoloAfter(w, i, r)
<1>1. PICK f : WorkerMoves(w, f) /\ f.pc = "emit" /\ TurnOf(f) = r
  BY GotoMoves DEF Solo
<1>2. PaidAt(r)'
  BY QuietSolo DEF Solo
<1>3. KnowsAt(f, r)'
  BY <1>1 DEF KnowsAt, SoloKnows, EmitAt, Unasked, Admits, Backed, Stored
<1>4. exec'[w] = f /\ Row(w)' = r
  BY <1>1 DEF WorkerMoves, Row, TurnOf
<1> QED
  BY <1>2, <1>3, <1>4 DEF SoloAfter, KnowsAt

LEMMA SoloEnds ==
  ASSUME ExecsOK, NEW w \in Workers, NEW r, Solo(w, r), Quiet(r), paidCalls'[r] = paidCalls[r],
         NEW final, Return(w, final), NEW i, artifact'[i] = artifact[i]
  PROVE  SoloAfter(w, i, r)
<1>1. PaidAt(r)' /\ (EmitAt(r) => EmitAt(r)')
  BY QuietSolo DEF Solo
<1>2. PICK f : WorkerMoves(w, f) /\ f.pc = "idle"
  BY ReturnMoves
<1> QED
  BY <1>1, <1>2 DEF SoloAfter, WorkerMoves

(* A write of the row's status that leaves its text and its estimate. *)
LEMMA StatusQuiet ==
  ASSUME LedgerOK, NEW r \in Turns, Onward(r), NEW row, Keeps(row, req[r]),
         row.status = "CREATED" => req[r].status = "CREATED", NEW status,
         Both(r, row, [turn[r] EXCEPT !.status = status])
  PROVE  Quiet(r) /\ req'[r] = row /\ turn'[r].status = status
<1>1. PICK trn : trn = [turn[r] EXCEPT !.status = status]
  OBVIOUS
<1>2. r \in Requests /\ RowOK(req[r]) /\ DOMAIN turn[r] = TurnFields
  BY ExternalAiAssumption DEF Turns, LedgerOK
<1>3. trn.status = status /\ trn.calls = turn[r].calls
  BY <1>1, <1>2, TurnRestated
<1>4. req'[r] = row /\ turn'[r] = trn
  BY <1>1, BothWrote DEF Wrote, RowAt
<1>5. row.est = req[r].est /\ (HasText(row) <=> HasText(req[r]))
  BY <1>2, KeptRow
<1>6. SameOwner(r, row, trn)
  BY <1>3, <1>5 DEF SameOwner, HasCalls
<1>7. Quiet(r)
  BY <1>4, <1>6, OwnerQuiet
<1> QED
  BY <1>3, <1>4, <1>7

(* Only the turn is written. *)
LEMMA TurnQuiet ==
  ASSUME LedgerOK, NEW r \in Turns, Onward(r), req' = req, NEW status,
         turn' = [turn EXCEPT ![r].status = status]
  PROVE  Quiet(r)
<1>1. r \in Requests /\ DOMAIN turn = Requests /\ DOMAIN turn[r] = TurnFields
  BY ExternalAiAssumption DEF Turns, LedgerOK
<1>2. turn'[r].calls = turn[r].calls
  BY <1>1 DEF TurnFields
<1> QED
  BY <1>2 DEF Quiet, HasCalls

(* A verdict that the text may be the artifact is right. *)
LEMMA VerdictEmits ==
  ASSUME LedgerOK, NEW r \in Turns, HistoryVerdict(r) = "emit"
  PROVE  EmitAt(r)
<1>1. req[r].status = "SUCCEEDED" /\ ~HasCalls(turn[r])
  BY DEF HistoryVerdict, HasCalls
<1>2. Agrees(req[r], resv[r])
  BY ExternalAiAssumption DEF Turns, LedgerOK
<1> QED
  BY <1>1, <1>2 DEF Agrees, EmitAt, CanEmit

(* The step of a worker that is the only one at its invocation. *)
Alone(w, r) ==
    /\ LedgerOK /\ ExecsOK /\ WorkerDone(w)
    /\ Solo(w, r)

LEMMA AloneHas ==
  ASSUME NEW w \in Workers, NEW r, Alone(w, r)
  PROVE  /\ r \in Turns /\ r \in Requests /\ Onward(r) /\ exec[w].idx \in 0..MaxTurns - 1
         /\ RowOK(req[r]) /\ DOMAIN turn[r] = TurnFields
         /\ Agrees(req[r], resv[r]) /\ ExecKnows(exec[w], req[r], resv[r], turn[r])
         /\ exec[w].inv \in Invs /\ r = <<exec[w].inv, exec[w].idx>>
<1>1. ~ExecAt(w, "idle") /\ r = Row(w) /\ LedgerOK /\ ExecsOK
  BY DEF Alone, Solo
<1>2. exec[w].inv \in Invs /\ exec[w].idx \in 0..MaxTurns - 1
  BY <1>1 DEF ExecsOK, ExecOK, ExecShape, ExecAt
<1>3. r = <<exec[w].inv, exec[w].idx>>
  BY <1>1 DEF Row
<1>4. /\ r \in Turns /\ r \in Requests
      /\ ExecKnows(exec[w], req[r], resv[r], turn[r])
      /\ RowOK(req[r]) /\ DOMAIN turn[r] = TurnFields /\ Agrees(req[r], resv[r])
  BY <1>1, WorkerKnows
<1> QED
  BY <1>2, <1>3, <1>4 DEF Alone, WorkerDone

LEMMA SameQuiet ==
  ASSUME NEW r, req' = req, turn' = turn, Onward(r)
  PROVE  Quiet(r)
  BY DEF Quiet

LEMMA WalkAlone ==
  ASSUME NEW w \in Workers, NEW r, Alone(w, r), WalkHistory(w), NEW i
  PROVE  SoloAfter(w, i, r)
<1>1. Onward(r) /\ r \in Turns /\ Solo(w, r) /\ ExecsOK
  BY AloneHas DEF Alone
<1>2. Quiet(r) /\ paidCalls'[r] = paidCalls[r] /\ artifact'[i] = artifact[i]
  BY <1>1, SameQuiet DEF WalkHistory
<1>3. \/ Goto(w, "begin") \/ Goto(w, "tools") \/ Return(w, FALSE) \/ Return(w, TRUE)
      \/ Goto(w, "emit") /\ exec[w].seen[exec[w].idx] = "emit"
  BY DEF WalkHistory
<1>4. CASE Goto(w, "begin") \/ Goto(w, "tools")
  BY <1>1, <1>2, <1>4, SoloGoes DEF Follows, Unasked, Admits, Backed, Stored
<1>5. CASE Return(w, FALSE) \/ Return(w, TRUE)
  BY <1>1, <1>2, <1>5, SoloEnds
<1>6. CASE Goto(w, "emit") /\ exec[w].seen[exec[w].idx] = "emit"
  <2>1. EmitAt(r)
    BY <1>6, AloneHas DEF Alone, Solo, SawEmits
  <2>2. EmitAt(r)'
    BY <1>1, <1>2, <2>1, QuietSolo
  <2> QED
    BY <1>1, <1>2, <1>6, <2>2, SoloEmits
<1> QED
  BY <1>3, <1>4, <1>5, <1>6

(* The run ends, and nothing else. *)
LEMMA EndAlone ==
  ASSUME NEW w \in Workers, NEW r, Alone(w, r),
         LoadFails(w) \/ ModelUnresolved(w) \/ AdmissionFails(w), NEW i
  PROVE  SoloAfter(w, i, r)
<1>1. /\ req' = req /\ turn' = turn /\ paidCalls' = paidCalls /\ artifact' = artifact
      /\ \E final : Return(w, final)
  BY DEF LoadFails, ModelUnresolved, AdmissionFails
<1>2. Quiet(r) /\ Solo(w, r) /\ ExecsOK
  BY <1>1, AloneHas, SameQuiet DEF Alone
<1> QED
  BY <1>1, <1>2, SoloEnds

LEMMA CapacityAlone ==
  ASSUME NEW w \in Workers, NEW r, Alone(w, r), ReadCapacity(w), NEW i
  PROVE  SoloAfter(w, i, r)
<1>1. /\ req' = req /\ turn' = turn /\ paidCalls' = paidCalls /\ artifact' = artifact
      /\ Goto(w, "admit") /\ ~ExecAt(w, "idle") /\ exec[w].pc = "begin"
  BY DEF ReadCapacity, ledgerVars, ExecAt
<1>2. Quiet(r) /\ Solo(w, r) /\ ExecsOK
  BY <1>1, AloneHas, SameQuiet DEF Alone
<1> QED
  BY <1>1, <1>2, AloneHas, SoloGoes DEF Follows, Unasked, Admits, Backed, Stored, Alone

LEMMA BeginAlone ==
  ASSUME NEW w \in Workers, NEW r, Alone(w, r), beginOrReuseTurn(w), NEW i
  PROVE  SoloAfter(w, i, r)
<1>1. PICK outcome : outcome = IF turn[r].status # "NONE" THEN ExistingOutcome(r)
                               ELSE NewOutcome(exec[w].inv, funds[w])
  OBVIOUS
<1>2. /\ r = Row(w) /\ ~ExecAt(w, "idle") /\ Solo(w, r) /\ LedgerOK /\ ExecsOK
      /\ r \in Turns /\ r \in Requests /\ Onward(r) /\ PaidAt(r) /\ TextHasTurn(r)
      /\ paidCalls'[r] = paidCalls[r] /\ artifact'[i] = artifact[i] /\ resv' = resv
  BY AloneHas DEF Alone, Solo, ExecsOK, beginOrReuseTurn
<1>3. /\ CASE outcome = "new" -> Goto(w, "resume") /\ running' = running
           [] outcome = "create" -> Goto(w, "reserve") /\ running' = running
           [] outcome \in {"emit", "tools"} -> Goto(w, outcome) /\ running' = running
           [] outcome \in {"wait", "retry"} -> Return(w, FALSE)
           [] OTHER -> Return(w, TRUE)
      /\ IF outcome = "create"
         THEN Both(r, [NoRow EXCEPT !.status = "CREATED",
                                    !.est = Funded(Min({funds[w], PlanAvailable}))],
                   [NoTurn EXCEPT !.status = "CREATED"])
         ELSE UNCHANGED <<req, turn>>
  BY <1>1, <1>2 DEF beginOrReuseTurn
<1>4. ASSUME outcome # "create" PROVE Quiet(r)
  BY <1>2, <1>3, <1>4, SameQuiet
<1>5. CASE outcome = "new"
  <2>1. turn[r].status # "NONE" /\ ExistingOutcome(r) = "new"
    BY <1>1, <1>5 DEF NewOutcome
  <2>2. req[r].status = "CREATED"
    BY <2>1 DEF ExistingOutcome, HistoryVerdict, Admitted
  <2>3. paidCalls[r] = 0 /\ ~HasText(req[r])
    BY <1>2, <2>2 DEF PaidAt, PaidRow
  <2>4. PICK f : WorkerMoves(w, f) /\ f.pc = "resume" /\ TurnOf(f) = r
    BY <1>2, <1>3, <1>5, GotoMoves
  <2>5. KnowsAt(f, r)
    BY <2>3, <2>4 DEF KnowsAt, SoloKnows, Unasked, Admits, Backed, Stored
  <2>6. PaidAt(r)' /\ (EmitAt(r) => EmitAt(r)') /\ KnowsAt(f, r)'
    BY <1>2, <1>4, <1>5, <2>5, QuietSolo
  <2>7. exec'[w] = f /\ Row(w)' = r
    BY <2>4 DEF WorkerMoves, Row, TurnOf
  <2> QED
    BY <1>2, <2>6, <2>7 DEF SoloAfter, KnowsAt
<1>6. CASE outcome = "create"
  <2>1. turn[r].status = "NONE"
    <3>1. HistoryVerdict(r) # "create"
      BY DEF HistoryVerdict
    <3>2. ExistingOutcome(r) # "create"
      BY <3>1 DEF ExistingOutcome
    <3> QED
      BY <1>1, <1>6, <3>2
  <2>2. paidCalls[r] = 0 /\ ~HasText(req[r])
    BY <1>2, <2>1 DEF PaidAt, PaidRow, TextHasTurn
  <2>3. PICK row : row = [NoRow EXCEPT !.status = "CREATED",
                                       !.est = Funded(Min({funds[w], PlanAvailable}))]
    OBVIOUS
  <2>4. PICK trn : trn = [NoTurn EXCEPT !.status = "CREATED"]
    OBVIOUS
  <2>5. Both(r, row, trn) /\ Goto(w, "reserve")
    BY <1>3, <1>6, <2>3, <2>4
  <2>6. ~HasText(row)
    BY <2>3 DEF NoRow, HasText
  <2>7. req'[r] = row /\ turn'[r] = trn
    BY <1>2, <2>5, BothWrote DEF Wrote, RowAt
  <2>8. PICK f : WorkerMoves(w, f) /\ f.pc = "reserve" /\ TurnOf(f) = r
    BY <1>2, <2>5, GotoMoves
  <2>9. PaidAt(r)' /\ KnowsAt(f, r)'
    BY <1>2, <2>2, <2>6, <2>7, <2>8
       DEF PaidAt, PaidRow, KnowsAt, SoloKnows, Unasked, Admits, Backed, Stored
  <2>10. ~EmitAt(r)
    BY <2>2 DEF EmitAt, CanEmit
  <2>11. exec'[w] = f /\ Row(w)' = r
    BY <2>8 DEF WorkerMoves, Row, TurnOf
  <2> QED
    BY <1>2, <2>9, <2>10, <2>11 DEF SoloAfter, KnowsAt
<1>7. CASE outcome = "emit"
  <2>1. HistoryVerdict(r) = "emit"
    BY <1>1, <1>7 DEF ExistingOutcome, NewOutcome
  <2>2. EmitAt(r)'
    BY <1>2, <1>4, <1>7, <2>1, VerdictEmits, QuietSolo
  <2> QED
    BY <1>2, <1>3, <1>4, <1>7, <2>2, SoloEmits
<1>8. CASE outcome = "tools"
  BY <1>2, <1>3, <1>4, <1>8, SoloGoes DEF Follows, Unasked, Admits, Backed, Stored
<1>9. CASE outcome \notin {"new", "create", "emit", "tools"}
  <2>1. Return(w, FALSE) \/ Return(w, TRUE)
    BY <1>3, <1>9
  <2> QED
    BY <1>2, <1>4, <1>9, <2>1, SoloEnds
<1> QED
  BY <1>5, <1>6, <1>7, <1>8, <1>9

LEMMA ResumeAlone ==
  ASSUME NEW w \in Workers, NEW r, Alone(w, r), ResumeTurn(w), NEW i
  PROVE  SoloAfter(w, i, r)
<1>1. PICK status : status = IF turn[r].status \in UsageWaiting THEN "CREATED" ELSE turn[r].status
  OBVIOUS
<1>2. /\ LedgerOK /\ ExecsOK /\ Solo(w, r) /\ r = Row(w) /\ r \in Turns /\ r \in Requests
      /\ Onward(r) /\ DOMAIN turn = Requests /\ DOMAIN turn[r] = TurnFields
  BY AloneHas DEF Alone, Solo, LedgerOK
<1>3. turn' = [turn EXCEPT ![r].status = status]
  BY <1>1, <1>2 DEF ResumeTurn, TurnFields
<1>4. /\ exec[w].pc = "resume" /\ req' = req /\ Goto(w, "reserve")
      /\ paidCalls'[r] = paidCalls[r] /\ artifact'[i] = artifact[i]
  BY DEF ResumeTurn, ExecAt
<1>5. Quiet(r)
  BY <1>2, <1>3, <1>4, TurnQuiet
<1> QED
  BY <1>2, <1>4, <1>5, SoloGoes DEF Follows, Unasked, Admits, Backed, Stored

(* A turn that ends before it is paid. *)
LEMMA FailedAlone ==
  ASSUME NEW w \in Workers, NEW r, Alone(w, r),
         Both(r, [req[r] EXCEPT !.status = "FAILED", !.fin = "NONE"],
              [turn[r] EXCEPT !.status = "FAILED_PRE_PROVIDER"]),
         NEW final, Return(w, final), paidCalls' = paidCalls, artifact' = artifact, NEW i
  PROVE  SoloAfter(w, i, r)
<1>1. PICK row : row = [req[r] EXCEPT !.status = "FAILED", !.fin = "NONE"]
  OBVIOUS
<1>2. /\ LedgerOK /\ ExecsOK /\ Solo(w, r) /\ r \in Turns /\ Onward(r) /\ RowOK(req[r])
  BY AloneHas DEF Alone
<1>3. Keeps(row, req[r]) /\ row.status = "FAILED"
  BY <1>1, <1>2 DEF Keeps, RowOK, ReqFields
<1>4. Quiet(r)
  BY <1>1, <1>2, <1>3, StatusQuiet
<1> QED
  BY <1>2, <1>4, SoloEnds

LEMMA ReserveAlone ==
  ASSUME NEW w \in Workers, NEW r, Alone(w, r), ReserveForTurn(w) \/ ReservationFails(w), NEW i
  PROVE  SoloAfter(w, i, r)
<1>1. /\ LedgerOK /\ ExecsOK /\ Solo(w, r) /\ r = Row(w) /\ r \in Turns /\ r \in Requests
      /\ Onward(r) /\ RowOK(req[r]) /\ exec[w].pc = "reserve"
      /\ paidCalls' = paidCalls /\ artifact' = artifact
  BY AloneHas DEF Alone, Solo, ReserveForTurn, ReservationFails, ExecAt
<1>2. CASE ReserveForTurn(w) /\ Reservable(r, req[r].est)
  <2>1. Goto(w, "link") /\ req' = req /\ turn' = turn
    BY <1>1, <1>2 DEF ReserveForTurn
  <2>2. Quiet(r)
    BY <1>1, <2>1, SameQuiet
  <2> QED
    BY <1>1, <2>1, <2>2, SoloGoes DEF Follows, Unasked, Admits, Backed, Stored
<1>3. CASE ReserveForTurn(w) /\ ~Reservable(r, req[r].est) /\ resv[r].status = "NONE"
  <2>1. PICK status : status = IF ActiveReserved THEN "WAITING_FOR_USAGE_CAPACITY"
                               ELSE "BLOCKED_INSUFFICIENT_USAGE"
    OBVIOUS
  <2>2. /\ turn' = [turn EXCEPT ![r].status = status] /\ Return(w, FALSE) /\ req' = req
    BY <1>1, <1>3, <2>1 DEF ReserveForTurn
  <2>3. Quiet(r)
    BY <1>1, <2>2, TurnQuiet
  <2> QED
    BY <1>1, <2>2, <2>3, SoloEnds
<1>4. CASE \/ ReserveForTurn(w) /\ ~Reservable(r, req[r].est) /\ resv[r].status # "NONE"
           \/ ReservationFails(w)
  BY <1>1, <1>4, FailedAlone DEF ReserveForTurn, ReservationFails
<1> QED
  BY <1>2, <1>3, <1>4

LEMMA LinkAlone ==
  ASSUME NEW w \in Workers, NEW r, Alone(w, r), LinkReservation(w), NEW i
  PROVE  SoloAfter(w, i, r)
<1>1. PICK row : row = [req[r] EXCEPT !.status = "RESERVED", !.fin = "RESERVED", !.linked = TRUE]
  OBVIOUS
<1>2. PICK e : e = exec[w]
  OBVIOUS
<1>3. /\ LedgerOK /\ ExecsOK /\ Solo(w, r) /\ r = Row(w) /\ r \in Turns /\ ~ExecAt(w, "idle")
      /\ Onward(r) /\ RowOK(req[r]) /\ PaidAt(r) /\ KnowsAt(e, r)
  BY <1>2, AloneHas DEF Alone, Solo
<1>4. MarkTurn(w, "link", "check", row, "RESERVED")
  BY <1>1, <1>3 DEF LinkReservation
<1>5. /\ e.pc = "link" /\ Both(r, row, [turn[r] EXCEPT !.status = "RESERVED"])
      /\ Goto(w, "check") /\ paidCalls' = paidCalls /\ artifact' = artifact
  BY <1>2, <1>3, <1>4 DEF LinkReservation, MarkTurn, ExecAt
<1>6. Keeps(row, req[r]) /\ row.status = "RESERVED"
  BY <1>1, <1>3 DEF Keeps, RowOK, ReqFields
<1>7. Quiet(r) /\ req'[r] = row
  BY <1>3, <1>5, <1>6, StatusQuiet
<1>8. PaidAt(r)' /\ (EmitAt(r) => EmitAt(r)') /\ KnowsAt(e, r)'
  BY <1>3, <1>5, <1>7, QuietSolo
<1>9. PICK f : WorkerMoves(w, f) /\ f.pc = "check" /\ TurnOf(f) = r
  BY <1>3, <1>5, GotoMoves
<1>10. KnowsAt(f, r)'
  BY <1>5, <1>6, <1>7, <1>8, <1>9 DEF KnowsAt, SoloKnows, Unasked, Admits, Backed, Stored
<1>11. exec'[w] = f /\ Row(w)' = r
  BY <1>9 DEF WorkerMoves, Row, TurnOf
<1> QED
  BY <1>5, <1>8, <1>10, <1>11 DEF SoloAfter, KnowsAt

LEMMA CheckAlone ==
  ASSUME NEW w \in Workers, NEW r, Alone(w, r), CheckRunning(w) \/ TurnRejected(w), NEW i
  PROVE  SoloAfter(w, i, r)
<1>1. /\ ExecsOK /\ Solo(w, r) /\ Onward(r)
      /\ req' = req /\ turn' = turn /\ paidCalls' = paidCalls /\ artifact' = artifact
  BY AloneHas DEF Alone, CheckRunning, TurnRejected
<1>2. \/ exec[w].pc = "check" /\ Goto(w, "start")
      \/ exec[w].pc \in {"check", "start", "asked", "streams"} /\ Goto(w, "giveBack")
  BY DEF CheckRunning, TurnRejected, ExecAt
<1>3. Quiet(r)
  BY <1>1, SameQuiet
<1> QED
  BY <1>1, <1>2, <1>3, SoloGoes DEF Follows, Unasked, Admits, Backed, Stored

(* The provider is asked, for the first time. *)
LEMMA CallAlone ==
  ASSUME NEW w \in Workers, NEW r, Alone(w, r), callProvider(w), DOMAIN paidCalls = Requests, NEW i
  PROVE  SoloAfter(w, i, r)
<1>1. PICK row : row = [req[r] EXCEPT !.status = "PROVIDER_STARTED"]
  OBVIOUS
<1>2. PICK e : e = exec[w]
  OBVIOUS
<1>3. /\ LedgerOK /\ ExecsOK /\ Solo(w, r) /\ r = Row(w) /\ r \in Turns /\ r \in Requests
      /\ ~ExecAt(w, "idle")
      /\ Onward(r) /\ RowOK(req[r]) /\ PaidAt(r) /\ KnowsAt(e, r)
  BY <1>2, AloneHas DEF Alone, Solo
<1>4. /\ e.pc = "start" /\ Both(r, row, [turn[r] EXCEPT !.status = "PROVIDER_STARTING"])
      /\ Goto(w, "asked") /\ artifact' = artifact
      /\ paidCalls' = [paidCalls EXCEPT ![r] = @ + 1]
  BY <1>1, <1>2, <1>3 DEF callProvider, MarkTurn, ExecAt
<1>5. Keeps(row, req[r]) /\ row.status = "PROVIDER_STARTED"
  BY <1>1, <1>3 DEF Keeps, RowOK, ReqFields
<1>6. Quiet(r) /\ req'[r] = row /\ turn'[r].status = "PROVIDER_STARTING"
  BY <1>3, <1>4, <1>5, StatusQuiet
<1>7. paidCalls[r] = 0 /\ ~HasText(req[r])
  BY <1>3, <1>4 DEF KnowsAt, SoloKnows, Unasked, Admits, Stored
<1>8. paidCalls'[r] = 1
  BY <1>3, <1>4, <1>7
<1>9. ~HasText(req'[r])
  BY <1>6, <1>7 DEF Quiet
<1>10. PaidAt(r)' /\ ~EmitAt(r)
  BY <1>5, <1>6, <1>7, <1>8, <1>9 DEF PaidAt, PaidRow, EmitAt, CanEmit
<1>11. PICK f : WorkerMoves(w, f) /\ f.pc = "asked" /\ TurnOf(f) = r
  BY <1>3, <1>4, GotoMoves
<1>12. KnowsAt(f, r)'
  BY <1>5, <1>6, <1>9, <1>11 DEF KnowsAt, SoloKnows, Unasked, Admits, Backed, Stored
<1>13. exec'[w] = f /\ Row(w)' = r
  BY <1>11 DEF WorkerMoves, Row, TurnOf
<1> QED
  BY <1>4, <1>10, <1>12, <1>13 DEF SoloAfter, KnowsAt

LEMMA StreamsAlone ==
  ASSUME NEW w \in Workers, NEW r, Alone(w, r), TurnStreams(w) \/ MarkSettling(w), NEW i
  PROVE  SoloAfter(w, i, r)
<1>1. /\ LedgerOK /\ ExecsOK /\ Solo(w, r) /\ r = Row(w) /\ r \in Turns /\ Onward(r)
      /\ RowOK(req[r]) /\ paidCalls' = paidCalls /\ artifact' = artifact
  BY AloneHas DEF Alone, Solo, TurnStreams, MarkSettling, MarkTurn
<1>2. CASE TurnStreams(w)
  <2>1. PICK row : row = [req[r] EXCEPT !.status = "STREAMING"]
    OBVIOUS
  <2>2. Keeps(row, req[r]) /\ row.status = "STREAMING"
    BY <1>1, <2>1 DEF Keeps, RowOK, ReqFields
  <2>3. Both(r, row, [turn[r] EXCEPT !.status = "PROVIDER_IN_FLIGHT"])
    BY <1>1, <1>2, <2>1 DEF TurnStreams, MarkTurn
  <2>4. Quiet(r)
    BY <1>1, <2>2, <2>3, StatusQuiet
  <2>5. exec[w].pc = "asked" /\ Goto(w, "streams")
    BY <1>2 DEF TurnStreams, MarkTurn, ExecAt
  <2> QED
    BY <1>1, <2>4, <2>5, SoloGoes DEF Follows, Unasked, Admits, Backed, Stored
<1>3. CASE MarkSettling(w)
  <2>1. PICK row : row = req[r]
    OBVIOUS
  <2>2. Keeps(row, req[r])
    BY <1>1, <2>1 DEF Keeps, RowOK
  <2>3. Both(r, row, [turn[r] EXCEPT !.status = "SETTLING"])
    BY <1>1, <1>3, <2>1 DEF MarkSettling, MarkTurn
  <2>4. Quiet(r)
    BY <1>1, <2>1, <2>2, <2>3, StatusQuiet
  <2>5. exec[w].pc = "durable" /\ Goto(w, "settle")
    BY <1>3 DEF MarkSettling, MarkTurn, ExecAt
  <2> QED
    BY <1>1, <2>4, <2>5, SoloGoes DEF Follows, Unasked, Admits, Backed, Stored
<1> QED
  BY <1>2, <1>3

(* A held turn has a text from now on. *)
LEMMA HoldAlone ==
  ASSUME NEW w \in Workers, NEW r, Alone(w, r), NEW cost, HoldTurn(w, cost), resv' = resv,
         paidCalls' = paidCalls, artifact' = artifact, NEW i
  PROVE  SoloAfter(w, i, r)
<1>1. PICK row : row = HeldTurn(req[r], cost)
  OBVIOUS
<1>2. PICK trn : trn = [turn[r] EXCEPT !.status = "RECONCILIATION_REQUIRED"]
  OBVIOUS
<1>3. /\ LedgerOK /\ ExecsOK /\ r = Row(w) /\ r \in Turns /\ RowOK(req[r]) /\ PaidAt(r)
      /\ DOMAIN turn[r] = TurnFields
  BY AloneHas DEF Alone, Solo
<1>4. Both(r, row, trn) /\ Return(w, TRUE)
  BY <1>1, <1>2, <1>3 DEF HoldTurn
<1>5. row.status = "RECONCILIATION_REQUIRED" /\ HasText(row)
  BY <1>1, <1>3 DEF HeldTurn, RowOK, ReqFields, HasText
<1>6. trn.status = "RECONCILIATION_REQUIRED" /\ trn.calls = turn[r].calls
  BY <1>2, <1>3, TurnRestated
<1>7. req'[r] = row /\ turn'[r] = trn
  BY <1>3, <1>4, BothWrote DEF Wrote, RowAt
<1>8. PaidAt(r)'
  BY <1>3, <1>5, <1>6, <1>7 DEF PaidAt, PaidRow
<1>9. EmitAt(r) => EmitAt(r)'
  BY <1>5, <1>6, <1>7 DEF EmitAt, CanEmit, HasCalls
<1>10. PICK f : WorkerMoves(w, f) /\ f.pc = "idle"
  BY <1>3, <1>4, ReturnMoves
<1> QED
  BY <1>8, <1>9, <1>10 DEF SoloAfter, WorkerMoves

LEMMA GiveBackAlone ==
  ASSUME NEW w \in Workers, NEW r, Alone(w, r), releaseReservationAfterSafeFailure(w), NEW i
  PROVE  SoloAfter(w, i, r)
<1>1. /\ ExecsOK /\ Solo(w, r) /\ r = Row(w) /\ Onward(r) /\ exec[w].pc = "giveBack"
      /\ paidCalls' = paidCalls /\ artifact' = artifact
  BY AloneHas DEF Alone, Solo, releaseReservationAfterSafeFailure, ExecAt
<1>2. CASE Releasable(r)
  <2>1. Goto(w, "givenBack") /\ req' = req /\ turn' = turn
    BY <1>1, <1>2 DEF releaseReservationAfterSafeFailure
  <2>2. Quiet(r)
    BY <1>1, <2>1, SameQuiet
  <2> QED
    BY <1>1, <2>1, <2>2, SoloGoes DEF Follows, Unasked, Admits, Backed, Stored
<1>3. CASE ~Releasable(r)
  BY <1>1, <1>3, HoldAlone DEF releaseReservationAfterSafeFailure
<1> QED
  BY <1>2, <1>3

LEMMA GivenBackAlone ==
  ASSUME NEW w \in Workers, NEW r, Alone(w, r), MarkGivenBack(w), NEW i
  PROVE  SoloAfter(w, i, r)
<1>1. PICK row : row = [req[r] EXCEPT !.status = "FAILED", !.fin = "RELEASED"]
  OBVIOUS
<1>2. /\ LedgerOK /\ ExecsOK /\ Solo(w, r) /\ r = Row(w) /\ r \in Turns /\ Onward(r)
      /\ RowOK(req[r])
  BY AloneHas DEF Alone, Solo
<1>3. Keeps(row, req[r]) /\ row.status = "FAILED"
  BY <1>1, <1>2 DEF Keeps, RowOK, ReqFields
<1>4. /\ Both(r, row, [turn[r] EXCEPT !.status = "FAILED_SAFE_PROVIDER"])
      /\ Return(w, TRUE) /\ paidCalls' = paidCalls /\ artifact' = artifact
  BY <1>1, <1>2 DEF MarkGivenBack
<1>5. Quiet(r)
  BY <1>2, <1>3, <1>4, StatusQuiet
<1> QED
  BY <1>2, <1>4, <1>5, SoloEnds

LEMMA UnknownAlone ==
  ASSUME NEW w \in Workers, NEW r, Alone(w, r), TurnUnknown(w), NEW i
  PROVE  SoloAfter(w, i, r)
  BY HoldAlone DEF TurnUnknown

(* The provider's answer is known only to the worker. *)
LEMMA AnswerAlone ==
  ASSUME NEW w \in Workers, NEW r, Alone(w, r), TurnAnswers(w), NEW i
  PROVE  SoloAfter(w, i, r)
<1>1. PICK res : exec' = [exec EXCEPT ![w].res = res, ![w].pc = "answered"]
  BY DEF TurnAnswers
<1>2. PICK e : e = exec[w]
  OBVIOUS
<1>3. /\ LedgerOK /\ ExecsOK /\ Solo(w, r) /\ r = Row(w) /\ r \in Turns /\ Onward(r)
      /\ PaidAt(r) /\ KnowsAt(e, r) /\ e.pc = "streams"
      /\ req' = req /\ turn' = turn /\ paidCalls' = paidCalls /\ artifact' = artifact
  BY <1>2, AloneHas DEF Alone, Solo, TurnAnswers, ExecAt
<1>4. PICK f : f = [e EXCEPT !.res = res, !.pc = "answered"]
  OBVIOUS
<1>5. DOMAIN exec = Workers /\ DOMAIN e = ExecFields
  BY <1>2, <1>3 DEF ExecsOK, ExecOK, ExecShape
<1>6. f.pc = "answered" /\ f.inv = e.inv /\ f.idx = e.idx
  BY <1>4, <1>5 DEF ExecFields
<1>7. exec'[w] = f
  BY <1>1, <1>2, <1>4, <1>5
<1>8. Row(w)' = r
  BY <1>2, <1>3, <1>6, <1>7 DEF Row
<1>9. Quiet(r)
  BY <1>3, SameQuiet
<1>10. PaidAt(r)' /\ (EmitAt(r) => EmitAt(r)') /\ KnowsAt(e, r)'
  BY <1>3, <1>9, QuietSolo
<1>11. KnowsAt(f, r)'
  BY <1>3, <1>6, <1>10 DEF KnowsAt, SoloKnows, Unasked, Admits, Backed, Stored
<1> QED
  BY <1>3, <1>7, <1>8, <1>10, <1>11 DEF SoloAfter, KnowsAt

(* Text and tool calls are stored together. *)
LEMMA StoreAlone ==
  ASSUME NEW w \in Workers, NEW r, Alone(w, r), StoreUsage(w), NEW i
  PROVE  SoloAfter(w, i, r)
<1>1. PICK e : e = exec[w]
  OBVIOUS
<1>2. /\ LedgerOK /\ ExecsOK /\ Solo(w, r) /\ r = Row(w) /\ r \in Turns /\ ~ExecAt(w, "idle")
      /\ RowOK(req[r]) /\ DOMAIN turn[r] = TurnFields
      /\ PaidAt(r) /\ KnowsAt(e, r) /\ e.pc = "answered"
      /\ resv' = resv /\ paidCalls' = paidCalls /\ artifact' = artifact
  BY <1>1, AloneHas DEF Alone, Solo, StoreUsage, ExecAt
<1>3. CASE e.res.cost > req[r].est
  BY <1>1, <1>2, <1>3, HoldAlone DEF StoreUsage
<1>4. CASE ~(e.res.cost > req[r].est)
  <2>1. PICK row : row = [req[r] EXCEPT !.cost = e.res.cost, !.text = TRUE]
    OBVIOUS
  <2>2. PICK calls : calls = (e.res.kind = "calls")
    OBVIOUS
  <2>3. PICK bad : bad = (e.res.kind = "bad")
    OBVIOUS
  <2>4. PICK trn : trn = [turn[r] EXCEPT !.status = "USAGE_DURABLE", !.calls = calls, !.bad = bad]
    OBVIOUS
  <2>5. Both(r, row, trn) /\ Goto(w, "durable")
    BY <1>1, <1>2, <1>4, <2>1, <2>2, <2>3, <2>4 DEF StoreUsage
  <2>6. row.status = req[r].status
    BY <1>2, <2>1 DEF RowOK, ReqFields
  <2>7. trn.status = "USAGE_DURABLE" /\ trn.calls = calls
    BY <1>2, <2>4 DEF TurnFields
  <2>8. req'[r] = row /\ turn'[r] = trn
    BY <1>2, <2>5, BothWrote DEF Wrote, RowAt
  <2>9. ~HasText(req[r]) /\ req[r].status # "CREATED"
    BY <1>2 DEF KnowsAt, SoloKnows, Admits, Backed, Stored
  <2>10. PaidAt(r)' /\ ~EmitAt(r)
    BY <1>2, <2>6, <2>7, <2>8, <2>9 DEF PaidAt, PaidRow, EmitAt, CanEmit
  <2>11. PICK f : WorkerMoves(w, f) /\ f.pc = "durable" /\ TurnOf(f) = r /\ f.res = e.res
    BY <1>1, <1>2, <2>5, GotoMoves
  <2>12. f.res.kind = "text" => ~HasCalls(trn)
    BY <2>2, <2>7, <2>11 DEF HasCalls
  <2>13. KnowsAt(f, r)'
    BY <2>6, <2>8, <2>9, <2>11, <2>12 DEF KnowsAt, SoloKnows, Unasked, Admits, Backed, Stored
  <2>14. exec'[w] = f /\ Row(w)' = r
    BY <2>11 DEF WorkerMoves, Row, TurnOf
  <2> QED
    BY <1>2, <2>10, <2>13, <2>14 DEF SoloAfter, KnowsAt
<1> QED
  BY <1>3, <1>4

LEMMA SettleAlone ==
  ASSUME NEW w \in Workers, NEW r, Alone(w, r), SettleTurn(w), NEW i
  PROVE  SoloAfter(w, i, r)
<1>1. /\ ExecsOK /\ Solo(w, r) /\ r = Row(w) /\ Onward(r) /\ exec[w].pc = "settle"
      /\ paidCalls' = paidCalls /\ artifact' = artifact
  BY AloneHas DEF Alone, Solo, SettleTurn, ExecAt
<1>2. PICK cost : cost = exec[w].res.cost
  OBVIOUS
<1>3. CASE Settleable(r, cost)
  <2>1. Goto(w, "finish") /\ req' = req /\ turn' = turn
    BY <1>1, <1>2, <1>3 DEF SettleTurn
  <2>2. Quiet(r)
    BY <1>1, <2>1, SameQuiet
  <2> QED
    BY <1>1, <2>1, <2>2, SoloGoes DEF Follows, Unasked, Admits, Backed, Stored
<1>4. CASE ~Settleable(r, cost)
  BY <1>1, <1>2, <1>4, HoldAlone DEF SettleTurn
<1> QED
  BY <1>3, <1>4

LEMMA FinishAlone ==
  ASSUME NEW w \in Workers, NEW r, Alone(w, r), FinishTurn(w), NEW i
  PROVE  SoloAfter(w, i, r)
<1>1. PICK status : status = IF exec[w].res.kind = "bad" THEN "FAILED" ELSE "SUCCEEDED"
  OBVIOUS
<1>2. PICK row : row = [req[r] EXCEPT !.status = status, !.fin = "SETTLED"]
  OBVIOUS
<1>3. /\ LedgerOK /\ ExecsOK /\ Solo(w, r) /\ r = Row(w) /\ r \in Turns /\ Onward(r)
      /\ RowOK(req[r]) /\ exec[w].pc = "finish" /\ KnowsAt(exec[w], r)
      /\ ExecKnows(exec[w], req[r], resv[r], turn[r])
      /\ paidCalls' = paidCalls /\ artifact' = artifact /\ resv' = resv
  BY AloneHas DEF Alone, Solo, FinishTurn, ExecAt
<1>4. Keeps(row, req[r]) /\ row.status = status /\ status # "CREATED"
  BY <1>1, <1>2, <1>3 DEF Keeps, RowOK, ReqFields
<1>5. Both(r, row, [turn[r] EXCEPT !.status = "SUCCEEDED"])
  BY <1>1, <1>2, <1>3 DEF FinishTurn
<1>6. Quiet(r)
  BY <1>3, <1>4, <1>5, StatusQuiet
<1>7. \/ Return(w, TRUE) \/ Goto(w, "tools")
      \/ Goto(w, "emit") /\ exec[w].res.kind = "text"
  BY DEF FinishTurn
<1>8. CASE Return(w, TRUE)
  BY <1>3, <1>6, <1>8, SoloEnds
<1>9. CASE Goto(w, "tools")
  BY <1>3, <1>6, <1>9, SoloGoes DEF Follows, Unasked, Admits, Backed, Stored
<1>10. CASE Goto(w, "emit") /\ exec[w].res.kind = "text"
  <2>1. EmitAt(r)
    BY <1>3, <1>10 DEF ExecKnows, KnowsAt, SoloKnows, Stored, EmitAt, CanEmit
  <2>2. EmitAt(r)'
    BY <1>3, <1>6, <2>1, QuietSolo
  <2> QED
    BY <1>3, <1>6, <1>10, <2>2, SoloEmits
<1> QED
  BY <1>7, <1>8, <1>9, <1>10

LEMMA ToolsAlone ==
  ASSUME NEW w \in Workers, NEW r, Alone(w, r), ensureToolResults(w), NEW i
  PROVE  SoloAfter(w, i, r)
<1>1. /\ LedgerOK /\ ExecsOK /\ Solo(w, r) /\ r = Row(w) /\ r \in Turns /\ ~ExecAt(w, "idle")
      /\ Onward(r) /\ paidCalls' = paidCalls /\ artifact' = artifact
      /\ req' = req /\ resv' = resv
  BY AloneHas DEF Alone, Solo, ensureToolResults
<1>2. \/ turn' = turn \/ turn' = [turn EXCEPT ![r].results = TRUE]
  BY <1>1 DEF ensureToolResults
<1>3. Quiet(r)
  BY <1>1, <1>2, SameQuiet, ToolsStored, AloneHas
<1>4. \/ Return(w, TRUE)
      \/ exec[w].idx + 1 # MaxTurns /\ NextTurn(w)
  BY DEF ensureToolResults, NextTurn
<1>5. CASE Return(w, TRUE)
  BY <1>1, <1>3, <1>5, SoloEnds
<1>6. CASE exec[w].idx + 1 # MaxTurns /\ NextTurn(w)
  <2>1. PICK f : WorkerMoves(w, f) /\ f.pc \in {"history", "begin"}
    BY <1>1, <1>6, NextTurnMoves
  <2>2. PaidAt(r)' /\ (EmitAt(r) => EmitAt(r)')
    BY <1>1, <1>3, QuietSolo DEF Solo
  <2>3. \A q : KnowsAt(f, q)'
    BY <2>1 DEF KnowsAt, SoloKnows, Unasked, Admits, Backed, Stored
  <2>4. exec'[w] = f
    BY <2>1 DEF WorkerMoves
  <2>5. KnowsAt(exec[w], Row(w))'
    BY <2>3, <2>4 DEF KnowsAt
  <2> QED
    BY <1>1, <2>2, <2>5 DEF SoloAfter
<1> QED
  BY <1>4, <1>5, <1>6

(* The artifact is the text of the worker's turn. *)
LEMMA EmitAlone ==
  ASSUME NEW w \in Workers, NEW r, Alone(w, r), emitArtifact(w), DOMAIN artifact = Invs,
         NEW i, i = exec[w].inv
  PROVE  SoloAfter(w, i, r)
<1>1. /\ ExecsOK /\ Solo(w, r) /\ Onward(r) /\ r \in Turns /\ KnowsAt(exec[w], r)
      /\ i \in Invs /\ exec[w].idx \in 0..MaxTurns - 1 /\ r = <<i, exec[w].idx>>
      /\ PaidAt(r) /\ exec[w].pc = "emit"
      /\ req' = req /\ turn' = turn /\ paidCalls' = paidCalls /\ Return(w, TRUE)
  BY AloneHas DEF Alone, Solo, emitArtifact, ExecAt
<1>2. EmitAt(r)
  BY <1>1 DEF KnowsAt, SoloKnows, EmitAt
<1>3. artifact'[i] = artifact[i] \/ artifact'[i] = exec[w].idx
  BY <1>1 DEF emitArtifact
<1>4. \/ artifact'[i] = artifact[i]
      \/ artifact'[i] \in 0..MaxTurns - 1 /\ EmitAt(<<i, artifact'[i]>>)
  BY <1>1, <1>2, <1>3
<1>5. Quiet(r)
  BY <1>1, SameQuiet
<1>6. PaidAt(r)' /\ (EmitAt(r) => EmitAt(r)')
  BY <1>1, <1>5, QuietSolo
<1>7. PICK f : WorkerMoves(w, f) /\ f.pc = "idle"
  BY <1>1, ReturnMoves
<1> QED
  BY <1>4, <1>6, <1>7 DEF SoloAfter, WorkerMoves

LEMMA RunAlone ==
  ASSUME NEW w \in Workers, NEW r, Alone(w, r), ExecStep(w),
         DOMAIN paidCalls = Requests, DOMAIN artifact = Invs, NEW i, i = exec[w].inv
  PROVE  SoloAfter(w, i, r)
  BY WalkAlone, EndAlone, CapacityAlone, BeginAlone, ResumeAlone, ReserveAlone, LinkAlone, CheckAlone,
     CallAlone, StreamsAlone, GiveBackAlone, GivenBackAlone, UnknownAlone, AnswerAlone,
     StoreAlone, SettleAlone, FinishAlone, ToolsAlone, EmitAlone
     DEF ExecStep

-----------------------------------------------------------------------------
(* What a step of a run leaves alone, whoever else runs.                   *)

LEMMA GotoProceeds ==
  ASSUME ExecsOK, NEW w \in Workers, ~ExecAt(w, "idle"), NEW pc, Goto(w, pc)
  PROVE  Proceeds(w)
<1>1. DOMAIN exec = Workers /\ DOMAIN exec[w] = ExecFields
  BY DEF ExecsOK, ExecOK, ExecShape
<1> QED
  BY <1>1 DEF Goto, Proceeds, ExecFields

LEMMA ReturnProceeds ==
  ASSUME ExecsOK, NEW w \in Workers, exec' = [exec EXCEPT ![w] = Free]
  PROVE  Proceeds(w)
  BY DEF ExecsOK, Proceeds, Free

LEMMA AnswerProceeds ==
  ASSUME ExecsOK, NEW w \in Workers, TurnAnswers(w)
  PROVE  Proceeds(w)
<1>1. DOMAIN exec = Workers /\ DOMAIN exec[w] = ExecFields
  BY DEF ExecsOK, ExecOK, ExecShape
<1>2. PICK res : exec' = [exec EXCEPT ![w].res = res, ![w].pc = "answered"]
  BY DEF TurnAnswers
<1> QED
  BY <1>1, <1>2 DEF Proceeds, ExecFields

LEMMA NextProceeds ==
  ASSUME ExecsOK, NEW w \in Workers, NextTurn(w)
  PROVE  Proceeds(w)
<1>1. DOMAIN exec = Workers /\ DOMAIN exec[w] = ExecFields
  BY DEF ExecsOK, ExecOK, ExecShape
<1> QED
  BY <1>1 DEF Proceeds, ExecFields, NextTurn

LEMMA RunProceeds ==
  ASSUME ExecsOK, NEW w \in Workers, ExecStep(w)
  PROVE  ~ExecAt(w, "idle") /\ Proceeds(w)
<1>1. ~ExecAt(w, "idle")
  BY DEF ExecStep, WalkHistory, LoadFails, ModelUnresolved, ReadCapacity, beginOrReuseTurn,
     AdmissionFails, ResumeTurn, ReserveForTurn, ReservationFails, LinkReservation, MarkTurn,
     CheckRunning, callProvider, TurnStreams, TurnRejected, releaseReservationAfterSafeFailure,
     MarkGivenBack, TurnUnknown, TurnAnswers, StoreUsage, MarkSettling, SettleTurn, FinishTurn,
     ensureToolResults, emitArtifact, ExecAt
<1>2. (\E pc : Goto(w, pc)) => Proceeds(w)
  BY <1>1, GotoProceeds
<1>3. (\E final : Return(w, final)) => Proceeds(w)
  BY ReturnProceeds DEF Return
<1>4. TurnAnswers(w) \/ NextTurn(w) => Proceeds(w)
  BY AnswerProceeds, NextProceeds
<1>6. CASE \/ WalkHistory(w) \/ LoadFails(w) \/ ModelUnresolved(w) \/ ReadCapacity(w) \/ beginOrReuseTurn(w)
           \/ AdmissionFails(w) \/ ResumeTurn(w)
  <2>1. (\E pc : Goto(w, pc)) \/ (\E final : Return(w, final))
    BY <1>6 DEF WalkHistory, LoadFails, ModelUnresolved, ReadCapacity, beginOrReuseTurn, AdmissionFails,
       ResumeTurn
  <2> QED
    BY <1>1, <1>2, <1>3, <2>1
<1>7. CASE \/ ReserveForTurn(w) \/ ReservationFails(w) \/ LinkReservation(w)
           \/ CheckRunning(w) \/ callProvider(w) \/ TurnStreams(w) \/ TurnRejected(w)
  <2>1. (\E pc : Goto(w, pc)) \/ (\E final : Return(w, final))
    BY <1>7 DEF ReserveForTurn, ReservationFails, LinkReservation, MarkTurn, CheckRunning,
       callProvider, TurnStreams, TurnRejected
  <2> QED
    BY <1>1, <1>2, <1>3, <2>1
<1>8. CASE \/ releaseReservationAfterSafeFailure(w) \/ MarkGivenBack(w) \/ TurnUnknown(w)
           \/ StoreUsage(w) \/ MarkSettling(w) \/ SettleTurn(w) \/ FinishTurn(w) \/ emitArtifact(w)
  <2>1. (\E pc : Goto(w, pc)) \/ (\E final : Return(w, final))
    BY <1>8 DEF releaseReservationAfterSafeFailure, MarkGivenBack, TurnUnknown, HoldTurn,
       StoreUsage, MarkSettling, MarkTurn, SettleTurn, FinishTurn, emitArtifact
  <2> QED
    BY <1>1, <1>2, <1>3, <2>1
<1>9. CASE ensureToolResults(w)
  <2>1. NextTurn(w) \/ (\E final : Return(w, final))
    BY <1>9 DEF ensureToolResults, NextTurn
  <2> QED
    BY <1>1, <1>3, <1>4, <2>1
<1> QED
  BY <1>1, <1>4, <1>6, <1>7, <1>8, <1>9 DEF ExecStep

LEMMA RunFrame ==
  ASSUME SoloInv, NEW w \in Workers, ExecStep(w), NEW i, i = exec[w].inv, NEW r, r = Row(w)
  PROVE  /\ overlap' = overlap
         /\ DOMAIN paidCalls' = Requests /\ \A q \in Requests \ {r} : paidCalls'[q] = paidCalls[q]
         /\ DOMAIN artifact' = Invs /\ \A j \in Invs \ {i} : artifact'[j] = artifact[j]
<1>1. DOMAIN paidCalls = Requests /\ DOMAIN artifact = Invs
  BY DEF SoloInv
<1>2. overlap' = overlap
  BY DEF ExecStep, WalkHistory, LoadFails, ModelUnresolved, ReadCapacity, beginOrReuseTurn,
     AdmissionFails, ResumeTurn, ReserveForTurn, ReservationFails, LinkReservation, MarkTurn,
     CheckRunning, callProvider, TurnStreams, TurnRejected, releaseReservationAfterSafeFailure,
     MarkGivenBack, TurnUnknown, TurnAnswers, StoreUsage, MarkSettling, SettleTurn, FinishTurn,
     ensureToolResults, emitArtifact, TurnRest
<1>3. paidCalls' = paidCalls \/ paidCalls' = [paidCalls EXCEPT ![r] = @ + 1]
  BY DEF ExecStep, WalkHistory, LoadFails, ModelUnresolved, ReadCapacity, beginOrReuseTurn,
     AdmissionFails, ResumeTurn, ReserveForTurn, ReservationFails, LinkReservation, MarkTurn,
     CheckRunning, callProvider, TurnStreams, TurnRejected, releaseReservationAfterSafeFailure,
     MarkGivenBack, TurnUnknown, TurnAnswers, StoreUsage, MarkSettling, SettleTurn, FinishTurn,
     ensureToolResults, emitArtifact
<1>4. artifact' = artifact \/ emitArtifact(w)
  BY DEF ExecStep, WalkHistory, LoadFails, ModelUnresolved, ReadCapacity, beginOrReuseTurn,
     AdmissionFails, ResumeTurn, ReserveForTurn, ReservationFails, LinkReservation, MarkTurn,
     CheckRunning, callProvider, TurnStreams, TurnRejected, releaseReservationAfterSafeFailure,
     MarkGivenBack, TurnUnknown, TurnAnswers, StoreUsage, MarkSettling, SettleTurn, FinishTurn,
     ensureToolResults
<1>5. DOMAIN artifact' = Invs /\ \A j \in Invs \ {i} : artifact'[j] = artifact[j]
  BY <1>1, <1>4 DEF emitArtifact
<1>6. DOMAIN paidCalls' = Requests /\ \A q \in Requests \ {r} : paidCalls'[q] = paidCalls[q]
  BY <1>1, <1>3
<1> QED
  BY <1>2, <1>5, <1>6

LEMMA RunSolo ==
  ASSUME SoloInv, LedgerOK, ExecsOK, NEW w \in Workers, ExecStep(w)
  PROVE  SoloInv'
<1>1. PICK r : r = Row(w)
  OBVIOUS
<1>2. PICK i : i = exec[w].inv
  OBVIOUS
<1>3. WorkerDone(w)
  BY RunFits
<1>4. ~ExecAt(w, "idle") /\ Proceeds(w)
  BY RunProceeds
<1>5. ASSUME i \notin overlap
      PROVE  SoloAfter(w, i, r)
  <2>1. Alone(w, r)
    BY <1>1, <1>2, <1>3, <1>4, <1>5, SoloHas DEF Alone
  <2> QED
    BY <1>2, <2>1, RunAlone DEF SoloInv
<1>6. /\ overlap' = overlap
      /\ DOMAIN paidCalls' = Requests /\ \A q \in Requests \ {r} : paidCalls'[q] = paidCalls[q]
      /\ DOMAIN artifact' = Invs /\ \A j \in Invs \ {i} : artifact'[j] = artifact[j]
  BY <1>1, <1>2, RunFrame
<1>7. \A q \in Requests \ {r} : Quiet(q)
  BY <1>1, <1>3 DEF WorkerDone
<1> QED
  BY <1>1, <1>2, <1>4, <1>5, <1>6, <1>7, WorkerSolo

(* A run begins. *)
LEMMA ExecuteSolo ==
  ASSUME SoloInv, LedgerOK, ExecsOK, NEW w \in Workers, NEW i \in Invs, execute(w, i)
  PROVE  SoloInv'
<1>1. PICK seen : seen = [k \in 0..MaxTurns - 1 |-> HistoryVerdict(<<i, k>>)]
  OBVIOUS
<1>2. PICK e : e = [Free EXCEPT !.pc = "history", !.inv = i, !.seen = seen]
  OBVIOUS
<1>3. /\ DOMAIN exec = Workers /\ ExecAt(w, "idle")
      /\ exec' = [exec EXCEPT ![w] = e]
      /\ req' = req /\ turn' = turn /\ resv' = resv
      /\ paidCalls' = paidCalls /\ artifact' = artifact
  BY <1>1, <1>2 DEF execute, ExecsOK
<1>4. e.pc = "history" /\ e.inv = i /\ e.idx = 0 /\ e.seen = seen
  BY <1>2 DEF Free
<1>5. exec'[w] = e /\ \A v \in Workers \ {w} : exec'[v] = exec[v]
  BY <1>3
<1>6. ASSUME NEW j \in Invs, j \notin overlap'
      PROVE  SoloOK(j)'
  <2>1. j \notin overlap /\ (j = i => \A v \in Workers : exec[v].inv # i)
    BY <1>6 DEF execute
  <2>2. SoloOK(j)
    BY <2>1 DEF SoloInv
  <2>3. \A k \in 0..MaxTurns - 1 : PaidAt(<<j, k>>)'
    BY <1>3, <2>2 DEF SoloOK, PaidAt
  <2>4. ArtifactOK(j)'
    BY <1>3, <2>2 DEF SoloOK, ArtifactOK, EmitAt
  <2>5. ASSUME NEW v \in Workers, Runs(v, j)', v # w
        PROVE  Runs(v, j) /\ j # i
    BY <1>5, <2>1, <2>5 DEF Runs, ExecAt
  <2>6. \A v, u \in Workers : Runs(v, j)' /\ Runs(u, j)' => v = u
    <3>1. Runs(w, j)' => j = i
      BY <1>4, <1>5 DEF Runs
    <3> QED
      BY <2>2, <2>5, <3>1 DEF SoloOK
  <2>7. ASSUME NEW v \in Workers, Runs(v, j)'
        PROVE  (KnowsAt(exec[v], Row(v)) /\ SawEmits(exec[v], j))'
    <3>1. CASE v = w
      <4>1. j = i
        BY <1>4, <1>5, <2>7, <3>1 DEF Runs
      <4>2. ASSUME NEW k \in 0..MaxTurns - 1, e.seen[k] = "emit"
            PROVE  EmitAt(<<i, k>>)
        <5>1. HistoryVerdict(<<i, k>>) = "emit"
          BY <1>1, <1>4, <4>2
        <5>2. <<i, k>> \in Turns
          BY DEF Turns
        <5> QED
          BY <5>1, <5>2, VerdictEmits
      <4>3. SawEmits(exec[v], j)'
        BY <1>3, <1>5, <3>1, <4>1, <4>2 DEF SawEmits, EmitAt
      <4>4. KnowsAt(exec[v], Row(v))'
        BY <1>4, <1>5, <3>1 DEF KnowsAt, SoloKnows, Unasked, Admits, Backed, Stored
      <4> QED
        BY <4>3, <4>4
    <3>2. CASE v # w
      <4>1. Runs(v, j) /\ exec'[v] = exec[v]
        BY <1>5, <2>5, <2>7, <3>2
      <4>2. KnowsAt(exec[v], Row(v)) /\ SawEmits(exec[v], j)
        BY <2>2, <4>1 DEF SoloOK
      <4>3. Row(v)' = Row(v)
        BY <4>1 DEF Row
      <4> QED
        BY <1>3, <4>1, <4>2, <4>3 DEF KnowsAt, SawEmits, EmitAt
    <3> QED
      BY <3>1, <3>2
  <2> QED
    BY <2>3, <2>4, <2>6, <2>7 DEF SoloOK
<1> QED
  BY <1>3, <1>6 DEF SoloInv

(* Recovery takes the text of a turn that was finished. *)
LEMMA RecoverSolo ==
  ASSUME SoloInv, LedgerOK, ExecsOK, NEW i \in Invs, recover(i)
  PROVE  SoloInv'
<1>1. PICK final : final = {k \in 0..MaxTurns - 1 :
                              /\ req[<<i, k>>].status = "SUCCEEDED" /\ req[<<i, k>>].text
                              /\ ~turn[<<i, k>>].calls /\ ~turn[<<i, k>>].bad}
  OBVIOUS
<1>2. PICK m : m = Max(final)
  OBVIOUS
<1>3. /\ final # {} /\ artifact' = [artifact EXCEPT ![i] = m]
      /\ req' = req /\ turn' = turn /\ resv' = resv /\ exec' = exec /\ paidCalls' = paidCalls
      /\ overlap' = overlap
  BY <1>1, <1>2 DEF recover, TurnRest
<1>4. m \in final
  <2>1. MaxTurns - 1 \in Nat /\ final \in SUBSET Nat /\ \A x \in final : x <= MaxTurns - 1
    BY <1>1, ExternalAiAssumption
  <2>2. \E n \in final : \A x \in final : n >= x
    BY <1>3, <2>1, GreatestExists
  <2> QED
    BY <1>2, <2>2 DEF Max
<1>5. m \in 0..MaxTurns - 1 /\ req[<<i, m>>].status = "SUCCEEDED" /\ ~HasCalls(turn[<<i, m>>])
  BY <1>1, <1>4 DEF HasCalls
<1>6. EmitAt(<<i, m>>)
  <2>1. <<i, m>> \in Requests
    BY <1>5, ExternalAiAssumption
  <2>2. Agrees(req[<<i, m>>], resv[<<i, m>>])
    BY <2>1 DEF LedgerOK
  <2> QED
    BY <1>5, <2>2 DEF Agrees, EmitAt, CanEmit
<1>7. DOMAIN artifact = Invs
  BY DEF SoloInv
<1>8. DOMAIN artifact' = Invs
      /\ \A j \in Invs : \/ artifact'[j] = artifact[j]
                         \/ artifact'[j] \in 0..MaxTurns - 1 /\ EmitAt(<<j, artifact'[j]>>)
  BY <1>3, <1>5, <1>6, <1>7
<1>9. \A q \in Turns : Quiet(q)
  BY <1>3, NothingMoves, ExternalAiAssumption DEF Turns
<1> QED
  BY <1>3, <1>8, <1>9, SoloRests

LEMMA AllRest ==
  ASSUME SoloInv, ExecsOK, \A q \in Turns : Quiet(q), paidCalls' = paidCalls, overlap' = overlap,
         artifact' = artifact, \A v \in Workers : exec'[v] = exec[v] \/ exec'[v].pc = "idle"
  PROVE  SoloInv'
  BY SoloRests DEF SoloInv

LEMMA TurnsSolo ==
  ASSUME SoloInv, LedgerOK, RecOK, ExecsOK, TurnsNext
  PROVE  SoloInv'
<1>0. Turns \subseteq Requests
  BY ExternalAiAssumption DEF Turns
<1>1. ASSUME NEW w \in Workers, WorkerDies(w)
      PROVE  SoloInv'
  <2>1. /\ req' = req /\ turn' = turn /\ resv' = resv
        /\ paidCalls' = paidCalls /\ overlap' = overlap /\ artifact' = artifact
        /\ exec' = [exec EXCEPT ![w] = Free]
    BY <1>1 DEF WorkerDies, ledgerVars
  <2>2. \A v \in Workers : exec'[v] = exec[v] \/ exec'[v].pc = "idle"
    BY <2>1 DEF ExecsOK, Free
  <2> QED
    BY <1>0, <2>1, <2>2, NothingMoves, AllRest
<1>2. ASSUME NEW i \in Invs, StopInvocation(i)
      PROVE  SoloInv'
  <2>1. /\ req' = req /\ turn' = turn /\ resv' = resv /\ exec' = exec
        /\ paidCalls' = paidCalls /\ overlap' = overlap /\ artifact' = artifact
    BY <1>2 DEF StopInvocation, TurnRest
  <2> QED
    BY <1>0, <2>1, NothingMoves, AllRest
<1>3. ASSUME TurnsReconcile \/ OthersSpend, UNCHANGED turnVars
      PROVE  SoloInv'
  <2>1. \A q \in Requests : Quiet(q)
    BY <1>0, <1>3, ScanFits, ReconcilerFits, OthersFit DEF TurnsReconcile
  <2>2. exec' = exec /\ paidCalls' = paidCalls /\ overlap' = overlap /\ artifact' = artifact
    BY <1>3 DEF turnVars
  <2> QED
    BY <1>0, <2>1, <2>2, AllRest
<1> QED
  BY <1>1, <1>2, <1>3, RunSolo, ExecuteSolo, RecoverSolo DEF TurnsNext

LEMMA SoloInitInv ==
  ASSUME LedgerInit, TurnsInit
  PROVE  SoloInv
<1>1. ASSUME NEW i \in Invs
      PROVE  SoloOK(i)
  <2>1. \A w \in Workers : ~Runs(w, i)
    BY DEF TurnsInit, Runs, ExecAt, Free
  <2>2. ~HasText(NoRow)
    BY DEF NoRow, HasText
  <2>3. PaidRow(NoRow, NoTurn, 0)
    BY <2>2 DEF PaidRow
  <2>4. \A k \in 0..MaxTurns - 1 : PaidAt(<<i, k>>)
    BY <2>3, ExternalAiAssumption DEF PaidAt, TurnsInit, LedgerInit
  <2>5. ArtifactOK(i)
    BY DEF ArtifactOK, TurnsInit
  <2> QED
    BY <2>1, <2>4, <2>5 DEF SoloOK
<1> QED
  BY <1>1 DEF SoloInv, TurnsInit

LEMMA SoloNextInv ==
  ASSUME Apart
  PROVE  AiInv /\ SoloInv /\ AiStep => SoloInv'
<1> SUFFICES ASSUME AiInv, SoloInv, AiStep PROVE SoloInv'
  OBVIOUS
<1>0. Turns \subseteq Requests \ ChatRequests
  BY ExternalAiAssumption DEF Turns, Apart
<1>1. CASE ChatNext /\ UNCHANGED turnVars
  <2>1. \A q \in Requests \ ChatRequests : Quiet(q)
    BY <1>1, ChatKeeps DEF AiInv
  <2> QED
    BY <1>0, <1>1, <2>1, AllRest DEF AiInv, turnVars
<1>2. CASE TurnsNext /\ UNCHANGED chatVars
  BY <1>2, TurnsSolo DEF AiInv
<1>3. CASE UNCHANGED aiVars
  <2>1. /\ req' = req /\ turn' = turn /\ resv' = resv /\ exec' = exec
        /\ paidCalls' = paidCalls /\ overlap' = overlap /\ artifact' = artifact
    BY <1>3 DEF aiVars, ledgerVars, turnVars
  <2> QED
    BY <1>0, <2>1, NothingMoves, AllRest DEF AiInv
<1> QED
  BY <1>1, <1>2, <1>3 DEF AiStep

(* As long as one worker at a time executes an invocation, the provider is *)
(* asked once at most for each of its turns, whatever runs fail, die and   *)
(* are started again, and the artifact is the text of a turn that was paid *)
(* and asked for no tool.                                                  *)
THEOREM TurnsAlwaysPaidOnce ==
  ASSUME Apart
  PROVE  AiBehaviour => []TurnsArePaidOnce
<1>1. SoloInv => TurnsArePaidOnce
  <2> SUFFICES ASSUME SoloInv, NEW i \in Invs, i \notin overlap
               PROVE  /\ \A k \in 0..MaxTurns - 1 : paidCalls[<<i, k>>] <= 1
                      /\ artifact[i] # NoArtifact =>
                             /\ resv[<<i, artifact[i]>>].status = "SETTLED"
                             /\ ~turn[<<i, artifact[i]>>].calls
    BY DEF TurnsArePaidOnce
  <2>1. SoloOK(i)
    BY DEF SoloInv
  <2>2. \A k \in 0..MaxTurns - 1 : paidCalls[<<i, k>>] \in {0, 1}
    BY <2>1 DEF SoloOK, PaidAt, PaidRow
  <2>3. artifact[i] # NoArtifact => EmitAt(<<i, artifact[i]>>)
    BY <2>1 DEF SoloOK, ArtifactOK
  <2> QED
    BY <2>2, <2>3 DEF EmitAt, CanEmit, HasCalls
<1>2. LedgerInit /\ ChatInit /\ TurnsInit => AiInv /\ SoloInv
  BY AiInitInv, SoloInitInv
<1>3. AiInv /\ AiStep => AiInv'
  BY AiNextInv
<1>4. AiInv /\ SoloInv /\ AiStep => SoloInv'
  BY SoloNextInv
<1> QED
  BY <1>1, <1>2, <1>3, <1>4, PTL DEF AiBehaviour, AiStep

=============================================================================
