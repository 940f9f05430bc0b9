---------------------------- MODULE DirectProofs ----------------------------
(***************************************************************************)
(* Proofs about the direct chat of DirectSession, for any number of tabs,  *)
(* devices, messages and mishaps: what was given up never appears, and no  *)
(* state of a ratchet is advanced twice.                                   *)
(*                                                                         *)
(* Neither is inductive alone.  The first needs that everything the        *)
(* browser and the network know of a message and of the invocation it      *)
(* belongs to carries one and the same epoch, which is never ahead of the  *)
(* server's and is behind it while somebody blocks; that a message still   *)
(* to be sent for the first time is known nowhere else; and what each      *)
(* program of a tab relies on.  The second needs that whatever was sealed  *)
(* is behind its ratchet.                                                  *)
(***************************************************************************)
EXTENDS DirectSession, TLAPS

-----------------------------------------------------------------------------
(* Types.                                                                  *)

(* A row of the outbox. *)
RowFields == {"epoch", "env", "rev", "cancelled", "committed", "delivery"}

RowOK(row) == DOMAIN row = RowFields /\ row.epoch \in 0..MaxEpoch /\ row.rev \in Nat

RowsOK(table) == table = [i \in Ids |-> table[i]] /\ \A i \in Ids : RowOK(table[i])

(* The state of a tab. *)
TabFields == {"pc", "id", "then", "recovering", "again", "snap", "epoch", "vers", "reply"}

TabOK(tab) ==
    /\ DOMAIN tab = TabFields
    /\ tab.epoch \in 0..MaxEpoch
    /\ DOMAIN tab.vers \subseteq AllDevices
    /\ tab.vers \in [DOMAIN tab.vers -> Nat]
    /\ RowsOK(tab.snap)

TabsOK == tabs = [t \in Tabs |-> tabs[t]] /\ \A t \in Tabs : TabOK(tabs[t])

(* A send the server has not answered. *)
RequestOK(r) ==
    /\ DOMAIN r = {"id", "epoch", "env", "tab", "stage"}
    /\ r.id \in Ids /\ r.epoch \in 0..MaxEpoch /\ r.tab \in Tabs

ChatTypeOK ==
    /\ epoch \in 0..MaxEpoch
    /\ messages = [id \in Ids |-> messages[id]]
    /\ \A r \in requests : RequestOK(r)
    /\ wishes \subseteq Ids \ Outputs
    /\ RowsOK(rows)
    /\ ratchets \in [0..MaxEpoch -> [AllDevices -> Nat]]
    /\ TabsOK

(* A table whose rows were there before, with the same epochs. *)
Kept(new, old) == \A i \in Ids : new[i] # NoRow => old[i] # NoRow /\ new[i].epoch = old[i].epoch

(* The empty outbox is one. *)
LEMMA NoRowsOK == RowOK(NoRow) /\ RowsOK(NoRows)
  BY DirectOutboxAssumption DEF RowOK, RowsOK, NoRow, NoRows, RowFields

(* Replacing a pending row by one of the same epoch. *)
LEMMA RowKeeps ==
  ASSUME RowsOK(rows), NEW new, RowOK(new), NEW i, NEW table,
         i \in Ids => Pending(i) /\ new.epoch = rows[i].epoch,
         table = [rows EXCEPT ![i] = new]
  PROVE  RowsOK(table) /\ Kept(table, rows)
  BY DEF RowsOK, Kept, Pending

(* Removing a row. *)
LEMMA DropKeeps ==
  ASSUME RowsOK(rows), NEW i, NEW table, table = [rows EXCEPT ![i] = NoRow]
  PROVE  RowsOK(table) /\ Kept(table, rows)
  BY NoRowsOK DEF RowsOK, Kept

(* What Committed and Delivery leave of a row. *)
LEMMA UpdateKeeps ==
  ASSUME NEW old, RowOK(old), NEW rev \in Nat, NEW status
  PROVE  /\ RowOK(Committed(old, rev)) /\ Committed(old, rev).epoch = old.epoch
         /\ RowOK(Delivery(old, status)) /\ Delivery(old, status).epoch = old.epoch
  BY DEF RowOK, RowFields, Committed, Delivery

(* completePendingSend keeps the epochs of the rows it leaves. *)
LEMMA CompleteKeeps ==
  ASSUME RowsOK(rows), NEW id, NEW row, RowOK(row), completePendingSend(id, row)
  PROVE  RowsOK(rows') /\ Kept(rows', rows)
<1>0. RowsOK(rows) /\ Kept(rows, rows)
  BY DEF Kept
<1>1. CASE id \in Invokes /\ Pending(id)
  <2>1. RowOK(rows[id]) /\ row.rev \in Nat
    BY <1>1, DirectOutboxAssumption DEF RowsOK, RowOK
  <2>2. id \notin Outputs
    BY <1>1, DirectOutboxAssumption DEF Outputs, Range
  <2>3. rows' = [rows EXCEPT ![id] = Committed(rows[id], row.rev)]
    BY <1>1, <2>2 DEF completePendingSend
  <2> QED
    BY <1>1, <2>1, <2>3, UpdateKeeps, RowKeeps
<1>2. CASE id \in Outputs /\ Pending(ParentOf(id)) /\ rows[ParentOf(id)].delivery = "staged"
  <2> DEFINE p == ParentOf(id)
  <2>1. p \in Invokes /\ id \notin Invokes /\ p \in Ids
    BY <1>2, DirectOutboxAssumption DEF Outputs, Range, ParentOf
  <2>2. rows' = [rows EXCEPT ![id] = NoRow, ![p] = Delivery(rows[p], "delivered")]
    BY <1>2, <2>1 DEF completePendingSend
  <2> HIDE DEF p
  <2>3. RowOK(Delivery(rows[p], "delivered")) /\ Delivery(rows[p], "delivered").epoch = rows[p].epoch
    BY <2>1, UpdateKeeps DEF RowsOK
  <2> QED
    BY <1>2, <2>1, <2>2, <2>3, NoRowsOK DEF RowsOK, Kept, Pending, p
<1> QED
  BY <1>0, <1>1, <1>2, DropKeeps DEF completePendingSend

-----------------------------------------------------------------------------
(* An invocation and its output belong together. *)
Root(id) == IF id \in Invokes THEN OutputOf[id] ELSE id

(* A tab is at work on a message for an epoch it has fixed. *)
TabHolds(tab, id, e) ==
    /\ tab.id = id /\ tab.epoch = e
    /\ \/ tab.pc \in {"run", "load", "encrypt"}
       \/ tab.pc = "prepare" /\ ~tab.recovering /\ id \in Outputs

(* The message is known for this epoch: stored, read by a tab, or under way. *)
Held(id, e) ==
    \/ rows[id] # NoRow /\ rows[id].epoch = e
    \/ \E t \in Tabs : tabs[t].snap[id] # NoRow /\ tabs[t].snap[id].epoch = e
    \/ \E t \in Tabs : TabHolds(tabs[t], id, e)
    \/ \E r \in requests : r.id = id /\ r.epoch = e

(* It, or the invocation it belongs to, is. *)
Heard(id, e) == \E b \in Ids : Root(b) = Root(id) /\ Held(b, e)

(* The tab is still to send the message for the first time. *)
Carries(tab, id) ==
    \/ tab.recovering /\ tab.then = id /\ id # "none"
    \/ tab.pc = "prepare" /\ ~tab.recovering /\ tab.id = id /\ id \notin Outputs

(* The message was not sent yet, by any tab. *)
Unsent(id) == id \in wishes \/ \E t \in Tabs : Carries(tabs[t], id)

(* All that is known of a message is of one epoch. *)
OneEpoch == \A id \in Ids : \A e, f \in 0..MaxEpoch : Heard(id, e) /\ Heard(id, f) => e = f

(* No known epoch is ahead, and none is current during a block. *)
NoneAhead ==
    \A id \in Ids, e \in 0..MaxEpoch :
        Heard(id, e) => e <= epoch /\ (blockers # {} => e < epoch)

(* A message still to be sent is not known, nor was it given up. *)
Fresh ==
    \A id \in Ids : Unsent(id) =>
        /\ id \notin Outputs
        /\ \A e \in 0..MaxEpoch : ~Heard(id, e)
        /\ \A d \in discarded : Root(d) # Root(id)

(* One tab at most is to send it. *)
OneCarrier ==
    \A id \in Ids, t, u \in Tabs :
        /\ Carries(tabs[t], id) => id \notin wishes
        /\ Carries(tabs[t], id) /\ Carries(tabs[u], id) => t = u

(* What was given up is not there, and its epoch is over. *)
Gone ==
    \A d \in discarded :
        /\ d \in Ids /\ messages[d] = NoMessage
        /\ \A e \in 0..MaxEpoch : Heard(d, e) => e < epoch

(* What the program of a tab relies on at each of its points. *)
PcOK(tab) ==
    /\ tab.pc \in {"waiting", "answered", "reconciled", "prepare", "load", "encrypt", "run"} =>
           tab.id \in Ids
    /\ tab.pc = "run" => tab.id \in Invokes /\ ~tab.recovering
    /\ tab.pc = "recover" => tab.recovering
    /\ tab.recovering => tab.then \in Ids \cup {"none"}
    /\ \/ tab.pc \in {"waiting", "answered", "reconciled"}
       \/ tab.recovering /\ tab.pc \in {"prepare", "load", "encrypt"}
       => tab.snap[tab.id] # NoRow
    /\ \/ tab.pc = "reconciled"
       \/ tab.pc = "answered" /\ tab.reply = "forbidden"
       => tab.snap[tab.id].epoch < epoch

ProgramsOK == \A t \in Tabs : PcOK(tabs[t])

DiscardInv == OneEpoch /\ NoneAhead /\ Fresh /\ OneCarrier /\ Gone /\ ProgramsOK

ChatInv == ChatTypeOK /\ DiscardInv

(* Nothing is heard of an id that was not heard of before. *)
HeardKept == \A id \in Ids, e \in 0..MaxEpoch : Held(id, e)' => Heard(id, e)

(* Then nothing is heard of its family either. *)
LEMMA HeardMono ==
  ASSUME HeardKept, NEW id \in Ids, NEW e \in 0..MaxEpoch, Heard(id, e)'
  PROVE  Heard(id, e)
<1>1. PICK b \in Ids : Root(b) = Root(id) /\ Held(b, e)'
  BY DEF Heard, Root
<1>2. Heard(b, e)
  BY <1>1 DEF HeardKept
<1> QED
  BY <1>1, <1>2 DEF Heard

(* A step that tells nothing new, and gives up only what is over. *)
LEMMA QuietStep ==
  ASSUME ChatInv, HeardKept, epoch' = epoch, blockers' = blockers,
         \A d \in discarded' : messages'[d] = messages[d],
         \A id \in Ids : Unsent(id)' => Unsent(id),
         \A d \in discarded' :
             \/ d \in discarded
             \/ d \in Ids /\ messages[d] = NoMessage /\ Pending(d) /\ rows[d].epoch < epoch
  PROVE  OneEpoch' /\ NoneAhead' /\ Fresh' /\ Gone'
<1>1. \A id \in Ids, e \in 0..MaxEpoch : Heard(id, e)' => Heard(id, e)
  BY HeardMono
<1>2. ASSUME NEW d \in Ids, Pending(d) PROVE rows[d].epoch \in 0..MaxEpoch /\ Heard(d, rows[d].epoch)
  BY <1>2 DEF Heard, Held, Pending, ChatInv, ChatTypeOK, RowsOK, RowOK
<1>3. OneEpoch'
  BY <1>1 DEF OneEpoch, ChatInv, DiscardInv
<1>4. NoneAhead'
  BY <1>1 DEF NoneAhead, ChatInv, DiscardInv
<1>5. ASSUME NEW d \in discarded'
      PROVE  d \in Ids /\ messages'[d] = NoMessage /\ \A e \in 0..MaxEpoch : Heard(d, e)' => e < epoch'
  <2>1. CASE d \in discarded
    BY <2>1, <1>1 DEF ChatInv, DiscardInv, Gone
  <2>2. CASE d \in Ids /\ messages[d] = NoMessage /\ Pending(d) /\ rows[d].epoch < epoch
    BY <2>2, <1>1, <1>2 DEF ChatInv, DiscardInv, OneEpoch
  <2> QED
    BY <2>1, <2>2
<1>6. Gone'
  BY <1>5 DEF Gone, NoMessage
<1>7. ASSUME NEW id \in Ids, Unsent(id)', NEW d \in discarded'
      PROVE  Root(d) # Root(id)
  <2>1. Unsent(id)
    BY <1>7
  <2>2. ASSUME d \in Ids, Pending(d), Root(d) = Root(id) PROVE FALSE
    <3>1. Heard(id, rows[d].epoch)
      BY <2>2, <1>2 DEF Heard
    <3> QED
      BY <2>1, <2>2, <3>1, <1>2 DEF ChatInv, DiscardInv, Fresh
  <2> QED
    BY <2>1, <2>2 DEF ChatInv, DiscardInv, Fresh
<1>8. Fresh'
  BY <1>1, <1>7 DEF Fresh, ChatInv, DiscardInv, Outputs, Root
<1> QED
  BY <1>3, <1>4, <1>6, <1>8

-----------------------------------------------------------------------------
(* What a step of a tab may write to the store and send.                   *)
Discards ==
    \A d \in discarded' :
        \/ d \in discarded
        \/ d \in Ids /\ messages[d] = NoMessage /\ Pending(d) /\ rows[d].epoch < epoch

RowsFrom == RowsOK(rows') /\ \A i \in Ids : rows'[i] # NoRow => Heard(i, rows'[i].epoch)

RequestsFrom ==
    \A r \in requests' : r \in requests \/ (RequestOK(r) /\ Heard(r.id, r.epoch))

ServerKeeps ==
    /\ epoch' = epoch /\ blockers' = blockers
    /\ messages' = [id \in Ids |-> messages'[id]]
    /\ \A d \in discarded' : messages'[d] = messages[d]

RatchetsOK == ratchets \in [0..MaxEpoch -> [AllDevices -> Nat]]

StoreKeeps == RowsFrom /\ RequestsFrom /\ ServerKeeps /\ wishes' \subseteq wishes /\ Discards /\ RatchetsOK'

(* A new state of a tab that brings nothing new.                           *)
Harmless(t, new) ==
    /\ TabOK(new) /\ PcOK(new)
    /\ \A i \in Ids : new.snap[i] # NoRow => Heard(i, new.snap[i].epoch)
    /\ \A i \in Ids, e \in 0..MaxEpoch : TabHolds(new, i, e) => Heard(i, e)
    /\ \A i \in Ids : Carries(new, i) => Carries(tabs[t], i) \/ i \in wishes \ wishes'

(* What is known of a message is known of its family. *)
LEMMA HeldIsHeard ==
  ASSUME NEW id \in Ids, NEW e
  PROVE  Held(id, e) => Heard(id, e)
  BY DEF Heard

(* What a program relies on does not change while the epoch lasts. *)
LEMMA PcStable ==
  ASSUME ServerKeeps, NEW tab
  PROVE  PcOK(tab)' <=> PcOK(tab)
  BY DEF ServerKeeps, PcOK, NoRow

(* A step of one tab that brings nothing new keeps the invariant. *)
LEMMA TabStep ==
  ASSUME ChatInv, NEW t \in Tabs, NEW new, Harmless(t, new), Tab(t, new), StoreKeeps
  PROVE  ChatInv'
<1>1. /\ tabs' = [tabs EXCEPT ![t] = new] /\ tabs'[t] = new
      /\ \A u \in Tabs : u # t => tabs'[u] = tabs[u]
  BY DEF Tab, ChatInv, ChatTypeOK, TabsOK
<1>2. ChatTypeOK'
  <2>1. TabsOK'
    BY <1>1 DEF ChatInv, ChatTypeOK, TabsOK, Harmless, TabOK, RowsOK, RowOK, RowFields, TabFields, AllDevices
  <2>2. \A r \in requests' : RequestOK(r)
    BY DEF StoreKeeps, RequestsFrom, ChatInv, ChatTypeOK
  <2> QED
    BY <2>1, <2>2 DEF ChatInv, ChatTypeOK, StoreKeeps, ServerKeeps, RowsFrom, RowsOK, RowOK, RequestOK,
                      RatchetsOK, Outputs, AllDevices
<1>3. HeardKept
  <2> SUFFICES ASSUME NEW i \in Ids, NEW e \in 0..MaxEpoch, Held(i, e)' PROVE Heard(i, e)
    BY DEF HeardKept
  <2>1. CASE rows'[i] # NoRow /\ rows'[i].epoch = e
    BY <2>1 DEF StoreKeeps, RowsFrom
  <2>2. ASSUME NEW u \in Tabs, tabs'[u].snap[i] # NoRow /\ tabs'[u].snap[i].epoch = e
        PROVE  Heard(i, e)
    BY <2>2, <1>1, HeldIsHeard DEF Harmless, Held
  <2>3. ASSUME NEW u \in Tabs, TabHolds(tabs'[u], i, e)
        PROVE  Heard(i, e)
    BY <2>3, <1>1, HeldIsHeard DEF Harmless, Held
  <2>4. ASSUME NEW r \in requests', r.id = i /\ r.epoch = e
        PROVE  Heard(i, e)
    BY <2>4, HeldIsHeard DEF StoreKeeps, RequestsFrom, Held
  <2> QED
    BY <2>1, <2>2, <2>3, <2>4 DEF Held, NoRow, TabHolds, Outputs
<1>4. \A id \in Ids : Unsent(id)' => Unsent(id)
  <2> SUFFICES ASSUME NEW id \in Ids, NEW u \in Tabs, Carries(tabs'[u], id)
               PROVE  Carries(tabs[u], id) \/ id \in wishes
    BY DEF Unsent, StoreKeeps, Carries, Outputs
  <2> QED
    BY <1>1 DEF Harmless
<1>5. OneEpoch' /\ NoneAhead' /\ Fresh' /\ Gone'
  BY <1>3, <1>4, QuietStep DEF StoreKeeps, ServerKeeps, Discards
<1>6. OneCarrier'
  <2> SUFFICES ASSUME NEW id \in Ids, NEW u \in Tabs, NEW v \in Tabs, Carries(tabs'[u], id)
               PROVE  id \notin wishes' /\ (Carries(tabs'[v], id) => u = v)
    BY DEF OneCarrier, Carries, Outputs
  <2> QED
    BY <1>1 DEF Harmless, StoreKeeps, ChatInv, DiscardInv, OneCarrier
<1>7. ProgramsOK'
  <2> SUFFICES ASSUME NEW u \in Tabs PROVE PcOK(tabs'[u])
    BY PcStable DEF ProgramsOK, StoreKeeps, ServerKeeps, PcOK
  <2> QED
    BY <1>1 DEF Harmless, ChatInv, DiscardInv, ProgramsOK
<1> QED
  BY <1>2, <1>5, <1>6, <1>7 DEF ChatInv, DiscardInv

(* A tab may always end. *)
LEMMA HarmlessIdle ==
  ASSUME ChatInv, NEW t \in Tabs
  PROVE  Harmless(t, IdleTab)
  BY NoRowsOK, DirectOutboxAssumption
     DEF Harmless, IdleTab, TabOK, TabFields, PcOK, TabHolds, Carries, NoRows, RowsOK

(* The snapshot of a tab is heard of. *)
LEMMA SnapHeard ==
  ASSUME ChatInv, NEW t \in Tabs, NEW i \in Ids
  PROVE  /\ RowOK(tabs[t].snap[i]) /\ RowOK(rows[i])
         /\ tabs[t].snap[i] # NoRow => Heard(i, tabs[t].snap[i].epoch)
         /\ Pending(i) => Heard(i, rows[i].epoch)
  BY HeldIsHeard DEF ChatInv, ChatTypeOK, TabsOK, TabOK, RowsOK, Held, Pending

(* The outbox as it was, *)
LEMMA SameRows ==
  ASSUME ChatInv, rows' = rows
  PROVE  RowsFrom
  BY HeldIsHeard DEF RowsFrom, ChatInv, ChatTypeOK, Held

(* or with rows that were there, *)
LEMMA KeptRows ==
  ASSUME ChatInv, RowsOK(rows'), Kept(rows', rows)
  PROVE  RowsFrom
  BY HeldIsHeard DEF RowsFrom, Kept, ChatInv, ChatTypeOK, Held

(* in a step that posts nothing and advances no ratchet. *)
LEMMA SameStore ==
  ASSUME ChatInv, ServerSame, RowsFrom, UNCHANGED <<wishes, ratchets>>, Discards
  PROVE  StoreKeeps
  BY DEF ServerSame, serverVars, StoreKeeps, RequestsFrom, ServerKeeps, RatchetsOK, ChatInv,
         ChatTypeOK, AllDevices

(* The program of the tab ends. *)
LEMMA IdleStep ==
  ASSUME ChatInv, NEW t \in Tabs, EndTab(t), StoreKeeps
  PROVE  ChatInv'
  BY HarmlessIdle, TabStep DEF EndTab

(* The recovery goes on with the next row. *)
LEMMA NextRowStep ==
  ASSUME ChatInv, NEW t \in Tabs, NextRow(t), StoreKeeps
  PROVE  ChatInv'
<1>1. CASE tabs[t].recovering
  <2> DEFINE new == [tabs[t] EXCEPT !.pc = "recover", !.snap[tabs[t].id] = NoRow,
                                   !.id = "none", !.reply = "none", !.epoch = 0,
                                   !.vers = <<>>, !.again = FALSE]
  <2>0. TabOK(tabs[t]) /\ PcOK(tabs[t])
    BY DEF ChatInv, ChatTypeOK, DiscardInv, TabsOK, ProgramsOK
  <2>1. /\ DOMAIN new = TabFields /\ new.epoch = 0 /\ new.vers = <<>> /\ new.pc = "recover"
        /\ new.id = "none" /\ new.reply = "none" /\ new.then = tabs[t].then
        /\ new.snap = [tabs[t].snap EXCEPT ![tabs[t].id] = NoRow]
    BY <2>0 DEF TabOK, TabFields
  <2>2. new.recovering = tabs[t].recovering
    BY <2>0 DEF TabOK, TabFields
  <2>3. Tab(t, new)
    BY <1>1 DEF NextRow
  <2> HIDE DEF new
  <2>4. RowsOK(new.snap) /\ \A i \in Ids : new.snap[i] # NoRow => new.snap[i] = tabs[t].snap[i]
    BY <2>0, <2>1, NoRowsOK DEF TabOK, RowsOK
  <2>5. TabOK(new)
    BY <2>1, <2>4, DirectOutboxAssumption DEF TabOK
  <2>6. PcOK(new)
    BY <1>1, <2>0, <2>1, <2>2 DEF PcOK
  <2>7. Harmless(t, new)
    BY <1>1, <2>0, <2>1, <2>2, <2>4, <2>5, <2>6, SnapHeard DEF Harmless, TabHolds, Carries
  <2> QED
    BY <2>3, <2>7, TabStep
<1>2. CASE ~tabs[t].recovering
  BY <1>2, IdleStep DEF NextRow
<1> QED
  BY <1>1, <1>2

(* What the invariant says of one tab. *)
LEMMA TabFacts ==
  ASSUME ChatInv, NEW t \in Tabs
  PROVE  TabOK(tabs[t]) /\ PcOK(tabs[t]) /\ RowsOK(tabs[t].snap)
  BY DEF ChatInv, ChatTypeOK, DiscardInv, TabsOK, ProgramsOK, TabOK

(* The step writes nothing. *)
LEMMA SameAll ==
  ASSUME ChatInv, ServerSame, StoreSame
  PROVE  StoreKeeps
  BY SameStore, SameRows DEF StoreSame, Discards

(* The local data is cleared. *)
LEMMA ClearStep ==
  ASSUME ChatInv, NEW t \in Tabs, ClearLocal(t), ServerSame
  PROVE  ChatInv'
<1>1. RowsFrom
  BY NoRowsOK DEF ClearLocal, RowsFrom, RowsOK, NoRows
<1> QED
  BY <1>1, SameStore, IdleStep DEF ClearLocal, Discards

(* A family has one root. *)
LEMMA FamilyRoot ==
  ASSUME NEW id \in Ids, NEW i \in Family(id)
  PROVE  i \in Ids /\ Root(i) = Root(id)
<1>1. CASE id \in Invokes
  BY <1>1, DirectOutboxAssumption DEF Family, Root
<1>2. CASE id \in Outputs /\ id \notin Invokes
  <2>1. ParentOf(id) \in Invokes /\ OutputOf[ParentOf(id)] = id
    BY <1>2, DirectOutboxAssumption DEF Outputs, Range, ParentOf
  <2> QED
    BY <1>2, <2>1, DirectOutboxAssumption DEF Family, Root
<1> QED
  BY <1>1, <1>2 DEF Family

(* A discard is final when the epoch of what it drops is over. *)
LEMMA DiscardKeeps ==
  ASSUME ChatInv, NEW id \in Ids, discardPendingSend(id),
         blockers # {} \/ \E e \in 0..MaxEpoch : Heard(id, e) /\ e < epoch
  PROVE  RowsFrom /\ Discards
<1>1. RowsOK(rows') /\ Kept(rows', rows)
  BY NoRowsOK DEF discardPendingSend, ChatInv, ChatTypeOK, RowsOK, Kept
<1>2. ASSUME NEW i \in Family(id), Pending(i)
      PROVE  i \in Ids /\ rows[i].epoch < epoch
  <2>1. i \in Ids /\ Root(i) = Root(id)
    BY FamilyRoot
  <2>2. rows[i].epoch \in 0..MaxEpoch /\ Held(i, rows[i].epoch)
    BY <1>2, <2>1 DEF ChatInv, ChatTypeOK, RowsOK, RowOK, Held, Pending
  <2>3. Heard(id, rows[i].epoch)
    BY <2>1, <2>2 DEF Heard
  <2> QED
    BY <2>1, <2>2, <2>3 DEF ChatInv, DiscardInv, OneEpoch, NoneAhead
<1> QED
  BY <1>1, <1>2, KeptRows DEF discardPendingSend, Discards

(* A recovery takes a snapshot, and with it a new message. *)
LEMMA RecoverStep ==
  ASSUME ChatInv, NEW t \in Tabs, NEW then \in Ids \cup {"none"}, recoverPendingSends(t, then)
  PROVE  ChatInv'
<1> DEFINE new == [IdleTab EXCEPT !.pc = "recover", !.then = then, !.recovering = TRUE,
                                  !.snap = rows]
<1>1. /\ DOMAIN new = TabFields /\ new.epoch = 0 /\ new.vers = <<>> /\ new.pc = "recover"
      /\ new.id = "none" /\ new.reply = "none" /\ new.then = then /\ new.snap = rows
  BY DEF IdleTab, TabFields
<1>2. new.recovering
  BY DEF IdleTab
<1>3. Tab(t, new)
  BY DEF recoverPendingSends
<1> HIDE DEF new
<1>4. TabOK(new)
  BY <1>1, DirectOutboxAssumption DEF TabOK, ChatInv, ChatTypeOK
<1>5. PcOK(new)
  BY <1>1, <1>2 DEF PcOK
<1>6. Harmless(t, new)
  BY <1>1, <1>2, <1>4, <1>5, SnapHeard DEF Harmless, TabHolds, Carries, recoverPendingSends, onSend, Pending
<1>7. StoreKeeps
  BY SameRows DEF recoverPendingSends, onSend, ServerSame, serverVars, StoreKeeps, RequestsFrom, ServerKeeps,
                  RatchetsOK, ChatInv, ChatTypeOK, AllDevices, Discards
<1> QED
  BY <1>3, <1>6, <1>7, TabStep

(* A posted request is of the epoch of its row. *)
LEMMA PostKeeps ==
  ASSUME ChatInv, NEW t \in Tabs, NEW id \in Ids, NEW row, RowOK(row), Heard(id, row.epoch),
         Post(t, id, row), UNCHANGED discarded
  PROVE  RequestsFrom /\ ServerKeeps
<1> DEFINE r == [id |-> id, epoch |-> row.epoch, env |-> row.env, tab |-> t, stage |-> "posted"]
<1>1. RequestOK(r) /\ r.id = id /\ r.epoch = row.epoch
  BY DEF RequestOK, RowOK
<1> HIDE DEF r
<1> QED
  BY <1>1 DEF Post, RequestsFrom, ServerKeeps, r, ChatInv, ChatTypeOK

(* A row of the snapshot is sent. *)
LEMMA SendStep ==
  ASSUME ChatInv, NEW t \in Tabs, NEW id \in Ids, sendPendingDirectMessage(t, id)
  PROVE  ChatInv'
<1> DEFINE new == [tabs[t] EXCEPT !.pc = "waiting", !.id = id]
<1>0. TabOK(tabs[t]) /\ PcOK(tabs[t]) /\ RowsOK(tabs[t].snap) /\ tabs[t].pc = "recover"
  BY TabFacts DEF sendPendingDirectMessage, At
<1>1. /\ DOMAIN new = TabFields /\ new.epoch = tabs[t].epoch /\ new.vers = tabs[t].vers
      /\ new.pc = "waiting" /\ new.id = id /\ new.then = tabs[t].then /\ new.snap = tabs[t].snap
  BY <1>0 DEF TabOK, TabFields
<1>2. new.recovering = tabs[t].recovering
  BY <1>0 DEF TabOK, TabFields
<1>3. Tab(t, new) /\ new.snap[id] # NoRow
  BY <1>1 DEF sendPendingDirectMessage
<1> HIDE DEF new
<1>4. TabOK(new)
  BY <1>0, <1>1 DEF TabOK
<1>5. PcOK(new)
  BY <1>0, <1>1, <1>2, <1>3 DEF PcOK
<1>6. Harmless(t, new)
  BY <1>0, <1>1, <1>2, <1>4, <1>5, SnapHeard DEF Harmless, TabHolds, Carries
<1>7. StoreKeeps
  BY SameRows, SnapHeard, PostKeeps DEF sendPendingDirectMessage, StoreSame, StoreKeeps,
                  RatchetsOK, ChatInv, ChatTypeOK, AllDevices, Discards
<1> QED
  BY <1>3, <1>6, <1>7, TabStep

(* A cancelled row is skipped or reconciled. *)
LEMMA ReconcileStep ==
  ASSUME ChatInv, NEW t \in Tabs, NEW id \in Ids, reconcileTrustCancelled(t, id)
  PROVE  ChatInv'
<1> DEFINE row == tabs[t].snap[id]
<1> DEFINE found == lookupOwnMessage(id)
<1>0. TabOK(tabs[t]) /\ PcOK(tabs[t]) /\ RowsOK(tabs[t].snap) /\ tabs[t].pc = "recover" /\ row # NoRow
  BY TabFacts DEF reconcileTrustCancelled, At
<1>1. ASSUME Tab(t, [tabs[t] EXCEPT !.snap[id] = NoRow]), StoreSame, ServerSame
      PROVE  ChatInv'
  <2> DEFINE new == [tabs[t] EXCEPT !.snap[id] = NoRow]
  <2>1. /\ DOMAIN new = TabFields /\ new.epoch = tabs[t].epoch /\ new.vers = tabs[t].vers
        /\ new.pc = "recover" /\ new.id = tabs[t].id /\ new.then = tabs[t].then
        /\ new.snap = [tabs[t].snap EXCEPT ![id] = NoRow]
    BY <1>0 DEF TabOK, TabFields
  <2>2. new.recovering = tabs[t].recovering
    BY <1>0 DEF TabOK, TabFields
  <2> HIDE DEF new
  <2>3. RowsOK(new.snap) /\ \A i \in Ids : new.snap[i] # NoRow => new.snap[i] = tabs[t].snap[i]
    BY <1>0, <2>1, NoRowsOK DEF RowsOK
  <2>4. TabOK(new)
    BY <1>0, <2>1, <2>3 DEF TabOK
  <2>5. PcOK(new)
    BY <1>0, <2>1, <2>2 DEF PcOK
  <2>6. Harmless(t, new)
    BY <1>0, <2>1, <2>2, <2>3, <2>4, <2>5, SnapHeard DEF Harmless, TabHolds, Carries
  <2> QED
    BY <1>1, <2>6, SameAll, TabStep DEF new
<1>2. ASSUME epoch > row.epoch, StoreSame, ServerSame,
             Tab(t, [tabs[t] EXCEPT !.pc = "reconciled", !.id = id, !.reply = found])
      PROVE  ChatInv'
  <2> HIDE DEF found
  <2> DEFINE new == [tabs[t] EXCEPT !.pc = "reconciled", !.id = id, !.reply = found]
  <2>1. /\ DOMAIN new = TabFields /\ new.epoch = tabs[t].epoch /\ new.vers = tabs[t].vers
        /\ new.pc = "reconciled" /\ new.id = id /\ new.then = tabs[t].then
        /\ new.snap = tabs[t].snap
    BY <1>0 DEF TabOK, TabFields
  <2>2. new.recovering = tabs[t].recovering
    BY <1>0 DEF TabOK, TabFields
  <2> HIDE DEF new
  <2>4. TabOK(new)
    BY <1>0, <2>1 DEF TabOK
  <2>5. PcOK(new)
    BY <1>0, <1>2, <2>1, <2>2, SnapHeard DEF PcOK, RowOK, ChatInv, ChatTypeOK
  <2>6. Harmless(t, new)
    BY <1>0, <2>1, <2>2, <2>4, <2>5, SnapHeard DEF Harmless, TabHolds, Carries
  <2> QED
    BY <1>2, <2>6, SameAll, TabStep DEF new
<1> QED
  BY <1>1, <1>2, ClearStep DEF reconcileTrustCancelled

(* The reconciled row is pruned or completed. *)
LEMMA ReconciledStep ==
  ASSUME ChatInv, NEW t \in Tabs, Reconciled(t)
  PROVE  ChatInv'
<1> DEFINE id == tabs[t].id
<1> DEFINE row == tabs[t].snap[id]
<1>0. /\ TabOK(tabs[t]) /\ PcOK(tabs[t]) /\ RowsOK(tabs[t].snap) /\ tabs[t].pc = "reconciled"
      /\ id \in Ids /\ row # NoRow /\ row.epoch < epoch
  BY TabFacts DEF Reconciled, At, PcOK
<1>1. RowOK(row) /\ Heard(id, row.epoch)
  BY <1>0, SnapHeard
<1>2. CASE pruneReconciled(id, row) /\ NextRow(t)
  <2>1. RowsFrom
    BY <1>2, <1>0, DropKeeps, KeptRows, SameRows DEF pruneReconciled, ChatInv, ChatTypeOK
  <2>2. Discards
    BY <1>2, <1>0 DEF pruneReconciled, Discards
  <2> QED
    BY <1>2, <2>1, <2>2, SameStore, NextRowStep DEF Reconciled
<1>3. CASE completePendingSend(id, row) /\ UNCHANGED discarded
  <2>0. RowsOK(rows') /\ Kept(rows', rows)
    BY <1>1, <1>3, CompleteKeeps DEF ChatInv, ChatTypeOK
  <2>1. RowsFrom
    BY <2>0, KeptRows
  <2>2. StoreKeeps
    BY <1>3, <2>1, SameStore DEF Reconciled, Discards
  <2>3. CASE NextRow(t)
    BY <2>2, <2>3, NextRowStep
  <2>4. CASE rows'[id].cancelled /\ Tab(t, [tabs[t] EXCEPT !.snap[id] = rows'[id], !.reply = "finished"])
    <3>0. rows'[id] # NoRow
      BY <2>4 DEF NoRow
    <3>1. rows'[id].epoch = row.epoch
      <4>1. Pending(id) /\ rows'[id].epoch = rows[id].epoch
        BY <1>0, <2>0, <3>0 DEF Kept, Pending
      <4>2. Heard(id, rows[id].epoch) /\ RowOK(rows[id])
        BY <1>0, <4>1, SnapHeard
      <4> QED
        BY <1>0, <1>1, <4>1, <4>2 DEF ChatInv, DiscardInv, OneEpoch, RowOK
    <3> DEFINE new == [tabs[t] EXCEPT !.snap[id] = rows'[id], !.reply = "finished"]
    <3>2. /\ DOMAIN new = TabFields /\ new.epoch = tabs[t].epoch /\ new.vers = tabs[t].vers
          /\ new.pc = "reconciled" /\ new.id = id /\ new.then = tabs[t].then
          /\ new.snap = [tabs[t].snap EXCEPT ![id] = rows'[id]]
      BY <1>0 DEF TabOK, TabFields
    <3>3. new.recovering = tabs[t].recovering
      BY <1>0 DEF TabOK, TabFields
    <3> HIDE DEF new
    <3>4. /\ RowsOK(new.snap) /\ new.snap[id] = rows'[id]
          /\ \A i \in Ids : i # id => new.snap[i] = tabs[t].snap[i]
      BY <1>0, <2>0, <3>2 DEF RowsOK
    <3>5. TabOK(new)
      BY <1>0, <3>2, <3>4 DEF TabOK
    <3>6. PcOK(new)
      BY <1>0, <3>0, <3>1, <3>2, <3>3, <3>4 DEF PcOK
    <3>7. Harmless(t, new)
      <4>1. ASSUME NEW i \in Ids, new.snap[i] # NoRow
            PROVE  Heard(i, new.snap[i].epoch)
        <5>1. CASE i = id
          BY <1>0, <1>1, <3>1, <3>4, <4>1, <5>1, SnapHeard
        <5>2. CASE i # id
          BY <1>1, <3>4, <4>1, <5>2, SnapHeard
        <5> QED
          BY <5>1, <5>2
      <4>2. \A i \in Ids, e \in 0..MaxEpoch : ~TabHolds(new, i, e)
        BY <3>2 DEF TabHolds
      <4>3. \A i \in Ids : Carries(new, i) => Carries(tabs[t], i)
        BY <3>2, <3>3 DEF Carries
      <4> QED
        BY <3>5, <3>6, <4>1, <4>2, <4>3 DEF Harmless
    <3> QED
      BY <2>2, <2>4, <3>7, TabStep DEF new
  <2> QED
    BY <1>0, <1>3, <2>3, <2>4, <1>2 DEF Reconciled
<1>4. CASE UNCHANGED <<rows, discarded>> /\ NextRow(t)
  BY <1>4, SameRows, SameStore, NextRowStep DEF Reconciled, Discards
<1> QED
  BY <1>2, <1>3, <1>4 DEF Reconciled

(* The new message of a recovery is next. *)
LEMMA RecoveryEndsStep ==
  ASSUME ChatInv, NEW t \in Tabs, RecoveryEnds(t)
  PROVE  ChatInv'
<1>0. /\ TabOK(tabs[t]) /\ PcOK(tabs[t]) /\ tabs[t].pc = "recover" /\ StoreKeeps
  BY TabFacts, SameAll DEF RecoveryEnds, At
<1>1. CASE tabs[t].then = "none"
  BY <1>0, <1>1, HarmlessIdle, TabStep DEF RecoveryEnds
<1>2. CASE tabs[t].then # "none"
  <2> DEFINE new == [IdleTab EXCEPT !.pc = "prepare", !.id = tabs[t].then]
  <2>1. /\ DOMAIN new = TabFields /\ new.epoch = 0 /\ new.vers = <<>> /\ new.pc = "prepare"
        /\ new.id = tabs[t].then /\ new.then = "none" /\ new.snap = NoRows /\ new.reply = "none"
    BY DEF IdleTab, TabFields
  <2>2. ~new.recovering
    BY DEF IdleTab, TabFields
  <2> HIDE DEF new
  <2>3. tabs[t].then \in Ids /\ Carries(tabs[t], tabs[t].then)
    BY <1>0, <1>2 DEF PcOK, Carries
  <2>4. tabs[t].then \notin Outputs
    BY <2>3 DEF ChatInv, DiscardInv, Fresh, Unsent
  <2>5. TabOK(new) /\ PcOK(new)
    BY <2>1, <2>2, <2>3, NoRowsOK, DirectOutboxAssumption DEF TabOK, PcOK
  <2>6. Harmless(t, new)
    BY <2>1, <2>2, <2>3, <2>4, <2>5 DEF Harmless, TabHolds, Carries, NoRows
  <2> QED
    BY <1>0, <1>2, <2>6, TabStep DEF new, RecoveryEnds
<1> QED
  BY <1>1, <1>2

(* The tab has an answer to the row it sent. *)
LEMMA AnsweredFacts ==
  ASSUME ChatInv, NEW t \in Tabs, NEW replies, Answered(t, replies)
  PROVE  /\ TabOK(tabs[t]) /\ PcOK(tabs[t]) /\ RowsOK(tabs[t].snap) /\ tabs[t].pc = "answered"
         /\ tabs[t].id \in Ids /\ tabs[t].reply \in replies
         /\ tabs[t].snap[tabs[t].id] # NoRow /\ RowOK(tabs[t].snap[tabs[t].id])
         /\ Heard(tabs[t].id, tabs[t].snap[tabs[t].id].epoch)
<1>1. /\ TabOK(tabs[t]) /\ PcOK(tabs[t]) /\ RowsOK(tabs[t].snap) /\ tabs[t].pc = "answered"
      /\ tabs[t].reply \in replies
  BY TabFacts DEF Answered, At
<1>2. tabs[t].id \in Ids /\ tabs[t].snap[tabs[t].id] # NoRow
  BY <1>1 DEF PcOK
<1> QED
  BY <1>1, <1>2, SnapHeard

(* An acknowledged row is completed. *)
LEMMA FinalizeStep ==
  ASSUME ChatInv, NEW t \in Tabs, finalizePendingSend(t)
  PROVE  ChatInv'
<1>1. StoreKeeps
  <2>1. RowOK(tabs[t].snap[tabs[t].id])
    BY AnsweredFacts DEF finalizePendingSend
  <2>2. RowsOK(rows') /\ Kept(rows', rows)
    BY <2>1, CompleteKeeps DEF finalizePendingSend, ChatInv, ChatTypeOK
  <2> QED
    BY <2>2, KeptRows, SameStore DEF finalizePendingSend, Discards
<1>2. CASE NextRow(t)
  BY <1>1, <1>2, NextRowStep
<1>3. CASE Tab(t, [IdleTab EXCEPT !.pc = "closing", !.id = ParentOf(tabs[t].id)])
  <2> DEFINE new == [IdleTab EXCEPT !.pc = "closing", !.id = ParentOf(tabs[t].id)]
  <2>1. /\ DOMAIN new = TabFields /\ new.epoch = 0 /\ new.vers = <<>> /\ new.pc = "closing"
        /\ new.then = "none" /\ new.snap = NoRows /\ new.reply = "none"
    BY DEF IdleTab, TabFields
  <2>2. ~new.recovering
    BY DEF IdleTab, TabFields
  <2> HIDE DEF new
  <2>3. TabOK(new) /\ PcOK(new)
    BY <2>1, <2>2, NoRowsOK, DirectOutboxAssumption DEF TabOK, PcOK
  <2>4. Harmless(t, new)
    BY <2>1, <2>2, <2>3 DEF Harmless, TabHolds, Carries, NoRows
  <2> QED
    BY <1>1, <1>3, <2>4, TabStep DEF new
<1> QED
  BY <1>2, <1>3 DEF finalizePendingSend

(* A refused row is left behind. *)
LEMMA RefusedStep ==
  ASSUME ChatInv, NEW t \in Tabs, Refused(t), StoreKeeps
  PROVE  ChatInv'
  BY IdleStep, NextRowStep DEF Refused

(* A final refusal discards the row. *)
LEMMA ForbiddenStep ==
  ASSUME ChatInv, NEW t \in Tabs, SendForbidden(t)
  PROVE  ChatInv'
<1>1. /\ tabs[t].id \in Ids /\ RowOK(tabs[t].snap[tabs[t].id])
      /\ Heard(tabs[t].id, tabs[t].snap[tabs[t].id].epoch)
      /\ tabs[t].snap[tabs[t].id].epoch < epoch
  BY AnsweredFacts DEF SendForbidden, PcOK
<1>2. RowsFrom /\ Discards
  BY <1>1, DiscardKeeps DEF SendForbidden, RowOK
<1> QED
  BY <1>2, SameStore, RefusedStep DEF SendForbidden

(* A conflict discards it if its interaction is over. *)
LEMMA ConflictStep ==
  ASSUME ChatInv, NEW t \in Tabs, SendConflicts(t)
  PROVE  ChatInv'
<1> DEFINE id == tabs[t].id
<1> DEFINE row == tabs[t].snap[id]
<1>1. id \in Ids /\ RowOK(row) /\ Heard(id, row.epoch)
  BY AnsweredFacts DEF SendConflicts
<1>2. CASE discardPendingSend(id) /\ Refused(t)
           /\ (prepareSend = "forbidden" \/ epoch # row.epoch)
  <2>1. prepareSend = "forbidden" => blockers # {}
    BY DEF prepareSend, canInteract
  <2>2. row.epoch <= epoch
    BY <1>1 DEF ChatInv, DiscardInv, NoneAhead, RowOK
  <2>3. epoch # row.epoch => row.epoch < epoch
    BY <1>1, <2>2 DEF RowOK, ChatInv, ChatTypeOK
  <2>4. RowsFrom /\ Discards
    BY <1>1, <1>2, <2>1, <2>3, DiscardKeeps DEF RowOK
  <2> QED
    BY <1>2, <2>4, SameStore, RefusedStep DEF SendConflicts
<1>3. CASE UNCHANGED <<rows, discarded>> /\ EndTab(t)
  BY <1>3, SameRows, SameStore, IdleStep DEF SendConflicts, Discards
<1> QED
  BY <1>2, <1>3 DEF SendConflicts

(* The devices have changed. *)
LEMMA DevicesStep ==
  ASSUME ChatInv, NEW t \in Tabs, DevicesChanged(t)
  PROVE  ChatInv'
<1>0. /\ TabOK(tabs[t]) /\ PcOK(tabs[t]) /\ RowsOK(tabs[t].snap) /\ tabs[t].pc = "answered"
      /\ tabs[t].id \in Ids /\ tabs[t].snap[tabs[t].id] # NoRow
  BY AnsweredFacts DEF DevicesChanged
<1>1. CASE (EndTab(t) \/ NextRow(t)) /\ StoreSame
  BY <1>1, SameAll, IdleStep, NextRowStep DEF DevicesChanged
<1>2. CASE ClearLocal(t)
  BY <1>2, ClearStep DEF DevicesChanged
<1>3. CASE Tab(t, [tabs[t] EXCEPT !.pc = "prepare", !.again = TRUE, !.vers = [d \in Active |-> 0]])
           /\ StoreSame
  <2> DEFINE new == [tabs[t] EXCEPT !.pc = "prepare", !.again = TRUE, !.vers = [d \in Active |-> 0]]
  <2>1. /\ DOMAIN new = TabFields /\ new.epoch = tabs[t].epoch /\ new.vers = [d \in Active |-> 0]
        /\ new.pc = "prepare" /\ new.id = tabs[t].id /\ new.then = tabs[t].then
        /\ new.snap = tabs[t].snap
    BY <1>0 DEF TabOK, TabFields
  <2>2. new.recovering = tabs[t].recovering /\ tabs[t].recovering
    BY <1>0 DEF TabOK, TabFields, DevicesChanged
  <2> HIDE DEF new
  <2>3. DOMAIN new.vers \subseteq AllDevices /\ new.vers \in [DOMAIN new.vers -> Nat]
    BY <2>1 DEF Active
  <2>4. TabOK(new)
    BY <1>0, <2>1, <2>3 DEF TabOK
  <2>5. PcOK(new)
    BY <1>0, <2>1, <2>2 DEF PcOK
  <2>6. Harmless(t, new)
    BY <1>0, <2>1, <2>2, <2>4, <2>5, SnapHeard DEF Harmless, TabHolds, Carries
  <2> QED
    BY <1>3, <2>6, SameAll, TabStep DEF new, DevicesChanged
<1> QED
  BY <1>1, <1>2, <1>3 DEF DevicesChanged

(* Two ids that the user writes do not share a root. *)
LEMMA RootsDiffer ==
  ASSUME NEW a \in Ids \ Outputs, NEW b \in Ids \ Outputs, Root(a) = Root(b)
  PROVE  a = b
  BY DirectOutboxAssumption DEF Root, Outputs, Range, IsInjective

(* A new send takes the epoch of the interaction that is going on. *)
LEMMA FreshPrepare ==
  ASSUME ChatInv, NEW t \in Tabs, tabs[t].pc = "prepare", ~tabs[t].recovering,
         tabs[t].id \notin Outputs, canInteract,
         Tab(t, [tabs[t] EXCEPT !.pc = "load", !.epoch = epoch]),
         UNCHANGED <<rows, discarded, wishes, ratchets>>, ServerSame
  PROVE  ChatInv'
<1> DEFINE id == tabs[t].id
<1> DEFINE new == [tabs[t] EXCEPT !.pc = "load", !.epoch = epoch]
<1>0. TabOK(tabs[t]) /\ PcOK(tabs[t]) /\ RowsOK(tabs[t].snap) /\ id \in Ids
  BY TabFacts DEF PcOK
<1>1. /\ DOMAIN new = TabFields /\ new.epoch = epoch /\ new.vers = tabs[t].vers
      /\ new.pc = "load" /\ new.id = id /\ new.then = tabs[t].then /\ new.snap = tabs[t].snap
  BY <1>0 DEF TabOK, TabFields
<1>2. ~new.recovering
  BY <1>0 DEF TabOK, TabFields
<1>3. Tab(t, new)
  OBVIOUS
<1> HIDE DEF new
<1>4. TabOK(new) /\ PcOK(new)
  BY <1>0, <1>1, <1>2 DEF TabOK, PcOK, ChatInv, ChatTypeOK
<1>5. /\ tabs' = [tabs EXCEPT ![t] = new] /\ tabs'[t] = new
      /\ \A u \in Tabs : u # t => tabs'[u] = tabs[u]
  BY <1>3 DEF Tab, ChatInv, ChatTypeOK, TabsOK
<1>6. /\ epoch' = epoch /\ blockers' = blockers /\ messages' = messages /\ requests' = requests
      /\ rows' = rows /\ discarded' = discarded /\ wishes' = wishes /\ ratchets' = ratchets
      /\ ServerKeeps
  BY DEF ServerSame, serverVars, ServerKeeps, ChatInv, ChatTypeOK
<1>7. Carries(tabs[t], id) /\ Unsent(id) /\ id \notin wishes
  BY <1>0 DEF Carries, Unsent, ChatInv, DiscardInv, OneCarrier
<1>8. \A x \in Ids, u \in Tabs : Carries(tabs'[u], x) => u # t /\ Carries(tabs[u], x)
  <2>1. \A x \in Ids : ~Carries(new, x)
    BY <1>1, <1>2 DEF Carries
  <2> QED
    BY <1>5, <2>1
<1>9. /\ \A e \in 0..MaxEpoch : ~Heard(id, e)
      /\ \A d \in discarded : Root(d) # Root(id)
  BY <1>0, <1>7 DEF ChatInv, DiscardInv, Fresh
<1>10. ASSUME NEW x \in Ids, NEW e \in 0..MaxEpoch, Heard(x, e)'
       PROVE  Heard(x, e) \/ (Root(x) = Root(id) /\ e = epoch)
  <2>1. PICK b \in Ids : Root(b) = Root(x) /\ Held(b, e)'
    BY <1>10 DEF Heard, Root
  <2>2. CASE b = id /\ e = epoch
    BY <2>1, <2>2
  <2>3. CASE Held(b, e)
    BY <2>1, <2>3 DEF Heard
  <2>4. \A u \in Tabs : TabHolds(tabs'[u], b, e) => (b = id /\ e = epoch) \/ TabHolds(tabs[u], b, e)
    BY <1>1, <1>5 DEF TabHolds
  <2>5. \A u \in Tabs : tabs'[u].snap = tabs[u].snap
    BY <1>1, <1>5
  <2> QED
    BY <2>1, <2>2, <2>3, <2>4, <2>5, <1>6 DEF Held, TabHolds, Outputs, NoRow
<1>11. ChatTypeOK'
  <2>1. TabsOK'
    BY <1>4, <1>5, ZenonT(60) DEF ChatInv, ChatTypeOK, TabsOK, TabOK, RowsOK, RowOK, RowFields, TabFields, AllDevices
  <2> QED
    BY <2>1, <1>6 DEF ChatInv, ChatTypeOK, RowsOK, RowOK, RequestOK, Outputs, AllDevices
<1>12. OneEpoch'
  <2> SUFFICES ASSUME NEW x \in Ids, NEW e \in 0..MaxEpoch, NEW f \in 0..MaxEpoch,
                      Heard(x, e)', Heard(x, f)'
               PROVE  e = f
    BY DEF OneEpoch
  <2>1. CASE Root(x) = Root(id)
    <3>1. \A g \in 0..MaxEpoch : ~Heard(x, g)
      BY <1>9, <2>1 DEF Heard
    <3> QED
      BY <1>10, <3>1
  <2>2. CASE Root(x) # Root(id)
    BY <1>10, <2>2 DEF ChatInv, DiscardInv, OneEpoch
  <2> QED
    BY <2>1, <2>2
<1>13. NoneAhead'
  BY <1>6, <1>10 DEF NoneAhead, ChatInv, ChatTypeOK, DiscardInv, canInteract
<1>14. Gone'
  BY <1>6, <1>9, <1>10 DEF Gone, ChatInv, DiscardInv, NoMessage
<1>15. OneCarrier'
  BY <1>6, <1>8 DEF OneCarrier, ChatInv, DiscardInv, Carries, Outputs
<1>16. ProgramsOK'
  <2> SUFFICES ASSUME NEW u \in Tabs PROVE PcOK(tabs'[u])
    BY <1>6, PcStable DEF ProgramsOK, ServerKeeps, PcOK
  <2> QED
    BY <1>4, <1>5 DEF ChatInv, DiscardInv, ProgramsOK
<1>17. ASSUME NEW x \in Ids, Unsent(x)'
       PROVE  Unsent(x) /\ x \notin Outputs /\ Root(x) # Root(id)
  <2>1. PICK u \in Tabs : x \in wishes \/ (Carries(tabs'[u], x))
    BY <1>17, <1>6 DEF Unsent, Carries, Outputs
  <2>2. Unsent(x) /\ x # id
    BY <2>1, <1>7, <1>8, <1>0 DEF Unsent, ChatInv, DiscardInv, OneCarrier
  <2>3. x \notin Outputs
    BY <2>2 DEF ChatInv, DiscardInv, Fresh
  <2> QED
    BY <1>0, <2>2, <2>3, RootsDiffer
<1>18. Fresh'
  BY <1>6, <1>10, <1>17 DEF Fresh, ChatInv, DiscardInv, Outputs, Root
<1> QED
  BY <1>11, <1>12, <1>13, <1>14, <1>15, <1>16, <1>18 DEF ChatInv, DiscardInv

(* A preparation takes the current epoch, or that of the row it prepares. *)
LEMMA PrepareStep ==
  ASSUME ChatInv, NEW t \in Tabs, Prepare(t)
  PROVE  ChatInv'
<1> DEFINE id == tabs[t].id
<1>0. /\ TabOK(tabs[t]) /\ PcOK(tabs[t]) /\ RowsOK(tabs[t].snap) /\ id \in Ids
      /\ tabs[t].pc = "prepare"
  BY TabFacts DEF PcOK, Prepare, At
<1>a. prepareSend = "ok" => canInteract
  BY DEF prepareSend
<1>b. prepareSend # "ok" /\ prepareSend # "revoked" => blockers # {}
  BY DEF prepareSend, canInteract
<1>1. CASE ~tabs[t].recovering /\ id \notin Outputs
  <2>1. CASE prepareSend = "ok"
    BY <1>0, <1>1, <1>a, <2>1, FreshPrepare DEF Prepare, ChatInv, ChatTypeOK
  <2>2. CASE prepareSend # "ok"
    BY <1>1, <2>2, SameRows, SameStore, IdleStep DEF Prepare, Discards
  <2> QED
    BY <2>1, <2>2
<1>2. CASE tabs[t].recovering \/ id \in Outputs
  <2> DEFINE due == IF tabs[t].recovering THEN tabs[t].snap[id].epoch ELSE tabs[t].epoch
  <2>1. Heard(id, due) /\ due \in 0..MaxEpoch
    <3>1. CASE tabs[t].recovering
      BY <1>0, <3>1, SnapHeard DEF PcOK, RowOK
    <3>2. CASE ~tabs[t].recovering
      <4>1. TabHolds(tabs[t], id, tabs[t].epoch) /\ tabs[t].epoch \in 0..MaxEpoch
        BY <1>0, <1>2, <3>2 DEF TabHolds, TabOK
      <4> QED
        BY <1>0, <3>2, <4>1, HeldIsHeard DEF Held
    <3> QED
      BY <3>1, <3>2
  <2>2. \/ /\ epoch = due /\ Tab(t, [tabs[t] EXCEPT !.pc = "load", !.epoch = epoch])
           /\ UNCHANGED <<rows, discarded>>
        \/ /\ discardPendingSend(id) /\ NextRow(t)
           /\ prepareSend # "revoked" /\ (prepareSend # "ok" \/ epoch # due)
        \/ EndTab(t) /\ UNCHANGED <<rows, discarded>>
    BY <1>2 DEF Prepare
  <2>3. ServerSame /\ UNCHANGED <<wishes, ratchets>>
    BY DEF Prepare
  <2> HIDE DEF due
  <2>4. CASE epoch = due /\ Tab(t, [tabs[t] EXCEPT !.pc = "load", !.epoch = epoch])
           /\ UNCHANGED <<rows, discarded>>
    <3> DEFINE new == [tabs[t] EXCEPT !.pc = "load", !.epoch = epoch]
    <3>1. /\ DOMAIN new = TabFields /\ new.epoch = epoch /\ new.vers = tabs[t].vers
          /\ new.pc = "load" /\ new.id = id /\ new.then = tabs[t].then /\ new.snap = tabs[t].snap
      BY <1>0 DEF TabOK, TabFields
    <3>2. new.recovering = tabs[t].recovering
      BY <1>0 DEF TabOK, TabFields
    <3> HIDE DEF new
    <3>3. TabOK(new)
      BY <1>0, <3>1 DEF TabOK, ChatInv, ChatTypeOK
    <3>4. PcOK(new)
      BY <1>0, <3>1, <3>2 DEF PcOK
    <3>5. Harmless(t, new)
      BY <1>0, <2>1, <2>4, <3>1, <3>2, <3>3, <3>4, SnapHeard DEF Harmless, TabHolds, Carries
    <3> QED
      BY <2>3, <2>4, <3>5, SameRows, SameStore, TabStep DEF new, Discards
  <2>5. CASE discardPendingSend(id) /\ NextRow(t)
           /\ prepareSend # "revoked" /\ (prepareSend # "ok" \/ epoch # due)
    <3>1. due <= epoch
      BY <1>0, <2>1 DEF ChatInv, DiscardInv, NoneAhead
    <3>2. epoch # due => due < epoch
      BY <2>1, <3>1 DEF ChatInv, ChatTypeOK
    <3>3. RowsFrom /\ Discards
      BY <1>0, <1>b, <2>1, <2>5, <3>2, DiscardKeeps
    <3> QED
      BY <2>3, <2>5, <3>3, SameStore, NextRowStep
  <2>6. CASE EndTab(t) /\ UNCHANGED <<rows, discarded>>
    BY <2>3, <2>6, SameRows, SameStore, IdleStep DEF Discards
  <2> QED
    BY <2>2, <2>4, <2>5, <2>6
<1> QED
  BY <1>1, <1>2

(* A tab between its preparation and its commit knows the row it writes. *)
LEMMA WorkFacts ==
  ASSUME ChatInv, NEW t \in Tabs, tabs[t].pc \in {"load", "encrypt", "run"}
  PROVE  /\ TabOK(tabs[t]) /\ PcOK(tabs[t]) /\ RowsOK(tabs[t].snap) /\ tabs[t].id \in Ids
         /\ Heard(tabs[t].id, tabs[t].epoch) /\ tabs[t].epoch \in 0..MaxEpoch
<1>1. TabOK(tabs[t]) /\ PcOK(tabs[t]) /\ RowsOK(tabs[t].snap) /\ tabs[t].id \in Ids
  BY TabFacts DEF PcOK
<1>2. TabHolds(tabs[t], tabs[t].id, tabs[t].epoch)
  BY DEF TabHolds
<1> QED
  BY <1>1, <1>2, HeldIsHeard DEF Held, TabOK

(* Going back to load, or on to encrypt, changes nothing but the versions. *)
LEMMA WorkStep ==
  ASSUME ChatInv, NEW t \in Tabs, tabs[t].pc \in {"load", "encrypt"}, StoreKeeps,
         NEW new, Tab(t, new), DOMAIN new = TabFields, new.pc \in {"load", "encrypt"},
         new.id = tabs[t].id, new.then = tabs[t].then, new.snap = tabs[t].snap,
         new.recovering = tabs[t].recovering, new.epoch = tabs[t].epoch,
         DOMAIN new.vers \subseteq AllDevices, new.vers \in [DOMAIN new.vers -> Nat]
  PROVE  ChatInv'
<1>0. /\ TabOK(tabs[t]) /\ PcOK(tabs[t]) /\ RowsOK(tabs[t].snap) /\ tabs[t].id \in Ids
      /\ Heard(tabs[t].id, tabs[t].epoch) /\ tabs[t].epoch \in 0..MaxEpoch
  BY WorkFacts
<1>1. TabOK(new)
  BY <1>0 DEF TabOK
<1>2. PcOK(new)
  BY <1>0 DEF PcOK
<1>3. Harmless(t, new)
  BY <1>0, <1>1, <1>2, SnapHeard DEF Harmless, TabHolds, Carries
<1> QED
  BY <1>3, TabStep

(* The ratchets are read. *)
LEMMA LoadStep ==
  ASSUME ChatInv, NEW t \in Tabs, loadRatchets(t)
  PROVE  ChatInv'
<1> DEFINE devs == IF tabs[t].recovering THEN DOMAIN tabs[t].vers ELSE Active
<1> DEFINE vers == loadRatchet(tabs[t].epoch, devs)
<1> DEFINE new == [tabs[t] EXCEPT !.pc = "encrypt", !.vers = vers]
<1>0. TabOK(tabs[t]) /\ tabs[t].epoch \in 0..MaxEpoch /\ tabs[t].pc = "load"
  BY WorkFacts DEF loadRatchets, At
<1>1. devs \subseteq AllDevices
  BY <1>0 DEF TabOK, Active
<1>2. DOMAIN vers \subseteq AllDevices /\ vers \in [DOMAIN vers -> Nat]
  <2> HIDE DEF devs
  <2> QED
    BY <1>0, <1>1 DEF loadRatchet, ChatInv, ChatTypeOK
<1>3. Tab(t, new) /\ StoreKeeps
  BY SameAll DEF loadRatchets
<1> HIDE DEF vers
<1>4. /\ DOMAIN new = TabFields /\ new.epoch = tabs[t].epoch /\ new.vers = vers
      /\ new.pc = "encrypt" /\ new.id = tabs[t].id /\ new.then = tabs[t].then
      /\ new.snap = tabs[t].snap
  BY <1>0 DEF TabOK, TabFields
<1>5. new.recovering = tabs[t].recovering
  BY <1>0 DEF TabOK, TabFields
<1> HIDE DEF new
<1> QED
  BY <1>0, <1>2, <1>3, <1>4, <1>5, WorkStep

(* A ratchet has moved: the tab reads it again or gives up. *)
LEMMA ConflictRetryStep ==
  ASSUME ChatInv, NEW t \in Tabs, RatchetConflict(t)
  PROVE  ChatInv'
<1>0. TabOK(tabs[t]) /\ tabs[t].pc = "encrypt" /\ StoreKeeps
  BY WorkFacts, SameAll DEF RatchetConflict, At
<1>1. CASE Tab(t, [tabs[t] EXCEPT !.pc = "load"])
  <2> DEFINE new == [tabs[t] EXCEPT !.pc = "load"]
  <2>1. /\ DOMAIN new = TabFields /\ new.epoch = tabs[t].epoch /\ new.vers = tabs[t].vers
        /\ new.pc = "load" /\ new.id = tabs[t].id /\ new.then = tabs[t].then
        /\ new.snap = tabs[t].snap
    BY <1>0 DEF TabOK, TabFields
  <2>2. new.recovering = tabs[t].recovering
    BY <1>0 DEF TabOK, TabFields
  <2>3. Tab(t, new)
    BY <1>1
  <2> HIDE DEF new
  <2> QED
    BY <1>0, <2>1, <2>2, <2>3, WorkStep DEF TabOK
<1> QED
  BY <1>0, <1>1, IdleStep DEF RatchetConflict

(* The row is posted, and the tab waits for its answer. *)
LEMMA PostedStep ==
  ASSUME ChatInv, NEW t \in Tabs, tabs[t].pc = "encrypt", StoreKeeps, NEW row, RowOK(row),
         row # NoRow, Heard(tabs[t].id, row.epoch),
         Tab(t, [tabs[t] EXCEPT !.pc = "waiting", !.snap[tabs[t].id] = row, !.epoch = 0, !.vers = <<>>])
  PROVE  ChatInv'
<1> DEFINE id == tabs[t].id
<1> DEFINE new == [tabs[t] EXCEPT !.pc = "waiting", !.snap[id] = row, !.epoch = 0, !.vers = <<>>]
<1>0. TabOK(tabs[t]) /\ PcOK(tabs[t]) /\ RowsOK(tabs[t].snap) /\ id \in Ids
  BY WorkFacts
<1>1. /\ DOMAIN new = TabFields /\ new.epoch = 0 /\ new.vers = <<>>
      /\ new.pc = "waiting" /\ new.id = id /\ new.then = tabs[t].then
      /\ new.snap = [tabs[t].snap EXCEPT ![id] = row]
  BY <1>0 DEF TabOK, TabFields
<1>2. new.recovering = tabs[t].recovering
  BY <1>0 DEF TabOK, TabFields
<1>3. Tab(t, new)
  OBVIOUS
<1> HIDE DEF new
<1>4. /\ RowsOK(new.snap) /\ new.snap[id] = row
      /\ \A i \in Ids : i # id => new.snap[i] = tabs[t].snap[i]
  BY <1>0, <1>1 DEF RowsOK
<1>5. TabOK(new)
  BY <1>1, <1>4, DirectOutboxAssumption DEF TabOK
<1>6. PcOK(new)
  BY <1>0, <1>1, <1>2, <1>4 DEF PcOK
<1>7. Harmless(t, new)
  BY <1>0, <1>1, <1>2, <1>4, <1>5, <1>6, SnapHeard DEF Harmless, TabHolds, Carries
<1> QED
  BY <1>3, <1>7, TabStep

(* What commitRatchet leaves in every ratchet. *)
LEMMA CommitKeepsTypes ==
  ASSUME RatchetsOK, NEW e \in 0..MaxEpoch, NEW vers, DOMAIN vers \subseteq AllDevices,
         vers \in [DOMAIN vers -> Nat], commitRatchet(e, vers)
  PROVE  /\ RatchetsOK'
         /\ \A f \in 0..MaxEpoch, d \in AllDevices :
              ratchets'[f][d] = IF f = e /\ d \in DOMAIN vers THEN vers[d] + 1 ELSE ratchets[f][d]
<1> DEFINE up == [d \in AllDevices |-> IF d \in DOMAIN vers THEN vers[d] + 1 ELSE ratchets[e][d]]
<1>1. ratchets' = [ratchets EXCEPT ![e] = up]
  BY DEF commitRatchet
<1>2. up \in [AllDevices -> Nat]
  BY DEF RatchetsOK
<1>3. \A d \in AllDevices : up[d] = IF d \in DOMAIN vers THEN vers[d] + 1 ELSE ratchets[e][d]
  OBVIOUS
<1> HIDE DEF up
<1>4. ratchets' \in [0..MaxEpoch -> [AllDevices -> Nat]]
  BY <1>1, <1>2 DEF RatchetsOK
<1> QED
  BY <1>1, <1>3, <1>4 DEF RatchetsOK, AllDevices

(* The row and the ratchets are committed, and the row is posted. *)
LEMMA CommitStep ==
  ASSUME ChatInv, NEW t \in Tabs, commitOutboundRatchets(t)
  PROVE  ChatInv'
<1> DEFINE id == tabs[t].id
<1>0. /\ TabOK(tabs[t]) /\ RowsOK(tabs[t].snap) /\ id \in Ids /\ tabs[t].pc = "encrypt"
      /\ Heard(id, tabs[t].epoch) /\ tabs[t].epoch \in 0..MaxEpoch
  BY WorkFacts DEF commitOutboundRatchets, At
<1>1. RowOK(Staged(t)) /\ Staged(t) # NoRow /\ Staged(t).epoch = tabs[t].epoch
  <2>1. tabs[t].snap[id].rev \in Nat
    BY <1>0 DEF RowsOK, RowOK
  <2>2. /\ DOMAIN Staged(t) = RowFields /\ Staged(t).epoch = tabs[t].epoch
        /\ Staged(t).rev = tabs[t].snap[id].rev + 1
    BY DEF Staged, NoRow, RowFields
  <2>3. NoRow.rev = 0
    BY DEF NoRow
  <2> QED
    BY <1>0, <2>1, <2>2, <2>3 DEF RowOK
<1>2. RowsFrom
  BY <1>0, <1>1, SnapHeard DEF RowsFrom, commitOutboundRatchets, ChatInv, ChatTypeOK, RowsOK, Pending
<1>3. RequestsFrom /\ ServerKeeps
  BY <1>0, <1>1, PostKeeps DEF commitOutboundRatchets
<1>4. RatchetsOK'
  BY <1>0, CommitKeepsTypes DEF commitOutboundRatchets, ChatInv, ChatTypeOK, RatchetsOK, TabOK
<1>5. StoreKeeps
  BY <1>2, <1>3, <1>4 DEF StoreKeeps, Discards, commitOutboundRatchets
<1> QED
  BY <1>0, <1>1, <1>5, PostedStep DEF commitOutboundRatchets

(* The row of another tab is posted instead. *)
LEMMA PendingConflictStep ==
  ASSUME ChatInv, NEW t \in Tabs, PendingConflict(t)
  PROVE  ChatInv'
<1> DEFINE id == tabs[t].id
<1>0. id \in Ids /\ tabs[t].pc = "encrypt"
  BY WorkFacts DEF PendingConflict, At
<1>1. CASE Pending(id) /\ Post(t, id, rows[id])
           /\ Tab(t, [tabs[t] EXCEPT !.pc = "waiting", !.snap[id] = rows[id], !.epoch = 0, !.vers = <<>>])
  <2>1. RowOK(rows[id]) /\ Heard(id, rows[id].epoch) /\ rows[id] # NoRow
    BY <1>0, <1>1, SnapHeard DEF Pending
  <2>2. StoreKeeps
    BY <1>0, <1>1, <2>1, SameRows, PostKeeps DEF PendingConflict, StoreSame, StoreKeeps, Discards,
       RatchetsOK, ChatInv, ChatTypeOK, AllDevices
  <2> QED
    BY <1>0, <1>1, <2>1, <2>2, PostedStep
<1>2. CASE (EndTab(t) \/ NextRow(t)) /\ ServerSame
  BY <1>2, SameAll, IdleStep, NextRowStep DEF PendingConflict
<1> QED
  BY <1>1, <1>2 DEF PendingConflict

(* A decryption reads its ratchet, *)
LEMMA BeginDecryptStep ==
  ASSUME ChatInv, NEW t \in Tabs, NEW m \in Incoming, BeginDecrypt(t, m)
  PROVE  ChatInv'
<1>1. PICK d \in Peers \cap Active :
        Tab(t, [IdleTab EXCEPT !.pc = "decrypt", !.then = m, !.epoch = epoch,
                               !.vers = loadRatchet(epoch, {d})])
  BY DEF BeginDecrypt
<1> DEFINE vers == loadRatchet(epoch, {d})
<1> DEFINE new == [IdleTab EXCEPT !.pc = "decrypt", !.then = m, !.epoch = epoch, !.vers = vers]
<1>2. DOMAIN vers \subseteq AllDevices /\ vers \in [DOMAIN vers -> Nat]
  BY DEF loadRatchet, ChatInv, ChatTypeOK, Active
<1>3. Tab(t, new)
  BY <1>1
<1> HIDE DEF vers
<1>4. /\ DOMAIN new = TabFields /\ new.epoch = epoch /\ new.vers = vers /\ new.pc = "decrypt"
      /\ new.snap = NoRows /\ new.reply = "none"
  BY DEF IdleTab, TabFields
<1>5. ~new.recovering
  BY DEF IdleTab, TabFields
<1> HIDE DEF new
<1>6. TabOK(new) /\ PcOK(new)
  BY <1>2, <1>4, <1>5, NoRowsOK DEF TabOK, PcOK, ChatInv, ChatTypeOK
<1>7. Harmless(t, new)
  BY <1>4, <1>5, <1>6 DEF Harmless, TabHolds, Carries, NoRows
<1> QED
  BY <1>3, <1>7, SameAll, TabStep DEF BeginDecrypt

(* and commits it with the plaintext. *)
LEMMA DecryptStep ==
  ASSUME ChatInv, NEW t \in Tabs, commitDecryptedRatchet(t)
  PROVE  ChatInv'
<1>1. RatchetsOK'
  BY TabFacts, CommitKeepsTypes DEF commitDecryptedRatchet, ChatInv, ChatTypeOK, RatchetsOK, TabOK, AllDevices
<1>2. StoreKeeps
  BY <1>1, SameRows DEF commitDecryptedRatchet, StoreKeeps, Discards, ServerSame, serverVars, RequestsFrom,
     ServerKeeps, ChatInv, ChatTypeOK
<1> QED
  BY <1>2, IdleStep DEF commitDecryptedRatchet

(* A row whose interaction is over may be discarded. *)
LEMMA OverKeeps ==
  ASSUME ChatInv, NEW i \in Ids, Pending(i), prepareSend # "revoked",
         prepareSend # "ok" \/ ~Current(i), discardPendingSend(i)
  PROVE  RowsFrom /\ Discards
<1>1. prepareSend # "ok" => blockers # {}
  BY DEF prepareSend, canInteract
<1>2. RowOK(rows[i]) /\ Heard(i, rows[i].epoch)
  BY HeldIsHeard DEF ChatInv, ChatTypeOK, RowsOK, Held, Pending
<1>3. rows[i].epoch <= epoch
  BY <1>2 DEF RowOK, ChatInv, DiscardInv, NoneAhead
<1>4. ~Current(i) => rows[i].epoch < epoch
  BY <1>2, <1>3 DEF Current, RowOK, ChatInv, ChatTypeOK
<1> QED
  BY <1>1, <1>2, <1>4, DiscardKeeps DEF RowOK

(* A tab takes up an invocation, or gives it up. *)
LEMMA ResumeStep ==
  ASSUME ChatInv, NEW t \in Tabs, NEW i \in Invokes, ResumeOperator(t, i)
  PROVE  ChatInv'
<1>0. i \in Ids /\ Pending(i)
  BY DirectOutboxAssumption DEF ResumeOperator
<1>1. RowOK(rows[i]) /\ Heard(i, rows[i].epoch)
  BY <1>0, SnapHeard
<1>2. CASE /\ Tab(t, [IdleTab EXCEPT !.pc = "run", !.id = i, !.epoch = rows[i].epoch])
           /\ UNCHANGED <<rows, discarded>>
  <2> DEFINE new == [IdleTab EXCEPT !.pc = "run", !.id = i, !.epoch = rows[i].epoch]
  <2>1. /\ DOMAIN new = TabFields /\ new.epoch = rows[i].epoch /\ new.vers = <<>> /\ new.pc = "run"
        /\ new.id = i /\ new.then = "none" /\ new.snap = NoRows /\ new.reply = "none"
    BY DEF IdleTab, TabFields
  <2>2. ~new.recovering
    BY DEF IdleTab, TabFields
  <2> HIDE DEF new
  <2>3. TabOK(new) /\ PcOK(new)
    BY <1>0, <1>1, <2>1, <2>2, NoRowsOK DEF TabOK, PcOK, RowOK
  <2>4. Harmless(t, new)
    BY <1>1, <2>1, <2>2, <2>3 DEF Harmless, TabHolds, Carries, NoRows
  <2> QED
    BY <1>2, <2>4, SameRows, SameStore, TabStep DEF new, ResumeOperator, Discards
<1>3. CASE discardPendingSend(i) /\ UNCHANGED tabs /\ (prepareSend # "ok" \/ ~Current(i))
  <2>1. RowsFrom /\ Discards
    BY <1>0, <1>3, OverKeeps DEF ResumeOperator
  <2>2. StoreKeeps
    BY <2>1, SameStore DEF ResumeOperator
  <2>3. Tab(t, tabs[t])
    BY <1>3 DEF Tab, ChatInv, ChatTypeOK, TabsOK
  <2>4. Harmless(t, tabs[t])
    <3>1. \A id \in Ids, e \in 0..MaxEpoch : TabHolds(tabs[t], id, e) => Heard(id, e)
      BY HeldIsHeard DEF Held
    <3> QED
      BY <3>1, TabFacts, SnapHeard DEF Harmless
  <2> QED
    BY <2>2, <2>3, <2>4, TabStep
<1> QED
  BY <1>2, <1>3 DEF ResumeOperator

(* The output of the run is staged. *)
LEMMA StageStep ==
  ASSUME ChatInv, NEW t \in Tabs, StageDelivery(t)
  PROVE  ChatInv'
<1> DEFINE i == tabs[t].id
<1>0. /\ TabOK(tabs[t]) /\ PcOK(tabs[t]) /\ RowsOK(tabs[t].snap) /\ i \in Ids /\ i \in Invokes
      /\ Heard(i, tabs[t].epoch) /\ tabs[t].epoch \in 0..MaxEpoch /\ tabs[t].pc = "run"
  BY WorkFacts DEF StageDelivery, At, PcOK
<1>1. ServerSame /\ UNCHANGED <<wishes, ratchets>>
  BY DEF StageDelivery
<1>2. CASE EndTab(t) /\ UNCHANGED <<rows, discarded>>
  BY <1>1, <1>2, SameRows, SameStore, IdleStep DEF Discards
<1>3. CASE /\ EndTab(t) /\ discardPendingSend(i) /\ Pending(i) /\ prepareSend # "revoked"
           /\ prepareSend = "forbidden" \/ ~Current(i)
  BY <1>0, <1>1, <1>3, OverKeeps, SameStore, IdleStep
<1>4. ASSUME NEW status, Pending(i), stagePendingOperatorDelivery(i, status), UNCHANGED discarded,
             \/ EndTab(t)
             \/ Tab(t, [tabs[t] EXCEPT !.pc = "prepare", !.id = OutputOf[i]])
             \/ Tab(t, [tabs[t] EXCEPT !.pc = "closing"])
      PROVE  ChatInv'
  <2>1. RowOK(rows[i]) /\ RowOK(Delivery(rows[i], status))
        /\ Delivery(rows[i], status).epoch = rows[i].epoch
    BY <1>0, UpdateKeeps DEF ChatInv, ChatTypeOK, RowsOK
  <2>2. RowsFrom
    BY <1>0, <1>4, <2>1, RowKeeps, KeptRows, SameRows DEF stagePendingOperatorDelivery, ChatInv, ChatTypeOK
  <2>3. StoreKeeps
    BY <1>1, <1>4, <2>2, SameStore DEF Discards
  <2>4. CASE Tab(t, [tabs[t] EXCEPT !.pc = "prepare", !.id = OutputOf[i]])
    <3> DEFINE new == [tabs[t] EXCEPT !.pc = "prepare", !.id = OutputOf[i]]
    <3>1. /\ DOMAIN new = TabFields /\ new.epoch = tabs[t].epoch /\ new.vers = tabs[t].vers
          /\ new.pc = "prepare" /\ new.id = OutputOf[i] /\ new.then = tabs[t].then
          /\ new.snap = tabs[t].snap
      BY <1>0 DEF TabOK, TabFields
    <3>2. new.recovering = tabs[t].recovering
      BY <1>0 DEF TabOK, TabFields
    <3> HIDE DEF new
    <3>3. OutputOf[i] \in Ids /\ OutputOf[i] \in Outputs /\ OutputOf[i] \notin Invokes
      BY <1>0, DirectOutboxAssumption DEF Outputs, Range
    <3>4. Root(i) = Root(OutputOf[i])
      BY <1>0, <3>3 DEF Root
    <3>5. Heard(OutputOf[i], tabs[t].epoch)
      BY <1>0, <3>4 DEF Heard
    <3>6. TabOK(new)
      BY <1>0, <3>1 DEF TabOK
    <3>7. PcOK(new)
      BY <1>0, <3>1, <3>2, <3>3 DEF PcOK
    <3>8. Harmless(t, new)
      BY <1>0, <3>1, <3>2, <3>3, <3>5, <3>6, <3>7, SnapHeard DEF Harmless, TabHolds, Carries
    <3> QED
      BY <2>3, <2>4, <3>8, TabStep DEF new
  <2>5. CASE Tab(t, [tabs[t] EXCEPT !.pc = "closing"])
    <3> DEFINE new == [tabs[t] EXCEPT !.pc = "closing"]
    <3>1. /\ DOMAIN new = TabFields /\ new.epoch = tabs[t].epoch /\ new.vers = tabs[t].vers
          /\ new.pc = "closing" /\ new.id = i /\ new.then = tabs[t].then
          /\ new.snap = tabs[t].snap
      BY <1>0 DEF TabOK, TabFields
    <3>2. new.recovering = tabs[t].recovering
      BY <1>0 DEF TabOK, TabFields
    <3> HIDE DEF new
    <3>3. TabOK(new)
      BY <1>0, <3>1 DEF TabOK
    <3>4. PcOK(new)
      BY <1>0, <3>1, <3>2 DEF PcOK
    <3>5. Harmless(t, new)
      BY <1>0, <3>1, <3>2, <3>3, <3>4, SnapHeard DEF Harmless, TabHolds, Carries
    <3> QED
      BY <2>3, <2>5, <3>5, TabStep DEF new
  <2> QED
    BY <1>4, <2>3, <2>4, <2>5, IdleStep
<1> QED
  BY <1>2, <1>3, <1>4 DEF StageDelivery

(* The invocation is closed. *)
LEMMA CloseStep ==
  ASSUME ChatInv, NEW t \in Tabs, CloseOperator(t)
  PROVE  ChatInv'
<1>1. RowsFrom
  BY DropKeeps, KeptRows, SameRows DEF CloseOperator, completePendingOperatorIntent, ChatInv, ChatTypeOK
<1> QED
  BY <1>1, SameStore, IdleStep DEF CloseOperator, Discards

(* Every step of a tab keeps the invariant. *)
LEMMA SessionKeeps ==
  ASSUME ChatInv, NEW t \in Tabs, SessionStep(t)
  PROVE  ChatInv'
<1>1. CASE SendFails(t) \/ OperatorGone(t) \/ TabDies(t)
  BY <1>1, SameAll, IdleStep DEF SendFails, OperatorGone, TabDies
<1>2. CASE RecoveryRevoked(t)
  BY <1>2, ClearStep DEF RecoveryRevoked
<1> QED
  BY <1>1, <1>2, RecoverStep, SendStep, ReconcileStep, ReconciledStep, RecoveryEndsStep, FinalizeStep,
     ForbiddenStep, ConflictStep, DevicesStep, PrepareStep, LoadStep, CommitStep, ConflictRetryStep,
     PendingConflictStep, BeginDecryptStep, DecryptStep, ResumeStep, StageStep, CloseStep DEF SessionStep

-----------------------------------------------------------------------------
(* A tab that does nothing. *)
LEMMA StillTab ==
  ASSUME ChatInv, NEW t \in Tabs, UNCHANGED tabs
  PROVE  Tab(t, tabs[t]) /\ Harmless(t, tabs[t])
<1>1. \A id \in Ids, e \in 0..MaxEpoch : TabHolds(tabs[t], id, e) => Heard(id, e)
  BY HeldIsHeard DEF Held
<1>2. Tab(t, tabs[t])
  BY DEF Tab, ChatInv, ChatTypeOK, TabsOK
<1> QED
  BY <1>1, <1>2, TabFacts, SnapHeard DEF Harmless

(* An answer reaches the tab only while it waits for this message. *)
LEMMA AnswerStep ==
  ASSUME ChatInv, NEW r \in requests, NEW reply, Answer(r, reply), Server, ServerKeeps,
         reply = "forbidden" => blockers # {}
  PROVE  ChatInv'
<1>0. RequestOK(r)
  BY DEF ChatInv, ChatTypeOK
<1> DEFINE t == r.tab
<1>1. t \in Tabs
  BY <1>0 DEF RequestOK
<1>2. StoreKeeps
  <2>1. RowsFrom /\ Discards
    BY SameRows DEF Server, StoreSame, Discards
  <2>2. RequestsFrom
    BY DEF Answer, RequestsFrom
  <2> QED
    BY <2>1, <2>2 DEF Server, StoreSame, StoreKeeps, RatchetsOK, ChatInv, ChatTypeOK, AllDevices
<1>3. CASE UNCHANGED tabs
  BY <1>1, <1>2, <1>3, StillTab, TabStep
<1>4. CASE /\ tabs[t].pc = "waiting"
           /\ Tab(t, [tabs[t] EXCEPT !.pc = "answered", !.reply = reply])
  <2> DEFINE new == [tabs[t] EXCEPT !.pc = "answered", !.reply = reply]
  <2>0. /\ TabOK(tabs[t]) /\ PcOK(tabs[t]) /\ RowsOK(tabs[t].snap) /\ tabs[t].id \in Ids
        /\ tabs[t].snap[tabs[t].id] # NoRow
    BY <1>1, <1>4, TabFacts DEF PcOK
  <2>1. /\ DOMAIN new = TabFields /\ new.epoch = tabs[t].epoch /\ new.vers = tabs[t].vers
        /\ new.pc = "answered" /\ new.id = tabs[t].id /\ new.then = tabs[t].then
        /\ new.snap = tabs[t].snap /\ new.reply = reply
    BY <2>0 DEF TabOK, TabFields
  <2>2. new.recovering = tabs[t].recovering
    BY <2>0 DEF TabOK, TabFields
  <2>3. Tab(t, new)
    BY <1>4
  <2> HIDE DEF new
  <2>4. TabOK(new)
    BY <2>0, <2>1 DEF TabOK
  <2>5. blockers # {} => tabs[t].snap[tabs[t].id].epoch < epoch
    BY <1>1, <2>0, SnapHeard DEF ChatInv, DiscardInv, NoneAhead, RowOK
  <2>6. PcOK(new)
    BY <2>0, <2>1, <2>2, <2>5 DEF PcOK
  <2>7. Harmless(t, new)
    BY <1>1, <2>0, <2>1, <2>2, <2>4, <2>6, SnapHeard DEF Harmless, TabHolds, Carries
  <2> QED
    BY <1>1, <1>2, <2>3, <2>7, TabStep
<1> QED
  BY <1>3, <1>4 DEF Answer

(* The checks before the transaction of a send. *)
LEMMA CheckedStep ==
  ASSUME ChatInv, NEW r \in requests, SendChecked(r)
  PROVE  ChatInv'
<1>0. RequestOK(r)
  BY DEF ChatInv, ChatTypeOK
<1>1. ServerKeeps
  BY DEF SendChecked, Server, StoreSame, ServerKeeps, ChatInv, ChatTypeOK
<1>2. CASE Answer(r, Precheck(r)) /\ Precheck(r) # "pass"
  <2>1. Precheck(r) # "forbidden"
    BY DEF Precheck, findExactReplay
  <2> QED
    BY <1>1, <1>2, <2>1, AnswerStep DEF SendChecked
<1>3. CASE requests' = (requests \ {r}) \cup {[r EXCEPT !.stage = "checked"]} /\ UNCHANGED tabs
  <2> DEFINE q == [r EXCEPT !.stage = "checked"]
  <2>1. RequestOK(q) /\ q.id = r.id /\ q.epoch = r.epoch
    BY <1>0 DEF RequestOK
  <2>2. Heard(r.id, r.epoch)
    BY <1>0, HeldIsHeard DEF RequestOK, Held
  <2> HIDE DEF q
  <2>3. RequestsFrom
    BY <1>3, <2>1, <2>2 DEF RequestsFrom, q
  <2>4. RowsFrom /\ Discards
    BY SameRows DEF SendChecked, Server, StoreSame, Discards
  <2>5. StoreKeeps
    BY <1>1, <2>3, <2>4 DEF SendChecked, Server, StoreSame, StoreKeeps, RatchetsOK, ChatInv,
       ChatTypeOK, AllDevices
  <2> QED
    BY <1>0, <1>3, <2>5, StillTab, TabStep DEF RequestOK
<1> QED
  BY <1>2, <1>3 DEF SendChecked

(* The transaction: only what is of the current epoch is created. *)
LEMMA DecidedStep ==
  ASSUME ChatInv, NEW r \in requests, sendWithStatus(r)
  PROVE  ChatInv'
<1>0. RequestOK(r) /\ Heard(r.id, r.epoch)
  BY HeldIsHeard DEF ChatInv, ChatTypeOK, RequestOK, Held
<1>1. Decide(r) = "forbidden" => blockers # {}
  BY DEF Decide, findExactReplay, canInteract
<1>2. Decide(r) = "created" => epoch = r.epoch
  BY DEF Decide, findExactReplay
<1>3. Decide(r) = "created" => r.id \notin discarded
  BY <1>0, <1>2 DEF ChatInv, DiscardInv, Gone, RequestOK
<1>4. ServerKeeps
  <2>1. messages = [id \in Ids |-> messages[id]] /\ discarded' = discarded
    BY DEF ChatInv, ChatTypeOK, sendWithStatus, Server, StoreSame
  <2>2. epoch' = epoch /\ blockers' = blockers
    BY DEF sendWithStatus
  <2>3. CASE messages' = messages
    BY <2>1, <2>2, <2>3 DEF ServerKeeps
  <2>4. ASSUME NEW m, messages' = [messages EXCEPT ![r.id] = m], r.id \notin discarded
        PROVE  ServerKeeps
    BY <2>1, <2>2, <2>4 DEF ServerKeeps
  <2> QED
    BY <1>3, <2>3, <2>4 DEF sendWithStatus
<1> QED
  BY <1>1, <1>4, AnswerStep DEF sendWithStatus

(* Steps that no tab takes. *)
LEMMA StillStep ==
  ASSUME ChatInv, StoreKeeps, UNCHANGED <<tabs, requests, wishes>>
  PROVE  ChatInv'
<1>1. ChatTypeOK'
  BY DEF ChatInv, ChatTypeOK, StoreKeeps, ServerKeeps, RowsFrom, RowsOK, RowOK, RequestOK, TabsOK, TabOK,
         RatchetsOK, Outputs, AllDevices
<1>2. HeardKept
  <2> SUFFICES ASSUME NEW i \in Ids, NEW e \in 0..MaxEpoch, Held(i, e)' PROVE Heard(i, e)
    BY DEF HeardKept
  <2>1. CASE rows'[i] # NoRow /\ rows'[i].epoch = e
    BY <2>1 DEF StoreKeeps, RowsFrom
  <2>2. CASE Held(i, e)
    BY <2>2, HeldIsHeard
  <2> QED
    BY <2>1, <2>2 DEF Held, NoRow, TabHolds, Outputs
<1>3. \A id \in Ids : Unsent(id)' => Unsent(id)
  BY DEF Unsent, Carries, Outputs
<1>4. OneEpoch' /\ NoneAhead' /\ Fresh' /\ Gone'
  BY <1>2, <1>3, QuietStep DEF StoreKeeps, ServerKeeps, Discards
<1>5. OneCarrier'
  BY DEF OneCarrier, Carries, Outputs, ChatInv, DiscardInv
<1>6. ProgramsOK'
  BY DEF ProgramsOK, PcOK, NoRow, ChatInv, DiscardInv, StoreKeeps, ServerKeeps
<1> QED
  BY <1>1, <1>4, <1>5, <1>6 DEF ChatInv, DiscardInv

(* The quarantine keeps the rows and their epochs. *)
LEMMA CancelStep ==
  ASSUME ChatInv, confirmBlock
  PROVE  ChatInv'
<1>1. RowsOK(rows') /\ Kept(rows', rows)
  <2>1. ASSUME NEW i \in Ids, NEW new, Pending(i), new = [rows[i] EXCEPT !.cancelled = TRUE, !.rev = @ + 1]
        PROVE  RowOK(new) /\ new.epoch = rows[i].epoch
    BY <2>1 DEF ChatInv, ChatTypeOK, RowsOK, RowOK, RowFields
  <2>2. ASSUME NEW i \in Ids PROVE RowOK(rows'[i]) /\ (rows'[i] # NoRow => rows[i] # NoRow
                                                        /\ rows'[i].epoch = rows[i].epoch)
    <3>1. CASE rows'[i] = rows[i]
      BY <3>1 DEF ChatInv, ChatTypeOK, RowsOK
    <3>2. CASE Pending(i) /\ rows'[i] = [rows[i] EXCEPT !.cancelled = TRUE, !.rev = @ + 1]
      BY <2>1, <3>2 DEF Pending
    <3> QED
      BY <3>1, <3>2 DEF confirmBlock, cancelPendingSendsForTrust
  <2>3. rows' = [i \in Ids |-> rows'[i]]
    BY DEF confirmBlock, cancelPendingSendsForTrust
  <2> QED
    BY <2>2, <2>3 DEF RowsOK, Kept
<1>2. StoreKeeps
  BY <1>1, KeptRows, SameStore DEF confirmBlock, Discards
<1> QED
  BY <1>2, StillStep DEF confirmBlock, ServerSame, serverVars

(* A block or an unblock leaves every known epoch behind. *)
LEMMA TrustKeeps ==
  ASSUME ChatInv, TrustStep, UNCHANGED localVars
  PROVE  ChatInv'
<1>1. /\ epoch < MaxEpoch /\ epoch' = epoch + 1 /\ messages' = messages /\ requests' = requests
      /\ UNCHANGED <<wishes, rows, ratchets, tabs, discarded>>
  BY DEF TrustStep, blockUser, unblockUser, bumpDirectInteractionEpoch, localVars
<1>2. epoch \in 0..MaxEpoch /\ epoch' \in 0..MaxEpoch
  BY <1>1, DirectOutboxAssumption DEF ChatInv, ChatTypeOK
<1>3. \A i \in Ids, e \in 0..MaxEpoch : Heard(i, e)' => Heard(i, e)
  BY <1>1 DEF Heard, Held, TabHolds, Root, Outputs, NoRow
<1>4. \A i \in Ids : Unsent(i)' => Unsent(i)
  BY <1>1 DEF Unsent, Carries, Outputs
<1>5. ChatTypeOK'
  BY <1>1, <1>2 DEF ChatInv, ChatTypeOK, RowsOK, RowOK, RequestOK, TabsOK, TabOK, Outputs, AllDevices
<1>6. OneEpoch' /\ NoneAhead'
  BY <1>1, <1>2, <1>3 DEF OneEpoch, NoneAhead, ChatInv, DiscardInv
<1>7. Fresh'
  BY <1>1, <1>3, <1>4 DEF Fresh, ChatInv, DiscardInv, Outputs, Root
<1>8. Gone'
  BY <1>1, <1>2, <1>3 DEF Gone, ChatInv, DiscardInv, NoMessage
<1>9. OneCarrier'
  BY <1>1 DEF OneCarrier, Carries, Outputs, ChatInv, DiscardInv
<1>10. ProgramsOK'
  <2> SUFFICES ASSUME NEW t \in Tabs PROVE PcOK(tabs[t])'
    BY <1>1 DEF ProgramsOK
  <2>1. PcOK(tabs[t]) /\ RowsOK(tabs[t].snap)
    BY TabFacts
  <2>2. \A i \in Ids : tabs[t].snap[i].epoch \in 0..MaxEpoch
    BY <2>1 DEF RowsOK, RowOK
  <2> QED
    BY <1>1, <1>2, <2>1, <2>2 DEF PcOK, NoRow
<1> QED
  BY <1>5, <1>6, <1>7, <1>8, <1>9, <1>10 DEF ChatInv, DiscardInv

(* The invariant holds at first, *)
LEMMA ChatInitInv == DirectInit => ChatInv
<1> SUFFICES ASSUME DirectInit PROVE ChatInv
  OBVIOUS
<1>1. /\ epoch = 0 /\ requests = {} /\ messages = [id \in Ids |-> NoMessage] /\ wishes \in Wishes
      /\ rows = NoRows /\ ratchets = [e \in 0..MaxEpoch |-> [d \in AllDevices |-> 0]]
      /\ tabs = [t \in Tabs |-> IdleTab] /\ discarded = {} /\ sealed = {}
  BY DEF DirectInit, DirectChatInit, OutboxInitial
<1>2. TabOK(IdleTab) /\ PcOK(IdleTab) /\ IdleTab.snap = NoRows
  BY NoRowsOK, DirectOutboxAssumption DEF IdleTab, TabOK, TabFields, PcOK
<1>3. ChatTypeOK
  BY <1>1, <1>2, NoRowsOK, DirectOutboxAssumption DEF ChatTypeOK, TabsOK, Outputs
<1>4. \A i \in Ids, e \in 0..MaxEpoch : ~Held(i, e)
  BY <1>1, <1>2 DEF Held, TabHolds, IdleTab, NoRows
<1>5. \A i \in Ids, t \in Tabs : ~Carries(tabs[t], i)
  BY <1>1 DEF Carries, IdleTab
<1>6. \A i \in Ids, e \in 0..MaxEpoch : ~Heard(i, e)
  BY <1>4 DEF Heard
<1> QED
  BY <1>1, <1>2, <1>3, <1>5, <1>6, DirectOutboxAssumption
     DEF ChatInv, DiscardInv, OneEpoch, NoneAhead, Fresh, OneCarrier, Gone, ProgramsOK, Unsent, Outputs

(* and every step of the browser, the server and the world keeps it. *)
LEMMA ChatNextInv == ChatInv /\ [DirectNext]_chatVars => ChatInv'
<1> SUFFICES ASSUME ChatInv, [DirectNext]_chatVars PROVE ChatInv'
  OBVIOUS
<1>1. ASSUME StoreSame, UNCHANGED tabs, UNCHANGED <<blockers, epoch, messages, requests>>
      PROVE  ChatInv'
  <2>1. RowsFrom /\ Discards
    BY <1>1, SameRows DEF StoreSame, Discards
  <2>2. StoreKeeps
    BY <1>1, <2>1 DEF StoreSame, StoreKeeps, RequestsFrom, ServerKeeps, RatchetsOK, ChatInv, ChatTypeOK,
       AllDevices
  <2> QED
    BY <1>1, <2>2, StillStep DEF StoreSame
<1>2. CASE LeaseLost
  BY <1>1, <1>2 DEF LeaseLost, ServerSame, serverVars
<1>3. CASE DeviceStep /\ UNCHANGED localVars
  BY <1>1, <1>3 DEF DeviceStep, register, revoke, localVars, StoreSame
<1>4. CASE UNCHANGED chatVars
  BY <1>1, <1>4 DEF chatVars, serverVars, localVars, StoreSame
<1> QED
  BY <1>2, <1>3, <1>4, SessionKeeps, CheckedStep, DecidedStep, CancelStep, TrustKeeps DEF DirectNext

(* What SendForbidden, SendConflicts, Prepare and pruneReconciled have     *)
(* given up never becomes a message: although requests outlive their tabs, *)
(* leases are lost and blocks are lifted, sendWithStatus creates only what *)
(* is of the current epoch, and what was given up is of an earlier one.    *)
THEOREM DiscardedNeverAppears == DirectSpec => []DiscardedStaysOut
<1>1. ChatInv => DiscardedStaysOut
  BY DEF ChatInv, DiscardInv, Gone, DiscardedStaysOut
<1> QED
  BY ChatInitInv, ChatNextInv, <1>1, PTL DEF DirectSpec

-----------------------------------------------------------------------------
(* The ratchets.                                                           *)

(* Every sealed state is behind its ratchet. *)
SealedBehind ==
    \A x \in sealed : /\ x.epoch \in 0..MaxEpoch /\ x.dev \in AllDevices
                      /\ x.ver \in Nat /\ x.ver < ratchets[x.epoch][x.dev]

SealedInv == SealedBehind /\ NoRatchetFork

(* A commit against the versions that were read seals new states only. *)
LEMMA AdvanceKeeps ==
  ASSUME ChatInv, SealedInv, NEW t \in Tabs, NEW by, NEW rev,
         assertRatchetVersion(tabs[t].epoch, tabs[t].vers),
         commitRatchet(tabs[t].epoch, tabs[t].vers),
         sealed' = sealed \cup Advances(t, by, rev)
  PROVE  SealedInv'
<1> DEFINE e == tabs[t].epoch
<1> DEFINE vers == tabs[t].vers
<1>0. /\ e \in 0..MaxEpoch /\ DOMAIN vers \subseteq AllDevices /\ vers \in [DOMAIN vers -> Nat]
      /\ ratchets \in [0..MaxEpoch -> [AllDevices -> Nat]]
  BY TabFacts DEF TabOK, ChatInv, ChatTypeOK
<1>1. \A f \in 0..MaxEpoch, d \in AllDevices :
        ratchets'[f][d] = IF f = e /\ d \in DOMAIN vers THEN vers[d] + 1 ELSE ratchets[f][d]
  BY <1>0, CommitKeepsTypes DEF RatchetsOK
<1>2. \A d \in DOMAIN vers : ratchets[e][d] = vers[d]
  BY DEF assertRatchetVersion
<1>3. ASSUME NEW x \in Advances(t, by, rev)
      PROVE  /\ x.dev \in DOMAIN vers /\ x.epoch = e /\ x.ver = vers[x.dev]
             /\ x = [by |-> by, rev |-> rev, epoch |-> e, dev |-> x.dev, ver |-> vers[x.dev]]
  BY DEF Advances
<1> HIDE DEF e, vers
<1>4. ASSUME NEW x \in sealed'
      PROVE  /\ x.epoch \in 0..MaxEpoch /\ x.dev \in AllDevices
             /\ x.ver \in Nat /\ x.ver < ratchets'[x.epoch][x.dev]
  <2>1. CASE x \in sealed
    <3>1. /\ x.epoch \in 0..MaxEpoch /\ x.dev \in AllDevices
          /\ x.ver \in Nat /\ x.ver < ratchets[x.epoch][x.dev]
      BY <2>1 DEF SealedInv, SealedBehind
    <3>2. ratchets[x.epoch][x.dev] \in Nat
      BY <1>0, <3>1
    <3>3. \/ ratchets'[x.epoch][x.dev] = ratchets[x.epoch][x.dev]
          \/ ratchets'[x.epoch][x.dev] = ratchets[x.epoch][x.dev] + 1
      BY <1>1, <1>2, <3>1
    <3> QED
      BY <3>1, <3>2, <3>3
  <2>2. CASE x \in Advances(t, by, rev)
    BY <1>0, <1>1, <1>3, <2>2
  <2> QED
    BY <2>1, <2>2
<1>5. SealedBehind'
  BY <1>4 DEF SealedBehind, AllDevices
<1>6. ASSUME NEW x \in sealed', NEW y \in sealed', x.dev = y.dev, x.epoch = y.epoch, x.ver = y.ver
      PROVE  x = y
  <2>1. CASE x \in sealed /\ y \in sealed
    BY <1>6, <2>1 DEF SealedInv, NoRatchetFork
  <2>2. ASSUME NEW a \in sealed, NEW b \in Advances(t, by, rev), a.dev = b.dev, a.epoch = b.epoch,
               a.ver = b.ver
        PROVE  FALSE
    <3>1. a.ver \in Nat /\ a.ver < ratchets[a.epoch][a.dev]
      BY DEF SealedInv, SealedBehind
    <3>2. ratchets[a.epoch][a.dev] = a.ver
      BY <2>2, <1>2, <1>3
    <3> QED
      BY <3>1, <3>2
  <2>3. CASE x \in Advances(t, by, rev) /\ y \in Advances(t, by, rev)
    BY <1>3, <1>6, <2>3
  <2> QED
    BY <1>6, <2>1, <2>2, <2>3
<1>7. NoRatchetFork'
  BY <1>6 DEF NoRatchetFork
<1> QED
  BY <1>5, <1>7 DEF SealedInv

(* Only the two commits advance a ratchet. *)
LEMMA SealedNextInv == ChatInv /\ SealedInv /\ [DirectNext]_chatVars => SealedInv'
<1> SUFFICES ASSUME ChatInv, SealedInv, [DirectNext]_chatVars PROVE SealedInv'
  OBVIOUS
<1>1. CASE UNCHANGED <<ratchets, sealed>>
  BY <1>1 DEF SealedInv, SealedBehind, NoRatchetFork, AllDevices
<1>2. ASSUME NEW t \in Tabs, commitOutboundRatchets(t) PROVE SealedInv'
  BY <1>2, AdvanceKeeps DEF commitOutboundRatchets
<1>3. ASSUME NEW t \in Tabs, commitDecryptedRatchet(t) PROVE SealedInv'
  BY <1>1, <1>3, AdvanceKeeps DEF commitDecryptedRatchet
<1>4. ASSUME NEW t \in Tabs, SessionStep(t), ~commitOutboundRatchets(t), ~commitDecryptedRatchet(t)
      PROVE  UNCHANGED <<ratchets, sealed>>
  <2>1. ASSUME StoreSame \/ ClearLocal(t)
        PROVE  UNCHANGED <<ratchets, sealed>>
    BY <2>1 DEF StoreSame, ClearLocal
  <2>2. ASSUME NEW then, recoverPendingSends(t, then)
        PROVE  UNCHANGED <<ratchets, sealed>>
    BY <2>2 DEF recoverPendingSends
  <2>3. ASSUME NEW id, sendPendingDirectMessage(t, id) \/ reconcileTrustCancelled(t, id)
        PROVE  UNCHANGED <<ratchets, sealed>>
    BY <2>1, <2>3 DEF sendPendingDirectMessage, reconcileTrustCancelled
  <2>4. CASE \/ Reconciled(t) \/ RecoveryEnds(t) \/ finalizePendingSend(t) \/ SendForbidden(t)
             \/ SendConflicts(t) \/ Prepare(t) \/ StageDelivery(t) \/ CloseOperator(t)
    BY <2>1, <2>4 DEF Reconciled, RecoveryEnds, finalizePendingSend, SendForbidden, SendConflicts,
                      Prepare, StageDelivery, CloseOperator
  <2>5. CASE \/ SendFails(t) \/ RecoveryRevoked(t) \/ DevicesChanged(t) \/ loadRatchets(t)
             \/ RatchetConflict(t) \/ PendingConflict(t) \/ OperatorGone(t) \/ TabDies(t)
    BY <2>1, <2>5 DEF SendFails, RecoveryRevoked, DevicesChanged, loadRatchets, RatchetConflict,
                      PendingConflict, OperatorGone, TabDies
  <2>6. ASSUME NEW x, BeginDecrypt(t, x) \/ ResumeOperator(t, x)
        PROVE  UNCHANGED <<ratchets, sealed>>
    BY <2>1, <2>6 DEF BeginDecrypt, ResumeOperator
  <2> QED
    BY <1>4, <2>2, <2>3, <2>4, <2>5, <2>6 DEF SessionStep
<1>5. CASE confirmBlock \/ LeaseLost \/ UNCHANGED localVars \/ UNCHANGED chatVars
  BY <1>1, <1>5 DEF confirmBlock, LeaseLost, StoreSame, localVars, chatVars
<1>6. ASSUME NEW r, SendChecked(r) \/ sendWithStatus(r)
      PROVE  UNCHANGED <<ratchets, sealed>>
  BY <1>6 DEF SendChecked, sendWithStatus, Server, StoreSame
<1> QED
  BY <1>1, <1>2, <1>3, <1>4, <1>5, <1>6 DEF DirectNext

(* commitOutboundRatchets and commitDecryptedRatchet never advance the     *)
(* same state of a ratchet twice, whichever tabs race for it: what a       *)
(* commit seals is the ratchet's current state, and all that was sealed    *)
(* before is behind it.                                                    *)
THEOREM RatchetsNeverFork == DirectSpec => []NoRatchetFork
<1>1. DirectInit => SealedInv
  BY DEF DirectInit, OutboxInitial, SealedInv, SealedBehind, NoRatchetFork
<1>2. SealedInv => NoRatchetFork
  BY DEF SealedInv
<1> QED
  BY ChatInitInv, ChatNextInv, SealedNextInv, <1>1, <1>2, PTL DEF DirectSpec
=============================================================================
