---------------------------- MODULE AccountProofs ---------------------------
(***************************************************************************)
(* Proofs about the tables several calls write at once, for any number of  *)
(* versions, accounts, projects and calls: what is sold keeps its terms,   *)
(* handles and profiles name each other, projects stay in their plan, a    *)
(* browser keeps the secret keys of the device the server has, and a walk  *)
(* over the pages of a listing shows every row that did not change once.   *)
(*                                                                         *)
(* All but the last need what an open call relies on between its           *)
(* statements: that the version it read is still one that was on sale,     *)
(* that the id it holds is of a row of its own account.  What every other  *)
(* step may do to the rows (RowsStand, RowsKeep) is stated once, and shown *)
(* of each step.  The listings need what a cursor stands for: the rows a   *)
(* page leaves out are those its cursor has not passed.                    *)
(***************************************************************************)
EXTENDS Tariffs, Handles, Projects, LocalDevice, Paging,
        FiniteSetTheorems, WellFoundedInduction, TLAPS

-----------------------------------------------------------------------------
(* Plan versions and checkouts.                                            *)

(* A row of the plan versions. *)
VersionFields == {"status", "terms", "from", "to", "entitled"}

(* Statuses of a row that has been on sale. *)
Public == {"PUBLISHED", "RETIRED"}

(* A row that exists has a status. *)
VersionOK(r) ==
    \/ r.status = "NONE"
    \/ DOMAIN r = VersionFields /\ r.status \in {"DRAFT"} \cup Public

(* What a call holds about the row it is about. *)
CallOK(call) ==
    call.at # "IDLE" =>
        /\ call.of \in Versions /\ version[call.of].status # "NONE"
        /\ call.at \in {"PUBLISHED", "ENDING"} => version[call.of].status \in Public
        /\ call.at = "WRITING" =>
              \A v \in Versions : v \in call.held => version[v].status \in Public

(* A checkout is about a version that was on sale, and an order has its terms. *)
OrderOK(o) ==
    /\ o.at \in {"FOUND", "PLACED"} => o.of \in Versions /\ version[o.of].status \in Public
    /\ o.at = "PLACED" => o.terms = version[o.of].terms

(* The inductive invariant. *)
TariffInv ==
    /\ DOMAIN version = Versions /\ \A v \in Versions : VersionOK(version[v])
    /\ DOMAIN adminCall = AdminCalls /\ \A c \in AdminCalls : CallOK(adminCall[c])
    /\ DOMAIN order = Shoppers /\ \A s \in Shoppers : OrderOK(order[s])
    /\ \A v \in audited : v \in Versions /\ version[v].status \in Public

(* What every step does to the rows: a row stays, a row that was on sale stays
   one and keeps its terms. *)
RowsStand ==
    /\ DOMAIN version' = Versions
    /\ \A v \in Versions :
          /\ VersionOK(version'[v])
          /\ version[v].status # "NONE" => version'[v].status # "NONE"
          /\ version[v].status \in Public =>
                version'[v].status \in Public /\ version'[v].terms = version[v].terms

(* What others hold about the rows survives whatever keeps the rows standing. *)
LEMMA CallStands ==
    ASSUME TariffInv, RowsStand
    PROVE  /\ \A c \in AdminCalls :
                 CallOK(adminCall[c]) /\ (adminCall'[c] = adminCall[c] => CallOK(adminCall[c])')
           /\ \A s \in Shoppers : OrderOK(order[s]) /\ (order'[s] = order[s] => OrderOK(order[s])')
<1>1. ASSUME NEW c \in AdminCalls, adminCall'[c] = adminCall[c] PROVE CallOK(adminCall[c])'
  BY <1>1 DEF TariffInv, RowsStand, CallOK
<1>2. ASSUME NEW s \in Shoppers, order'[s] = order[s] PROVE OrderOK(order[s])'
  BY <1>2 DEF TariffInv, RowsStand, OrderOK
<1> QED  BY <1>1, <1>2 DEF TariffInv

(* A step of one call of the administration. *)
LEMMA AdminStep ==
    ASSUME TariffInv, RowsStand, NEW c \in AdminCalls, NEW call, CallTo(c, call),
           call.at # "IDLE" =>
              /\ call.of \in Versions /\ version'[call.of].status # "NONE"
              /\ call.at \in {"PUBLISHED", "ENDING"} => version'[call.of].status \in Public
              /\ call.at = "WRITING" =>
                    \A v \in Versions : v \in call.held => version'[v].status \in Public,
           UNCHANGED order,
           \A v \in audited' : v \in Versions /\ version'[v].status \in Public
    PROVE  TariffInv'
<1>1. /\ DOMAIN adminCall' = AdminCalls /\ adminCall'[c] = call
      /\ \A d \in AdminCalls \ {c} : adminCall'[d] = adminCall[d]
  BY DEF CallTo, TariffInv
<1>2. CallOK(adminCall[c])'
  BY <1>1 DEF CallOK
<1>3. \A d \in AdminCalls : CallOK(adminCall[d])'
  BY <1>1, <1>2, CallStands
<1>4. \A s \in Shoppers : OrderOK(order[s])'
  BY CallStands
<1> QED  BY <1>1, <1>3, <1>4 DEF TariffInv, RowsStand, VersionOK, VersionFields, Public

(* Rows left alone stand. *)
LEMMA SameTariffRows ==
    ASSUME TariffInv, UNCHANGED version
    PROVE  RowsStand
  BY DEF TariffInv, RowsStand

(* So does what was audited. *)
LEMMA AuditStands ==
    ASSUME TariffInv, RowsStand, UNCHANGED audited
    PROVE  \A v \in audited' : v \in Versions /\ version'[v].status \in Public
  BY DEF TariffInv, RowsStand

(* One row gets a new value. *)
LEMMA OneRow ==
    ASSUME TariffInv, NEW v \in Versions, NEW new, version' = [version EXCEPT ![v] = new],
           VersionOK(new), new.status # "NONE" \/ version[v].status = "NONE",
           version[v].status \in Public => new.status \in Public /\ new.terms = version[v].terms
    PROVE  RowsStand /\ version'[v] = new
  BY DEF TariffInv, RowsStand

(* The initial states satisfy the invariant. *)
LEMMA TariffInit == TariffsInit => TariffInv
<1> SUFFICES ASSUME TariffsInit PROVE TariffInv
  OBVIOUS
<1>1. \A v \in Versions : version[v].status = "NONE"
  BY DEF TariffsInit, NoVersion
<1>2. \A c \in AdminCalls : adminCall[c].at = "IDLE"
  BY DEF TariffsInit, CallIdle
<1>3. \A s \in Shoppers : order[s].at = "NONE"
  BY DEF TariffsInit, NoOrder
<1> QED  BY <1>1, <1>2, <1>3 DEF TariffsInit, TariffInv, VersionOK, CallOK, OrderOK

(* A draft is made, or a call finds the draft it is about. *)
LEMMA DraftStep ==
    ASSUME TariffInv, NEW c \in AdminCalls, NEW v \in Versions, NEW t \in Terms,
           createDraft(c, v, t) \/ RequireDraft(c, v, t)
    PROVE  TariffInv'
<1>1. CASE createDraft(c, v, t)
  <2> DEFINE new == [status |-> "DRAFT", terms |-> t, from |-> now, to |-> 0, entitled |-> FALSE]
  <2>1. VersionOK(new) /\ new.status = "DRAFT"
    BY DEF VersionOK, VersionFields
  <2>2. version[v].status = "NONE" /\ version' = [version EXCEPT ![v] = new] /\ UNCHANGED <<order, audited>>
    BY <1>1 DEF createDraft
  <2> HIDE DEF new
  <2>3. RowsStand /\ version'[v] = new
    BY <2>1, <2>2, OneRow DEF Public
  <2>4. PICK call : CallTo(c, call) /\ (call = [at |-> "ENTITLING", of |-> v] \/ call = CallIdle)
    BY <1>1 DEF createDraft
  <2>5. call.at # "IDLE" => call.at = "ENTITLING" /\ call.of = v
    BY <2>4 DEF CallIdle
  <2> QED  BY <2>1, <2>2, <2>3, <2>4, <2>5, AdminStep, AuditStands
<1>2. CASE RequireDraft(c, v, t)
  <2> DEFINE call == [at |-> "UPDATING", of |-> v, terms |-> t]
  <2>1. CallTo(c, call) /\ version[v].status = "DRAFT" /\ UNCHANGED <<version, order, audited>>
    BY <1>2 DEF RequireDraft
  <2>2. call.at = "UPDATING" /\ call.of = v
    OBVIOUS
  <2> HIDE DEF call
  <2> QED  BY <2>1, <2>2, SameTariffRows, AdminStep, AuditStands
<1> QED  BY <1>1, <1>2

(* Every open call is about a row that exists. *)
LEMMA CallRow ==
    ASSUME TariffInv, NEW c \in AdminCalls, adminCall[c].at # "IDLE"
    PROVE  /\ adminCall[c].of \in Versions
           /\ DOMAIN version[adminCall[c].of] = VersionFields
           /\ version[adminCall[c].of].status \in {"DRAFT"} \cup Public
           /\ VersionOK(version[adminCall[c].of])
  BY DEF TariffInv, CallOK, VersionOK

(* The terms of a draft are changed: those of a row that was on sale are refused by the trigger. *)
LEMMA UpdateStep ==
    ASSUME TariffInv, NEW c \in AdminCalls, updatePlanDraft(c)
    PROVE  TariffInv'
<1> DEFINE v == adminCall[c].of
           new == [version[v] EXCEPT !.terms = adminCall[c].terms]
<1>1. adminCall[c].at = "UPDATING" /\ UNCHANGED <<order, audited>>
  BY DEF updatePlanDraft
<1>2. PICK u \in Versions : /\ u = adminCall[c].of
                            /\ DOMAIN version[u] = VersionFields
                            /\ version[u].status \in {"DRAFT"} \cup Public
  BY <1>1, CallRow
<1>3. DOMAIN new = VersionFields /\ new.status = version[u].status
  BY <1>2 DEF VersionFields
<1>4. CASE CallTo(c, CallIdle) /\ UNCHANGED version
  BY <1>1, <1>4, SameTariffRows, AdminStep, AuditStands DEF CallIdle
<1>5. CASE /\ ~reject_published_commercial_update(version[v], new)
           /\ version' = [version EXCEPT ![v] = new]
           /\ CallTo(c, [at |-> "REPLACING", of |-> v])
  <2>1. version[u].status # "DRAFT" => new.terms = version[u].terms
    BY <1>2, <1>5 DEF reject_published_commercial_update
  <2> HIDE DEF new
  <2>2. VersionOK(new) /\ new.status # "NONE"
    BY <1>2, <1>3 DEF VersionOK, Public
  <2>3. RowsStand /\ version'[u] = new
    BY <1>2, <1>3, <1>5, <2>1, <2>2, OneRow DEF Public
  <2> DEFINE call == [at |-> "REPLACING", of |-> u]
  <2>4. CallTo(c, call)
    BY <1>2, <1>5
  <2>5. call.at = "REPLACING" /\ call.of = u
    OBVIOUS
  <2> HIDE DEF call
  <2> QED  BY <1>1, <2>2, <2>3, <2>4, <2>5, AdminStep, AuditStands
<1> QED  BY <1>4, <1>5 DEF updatePlanDraft

(* The entitlements are replaced, which leaves the terms alone. *)
LEMMA EntitlementStep ==
    ASSUME TariffInv, NEW c \in AdminCalls, DeleteEntitlements(c) \/ CreateEntitlements(c)
    PROVE  TariffInv'
<1>1. adminCall[c].at \in {"REPLACING", "ENTITLING"} /\ UNCHANGED <<order, audited>>
  BY DEF DeleteEntitlements, CreateEntitlements
<1>2. PICK u \in Versions : /\ u = adminCall[c].of
                            /\ DOMAIN version[u] = VersionFields
                            /\ version[u].status \in {"DRAFT"} \cup Public
  BY <1>1, CallRow
<1>3. UNCHANGED version \/ \E b : version' = [version EXCEPT ![u] = [version[u] EXCEPT !.entitled = b]]
  BY <1>2 DEF DeleteEntitlements, CreateEntitlements
<1>4. RowsStand
  <2>1. ASSUME NEW b, version' = [version EXCEPT ![u] = [version[u] EXCEPT !.entitled = b]]
        PROVE  RowsStand
    <3> DEFINE new == [version[u] EXCEPT !.entitled = b]
    <3>1. DOMAIN new = VersionFields /\ new.status = version[u].status /\ new.terms = version[u].terms
      BY <1>2 DEF VersionFields
    <3> HIDE DEF new
    <3>2. VersionOK(new) /\ new.status # "NONE"
      BY <1>2, <3>1 DEF VersionOK, Public
    <3>3. version' = [version EXCEPT ![u] = new]
      BY <2>1 DEF new
    <3> QED  BY <1>2, <3>1, <3>2, <3>3, OneRow
  <2> QED  BY <1>3, <2>1, SameTariffRows
<1>5. PICK call : CallTo(c, call) /\ (call = [at |-> "ENTITLING", of |-> u] \/ call = CallIdle)
  BY <1>2 DEF DeleteEntitlements, CreateEntitlements
<1>6. call.at # "IDLE" => call.at = "ENTITLING" /\ call.of = u
  BY <1>5 DEF CallIdle
<1>7. version'[u].status # "NONE"
  BY <1>2, <1>4 DEF RowsStand, Public
<1> QED  BY <1>1, <1>4, <1>5, <1>6, <1>7, AdminStep, AuditStands

(* The steps of a publication that only read. *)
LEMMA PublishStep ==
    ASSUME TariffInv, NEW c \in AdminCalls,
           \/ \E v \in Versions : simulatePlanVersion(c, v) \/ publishPolicy(c, v) \/ RequirePublished(c, v)
           \/ \E confirmed \in BOOLEAN : publishPlanVersion(c, confirmed)
           \/ FindPublished(c) \/ RetirePublished(c) \/ AdminDies(c)
    PROVE  TariffInv'
<1>1. UNCHANGED <<version, order, audited>>
  BY DEF simulatePlanVersion, publishPolicy, RequirePublished, publishPlanVersion, FindPublished,
         RetirePublished, AdminDies
<1>2. RowsStand
  BY <1>1, SameTariffRows
<1>3. PICK call : /\ CallTo(c, call)
                  /\ call.at # "IDLE" =>
                      /\ call.of \in Versions /\ version[call.of].status # "NONE"
                      /\ call.at # "PUBLISHED"
                      /\ call.at = "ENDING" => version[call.of].status = "PUBLISHED"
                      /\ call.at = "WRITING" =>
                            \A v \in Versions : v \in call.held => version[v].status = "PUBLISHED"
  <2>1. ASSUME NEW v \in Versions, simulatePlanVersion(c, v)
        PROVE  \E call : /\ CallTo(c, call) /\ call.at = "SIMULATED" /\ call.of \in Versions
                         /\ version[call.of].status # "NONE"
    BY <2>1 DEF simulatePlanVersion
  <2>2. ASSUME NEW v \in Versions, publishPolicy(c, v)
        PROVE  \E call : /\ CallTo(c, call) /\ call.at = "LOADED" /\ call.of \in Versions
                         /\ version[call.of].status # "NONE"
    BY <2>2 DEF publishPolicy, Loaded
  <2>3. ASSUME NEW v \in Versions, RequirePublished(c, v)
        PROVE  \E call : /\ CallTo(c, call) /\ call.at = "ENDING" /\ call.of \in Versions
                         /\ version[call.of].status = "PUBLISHED"
    BY <2>3 DEF RequirePublished
  <2>4. ASSUME NEW confirmed \in BOOLEAN, publishPlanVersion(c, confirmed)
        PROVE  \E call : /\ CallTo(c, call)
                         /\ call.at # "IDLE" => /\ call.at = "LOADED" /\ call.of \in Versions
                                                /\ version[call.of].status # "NONE"
    <3>1. adminCall[c].of \in Versions
      BY <2>4, CallRow DEF publishPlanVersion
    <3> QED  BY <2>4, <3>1 DEF publishPlanVersion, Loaded, CallIdle
  <2>5. ASSUME FindPublished(c)
        PROVE  \E call : /\ CallTo(c, call) /\ call.at = "RETIRING" /\ call.of \in Versions
                         /\ version[call.of].status # "NONE"
    <3>1. adminCall[c].of \in Versions /\ version[adminCall[c].of].status # "NONE"
      BY <2>5, CallRow DEF FindPublished, Public
    <3> QED  BY <2>5, <3>1 DEF FindPublished
  <2>6. ASSUME RetirePublished(c)
        PROVE  \E call : /\ CallTo(c, call) /\ call.at = "WRITING" /\ call.of \in Versions
                         /\ version[call.of].status # "NONE"
                         /\ \A v \in Versions : v \in call.held => version[v].status = "PUBLISHED"
    <3>1. adminCall[c].of \in Versions /\ version[adminCall[c].of].status # "NONE"
      BY <2>6, CallRow DEF RetirePublished, Public
    <3> DEFINE h == adminCall[c].seen \cap InStatus("PUBLISHED")
               call == [at |-> "WRITING", of |-> adminCall[c].of, now |-> adminCall[c].now, held |-> h]
    <3>2. CallTo(c, call)
      BY <2>6 DEF RetirePublished
    <3>3. \A v \in Versions : v \in h => version[v].status = "PUBLISHED"
      BY DEF InStatus
    <3> HIDE DEF h
    <3>4. call.at = "WRITING" /\ call.of = adminCall[c].of /\ call.held = h
      OBVIOUS
    <3> HIDE DEF call
    <3> QED  BY <3>1, <3>2, <3>3, <3>4
  <2>7. ASSUME AdminDies(c)
        PROVE  \E call : CallTo(c, call) /\ call.at = "IDLE"
    BY <2>7 DEF AdminDies, CallIdle
  <2> QED  BY <2>1, <2>2, <2>3, <2>4, <2>5, <2>6, <2>7
<1> QED  BY <1>1, <1>2, <1>3, AdminStep, AuditStands DEF Public

(* A publication takes what is on sale off and puts the draft on. *)
LEMMA CommitPublicationStep ==
    ASSUME TariffInv, NEW c \in AdminCalls, CommitPublication(c)
    PROVE  TariffInv'
<1> DEFINE at == adminCall[c].now
           retired == [u \in Versions |->
                         IF u \in adminCall[c].held THEN Retired(version[u], at) ELSE version[u]]
<1>1. adminCall[c].at = "WRITING" /\ UNCHANGED <<order, audited>>
  BY DEF CommitPublication
<1>2. PICK v \in Versions : v = adminCall[c].of /\ version[v].status \in {"DRAFT"} \cup Public
  BY <1>1, CallRow
<1>3. ASSUME NEW u \in Versions
      PROVE  /\ VersionOK(retired[u])
             /\ version[u].status # "NONE" => retired[u].status # "NONE"
             /\ version[u].status \in Public =>
                   retired[u].status \in Public /\ retired[u].terms = version[u].terms
  <2>1. CASE u \in adminCall[c].held
    <3>1. version[u].status \in Public
      BY <1>1, <2>1 DEF TariffInv, CallOK
    <3>2. DOMAIN version[u] = VersionFields
      BY <3>1 DEF TariffInv, VersionOK, Public
    <3> DEFINE r == Retired(version[u], at)
    <3>3. DOMAIN r = VersionFields /\ r.status = "RETIRED" /\ r.terms = version[u].terms
      BY <3>2 DEF Retired, VersionFields
    <3>4. retired[u] = r
      BY <2>1
    <3> HIDE DEF r, retired
    <3> QED  BY <3>3, <3>4 DEF VersionOK, Public
  <2>2. CASE u \notin adminCall[c].held
    BY <2>2 DEF TariffInv
  <2> QED  BY <2>1, <2>2
<1>4. DOMAIN retired = Versions
  OBVIOUS
<1> DEFINE new == [retired[v] EXCEPT !.status = "PUBLISHED", !.from = at, !.to = 0]
<1>5. CASE CallTo(c, CallIdle) /\ UNCHANGED version
  BY <1>1, <1>5, SameTariffRows, AdminStep, AuditStands DEF CallIdle
<1>6. CASE /\ version' = [retired EXCEPT ![v] = new]
           /\ CallTo(c, [at |-> "PUBLISHED", of |-> v])
  <2> HIDE DEF retired
  <2>1. DOMAIN retired[v] = VersionFields
    BY <1>2, <1>3 DEF VersionOK, Public
  <2>2. DOMAIN new = VersionFields /\ new.status = "PUBLISHED" /\ new.terms = retired[v].terms
    BY <2>1 DEF VersionFields
  <2> HIDE DEF new
  <2>3. VersionOK(new)
    BY <2>2 DEF VersionOK, Public
  <2>4. version'[v] = new /\ DOMAIN version' = Versions
        /\ \A u \in Versions \ {v} : version'[u] = retired[u]
    BY <1>4, <1>6
  <2>5. RowsStand
    BY <1>3, <2>2, <2>3, <2>4 DEF RowsStand, Public
  <2> DEFINE call == [at |-> "PUBLISHED", of |-> v]
  <2>6. call.at = "PUBLISHED" /\ call.of = v /\ CallTo(c, call)
    BY <1>6
  <2> HIDE DEF call
  <2> QED  BY <1>1, <2>2, <2>4, <2>5, <2>6, AdminStep, AuditStands DEF Public
<1> QED  BY <1>2, <1>5, <1>6 DEF CommitPublication

(* A version is audited or taken off sale. *)
LEMMA RetireStep ==
    ASSUME TariffInv, NEW c \in AdminCalls, audit(c) \/ retirePlanVersion(c)
    PROVE  TariffInv'
<1>1. /\ adminCall[c].at \in {"PUBLISHED", "ENDING"} /\ UNCHANGED order /\ CallTo(c, CallIdle)
  BY DEF audit, retirePlanVersion
<1>2. PICK v \in Versions : /\ v = adminCall[c].of /\ version[v].status \in Public
                            /\ DOMAIN version[v] = VersionFields
  BY <1>1, CallRow DEF TariffInv, CallOK
<1>3. CASE audit(c)
  <2>1. RowsStand /\ UNCHANGED version
    BY <1>3, SameTariffRows DEF audit
  <2>2. \A u \in audited' : u \in Versions /\ version'[u].status \in Public
    BY <1>2, <1>3, <2>1 DEF audit, TariffInv
  <2> QED  BY <1>1, <2>1, <2>2, AdminStep DEF CallIdle
<1>4. CASE retirePlanVersion(c)
  <2> DEFINE new == Retired(version[v], now)
  <2>1. version' = [version EXCEPT ![v] = new] /\ UNCHANGED audited
    BY <1>2, <1>4 DEF retirePlanVersion
  <2>2. DOMAIN new = VersionFields /\ new.status = "RETIRED" /\ new.terms = version[v].terms
    BY <1>2 DEF Retired, VersionFields
  <2> HIDE DEF new
  <2>3. RowsStand
    BY <2>1, <2>2, OneRow DEF VersionOK, Public
  <2> QED  BY <1>1, <2>1, <2>3, AdminStep, AuditStands DEF CallIdle
<1> QED  BY <1>3, <1>4

(* A shopper finds a version on sale, and orders it. *)
LEMMA ShopperStep ==
    ASSUME TariffInv, NEW s \in Shoppers,
           (\E v \in Versions : findCurrentPlanVersion(s, v)) \/ buildCheckoutSnapshot(s)
    PROVE  TariffInv'
<1>1. UNCHANGED <<version, adminCall, audited>>
  BY DEF findCurrentPlanVersion, buildCheckoutSnapshot
<1>2. RowsStand
  BY <1>1, SameTariffRows
<1>3. PICK o : order' = [order EXCEPT ![s] = o] /\ OrderOK(o)
  <2>1. ASSUME NEW v \in Versions, findCurrentPlanVersion(s, v)
        PROVE  \E o : order' = [order EXCEPT ![s] = o] /\ OrderOK(o)
    <3> DEFINE o == [at |-> "FOUND", of |-> v, price |-> version[v].terms]
    <3>1. order' = [order EXCEPT ![s] = o] /\ version[v].status = "PUBLISHED"
      BY <2>1 DEF findCurrentPlanVersion, plansCurrentVersion, Sellable, InStatus
    <3>2. o.at = "FOUND" /\ o.of = v
      OBVIOUS
    <3> HIDE DEF o
    <3> QED  BY <3>1, <3>2 DEF OrderOK, Public
  <2>2. ASSUME buildCheckoutSnapshot(s)
        PROVE  \E o : order' = [order EXCEPT ![s] = o] /\ OrderOK(o)
    <3> DEFINE o == [at |-> "PLACED", of |-> order[s].of, terms |-> version[order[s].of].terms]
    <3>1. order' = [order EXCEPT ![s] = o] \/ order' = [order EXCEPT ![s] = NoOrder]
      BY <2>2 DEF buildCheckoutSnapshot
    <3>2. o.at = "PLACED" /\ o.of = order[s].of /\ o.terms = version[order[s].of].terms
      OBVIOUS
    <3>3. order[s].of \in Versions /\ version[order[s].of].status \in Public
      BY <2>2 DEF buildCheckoutSnapshot, TariffInv, OrderOK
    <3> HIDE DEF o
    <3>4. OrderOK(o) /\ OrderOK(NoOrder)
      BY <3>2, <3>3 DEF OrderOK, NoOrder
    <3> QED  BY <3>1, <3>4
  <2> QED  BY <2>1, <2>2
<1>4. DOMAIN order' = Shoppers /\ \A x \in Shoppers : OrderOK(order[x])'
  BY <1>1, <1>2, <1>3, CallStands DEF TariffInv, OrderOK
<1>5. DOMAIN adminCall' = AdminCalls /\ \A c \in AdminCalls : CallOK(adminCall[c])'
  BY <1>1, <1>2, CallStands DEF TariffInv
<1> QED  BY <1>1, <1>2, <1>4, <1>5, AuditStands DEF TariffInv, RowsStand, VersionOK, VersionFields, Public

(* Every step preserves the invariant. *)
LEMMA TariffNext == TariffInv /\ [TariffsNext]_tariffVars => TariffInv'
<1> SUFFICES ASSUME TariffInv, [TariffsNext]_tariffVars PROVE TariffInv'
  OBVIOUS
<1>1. CASE UNCHANGED tariffVars \/ TimeMoves
  <2>1. UNCHANGED <<version, adminCall, order, audited>>
    BY <1>1 DEF tariffVars, TimeMoves
  <2> QED  BY <2>1 DEF TariffInv, VersionOK, CallOK, OrderOK, VersionFields, Public
<1>2. CASE \E c \in AdminCalls :
             \/ \E v \in Versions, t \in Terms : createDraft(c, v, t) \/ RequireDraft(c, v, t)
             \/ \E v \in Versions : simulatePlanVersion(c, v) \/ publishPolicy(c, v) \/ RequirePublished(c, v)
             \/ updatePlanDraft(c) \/ DeleteEntitlements(c) \/ CreateEntitlements(c)
             \/ \E confirmed \in BOOLEAN : publishPlanVersion(c, confirmed)
             \/ FindPublished(c) \/ RetirePublished(c) \/ CommitPublication(c)
             \/ audit(c) \/ retirePlanVersion(c) \/ AdminDies(c)
  BY <1>2, DraftStep, UpdateStep, EntitlementStep, PublishStep, CommitPublicationStep, RetireStep
<1>3. CASE \E s \in Shoppers :
             (\E v \in Versions : findCurrentPlanVersion(s, v)) \/ buildCheckoutSnapshot(s)
  BY <1>3, ShopperStep
<1> QED  BY <1>1, <1>2, <1>3 DEF TariffsNext

(* For any number of versions, administrators and shoppers: what is sold keeps the terms it was
   sold under, however publications, edits and retirements interleave with the checkout (the
   trigger reject_published_commercial_update and the checks of publishPlanVersion). *)
THEOREM SoldTermsHold == TariffsInit /\ [][TariffsNext]_tariffVars => []SoldTermsStand
<1>1. TariffInv => SoldTermsStand
  BY DEF TariffInv, OrderOK, SoldTermsStand, Public
<1> QED  BY <1>1, TariffInit, TariffNext, PTL

-----------------------------------------------------------------------------
(* Handles, profiles and mentions.                                         *)

(* A row of the handles. *)
HandleFields == {"name", "user", "status", "lapsed", "reset"}
HandleRowOK(r) == DOMAIN r = HandleFields /\ r.user \in Accounts

(* A call. *)
ClaimFields == {"at", "user", "name", "id", "status", "ids", "route"}
ClaimSteps == {"idle", "claiming", "rewriting", "confirming", "releasing", "creating",
               "activating", "sending", "streamed", "accepted"}

(* The statements of a claim, which write the status that was read first. *)
Claiming == {"claiming", "rewriting", "confirming", "releasing", "creating"}
HandleStatuses == {"ACTIVE", "PENDING"}

(* The calls that hold the id of a row of their account. *)
HoldsRow == {"activating", "rewriting", "confirming"}

(* What a call may rely on when it goes on. *)
ClaimOK(k) ==
    /\ DOMAIN k = ClaimFields
    /\ k.at \in ClaimSteps
    /\ k.at # "idle" => k.user \in Accounts
    /\ k.at = "activating" => k.user \in verified
    /\ k.at \in Claiming =>
          k.status \in HandleStatuses /\ (k.status = "ACTIVE" => k.user \in verified)
    /\ k.at \in HoldsRow =>
          /\ k.id \in 1..handleIds
          /\ k.id \in DOMAIN handleRow => handleRow[k.id].user = k.user
    /\ k.at = "confirming" /\ k.status = "ACTIVE" /\ k.id \in DOMAIN handleRow =>
          profileOf[k.user] = k.id
    /\ k.at \in {"sending", "streamed", "accepted"} => k.ids # NotPosted
    /\ k.at = "accepted" => posted[k.user]["ORCHESTRATION"] = k.ids

(* The rows are keyed by ids given out once. *)
RowsOK ==
    /\ handleIds \in Nat /\ DOMAIN handleRow \subseteq 1..handleIds
    /\ \A i \in DOMAIN handleRow : HandleRowOK(handleRow[i])

(* A profile names a row of its account, ACTIVE or made a reservation again, and an ACTIVE row is
   the one its account names. *)
ProfilesOK ==
    /\ DOMAIN profileOf = Accounts
    /\ \A u \in Accounts : profileOf[u] # 0 =>
          /\ u \in verified /\ profileOf[u] \in DOMAIN handleRow
          /\ handleRow[profileOf[u]].user = u
          /\ handleRow[profileOf[u]].status = "ACTIVE" \/ handleRow[profileOf[u]].reset
    /\ \A i \in DOMAIN handleRow :
          handleRow[i].status = "ACTIVE" => profileOf[handleRow[i].user] = i

(* The unique keys of the table. *)
KeysUnique ==
    \A i, j \in DOMAIN handleRow :
        handleRow[i].name = handleRow[j].name \/ handleRow[i].user = handleRow[j].user => i = j

(* The stored messages. *)
PostsOK == DOMAIN posted = Accounts /\ \A u \in Accounts : DOMAIN posted[u] = Routes

(* Every call. *)
ClaimsOK == DOMAIN claim = Claimers /\ \A c \in Claimers : ClaimOK(claim[c])

(* The inductive invariant. *)
HandleInv == RowsOK /\ ProfilesOK /\ KeysUnique /\ PostsOK /\ ClaimsOK

(* A call that has not begun. *)
LEMMA NoClaimOK ==
    ClaimOK(NoHandleClaim) /\ NoHandleClaim.at = "idle" /\ DOMAIN NoHandleClaim = ClaimFields
  BY DEF NoHandleClaim, ClaimOK, ClaimFields, ClaimSteps, Claiming, HoldsRow

(* A registration outlives what others do: ids are not given out again, a row
   keeps its account, and a profile goes only with its row. *)
RowsKeep ==
    /\ handleIds' \in Nat /\ handleIds <= handleIds' /\ verified \subseteq verified'
    /\ \A i \in 1..handleIds : i \in DOMAIN handleRow' =>
          i \in DOMAIN handleRow /\ handleRow'[i].user = handleRow[i].user
    /\ \A u \in Accounts : profileOf[u] \in DOMAIN handleRow' => profileOf'[u] = profileOf[u]

(* What a call relies on survives the steps of the others. *)
LEMMA ClaimStands ==
    ASSUME HandleInv, RowsKeep, NEW k, ClaimOK(k),
           k.at = "accepted" => posted'[k.user]["ORCHESTRATION"] = posted[k.user]["ORCHESTRATION"]
    PROVE  /\ k.at # "idle" => k.user \in Accounts
           /\ k.at = "activating" => k.user \in verified'
           /\ k.at \in Claiming =>
                 k.status \in HandleStatuses /\ (k.status = "ACTIVE" => k.user \in verified')
           /\ k.at \in HoldsRow =>
                 /\ k.id \in 1..handleIds'
                 /\ k.id \in DOMAIN handleRow' => handleRow'[k.id].user = k.user
           /\ k.at = "confirming" /\ k.status = "ACTIVE" /\ k.id \in DOMAIN handleRow' =>
                 profileOf'[k.user] = k.id
           /\ k.at = "accepted" => posted'[k.user]["ORCHESTRATION"] = k.ids
<1>1. k.at \in HoldsRow =>
          /\ k.id \in 1..handleIds /\ k.id \in 1..handleIds'
          /\ k.id \in DOMAIN handleRow' =>
                k.id \in DOMAIN handleRow /\ handleRow'[k.id].user = k.user
  BY DEF RowsKeep, ClaimOK, HandleInv, RowsOK
<1>2. k.at = "confirming" /\ k.status = "ACTIVE" /\ k.id \in DOMAIN handleRow' =>
          profileOf'[k.user] = k.id
  BY <1>1 DEF RowsKeep, ClaimOK, HoldsRow
<1> QED  BY <1>1, <1>2 DEF RowsKeep, ClaimOK

(* One call, c, moves on to k; the stored messages stay or gain one. *)
LEMMA ClaimStep ==
    ASSUME HandleInv, RowsKeep, NEW c \in Claimers, NEW k, SetClaim(c, k),
           DOMAIN k = ClaimFields,
           k.at \in ClaimSteps,
           k.at # "idle" => k.user \in Accounts,
           k.at = "activating" => k.user \in verified',
           k.at \in Claiming =>
              k.status \in HandleStatuses /\ (k.status = "ACTIVE" => k.user \in verified'),
           k.at \in HoldsRow =>
              /\ k.id \in 1..handleIds'
              /\ k.id \in DOMAIN handleRow' => handleRow'[k.id].user = k.user,
           k.at = "confirming" /\ k.status = "ACTIVE" /\ k.id \in DOMAIN handleRow' =>
              profileOf'[k.user] = k.id,
           k.at \in {"sending", "streamed", "accepted"} => k.ids # NotPosted,
           k.at = "accepted" => posted'[k.user]["ORCHESTRATION"] = k.ids,
           \A u \in Accounts : posted[u]["ORCHESTRATION"] # NotPosted =>
              posted'[u]["ORCHESTRATION"] = posted[u]["ORCHESTRATION"]
    PROVE  ClaimsOK'
<1>1. /\ DOMAIN claim' = Claimers /\ claim'[c] = k
      /\ \A d \in Claimers \ {c} : claim'[d] = claim[d]
  BY DEF SetClaim, HandleInv, ClaimsOK
<1>2. ClaimOK(claim[c])'
  BY <1>1 DEF ClaimOK, NotPosted, ClaimFields, ClaimSteps, Claiming, HoldsRow, HandleStatuses
<1>3. ASSUME NEW d \in Claimers \ {c} PROVE ClaimOK(claim[d])'
  <2>1. ClaimOK(claim[d])
    BY DEF HandleInv, ClaimsOK
  <2>2. claim[d].at = "accepted" => posted'[claim[d].user]["ORCHESTRATION"] = posted[claim[d].user]["ORCHESTRATION"]
    BY <2>1 DEF ClaimOK
  <2>3. claim'[d] = claim[d]
    BY <1>1
  <2>4. PICK e : e = claim[d]
    OBVIOUS
  <2>5. ClaimOK(e) /\ claim'[d] = e
    BY <2>1, <2>3, <2>4
  <2>6. e.at = "accepted" => posted'[e.user]["ORCHESTRATION"] = posted[e.user]["ORCHESTRATION"]
    BY <2>2, <2>4
  <2>7. /\ e.at = "accepted" => posted'[e.user]["ORCHESTRATION"] = e.ids
        /\ e.at # "idle" => e.user \in Accounts
        /\ e.at = "activating" => e.user \in verified'
        /\ e.at \in Claiming =>
              e.status \in HandleStatuses /\ (e.status = "ACTIVE" => e.user \in verified')
        /\ e.at \in HoldsRow =>
              /\ e.id \in 1..handleIds'
              /\ e.id \in DOMAIN handleRow' => handleRow'[e.id].user = e.user
        /\ e.at = "confirming" /\ e.status = "ACTIVE" /\ e.id \in DOMAIN handleRow' =>
              profileOf'[e.user] = e.id
    BY <2>5, <2>6, ClaimStands
  <2> QED  BY <2>5, <2>7
           DEF ClaimOK, NotPosted, ClaimFields, ClaimSteps, Claiming, HoldsRow, HandleStatuses
<1> QED  BY <1>1, <1>2, <1>3 DEF ClaimsOK

(* No call moves and nothing is posted. *)
LEMMA ClaimsStand ==
    ASSUME HandleInv, RowsKeep, UNCHANGED <<claim, posted>>
    PROVE  ClaimsOK'
<1>1. ASSUME NEW d \in Claimers PROVE ClaimOK(claim[d])'
  <2>1. ClaimOK(claim[d])
    BY DEF HandleInv, ClaimsOK
  <2> QED  BY <2>1, ClaimStands
           DEF ClaimOK, NotPosted, ClaimFields, ClaimSteps, Claiming, HoldsRow, HandleStatuses
<1> QED  BY <1>1 DEF HandleInv, ClaimsOK

(* Rows and profiles left alone. *)
LEMMA SameHandleRows ==
    ASSUME HandleInv, UNCHANGED <<handleRow, handleIds, profileOf>>, verified \subseteq verified'
    PROVE  RowsKeep /\ RowsOK' /\ ProfilesOK' /\ KeysUnique'
<1>1. RowsKeep
  BY DEF RowsKeep, HandleInv, RowsOK
<1>2. RowsOK'
  BY DEF HandleInv, RowsOK, HandleRowOK, HandleFields
<1> QED  BY <1>1, <1>2 DEF HandleInv, ProfilesOK, KeysUnique

(* The initial states satisfy the invariant. *)
LEMMA HandleInit == HandlesInit => HandleInv
<1> SUFFICES ASSUME HandlesInit PROVE HandleInv
  OBVIOUS
<1>1. DOMAIN handleRow = {} /\ handleIds = 0
  BY DEF HandlesInit
<1>2. ClaimsOK
  BY NoClaimOK DEF HandlesInit, ClaimsOK
<1>3. PostsOK
  BY DEF HandlesInit, PostsOK
<1> QED  BY <1>1, <1>2, <1>3 DEF HandlesInit, HandleInv, RowsOK, ProfilesOK, KeysUnique

----------------------------------------------------------------------------
(* A row of an account is written in a status, and the account gets its
   profile if that is ACTIVE. *)
LEMMA ConfirmStep ==
    ASSUME HandleInv, NEW i \in DOMAIN handleRow, NEW u, u = handleRow[i].user, NEW r,
           DOMAIN r = HandleFields, r.user = u, r.name = handleRow[i].name,
           r.status = "ACTIVE" => u \in verified, r.status = "ACTIVE" \/ r.reset,
           DOMAIN handleRow' = DOMAIN handleRow, handleRow'[i] = r,
           \A j \in DOMAIN handleRow \ {i} : handleRow'[j] = handleRow[j],
           profileOf' = ensurePublicProfile(u, i, r.status, profileOf),
           UNCHANGED <<handleIds, verified>>
    PROVE  RowsKeep /\ RowsOK' /\ ProfilesOK' /\ KeysUnique'
<1>1. u \in Accounts /\ i \in Nat \ {0}
  BY DEF HandleInv, RowsOK, HandleRowOK
<1>2. RowsOK'
  BY <1>1 DEF HandleInv, RowsOK, HandleRowOK, HandleFields
<1>4. KeysUnique'
  BY DEF HandleInv, KeysUnique
<1>5. \A j \in DOMAIN handleRow : handleRow'[j].user = handleRow[j].user
  OBVIOUS
<1>6. profileOf[u] \in {0, i}
  BY <1>1 DEF HandleInv, ProfilesOK, KeysUnique
<1>7. /\ DOMAIN profileOf' = Accounts
      /\ \A x \in Accounts \ {u} : profileOf'[x] = profileOf[x]
      /\ profileOf'[u] \in {0, i} /\ (r.status = "ACTIVE" => profileOf'[u] = i)
      /\ profileOf[u] = i => profileOf'[u] = i
      /\ profileOf'[u] = i => r.status = "ACTIVE" \/ profileOf[u] = i
  BY <1>1, <1>6 DEF ensurePublicProfile, HandleInv, ProfilesOK
<1>3. RowsKeep
  <2>1. \A x \in Accounts : profileOf[x] # 0 => profileOf'[x] = profileOf[x]
    BY <1>6, <1>7
  <2>2. 0 \notin DOMAIN handleRow'
    BY DEF HandleInv, RowsOK
  <2> QED  BY <2>1, <2>2 DEF RowsKeep, HandleInv, RowsOK
<1>8. ProfilesOK'
  <2>1. ASSUME NEW x \in Accounts, profileOf'[x] # 0
        PROVE  /\ x \in verified' /\ profileOf'[x] \in DOMAIN handleRow'
               /\ handleRow'[profileOf'[x]].user = x
               /\ handleRow'[profileOf'[x]].status = "ACTIVE" \/ handleRow'[profileOf'[x]].reset
    <3>1. CASE x = u
      <4>1. profileOf'[u] = i /\ handleRow'[i] = r
        BY <1>7, <2>1, <3>1
      <4>2. u \in verified
        BY <1>1, <1>7, <4>1 DEF HandleInv, ProfilesOK, RowsOK
      <4> QED  BY <3>1, <4>1, <4>2
    <3>2. CASE x # u
      <4>1. profileOf'[x] = profileOf[x] /\ profileOf[x] # i
        BY <1>5, <1>7, <2>1, <3>2 DEF HandleInv, ProfilesOK
      <4> QED  BY <2>1, <4>1 DEF HandleInv, ProfilesOK
    <3> QED  BY <3>1, <3>2
  <2>2. ASSUME NEW j \in DOMAIN handleRow', handleRow'[j].status = "ACTIVE"
        PROVE  profileOf'[handleRow'[j].user] = j
    <3>1. CASE j = i
      BY <1>7, <2>2, <3>1
    <3>2. CASE j # i
      <4>1. handleRow[j].user # u
        BY <3>2 DEF HandleInv, KeysUnique
      <4> QED  BY <1>7, <2>2, <3>2, <4>1 DEF HandleInv, ProfilesOK, RowsOK, HandleRowOK
    <3> QED  BY <3>1, <3>2
  <2> QED  BY <1>7, <2>1, <2>2 DEF ProfilesOK
<1> QED  BY <1>2, <1>3, <1>4, <1>8

(* A reservation runs out. *)
LEMMA LapseStep ==
    ASSUME HandleInv, NEW i \in DOMAIN handleRow, ReservationLapses(i)
    PROVE  HandleInv'
<1>1. /\ DOMAIN handleRow' = DOMAIN handleRow
      /\ \A j \in DOMAIN handleRow :
            /\ DOMAIN handleRow'[j] = HandleFields /\ handleRow'[j].user = handleRow[j].user
            /\ handleRow'[j].name = handleRow[j].name /\ handleRow'[j].status = handleRow[j].status
            /\ handleRow'[j].reset = handleRow[j].reset
  BY DEF ReservationLapses, HandleInv, RowsOK, HandleRowOK, HandleFields
<1>2. UNCHANGED <<handleIds, verified, profileOf, claim, posted>>
  BY DEF ReservationLapses
<1>3. RowsOK'
  BY <1>1, <1>2 DEF HandleInv, RowsOK, HandleRowOK, HandleFields
<1>4. RowsKeep
  BY <1>1, <1>2 DEF RowsKeep, HandleInv, RowsOK
<1>5. ProfilesOK' /\ KeysUnique'
  BY <1>1, <1>2 DEF HandleInv, ProfilesOK, KeysUnique
<1>6. PostsOK'
  BY <1>2 DEF HandleInv, PostsOK, Routes
<1> QED  BY <1>2, <1>3, <1>4, <1>5, <1>6, ClaimsStand DEF HandleInv

(* Rows go, and with them the profiles that name them. *)
LEMMA CleanupStep ==
    ASSUME HandleInv, NEW n \in HandleNames, cleanupExpiredPending(n)
    PROVE  HandleInv'
<1> DEFINE gone == {i \in Named(n) : Lapsed(i)}
<1>1. /\ handleRow' = Without(handleRow, gone) /\ profileOf' = Cascade(gone)
      /\ UNCHANGED <<handleIds, verified, claim, posted>>
  BY DEF cleanupExpiredPending
<1> HIDE DEF gone
<1>2. /\ DOMAIN handleRow' = DOMAIN handleRow \ gone
      /\ \A i \in DOMAIN handleRow \ gone : handleRow'[i] = handleRow[i]
  BY <1>1 DEF Without
<1>3. /\ DOMAIN profileOf' = Accounts
      /\ \A u \in Accounts : profileOf'[u] = IF profileOf[u] \in gone THEN 0 ELSE profileOf[u]
  BY <1>1 DEF Cascade
<1>4. RowsOK' /\ RowsKeep
  BY <1>1, <1>2, <1>3 DEF HandleInv, RowsOK, HandleRowOK, HandleFields, RowsKeep
<1>5. KeysUnique'
  BY <1>2 DEF HandleInv, KeysUnique
<1>6. ProfilesOK'
  BY <1>1, <1>2, <1>3 DEF HandleInv, ProfilesOK, RowsOK, HandleRowOK
<1>7. PostsOK'
  BY <1>1 DEF HandleInv, PostsOK, Routes
<1> QED  BY <1>1, <1>4, <1>5, <1>6, <1>7, ClaimsStand DEF HandleInv

(* A call that only reads goes on with what it read. *)
ReadStep(c, k) ==
    /\ SetClaim(c, k) /\ DOMAIN k = ClaimFields /\ k.at \in ClaimSteps
    /\ UNCHANGED <<handleRow, handleIds, verified, profileOf, posted>>

LEMMA ReadsStep ==
    ASSUME HandleInv, NEW c \in Claimers, NEW k, ReadStep(c, k), ClaimOK(k)
    PROVE  HandleInv'
<1>1. RowsKeep /\ RowsOK' /\ ProfilesOK' /\ KeysUnique'
  BY SameHandleRows DEF ReadStep
<1>2. ClaimsOK'
  BY <1>1, ClaimStep DEF ReadStep, ClaimOK
<1>3. PostsOK'
  BY DEF ReadStep, HandleInv, PostsOK, Routes
<1> QED  BY <1>1, <1>2, <1>3 DEF HandleInv

(* An account asks for a handle, and reads whether it is verified. *)
LEMMA ClaimHandleStep ==
    ASSUME HandleInv, NEW c \in Claimers, NEW u \in Accounts, NEW n \in HandleNames,
           claimHandle(c, u, n)
    PROVE  HandleInv'
<1>1. PICK k : /\ ReadStep(c, k) /\ k.at = "claiming" /\ k.user = u /\ k.status = StatusOf(u)
  <2> DEFINE k == [NoHandleClaim EXCEPT !.at = "claiming", !.user = u, !.name = n,
                                        !.status = StatusOf(u)]
  <2>1. DOMAIN k = ClaimFields /\ k.at = "claiming" /\ k.user = u /\ k.status = StatusOf(u)
    BY NoClaimOK DEF ClaimFields
  <2>2. SetClaim(c, k) /\ UNCHANGED <<handleRow, handleIds, verified, profileOf, posted>>
    BY DEF claimHandle
  <2> HIDE DEF k
  <2> QED  BY <2>1, <2>2 DEF ReadStep, ClaimSteps
<1>2. k.status \in HandleStatuses /\ (k.status = "ACTIVE" => u \in verified)
  BY <1>1 DEF StatusOf, HandleStatuses
<1>3. ClaimOK(k)
  BY <1>1, <1>2 DEF ReadStep, ClaimOK, HoldsRow
<1> QED  BY <1>1, <1>3, ReadsStep

(* Its own handle ends the claim, is to be written, or there is none. *)
LEMMA ReadOwnedStep ==
    ASSUME HandleInv, NEW c \in Claimers, readOwned(c)
    PROVE  HandleInv'
<1>1. /\ claim[c].at = "claiming" /\ ClaimOK(claim[c])
      /\ UNCHANGED <<handleRow, handleIds, verified, profileOf, posted>>
  <2>1. ClaimOK(claim[c])
    BY DEF HandleInv, ClaimsOK
  <2> QED  BY <2>1, Zenon DEF readOwned
<1>2. CASE SetClaim(c, [claim[c] EXCEPT !.at = "releasing"])
  <2> DEFINE k == [claim[c] EXCEPT !.at = "releasing"]
  <2>1. /\ DOMAIN k = ClaimFields /\ k.at = "releasing" /\ k.user = claim[c].user
        /\ k.status = claim[c].status
    BY <1>1 DEF ClaimOK, ClaimFields
  <2>2. SetClaim(c, k)
    BY <1>2
  <2>3. PICK q : q = k
    OBVIOUS
  <2> HIDE DEF k
  <2>4. ReadStep(c, q) /\ ClaimOK(q)
    BY <1>1, <2>1, <2>2, <2>3 DEF ReadStep, ClaimOK, ClaimSteps, Claiming, HoldsRow
  <2> QED  BY <2>4, ReadsStep
<1>3. ASSUME NEW i \in readForUser(claim[c].user),
             SetClaim(c, IF handleRow[i].name /= claim[c].name THEN NoHandleClaim
                         ELSE [claim[c] EXCEPT !.id = i,
                                  !.at = IF handleRow[i].status = claim[c].status
                                         THEN "confirming" ELSE "rewriting"])
      PROVE  HandleInv'
  <2>1. CASE handleRow[i].name /= claim[c].name
    <3>1. ReadStep(c, NoHandleClaim)
      BY <1>1, <1>3, <2>1, NoClaimOK DEF ReadStep, ClaimSteps
    <3> QED  BY <3>1, NoClaimOK, ReadsStep
  <2>2. CASE handleRow[i].name = claim[c].name
    <3>1. PICK at : at = IF handleRow[i].status = claim[c].status
                         THEN "confirming" ELSE "rewriting"
      OBVIOUS
    <3> DEFINE k == [claim[c] EXCEPT !.id = i, !.at = at]
    <3>2. /\ DOMAIN k = ClaimFields /\ k.at = at /\ k.user = claim[c].user /\ k.id = i
          /\ k.status = claim[c].status
      BY <1>1 DEF ClaimOK, ClaimFields
    <3>3. SetClaim(c, k)
      BY <1>3, <2>2, <3>1
    <3>4. PICK q : q = k
      OBVIOUS
    <3> HIDE DEF k
    <3>5. i \in DOMAIN handleRow /\ handleRow[i].user = claim[c].user /\ i \in 1..handleIds
      BY <1>3 DEF readForUser, HandleInv, RowsOK
    <3>6. q.at = "confirming" /\ q.status = "ACTIVE" => profileOf[q.user] = q.id
      BY <3>1, <3>2, <3>4, <3>5 DEF HandleInv, ProfilesOK
    <3>7. ReadStep(c, q)
      BY <1>1, <3>1, <3>2, <3>3, <3>4 DEF ReadStep, ClaimSteps
    <3>8. ClaimOK(q)
      BY <1>1, <3>1, <3>2, <3>4, <3>5, <3>6 DEF ClaimOK, ClaimSteps, Claiming, HoldsRow
    <3> QED  BY <3>7, <3>8, ReadsStep
  <2> QED  BY <2>1, <2>2
<1> QED  BY <1>2, <1>3, Zenon DEF readOwned

(* The row that holds the name ends the claim, or is to be replaced. *)
LEMMA ReadNamedStep ==
    ASSUME HandleInv, NEW c \in Claimers, readNamed(c)
    PROVE  HandleInv'
<1>1. /\ claim[c].at = "releasing" /\ ClaimOK(claim[c])
      /\ UNCHANGED <<handleRow, handleIds, verified, profileOf, posted>>
  <2>1. ClaimOK(claim[c])
    BY DEF HandleInv, ClaimsOK
  <2> QED  BY <2>1, Zenon DEF readNamed
<1>2. PICK q : /\ SetClaim(c, q)
               /\ \/ q = NoHandleClaim
                  \/ /\ DOMAIN q = ClaimFields /\ q.at = "creating" /\ q.user = claim[c].user
                     /\ q.status = claim[c].status
  <2>1. CASE SetClaim(c, NoHandleClaim)
    BY <2>1
  <2>2. CASE SetClaim(c, [claim[c] EXCEPT !.at = "creating"])
    <3> DEFINE k == [claim[c] EXCEPT !.at = "creating"]
    <3>1. /\ DOMAIN k = ClaimFields /\ k.at = "creating" /\ k.user = claim[c].user
          /\ k.status = claim[c].status
      BY <1>1 DEF ClaimOK, ClaimFields
    <3>2. SetClaim(c, k)
      BY <2>2
    <3> HIDE DEF k
    <3> QED  BY <3>1, <3>2
  <2>3. ASSUME NEW i, SetClaim(c, [claim[c] EXCEPT !.at = "creating", !.id = i])
        PROVE  \E q : /\ SetClaim(c, q)
                      /\ DOMAIN q = ClaimFields /\ q.at = "creating" /\ q.user = claim[c].user
                      /\ q.status = claim[c].status
    <3> DEFINE k == [claim[c] EXCEPT !.at = "creating", !.id = i]
    <3>1. /\ DOMAIN k = ClaimFields /\ k.at = "creating" /\ k.user = claim[c].user
          /\ k.status = claim[c].status
      BY <1>1 DEF ClaimOK, ClaimFields
    <3>2. SetClaim(c, k)
      BY <2>3
    <3> HIDE DEF k
    <3> QED  BY <3>1, <3>2
  <2>4. \/ SetClaim(c, [claim[c] EXCEPT !.at = "creating"])
        \/ \E i : SetClaim(c, IF Lapsed(i) /\ handleRow[i].user /= claim[c].user
                              THEN [claim[c] EXCEPT !.at = "creating", !.id = i]
                              ELSE NoHandleClaim)
    BY Zenon DEF readNamed
  <2>5. ASSUME NEW i, SetClaim(c, IF Lapsed(i) /\ handleRow[i].user /= claim[c].user
                              THEN [claim[c] EXCEPT !.at = "creating", !.id = i]
                              ELSE NoHandleClaim)
        PROVE  \/ SetClaim(c, NoHandleClaim)
               \/ SetClaim(c, [claim[c] EXCEPT !.at = "creating", !.id = i])
    <3>1. CASE Lapsed(i) /\ handleRow[i].user /= claim[c].user
      BY <2>5, <3>1
    <3>2. CASE ~(Lapsed(i) /\ handleRow[i].user /= claim[c].user)
      BY <2>5, <3>2
    <3> QED  BY <3>1, <3>2
  <2> QED  BY <2>1, <2>2, <2>3, <2>4, <2>5, Zenon
<1>3. ReadStep(c, q) /\ ClaimOK(q)
  BY <1>1, <1>2, NoClaimOK DEF ReadStep, ClaimOK, ClaimSteps, Claiming, HoldsRow
<1> QED  BY <1>3, ReadsStep

(* The account's own row is written, or was ACTIVE when it was read. *)
LEMMA WriteOwnedStep ==
    ASSUME HandleInv, NEW c \in Claimers, writeOwned(c)
    PROVE  HandleInv'
<1>1. /\ claim[c].at \in {"rewriting", "confirming"} /\ ClaimOK(claim[c])
      /\ SetClaim(c, NoHandleClaim) /\ UNCHANGED <<handleIds, verified, posted>>
  BY DEF writeOwned, HandleInv, ClaimsOK
<1>v. /\ claim[c].user \in Accounts /\ claim[c].id # 0 /\ claim[c].status \in HandleStatuses
      /\ claim[c].status = "ACTIVE" => claim[c].user \in verified
      /\ claim[c].id \in DOMAIN handleRow => handleRow[claim[c].id].user = claim[c].user
  BY <1>1 DEF ClaimOK, Claiming, HoldsRow
<1>2. PICK u, i, status :
         /\ u = claim[c].user /\ i = claim[c].id /\ status = claim[c].status
         /\ u \in Accounts /\ i # 0 /\ status \in HandleStatuses
         /\ status = "ACTIVE" => u \in verified
         /\ i \in DOMAIN handleRow => handleRow[i].user = u
  BY <1>v
<1>3. RowsKeep /\ RowsOK' /\ ProfilesOK' /\ KeysUnique'
  <2>1. CASE UNCHANGED <<handleRow, profileOf>>
    BY <1>1, <2>1, SameHandleRows
  <2>2. CASE ~UNCHANGED <<handleRow, profileOf>>
    <3>1. /\ claim[c].at = "rewriting" => readForUser(u) # {}
          /\ status = "ACTIVE" => i \in DOMAIN handleRow /\ profileOf[u] \in {0, i}
          /\ handleRow' = [k \in DOMAIN handleRow |->
                  IF claim[c].at = "rewriting" /\ k \in readForUser(u)
                  THEN Confirmed(handleRow[k], status) ELSE handleRow[k]]
          /\ profileOf' = ensurePublicProfile(u, i, status, profileOf)
      BY <1>2, <2>2 DEF writeOwned
    <3>2. CASE claim[c].at = "confirming"
      <4>1. handleRow' = [k \in DOMAIN handleRow |-> handleRow[k]]
        BY <3>1, <3>2
      <4>2. profileOf' = profileOf
        BY <1>1, <1>2, <3>1, <3>2 DEF ClaimOK, ensurePublicProfile
      <4>3. /\ DOMAIN handleRow' = DOMAIN handleRow
            /\ \A k \in DOMAIN handleRow : handleRow'[k] = handleRow[k]
        BY <4>1
      <4>4. RowsKeep
        BY <1>1, <4>2, <4>3 DEF RowsKeep, HandleInv, RowsOK
      <4>5. RowsOK'
        BY <1>1, <4>3 DEF HandleInv, RowsOK, HandleRowOK, HandleFields
      <4>6. ProfilesOK' /\ KeysUnique'
        BY <1>1, <4>2, <4>3 DEF HandleInv, ProfilesOK, KeysUnique
      <4> QED  BY <4>4, <4>5, <4>6
    <3>3. CASE claim[c].at = "rewriting"
      <4>1. PICK k \in DOMAIN handleRow : k \in readForUser(u)
        BY <3>1, <3>3 DEF readForUser
      <4>2. handleRow[k].user = u /\ DOMAIN handleRow[k] = HandleFields
        BY <4>1 DEF readForUser, HandleInv, RowsOK, HandleRowOK
      <4>3. \A j \in DOMAIN handleRow : j \in readForUser(u) => j = k
        BY <4>2 DEF readForUser, HandleInv, KeysUnique
      <4>4. status = "ACTIVE" => k = i
        BY <1>2, <3>1, <4>3 DEF readForUser
      <4> DEFINE r == Confirmed(handleRow[k], status)
      <4>5. /\ DOMAIN r = HandleFields /\ r.user = u /\ r.name = handleRow[k].name
            /\ r.status = status /\ r.reset = (status = "PENDING")
        BY <4>2 DEF Confirmed, HandleFields
      <4>6. /\ DOMAIN handleRow' = DOMAIN handleRow /\ handleRow'[k] = r
            /\ \A j \in DOMAIN handleRow \ {k} : handleRow'[j] = handleRow[j]
        BY <3>1, <3>3, <4>1, <4>3
      <4> HIDE DEF r
      <4>7. profileOf' = ensurePublicProfile(u, k, r.status, profileOf)
        BY <3>1, <4>4, <4>5 DEF ensurePublicProfile
      <4>8. r.status = "ACTIVE" \/ r.reset
        BY <1>2, <4>5 DEF HandleStatuses
      <4> QED  BY <1>1, <1>2, <4>2, <4>5, <4>6, <4>7, <4>8, ConfirmStep
    <3> QED  BY <1>1, <3>2, <3>3
  <2> QED  BY <2>1, <2>2
<1>4. ClaimsOK'
  BY <1>1, <1>3, NoClaimOK, ClaimStep DEF ClaimSteps, Claiming, HoldsRow
<1>5. PostsOK'
  BY <1>1 DEF HandleInv, PostsOK, Routes
<1> QED  BY <1>3, <1>4, <1>5 DEF HandleInv

(* The row is written under the unique keys. *)
LEMMA CreateStep ==
    ASSUME HandleInv, NEW c \in Claimers, CreateHandle(c)
    PROVE  HandleInv'
<1>1. /\ claim[c].at = "creating" /\ SetClaim(c, NoHandleClaim) /\ UNCHANGED <<verified, posted>>
  BY DEF CreateHandle
<1>2. PICK u \in Accounts, status \in HandleStatuses :
         /\ u = claim[c].user /\ status = claim[c].status
         /\ status = "ACTIVE" => u \in verified
  BY <1>1 DEF HandleInv, ClaimsOK, ClaimOK, Claiming
<1>p. PostsOK'
  BY <1>1 DEF HandleInv, PostsOK, Routes
<1>3. CASE UNCHANGED <<handleRow, handleIds, profileOf>>
  <2>1. RowsKeep /\ RowsOK' /\ ProfilesOK' /\ KeysUnique'
    BY <1>1, <1>3, SameHandleRows
  <2>2. ClaimsOK'
    BY <1>1, <2>1, NoClaimOK, ClaimStep DEF ClaimSteps, Claiming, HoldsRow
  <2> QED  BY <1>p, <2>1, <2>2 DEF HandleInv
<1>4. CASE ~UNCHANGED <<handleRow, handleIds, profileOf>>
  <2>o. PICK old : old = claim[c].id
    OBVIOUS
  <2>n. PICK n : n = claim[c].name
    OBVIOUS
  <2>i. PICK i : i = handleIds + 1
    OBVIOUS
  <2> DEFINE kept == Without(handleRow, {old})
  <2>1. /\ i = handleIds + 1
        /\ Named(n) \subseteq {old} /\ readForUser(u) = {}
        /\ handleRow' = [k \in DOMAIN kept \cup {i} |->
              IF k = i THEN [name |-> n, user |-> u, status |-> status, lapsed |-> FALSE,
                             reset |-> FALSE]
                       ELSE kept[k]]
        /\ handleIds' = i
        /\ profileOf' = ensurePublicProfile(u, i, status, Cascade({old} \ {0}))
        /\ old = 0 \/ old \in DOMAIN handleRow
    BY <1>2, <1>4, <2>o, <2>n, <2>i DEF CreateHandle, releaseExpiredExactHandle
  <2>d. DOMAIN kept = DOMAIN handleRow \ {old}
    BY DEF Without
  <2> DEFINE r == [name |-> n, user |-> u, status |-> status, lapsed |-> FALSE, reset |-> FALSE]
             gone == {old} \ {0}
  <2>2. DOMAIN r = HandleFields /\ r.name = n /\ r.user = u /\ r.status = status
    BY DEF HandleFields
  <2>3. i \notin DOMAIN handleRow /\ i \in Nat \ {0} /\ handleIds \in Nat
    BY <2>1 DEF HandleInv, RowsOK
  <2>4. /\ DOMAIN handleRow' = (DOMAIN handleRow \ {old}) \cup {i} /\ handleRow'[i] = r
        /\ \A k \in DOMAIN handleRow \ {old} : handleRow'[k] = handleRow[k]
    BY <2>1, <2>3, <2>d DEF Without
  <2> HIDE DEF r
  <2>h. i = handleIds + 1 /\ handleIds' = i
    BY <2>1
  <2>5. \A k \in DOMAIN handleRow \ {old} : handleRow[k].name # n /\ handleRow[k].user # u
    BY <2>1 DEF Named, readForUser
  <2>6. profileOf[u] = 0
    BY <2>1 DEF HandleInv, ProfilesOK, readForUser
  <2> DEFINE base == Cascade(gone)
  <2>7. DOMAIN base = Accounts /\ base[u] = 0
        /\ \A x \in Accounts : base[x] = IF profileOf[x] \in gone THEN 0 ELSE profileOf[x]
    BY <2>6 DEF Cascade
  <2>8. \A x \in Accounts : base[x] # 0 => base[x] = profileOf[x] /\ profileOf[x] \in DOMAIN handleRow \ {old}
    BY <2>7 DEF HandleInv, ProfilesOK
  <2>9. profileOf' = ensurePublicProfile(u, i, status, base)
    BY <2>1
  <2> HIDE DEF base, gone
  <2>10. /\ DOMAIN profileOf' = Accounts
         /\ \A x \in Accounts \ {u} : profileOf'[x] = base[x]
         /\ status = "ACTIVE" => profileOf'[u] = i
         /\ status # "ACTIVE" => profileOf'[u] = 0
    BY <2>7, <2>9 DEF ensurePublicProfile
  <2>11. RowsOK'
    <3>1. DOMAIN handleRow' \subseteq 1..handleIds'
      BY <2>h, <2>3, <2>4 DEF HandleInv, RowsOK
    <3>2. \A k \in DOMAIN handleRow' : HandleRowOK(handleRow[k])'
      BY <2>2, <2>4 DEF HandleInv, RowsOK, HandleRowOK, HandleFields
    <3> QED  BY <2>1, <2>3, <3>1, <3>2 DEF RowsOK
  <2>12. RowsKeep
    <3>1. ASSUME NEW x \in Accounts, profileOf[x] \in DOMAIN handleRow'
          PROVE  profileOf'[x] = profileOf[x]
      <4>1. profileOf[x] # 0 /\ x # u
        BY <2>6, <2>h, <2>3, <2>11, <3>1 DEF RowsOK
      <4>2. profileOf[x] \in DOMAIN handleRow
        BY <4>1 DEF HandleInv, ProfilesOK
      <4>3. profileOf[x] \notin gone
        BY <2>3, <2>4, <3>1, <4>2 DEF gone
      <4> QED  BY <2>7, <2>10, <4>1, <4>3
    <3> QED  BY <1>1, <2>h, <2>3, <2>4, <3>1 DEF RowsKeep
  <2>13. KeysUnique'
    BY <2>2, <2>4, <2>5 DEF HandleInv, KeysUnique
  <2>14. ProfilesOK'
    <3>1. ASSUME NEW x \in Accounts, profileOf'[x] # 0
          PROVE  /\ x \in verified' /\ profileOf'[x] \in DOMAIN handleRow'
                 /\ handleRow'[profileOf'[x]].user = x
                 /\ handleRow'[profileOf'[x]].status = "ACTIVE" \/ handleRow'[profileOf'[x]].reset
      <4>1. CASE x = u
        BY <1>1, <1>2, <2>2, <2>4, <2>10, <3>1, <4>1
      <4>2. CASE x # u
        BY <1>1, <2>4, <2>8, <2>10, <3>1, <4>2 DEF HandleInv, ProfilesOK
      <4> QED  BY <4>1, <4>2
    <3>2. ASSUME NEW k \in DOMAIN handleRow', handleRow'[k].status = "ACTIVE"
          PROVE  profileOf'[handleRow'[k].user] = k
      <4>1. CASE k = i
        BY <2>2, <2>4, <2>10, <3>2, <4>1
      <4>2. CASE k # i
        <5>1. k \in DOMAIN handleRow \ {old} /\ handleRow'[k] = handleRow[k]
          BY <2>4, <4>2
        <5>2. /\ profileOf[handleRow[k].user] = k /\ handleRow[k].user \in Accounts
              /\ handleRow[k].user # u
          BY <2>5, <3>2, <5>1 DEF HandleInv, ProfilesOK, RowsOK, HandleRowOK
        <5>3. k \notin gone
          BY <5>1 DEF gone
        <5> QED  BY <2>7, <2>10, <5>1, <5>2, <5>3
      <4> QED  BY <4>1, <4>2
    <3> QED  BY <2>10, <3>1, <3>2 DEF ProfilesOK
  <2>15. ClaimsOK'
    BY <1>1, <2>12, NoClaimOK, ClaimStep DEF ClaimSteps, Claiming, HoldsRow
  <2> QED  BY <1>p, <2>11, <2>13, <2>14, <2>15 DEF HandleInv
<1> QED  BY <1>3, <1>4

(* An account that was verified finds its reservation. *)
LEMMA ActivateVerifiedStep ==
    ASSUME HandleInv, NEW c \in Claimers, NEW u \in Accounts, activateVerified(c, u)
    PROVE  HandleInv'
<1>1. u \in verified /\ UNCHANGED <<handleRow, handleIds, verified, profileOf, posted>>
  BY DEF activateVerified
<1>2. PICK i \in readForUser(u) :
         SetClaim(c, [NoHandleClaim EXCEPT !.at = "activating", !.user = u, !.id = i])
  BY Zenon DEF activateVerified
<1> DEFINE k == [NoHandleClaim EXCEPT !.at = "activating", !.user = u, !.id = i]
<1>3. DOMAIN k = ClaimFields /\ k.at = "activating" /\ k.user = u /\ k.id = i
  BY NoClaimOK DEF ClaimFields
<1>4. SetClaim(c, k)
  BY <1>2
<1> HIDE DEF k
<1>5. i \in DOMAIN handleRow /\ handleRow[i].user = u /\ i \in 1..handleIds
  BY DEF readForUser, HandleInv, RowsOK
<1>6. RowsKeep /\ RowsOK' /\ ProfilesOK' /\ KeysUnique'
  BY <1>1, SameHandleRows
<1>7. ClaimsOK'
  BY <1>1, <1>3, <1>4, <1>5, <1>6, ClaimStep DEF ClaimSteps, Claiming, HoldsRow
<1>8. PostsOK'
  BY <1>1 DEF HandleInv, PostsOK, Routes
<1> QED  BY <1>6, <1>7, <1>8 DEF HandleInv

(* The reservation becomes its handle, when it is still there. *)
LEMMA ActivateStep ==
    ASSUME HandleInv, NEW c \in Claimers, Activate(c)
    PROVE  HandleInv'
<1>1. claim[c].at = "activating" /\ SetClaim(c, NoHandleClaim) /\ UNCHANGED <<handleIds, verified, posted>>
  BY DEF Activate
<1>2. PICK u, i : /\ u = claim[c].user /\ i = claim[c].id /\ u \in verified
                  /\ i \in DOMAIN handleRow => handleRow[i].user = u
  BY <1>1 DEF HandleInv, ClaimsOK, ClaimOK, HoldsRow
<1>3. RowsKeep /\ RowsOK' /\ ProfilesOK' /\ KeysUnique'
  <2>1. CASE UNCHANGED <<handleRow, profileOf>>
    BY <1>1, <2>1, SameHandleRows
  <2>2. CASE ~UNCHANGED <<handleRow, profileOf>>
    <3>1. /\ i \in DOMAIN handleRow
          /\ handleRow' = [handleRow EXCEPT ![i] = Confirmed(@, "ACTIVE")]
          /\ profileOf' = ensurePublicProfile(u, i, "ACTIVE", profileOf)
      BY <1>2, <2>2 DEF Activate, StillReserved
    <3> DEFINE r == Confirmed(handleRow[i], "ACTIVE")
    <3>2. DOMAIN handleRow[i] = HandleFields /\ handleRow[i].user = u
      BY <1>2, <3>1 DEF HandleInv, RowsOK, HandleRowOK
    <3>3. /\ DOMAIN r = HandleFields /\ r.user = u /\ r.name = handleRow[i].name
          /\ r.status = "ACTIVE"
      BY <3>2 DEF Confirmed, HandleFields
    <3>4. /\ DOMAIN handleRow' = DOMAIN handleRow /\ handleRow'[i] = r
          /\ \A j \in DOMAIN handleRow \ {i} : handleRow'[j] = handleRow[j]
      BY <3>1
    <3> HIDE DEF r
    <3> QED  BY <1>1, <1>2, <3>1, <3>2, <3>3, <3>4, ConfirmStep
  <2> QED  BY <2>1, <2>2
<1>4. ClaimsOK'
  BY <1>1, <1>3, NoClaimOK, ClaimStep DEF ClaimSteps, Claiming, HoldsRow
<1>5. PostsOK'
  BY <1>1 DEF HandleInv, PostsOK, Routes
<1> QED  BY <1>3, <1>4, <1>5 DEF HandleInv

----------------------------------------------------------------------------
(* A message is checked for the mentions it may make. *)
LEMMA SendStep ==
    ASSUME HandleInv, NEW c \in Claimers, NEW u \in Accounts,
           NEW ids \in SUBSET ({Vimla} \cup readForUser(u)), SendMessage(c, u, ids)
    PROVE  HandleInv'
<1>1. UNCHANGED <<handleRow, handleIds, verified, profileOf, posted>>
  BY DEF SendMessage
<1> DEFINE k == [NoHandleClaim EXCEPT !.at = "sending", !.user = u, !.ids = ids, !.route = routeFor(ids)]
<1>2. DOMAIN k = ClaimFields /\ k.at = "sending" /\ k.user = u /\ k.ids = ids
  BY NoClaimOK DEF ClaimFields
<1>3. SetClaim(c, k)
  BY DEF SendMessage
<1> HIDE DEF k
<1>4. ids # NotPosted
  BY DEF NotPosted, Vimla, readForUser, HandleInv, RowsOK
<1>5. RowsKeep /\ RowsOK' /\ ProfilesOK' /\ KeysUnique'
  BY <1>1, SameHandleRows
<1>6. ClaimsOK'
  BY <1>1, <1>2, <1>3, <1>4, <1>5, ClaimStep DEF ClaimSteps, Claiming, HoldsRow
<1>7. PostsOK'
  BY <1>1 DEF HandleInv, PostsOK, Routes
<1> QED  BY <1>5, <1>6, <1>7 DEF HandleInv

(* A message is stored, or mentions are added to it. *)
LEMMA PostFacts ==
    ASSUME HandleInv, NEW u \in Accounts, NEW route \in Routes, NEW ids, Post(u, route, ids)
    PROVE  /\ PostsOK' /\ posted'[u][route] = ids
           /\ \A x \in Accounts, t \in Routes : x # u \/ t # route => posted'[x][t] = posted[x][t]
  BY DEF Post, HandleInv, PostsOK, Routes

(* A message of a chat is stored, and the mentions with it. *)
LEMMA ChatStep ==
    ASSUME HandleInv, NEW c \in Claimers,
           StreamMessage(c) \/ attachToAiRequest(c) \/ CallEnds(c)
    PROVE  HandleInv'
<1>1. UNCHANGED <<handleRow, handleIds, verified, profileOf>>
  BY DEF StreamMessage, attachToAiRequest, CallEnds
<1>2. ClaimOK(claim[c]) /\ claim[c].at \in {"sending", "streamed", "accepted"} /\ claim[c].user \in Accounts
  BY DEF StreamMessage, attachToAiRequest, CallEnds, HandleInv, ClaimsOK, ClaimOK
<1>3. RowsKeep /\ RowsOK' /\ ProfilesOK' /\ KeysUnique'
  BY <1>1, SameHandleRows
<1>4. PostsOK' /\ \A u \in Accounts : posted'[u]["ORCHESTRATION"] = posted[u]["ORCHESTRATION"]
  <2>1. CASE UNCHANGED posted
    BY <2>1 DEF HandleInv, PostsOK, Routes
  <2>2. CASE ~UNCHANGED posted
    <3>1. PICK ids : Post(claim[c].user, "CHAT", ids)
      BY <2>2 DEF StreamMessage, attachToAiRequest, CallEnds
    <3> QED  BY <1>2, <3>1, PostFacts DEF Routes
  <2> QED  BY <2>1, <2>2
<1>5. PICK k : /\ SetClaim(c, k) /\ DOMAIN k = ClaimFields /\ k.at \in {"idle", "streamed"}
               /\ k.at = "streamed" => k.user \in Accounts /\ k.ids # NotPosted
  <2>1. CASE SetClaim(c, NoHandleClaim)
    BY <2>1, NoClaimOK
  <2>2. CASE SetClaim(c, [claim[c] EXCEPT !.at = "streamed"])
    <3> DEFINE k == [claim[c] EXCEPT !.at = "streamed"]
    <3>1. DOMAIN k = ClaimFields /\ k.at = "streamed" /\ k.user = claim[c].user /\ k.ids = claim[c].ids
      BY <1>2 DEF ClaimOK, ClaimFields
    <3> HIDE DEF k
    <3>2. claim[c].ids # NotPosted
      BY <1>2 DEF ClaimOK
    <3> QED  BY <1>2, <2>2, <3>1, <3>2 DEF k
  <2> QED  BY <2>1, <2>2 DEF StreamMessage, attachToAiRequest, CallEnds
<1>6. ClaimsOK'
  BY <1>3, <1>4, <1>5, ClaimStep DEF ClaimSteps, Claiming, HoldsRow
<1> QED  BY <1>3, <1>4, <1>6 DEF HandleInv

(* A message of an orchestration is stored, or was already. *)
LEMMA PersistStep ==
    ASSUME HandleInv, NEW c \in Claimers, persist(c)
    PROVE  HandleInv'
<1>1. UNCHANGED <<handleRow, handleIds, verified, profileOf>> /\ claim[c].at = "sending"
  BY DEF persist
<1>2. ClaimOK(claim[c])
  BY DEF HandleInv, ClaimsOK
<1>3. RowsKeep /\ RowsOK' /\ ProfilesOK' /\ KeysUnique'
  BY <1>1, SameHandleRows
<1>u. PICK u \in Accounts : u = claim[c].user
  BY <1>1, <1>2 DEF ClaimOK
<1>4. PICK ids : u = claim[c].user /\ ids = claim[c].ids /\ ids # NotPosted
  BY <1>u, <1>1, <1>2 DEF ClaimOK
<1> DEFINE before == posted[u]["ORCHESTRATION"]
<1>5. /\ PostsOK'
      /\ \A x \in Accounts : posted[x]["ORCHESTRATION"] # NotPosted =>
            posted'[x]["ORCHESTRATION"] = posted[x]["ORCHESTRATION"]
      /\ before = NotPosted \/ before = ids => posted'[u]["ORCHESTRATION"] = ids
  <2>1. CASE before = NotPosted
    <3>1. Post(u, "ORCHESTRATION", ids)
      BY <1>4, <2>1 DEF persist
    <3> QED  BY <2>1, <3>1, PostFacts DEF Routes
  <2>2. CASE before # NotPosted
    <3>1. UNCHANGED posted
      BY <1>4, <2>2 DEF persist
    <3> QED  BY <2>2, <3>1 DEF HandleInv, PostsOK, Routes
  <2> QED  BY <2>1, <2>2
<1>6. PICK k : /\ SetClaim(c, k) /\ DOMAIN k = ClaimFields /\ k.at \in {"idle", "accepted"}
               /\ k.at = "accepted" => /\ k.user = u /\ k.ids = ids
                                       /\ before = NotPosted \/ before = ids
  <2>1. CASE before = NotPosted \/ before = ids
    <3> DEFINE k == [claim[c] EXCEPT !.at = "accepted"]
    <3>1. DOMAIN k = ClaimFields /\ k.at = "accepted" /\ k.user = u /\ k.ids = ids
      BY <1>2, <1>4 DEF ClaimOK, ClaimFields
    <3>2. SetClaim(c, k)
      BY <1>4, <2>1 DEF persist, sameResolvedMentions
    <3> HIDE DEF k, before
    <3> QED  BY <2>1, <3>1, <3>2
  <2>2. CASE ~(before = NotPosted \/ before = ids)
    <3>1. SetClaim(c, NoHandleClaim)
      BY <1>4, <2>2 DEF persist, sameResolvedMentions
    <3> QED  BY <3>1, NoClaimOK
  <2> QED  BY <2>1, <2>2
<1>7. ClaimsOK'
  BY <1>3, <1>4, <1>5, <1>6, ClaimStep DEF ClaimSteps, Claiming, HoldsRow
<1> QED  BY <1>3, <1>5, <1>7 DEF HandleInv

(* An account verifies its address. *)
LEMMA VerifyStep ==
    ASSUME HandleInv, NEW u \in Accounts, VerifyEmail(u)
    PROVE  HandleInv'
<1>1. UNCHANGED <<handleRow, handleIds, profileOf, claim, posted>> /\ verified \subseteq verified'
  BY DEF VerifyEmail
<1>2. RowsKeep /\ RowsOK' /\ ProfilesOK' /\ KeysUnique'
  BY <1>1, SameHandleRows
<1>3. PostsOK'
  BY <1>1 DEF HandleInv, PostsOK, Routes
<1> QED  BY <1>1, <1>2, <1>3, ClaimsStand DEF HandleInv

(* Every step preserves the invariant. *)
LEMMA HandleNext == HandleInv /\ [HandlesNext]_handleVars => HandleInv'
<1> SUFFICES ASSUME HandleInv, [HandlesNext]_handleVars PROVE HandleInv'
  OBVIOUS
<1>1. CASE UNCHANGED handleVars
  <2>1. UNCHANGED <<handleRow, handleIds, verified, profileOf, claim, posted>>
    BY <1>1 DEF handleVars
  <2>2. RowsKeep /\ RowsOK' /\ ProfilesOK' /\ KeysUnique'
    BY <2>1, SameHandleRows
  <2>3. PostsOK'
    BY <2>1 DEF HandleInv, PostsOK, Routes
  <2> QED  BY <2>1, <2>2, <2>3, ClaimsStand DEF HandleInv
<1>2. CASE HandlesNext
  BY <1>2, VerifyStep, LapseStep, CleanupStep, ClaimHandleStep, ReadOwnedStep, WriteOwnedStep,
     ReadNamedStep, CreateStep, ActivateVerifiedStep, ActivateStep, SendStep, ChatStep, PersistStep,
     HandlesAssumption DEF HandlesNext
<1> QED  BY <1>1, <1>2

(* For any number of accounts, handles and calls: no name and no account has two rows, an active
   handle has its account's profile, a profile is of a verified account and of its own handle,
   active or made a reservation again by a claim that had read the address unverified, and a
   replayed message keeps the mentions it was stored with (HandleService.claim,
   activateVerified, cleanupExpiredPending). *)
THEOREM ProfilesAlwaysMatch == HandlesInit /\ [][HandlesNext]_handleVars => []ProfilesMatchHandles
<1>1. HandleInv => ProfilesMatchHandles
  BY DEF HandleInv, ProfilesOK, KeysUnique, ClaimsOK, ClaimOK, ProfilesMatchHandles
<1> QED  BY <1>1, HandleInit, HandleNext, PTL

-----------------------------------------------------------------------------
(* Projects, their members and the locks of a plan.                        *)

(* Items that can be ranked: numbers to compare, and ids of their own. *)
Ranked(items) ==
    /\ IsFiniteSet(items)
    /\ \A i \in items : i.opened \in Nat /\ i.created \in Nat /\ i.id \in Nat
    /\ \A i, j \in items : i.id = j.id => i = j

(* The items that rank before one of them. *)
Before(items, i) == {j \in items : compareLastOpened(j, i)}

(* Of two items one ranks before the other, with more before the later one. *)
LEMMA RankGrows ==
    ASSUME NEW items, Ranked(items), NEW i \in items, NEW j \in items, i # j
    PROVE  Cardinality(Before(items, i)) # Cardinality(Before(items, j))
<1>1. ASSUME NEW a \in items, NEW b \in items, compareLastOpened(a, b)
      PROVE  Cardinality(Before(items, a)) < Cardinality(Before(items, b))
  <2>1. Before(items, a) \cup {a} \subseteq Before(items, b)
    BY <1>1 DEF Ranked, Before, compareLastOpened, LaterMade
  <2>2. a \notin Before(items, a)
    BY <1>1 DEF Ranked, Before, compareLastOpened, LaterMade
  <2>3. Before(items, a) \in SUBSET items /\ Before(items, b) \in SUBSET items
    BY DEF Before
  <2>4. IsFiniteSet(Before(items, a)) /\ IsFiniteSet(Before(items, b))
    BY <2>3, FS_Subset DEF Ranked
  <2>5. Cardinality(Before(items, a) \cup {a}) = Cardinality(Before(items, a)) + 1
    BY <2>2, <2>4, FS_AddElement
  <2>6. Cardinality(Before(items, a) \cup {a}) <= Cardinality(Before(items, b))
    BY <2>1, <2>4, FS_Subset
  <2>7. Cardinality(Before(items, a)) \in Nat /\ Cardinality(Before(items, b)) \in Nat
    BY <2>4, FS_CardinalityType
  <2> QED  BY <2>5, <2>6, <2>7
<1>2. compareLastOpened(i, j) \/ compareLastOpened(j, i)
  BY DEF Ranked, compareLastOpened, LaterMade
<1>3. Before(items, i) \in SUBSET items /\ Before(items, j) \in SUBSET items
  BY DEF Before
<1>4. Cardinality(Before(items, i)) \in Nat /\ Cardinality(Before(items, j)) \in Nat
  BY <1>3, FS_Subset, FS_CardinalityType DEF Ranked
<1> QED  BY <1>1, <1>2, <1>4

(* The ranking selects no more than the limit. *)
LEMMA FewSelected ==
    ASSUME NEW items, Ranked(items), NEW limit \in Nat, NEW ids,
           ids = {i.id : i \in selectActiveIds(items, limit)}
    PROVE  IsFiniteSet(ids) /\ Cardinality(ids) <= limit
<1> DEFINE item(k) == CHOOSE i \in items : i.id = k
           rank == [k \in ids |-> Cardinality(Before(items, item(k)))]
<1>1. \A k \in ids : item(k) \in items /\ item(k).id = k
  BY DEF selectActiveIds
<1>2. \A k \in ids : Cardinality(Before(items, item(k))) \in Nat /\ Cardinality(Before(items, item(k))) < limit
  <2>1. SUFFICES ASSUME NEW k \in ids
                 PROVE  Cardinality(Before(items, item(k))) \in Nat /\ Cardinality(Before(items, item(k))) < limit
    OBVIOUS
  <2>2. PICK i \in items : i.id = k /\ Cardinality(Before(items, i)) < limit
    BY DEF selectActiveIds, Before
  <2>3. item(k) = i
    BY <1>1, <2>2 DEF Ranked
  <2>4. Before(items, i) \in SUBSET items
    BY DEF Before
  <2> QED  BY <2>2, <2>3, <2>4, FS_Subset, FS_CardinalityType DEF Ranked
<1>3. \A k, l \in ids : k # l => Cardinality(Before(items, item(k))) # Cardinality(Before(items, item(l)))
  BY <1>1, RankGrows
<1> HIDE DEF item
<1>4. rank \in [ids -> 0..(limit - 1)]
  BY <1>2
<1>5. rank \in Injection(ids, 0..(limit - 1))
  <2>1. \A k, l \in ids : rank[k] = rank[l] => k = l
    BY <1>3
  <2> HIDE DEF rank
  <2>2. DOMAIN rank = ids
    BY <1>4
  <2> QED  BY <1>4, <2>1, <2>2 DEF Injection, IsInjective
<1>6. IsFiniteSet(0..(limit - 1)) /\ Cardinality(0..(limit - 1)) = limit
  <2>1. PICK m \in Int : m = limit - 1
    OBVIOUS
  <2>2. IsFiniteSet(0..m) /\ Cardinality(0..m) = IF 0 > m THEN 0 ELSE m - 0 + 1
    BY FS_Interval
  <2> QED  BY <2>1, <2>2
<1> HIDE DEF rank
<1> QED  BY <1>5, <1>6, FS_Injection

(* The row of a member, n times after the first a project was opened. *)
MemberOK(m, n) == DOMAIN m = {"role", "opened", "joined"} /\ m.opened \in 0..n /\ m.joined \in Nat

(* The members of a project that exists: its owner, and others in roles they were offered. *)
RosterOK(members, n) ==
    /\ Owner \in DOMAIN members /\ DOMAIN members \subseteq People
    /\ \A u \in DOMAIN members : MemberOK(members[u], n) /\ (members[u].role = "OWNER" <=> u = Owner)

(* What was decided and is still to be written leaves the owner alone. *)
RequestOK(r) ==
    r = NoRequest \/
    /\ r.p \in ProjectIds
    /\ r.op \in {"accept", "role", "remove"} => r.user \in People \ {Owner}
    /\ r.op \in {"accept", "role"} => r.role \in Roles

(* The tables are tables. *)
ProjectTypeOK ==
    /\ ownerPlan \in Plans /\ opens \in Nat /\ rows \in Nat
    /\ DOMAIN created = ProjectIds /\ \A p \in ProjectIds : created[p] \in Nat
    /\ DOMAIN roster = ProjectIds
    /\ DOMAIN request = ProjectRequests

(* Every project that exists has its owner. *)
RostersOK == \A p \in Existing : RosterOK(roster[p], opens)

(* No two projects were opened by the owner at the same moment. *)
OpenedApart ==
    \A p, q \in Existing :
        roster[p][Owner].opened = roster[q][Owner].opened /\ roster[p][Owner].opened > 0 => p = q

(* Every request that waits to be written. *)
RequestsOK == \A c \in ProjectRequests : RequestOK(request[c])

(* The inductive invariant. *)
ProjectInv == ProjectTypeOK /\ RostersOK /\ OpenedApart /\ RequestsOK

(* There is no project yet. *)
LEMMA ProjectInit == ProjectsInit => ProjectInv
<1> SUFFICES ASSUME ProjectsInit PROVE ProjectInv
  OBVIOUS
<1>1. Existing = {}
  BY DEF ProjectsInit, Existing
<1> QED  BY <1>1 DEF ProjectsInit, ProjectInv, ProjectTypeOK, RostersOK, OpenedApart, RequestsOK, RequestOK

(* A project without members is one that does not exist. *)
LEMMA EmptyRoster == DOMAIN <<>> = {} /\ \A members : Owner \in DOMAIN members => members # <<>>
  OBVIOUS

(* What the invariant says of a project with a member. *)
LEMMA MemberFacts ==
    ASSUME ProjectInv, NEW p \in ProjectIds, NEW u \in MembersOf(p)
    PROVE  p \in Existing /\ RosterOK(roster[p], opens) /\ Owner \in MembersOf(p) /\ u \in People
           /\ (roster[p][u].role # "OWNER" => u # Owner)
<1>1. p \in Existing
  BY EmptyRoster DEF Existing, MembersOf
<1> QED  BY <1>1 DEF ProjectInv, RostersOK, RosterOK, MembersOf

(* The part of a request before its write. *)
LEMMA DecideStep ==
    ASSUME ProjectInv, NEW c \in ProjectRequests, NEW r, Decide(c, r), RequestOK(r)
    PROVE  ProjectInv'
<1>1. UNCHANGED <<roster, created, ownerPlan, opens, rows>> /\ request' = [request EXCEPT ![c] = r]
  BY DEF Decide
<1>2. RequestsOK' /\ DOMAIN request' = ProjectRequests
  BY <1>1 DEF ProjectInv, ProjectTypeOK, RequestsOK, RequestOK, NoRequest
<1> QED  BY <1>1, <1>2 DEF ProjectInv, ProjectTypeOK, RostersOK, OpenedApart, RosterOK, MemberOK, Existing

(* Whatever was evaluated, the decision is about somebody but the owner. *)
LEMMA EvaluateStep ==
    ASSUME ProjectInv, NEW c \in ProjectRequests, NEW p \in ProjectIds,
           \/ EvaluateCreate(c, p) \/ EvaluateDelete(c, p)
           \/ \E u \in People \ {Owner} : EvaluateLeave(c, p, u) \/ EvaluateAccept(c, p, u)
           \/ \E actor, u \in People :
                 \/ EvaluateRevoke(c, p, actor, u) \/ EvaluateRemove(c, p, actor, u)
                 \/ \E role \in Roles : EvaluateInvite(c, p, actor, u, role)
                                        \/ EvaluateRole(c, p, actor, u, role)
    PROVE  ProjectInv'
<1>1. \E op, u, role : /\ Decide(c, Call(op, p, u, role))
                       /\ op \in {"accept", "role", "remove"} => u \in People \ {Owner}
                       /\ op \in {"accept", "role"} => role \in Roles
  <2>1. CASE EvaluateCreate(c, p) \/ EvaluateDelete(c, p)
    BY <2>1 DEF EvaluateCreate, EvaluateDelete
  <2>2. ASSUME NEW u \in People \ {Owner}, EvaluateLeave(c, p, u) \/ EvaluateAccept(c, p, u)
        PROVE  \E op, role : /\ Decide(c, Call(op, p, u, role))
                             /\ op \in {"accept", "role"} => role \in Roles
    BY <2>2 DEF EvaluateLeave, EvaluateAccept
  <2>3. ASSUME NEW actor \in People, NEW u \in People, EvaluateRevoke(c, p, actor, u)
        PROVE  Decide(c, Call("revoke", p, u, "none"))
    BY <2>3 DEF EvaluateRevoke
  <2>4. ASSUME NEW actor \in People, NEW u \in People, NEW role \in Roles,
               EvaluateInvite(c, p, actor, u, role)
        PROVE  Decide(c, Call("invite", p, u, role))
    BY <2>4 DEF EvaluateInvite
  <2>5. ASSUME NEW actor \in People, NEW u \in People, EvaluateRemove(c, p, actor, u)
        PROVE  Decide(c, Call("remove", p, u, "none")) /\ u # Owner
    BY <2>5, MemberFacts DEF EvaluateRemove
  <2>6. ASSUME NEW actor \in People, NEW u \in People, NEW role \in Roles,
               EvaluateRole(c, p, actor, u, role)
        PROVE  Decide(c, Call("role", p, u, role)) /\ u # Owner
    BY <2>6, MemberFacts DEF EvaluateRole
  <2> QED  BY <2>1, <2>2, <2>3, <2>4, <2>5, <2>6
<1>2. PICK op, u, role : /\ Decide(c, Call(op, p, u, role))
                         /\ op \in {"accept", "role", "remove"} => u \in People \ {Owner}
                         /\ op \in {"accept", "role"} => role \in Roles
  BY <1>1
<1>3. RequestOK(Call(op, p, u, role))
  BY <1>2 DEF RequestOK, Call
<1> QED  BY <1>2, <1>3, DecideStep

(* One project gets new members, none or the owner among them, who opened it when it was opened. *)
Gets(p, members) ==
    /\ roster' = [roster EXCEPT ![p] = members]
    /\ members = <<>> \/ RosterOK(members, opens')
    /\ members # <<>> =>
          \/ members[Owner].opened = 0
          \/ p \in Existing /\ members[Owner].opened = roster[p][Owner].opened
          \/ members[Owner].opened = opens + 1
    /\ opens' \in Nat /\ opens <= opens'

(* The others keep theirs. *)
LEMMA RosterStep ==
    ASSUME ProjectInv, NEW p \in ProjectIds, NEW members, Gets(p, members)
    PROVE  RostersOK' /\ OpenedApart' /\ DOMAIN roster' = ProjectIds
<1> USE DEF Gets
<1>1. DOMAIN roster' = ProjectIds /\ roster'[p] = members /\ \A q \in ProjectIds \ {p} : roster'[q] = roster[q]
  BY DEF ProjectInv, ProjectTypeOK
<1>2. \A q \in ProjectIds \ {p} : (q \in Existing' <=> q \in Existing)
  BY <1>1 DEF Existing
<1>3. p \in Existing' => members # <<>>
  BY <1>1 DEF Existing
<1>4. \A m : MemberOK(m, opens) => MemberOK(m, opens')
  BY DEF MemberOK, ProjectInv, ProjectTypeOK
<1>5. ASSUME NEW q \in Existing' PROVE RosterOK(roster'[q], opens')
  <2>1. CASE q = p
    BY <1>1, <1>3, <2>1 DEF RosterOK, MemberOK
  <2>2. CASE q # p
    <3>1. q \in ProjectIds \ {p} /\ q \in Existing
      BY <1>2, <2>2 DEF Existing
    <3>2. RosterOK(roster[q], opens) /\ roster'[q] = roster[q]
      BY <3>1, <1>1 DEF ProjectInv, RostersOK
    <3> QED  BY <3>2, <1>4 DEF RosterOK
  <2> QED  BY <2>1, <2>2
<1>6. \A q \in Existing : roster[q][Owner].opened \in 0..opens
  BY DEF ProjectInv, RostersOK, RosterOK, MemberOK
<1>7. opens \in Nat
  BY DEF ProjectInv, ProjectTypeOK
<1>8. ASSUME NEW a \in Existing', NEW b \in Existing',
             roster'[a][Owner].opened = roster'[b][Owner].opened, roster'[a][Owner].opened > 0, a # b
      PROVE  FALSE
  <2>1. a \in ProjectIds /\ b \in ProjectIds
    BY DEF Existing
  <2>2. CASE a # p /\ b # p
    BY <1>8, <1>1, <1>2, <2>1, <2>2 DEF ProjectInv, OpenedApart
  <2>3. ASSUME NEW q \in Existing', q # p, members[Owner].opened = roster'[q][Owner].opened,
               members # <<>>, members[Owner].opened > 0
        PROVE  FALSE
    <3>1. q \in Existing /\ roster'[q] = roster[q]
      BY <1>1, <1>2, <2>3 DEF Existing
    <3> QED  BY <3>1, <1>6, <1>7, <2>3 DEF ProjectInv, OpenedApart
  <2> QED  BY <1>1, <1>3, <1>8, <2>2, <2>3
<1>9. OpenedApart'
  BY <1>8 DEF OpenedApart
<1> QED  BY <1>1, <1>5, <1>9 DEF RostersOK

(* The members after one of them got a row. *)
LEMMA WithFacts ==
    ASSUME NEW members, NEW u, NEW m, RosterOK(members, opens), u \in People, MemberOK(m, opens'),
           m.role = "OWNER" <=> u = Owner, opens' \in Nat, opens <= opens', opens \in Nat
    PROVE  /\ RosterOK(With(members, u, m), opens') /\ With(members, u, m)[u] = m
           /\ \A v \in DOMAIN members \ {u} : With(members, u, m)[v] = members[v]
           /\ With(members, u, m) # <<>>
<1> DEFINE w == With(members, u, m)
<1>1. /\ DOMAIN w = DOMAIN members \cup {u} /\ w[u] = m
      /\ \A v \in DOMAIN members \ {u} : w[v] = members[v]
  BY DEF With
<1>2. \A x : MemberOK(x, opens) => MemberOK(x, opens')
  BY DEF MemberOK
<1>3. Owner \in DOMAIN w
  BY <1>1 DEF RosterOK
<1>4. w # <<>>
  BY <1>3, EmptyRoster
<1> HIDE DEF w
<1>5. \A v \in DOMAIN w : MemberOK(w[v], opens') /\ (w[v].role = "OWNER" <=> v = Owner)
  BY <1>1, <1>2 DEF RosterOK
<1>6. RosterOK(w, opens')
  BY <1>1, <1>3, <1>5 DEF RosterOK
<1> QED  BY <1>1, <1>4, <1>6 DEF w

(* The write of a request, long after its evaluation. *)
LEMMA WriteStep ==
    ASSUME ProjectInv, NEW c \in ProjectRequests, Write(c)
    PROVE  ProjectInv'
<1>0. PICK r : r = request[c]
  OBVIOUS
<1>1. /\ UNCHANGED <<ownerPlan, opens>> /\ request' = [request EXCEPT ![c] = NoRequest]
      /\ \/ WriteCreate(r) \/ WriteDelete(r) \/ WriteInvite(r) \/ WriteRevoke(r)
         \/ WriteAccept(r) \/ WriteRole(r) \/ WriteRemove(r)
  BY <1>0 DEF Write
<1>2. DOMAIN request' = ProjectRequests /\ RequestsOK'
  BY <1>1 DEF ProjectInv, ProjectTypeOK, RequestsOK, RequestOK, NoRequest
<1>3. RequestOK(r)
  BY <1>0 DEF ProjectInv, RequestsOK
<1>4. /\ r.p \in ProjectIds
      /\ r.op \in {"accept", "role", "remove"} => r.user \in People \ {Owner}
      /\ r.op \in {"accept", "role"} => r.role \in Roles
  BY <1>1, <1>3 DEF RequestOK, NoRequest, WriteCreate, WriteDelete, WriteInvite, WriteRevoke,
                    WriteAccept, WriteRole, WriteRemove
<1>o. opens \in Nat /\ opens' = opens /\ rows \in Nat
  BY <1>1 DEF ProjectInv, ProjectTypeOK
<1>5. rows' \in Nat /\ DOMAIN created' = ProjectIds /\ \A p \in ProjectIds : created'[p] \in Nat
  <2>1. \/ UNCHANGED <<created, rows>>
        \/ rows' = rows + 1 /\ (created' = created \/ created' = [created EXCEPT ![r.p] = rows + 1])
    BY <1>1 DEF Fails, WriteCreate, WriteDelete, WriteInvite, WriteRevoke, WriteAccept, WriteRole, WriteRemove
  <2> QED  BY <1>o, <2>1 DEF ProjectInv, ProjectTypeOK
<1>6. RostersOK' /\ OpenedApart' /\ DOMAIN roster' = ProjectIds
  <2>1. CASE UNCHANGED roster
    BY <2>1, <1>o DEF ProjectInv, ProjectTypeOK, RostersOK, OpenedApart, RosterOK, MemberOK, Existing
  <2>2. CASE WriteCreate(r) /\ ~UNCHANGED roster
    <3>m. PICK m : m = [role |-> "OWNER", opened |-> 0, joined |-> 0]
      OBVIOUS
    <3>w. PICK w : w = With(<<>>, Owner, m)
      OBVIOUS
    <3>1. roster' = [roster EXCEPT ![r.p] = w]
      BY <2>2, <3>m, <3>w DEF WriteCreate, Fails
    <3>2. DOMAIN w = {Owner} /\ w[Owner] = m
      BY <3>w, EmptyRoster DEF With
    <3>3. MemberOK(m, opens') /\ m.opened = 0 /\ m.role = "OWNER"
      BY <1>o, <3>m DEF MemberOK
    <3>4. RosterOK(w, opens')
      BY <3>2, <3>3, ProjectsAssumption DEF RosterOK
    <3>5. Gets(r.p, w)
      BY <1>o, <3>1, <3>2, <3>3, <3>4 DEF Gets
    <3> QED  BY <1>4, <3>5, RosterStep
  <2>3. CASE WriteDelete(r)
    <3>1. Gets(r.p, <<>>)
      BY <1>o, <2>3 DEF Gets, WriteDelete
    <3> QED  BY <1>4, <3>1, RosterStep
  <2>4. CASE WriteAccept(r) /\ ~UNCHANGED roster
    <3>m. PICK m : m = [role |-> r.role, opened |-> 0, joined |-> rows + 1]
      OBVIOUS
    <3>w. PICK w : w = With(roster[r.p], r.user, m)
      OBVIOUS
    <3>1. roster' = [roster EXCEPT ![r.p] = w] /\ r.p \in Existing /\ r.op = "accept"
      BY <2>4, <1>4, <3>m, <3>w DEF WriteAccept, Fails, ProjectInv, ProjectTypeOK
    <3>2. RosterOK(roster[r.p], opens)
      BY <3>1 DEF ProjectInv, RostersOK
    <3>3. MemberOK(m, opens') /\ m.role # "OWNER" /\ r.user \in People \ {Owner}
      BY <1>o, <1>4, <3>1, <3>m, ProjectsAssumption DEF MemberOK
    <3>4. RosterOK(w, opens') /\ w[Owner] = roster[r.p][Owner]
      BY <1>o, <3>2, <3>3, <3>w, WithFacts DEF RosterOK
    <3>5. Gets(r.p, w)
      BY <1>o, <3>1, <3>4 DEF Gets
    <3> QED  BY <1>4, <3>5, RosterStep
  <2>5. CASE WriteRole(r) /\ ~UNCHANGED roster
    <3>l. PICK old : old = roster[r.p][r.user]
      OBVIOUS
    <3>m. PICK m : m = [old EXCEPT !.role = r.role]
      OBVIOUS
    <3>w. PICK w : w = With(roster[r.p], r.user, m)
      OBVIOUS
    <3>1. roster' = [roster EXCEPT ![r.p] = w] /\ r.user \in MembersOf(r.p) /\ r.op = "role"
      BY <2>5, <1>4, <3>l, <3>m, <3>w DEF WriteRole, Fails, ProjectInv, ProjectTypeOK
    <3>2. r.p \in Existing /\ RosterOK(roster[r.p], opens)
      BY <1>4, <3>1, MemberFacts
    <3>3. MemberOK(old, opens)
      BY <3>1, <3>2, <3>l DEF RosterOK, MembersOf
    <3>4. MemberOK(m, opens') /\ m.role # "OWNER" /\ r.user \in People \ {Owner}
      BY <1>o, <1>4, <3>1, <3>3, <3>m, ProjectsAssumption DEF MemberOK
    <3>5. RosterOK(w, opens') /\ w[Owner] = roster[r.p][Owner]
      BY <1>o, <3>2, <3>4, <3>w, WithFacts DEF RosterOK
    <3>6. Gets(r.p, w)
      BY <1>o, <3>1, <3>2, <3>5 DEF Gets
    <3> QED  BY <1>4, <3>6, RosterStep
  <2>6. CASE WriteRemove(r) /\ ~UNCHANGED roster
    <3>w. PICK w : w = Without1(roster[r.p], r.user)
      OBVIOUS
    <3>1. roster' = [roster EXCEPT ![r.p] = w] /\ r.user \in MembersOf(r.p) /\ r.op = "remove"
      BY <2>6, <1>4, <3>w DEF WriteRemove, Fails, ProjectInv, ProjectTypeOK
    <3>2. r.p \in Existing /\ RosterOK(roster[r.p], opens) /\ r.user # Owner
      BY <1>4, <3>1, MemberFacts
    <3>3. DOMAIN w = DOMAIN roster[r.p] \ {r.user} /\ \A v \in DOMAIN w : w[v] = roster[r.p][v]
      BY <3>w DEF Without1
    <3>4. RosterOK(w, opens') /\ w[Owner] = roster[r.p][Owner]
      BY <1>o, <3>2, <3>3 DEF RosterOK, MemberOK
    <3>5. Gets(r.p, w)
      BY <1>o, <3>1, <3>2, <3>4 DEF Gets
    <3> QED  BY <1>4, <3>5, RosterStep
  <2>7. CASE WriteInvite(r) \/ WriteRevoke(r)
    BY <2>1, <2>7 DEF WriteInvite, WriteRevoke, Fails
  <2> QED  BY <1>1, <2>1, <2>2, <2>3, <2>4, <2>5, <2>6, <2>7
<1> QED  BY <1>1, <1>2, <1>5, <1>6 DEF ProjectInv, ProjectTypeOK

(* Opening a project takes a moment that is later than all before. *)
LEMMA OpenStep ==
    ASSUME ProjectInv, NEW p \in ProjectIds, NEW u \in People, open(p, u)
    PROVE  ProjectInv'
<1>l. PICK old : old = roster[p][u]
  OBVIOUS
<1>m. PICK m : m = [old EXCEPT !.opened = opens + 1]
  OBVIOUS
<1>w. PICK w : w = With(roster[p], u, m)
  OBVIOUS
<1>1. /\ roster' = [roster EXCEPT ![p] = w] /\ opens' = opens + 1 /\ u \in MembersOf(p) /\ p \in Existing
      /\ UNCHANGED <<created, ownerPlan, rows, request>>
  BY <1>l, <1>m, <1>w DEF open, ProjectInv, ProjectTypeOK
<1>2. RosterOK(roster[p], opens) /\ opens \in Nat
  BY <1>1 DEF ProjectInv, ProjectTypeOK, RostersOK
<1>3. MemberOK(old, opens) /\ (old.role = "OWNER" <=> u = Owner)
  BY <1>1, <1>2, <1>l DEF RosterOK, MembersOf
<1>4. MemberOK(m, opens') /\ m.role = old.role /\ m.opened = opens + 1
  BY <1>1, <1>2, <1>3, <1>m DEF MemberOK
<1>5. /\ RosterOK(w, opens') /\ w[u] = m /\ \A v \in DOMAIN roster[p] \ {u} : w[v] = roster[p][v]
  BY <1>1, <1>2, <1>3, <1>4, <1>w, WithFacts
<1>6. w[Owner].opened = roster[p][Owner].opened \/ w[Owner].opened = opens + 1
  BY <1>2, <1>4, <1>5 DEF RosterOK
<1>7. RostersOK' /\ OpenedApart' /\ DOMAIN roster' = ProjectIds
  <2>1. Gets(p, w)
    BY <1>1, <1>2, <1>5, <1>6 DEF Gets
  <2> QED  BY <2>1, RosterStep
<1> QED  BY <1>1, <1>2, <1>7 DEF ProjectInv, ProjectTypeOK, RequestsOK, RequestOK, NoRequest

(* Each step keeps the invariant. *)
LEMMA ProjectNext == ProjectInv /\ [ProjectsNext]_projectVars => ProjectInv'
<1> SUFFICES ASSUME ProjectInv, [ProjectsNext]_projectVars PROVE ProjectInv'
  OBVIOUS
<1>1. CASE UNCHANGED projectVars \/ \E plan \in Plans : ChangePlan(plan)
  <2>1. UNCHANGED <<roster, created, opens, rows, request>> /\ ownerPlan' \in Plans
    BY <1>1 DEF projectVars, ChangePlan, ProjectInv, ProjectTypeOK
  <2> QED  BY <2>1 DEF ProjectInv, ProjectTypeOK, RostersOK, OpenedApart, RosterOK, MemberOK, Existing,
                       RequestsOK, RequestOK, NoRequest
<1>2. CASE ProjectsNext
  BY <1>1, <1>2, EvaluateStep, WriteStep, OpenStep DEF ProjectsNext
<1> QED  BY <1>1, <1>2

(* A finite set of records, one for each of a finite set of ids. *)
LEMMA ItemsRanked ==
    ASSUME NEW E, IsFiniteSet(E), NEW f, DOMAIN f = E,
           \A k \in E : f[k].id = k /\ k \in Nat /\ f[k].opened \in Nat /\ f[k].created \in Nat
    PROVE  Ranked({f[k] : k \in E})
<1> DEFINE T == {f[k] : k \in E}
           g == [k \in E |-> f[k]]
<1>1. g \in Surjection(E, T)
  BY DEF Surjection
<1>2. IsFiniteSet(T)
  BY <1>1, FS_Surjection
<1> QED  BY <1>2 DEF Ranked

(* The ranking of the projects compares every two of them. *)
LEMMA OwnedRanked ==
    ASSUME ProjectInv
    PROVE  /\ Ranked(OwnedItems)
           /\ \A p \in Existing : [id |-> p, opened |-> roster[p][Owner].opened, created |-> created[p]] \in OwnedItems
           /\ \A i \in OwnedItems : i.id \in Existing /\ i.opened = roster[i.id][Owner].opened
<1> DEFINE E == {q \in Existing : Owner \in MembersOf(q)}
           f == [p \in E |-> [id |-> p, opened |-> roster[p][Owner].opened, created |-> created[p]]]
<1>1. OwnedItems = {f[p] : p \in E}
  BY DEF OwnedItems
<1>2. E \in SUBSET ProjectIds
  BY DEF Existing
<1>3. IsFiniteSet(E)
  BY <1>2, FS_Subset, ProjectsAssumption
<1>4. ASSUME NEW k \in E
      PROVE  f[k].id = k /\ k \in Nat /\ f[k].opened \in Nat /\ f[k].created \in Nat
  <2>1. RosterOK(roster[k], opens) /\ created[k] \in Nat /\ opens \in Nat
    BY <1>2 DEF ProjectInv, RostersOK, ProjectTypeOK
  <2>2. roster[k][Owner].opened \in Nat
    BY <2>1 DEF RosterOK, MemberOK
  <2> QED  BY <1>2, <2>1, <2>2, ProjectsAssumption
<1>5. E = Existing
  BY DEF ProjectInv, RostersOK, RosterOK, MembersOf
<1>6. \A p \in Existing : f[p] = [id |-> p, opened |-> roster[p][Owner].opened, created |-> created[p]]
  BY <1>5
<1>7. DOMAIN f = E
  OBVIOUS
<1>8. \A i \in OwnedItems : i.id \in Existing /\ i.opened = roster[i.id][Owner].opened
  BY <1>1, <1>5
<1> HIDE DEF f, E
<1>9. Ranked({f[p] : p \in E})
  BY <1>3, <1>4, <1>7, ItemsRanked
<1> QED  BY <1>1, <1>5, <1>6, <1>8, <1>9

(* And so does the ranking of the members of one. *)
LEMMA MembersRanked ==
    ASSUME ProjectInv, NEW p \in Existing
    PROVE  Ranked(MemberItems(p))
<1> DEFINE E == MembersOf(p) \ {Owner}
           f == [u \in E |-> [id |-> u, opened |-> roster[p][u].opened, created |-> roster[p][u].joined]]
<1>1. MemberItems(p) = {f[u] : u \in E}
  BY DEF MemberItems
<1>2. RosterOK(roster[p], opens) /\ opens \in Nat
  BY DEF ProjectInv, RostersOK, ProjectTypeOK
<1>3. E \in SUBSET People
  BY <1>2 DEF MembersOf, RosterOK
<1>4. IsFiniteSet(E)
  BY <1>3, FS_Subset, ProjectsAssumption
<1>5. ASSUME NEW k \in E
      PROVE  f[k].id = k /\ k \in Nat /\ f[k].opened \in Nat /\ f[k].created \in Nat
  <2>1. roster[p][k].opened \in Nat /\ roster[p][k].joined \in Nat
    BY <1>2 DEF RosterOK, MemberOK, MembersOf
  <2> QED  BY <1>3, <2>1, ProjectsAssumption
<1>6. DOMAIN f = E
  OBVIOUS
<1> HIDE DEF f, E
<1> QED  BY <1>1, <1>4, <1>5, <1>6, ItemsRanked

(* The locks follow from the ranking: it selects no more than the limit, and
   the project that was opened last has none before it. *)
LEMMA LocksHold == ProjectInv => PlanLocksHold
<1> SUFFICES ASSUME ProjectInv PROVE PlanLocksHold
  OBVIOUS
<1> DEFINE active == Existing \ lockedOwnedIds
           selected == {i.id : i \in selectActiveIds(OwnedItems, ownerPlan.owned)}
<1>1. ownerPlan.owned \in Nat /\ ownerPlan.members \in Nat
  BY ProjectsAssumption DEF ProjectInv, ProjectTypeOK
<1>2. \A p \in Existing : {u \in MembersOf(p) : roster[p][u].role = "OWNER"} = {Owner}
  BY DEF ProjectInv, RostersOK, RosterOK, MembersOf
<1>3. Cardinality(active) <= ownerPlan.owned
  <2>1. IsFiniteSet(selected) /\ Cardinality(selected) <= ownerPlan.owned
    BY <1>1, OwnedRanked, FewSelected
  <2>2. active \in SUBSET selected
    BY DEF lockedOwnedIds
  <2> HIDE DEF active, selected
  <2>3. IsFiniteSet(active) /\ Cardinality(active) <= Cardinality(selected)
    BY <2>1, <2>2, FS_Subset
  <2> QED  BY <1>1, <2>1, <2>3, FS_CardinalityType
<1>4. ASSUME NEW p \in active, NEW M, M = {u \in MembersOf(p) : assertMutable(p, u)}
      PROVE  Cardinality(M) <= ownerPlan.members \/ M = {Owner}
  <2>1. PICK limit \in Nat : limit = IF ownerPlan.members = 0 THEN 0 ELSE ownerPlan.members - 1
    BY <1>1
  <2>2. PICK few : few = {i.id : i \in selectActiveIds(MemberItems(p), limit)}
    OBVIOUS
  <2>3. IsFiniteSet(few) /\ Cardinality(few) <= limit
    BY <2>2, MembersRanked, FewSelected
  <2>4. activeMemberUserIds(p) = {Owner} \cup few
    BY <2>1, <2>2 DEF activeMemberUserIds
  <2>5. M \in SUBSET (few \cup {Owner})
    BY <1>4, <2>4 DEF assertMutable, viewerAccessState
  <2>6. /\ IsFiniteSet(few \cup {Owner})
        /\ Cardinality(few \cup {Owner}) = IF Owner \in few THEN Cardinality(few) ELSE Cardinality(few) + 1
    BY <2>3, FS_AddElement
  <2>7. Cardinality(M) <= Cardinality(few \cup {Owner}) /\ IsFiniteSet(M)
    BY <2>5, <2>6, FS_Subset
  <2>8. Cardinality(few) \in Nat /\ Cardinality(M) \in Nat
    BY <2>3, <2>7, FS_CardinalityType
  <2>9. CASE ownerPlan.members > 0
    BY <1>1, <2>1, <2>3, <2>6, <2>7, <2>8, <2>9
  <2>10. CASE ownerPlan.members = 0
    <3>1. Cardinality(few) = 0
      BY <2>1, <2>3, <2>8, <2>10
    <3>2. few = {}
      BY <2>3, <3>1, FS_EmptySet
    <3>3. M = {} \/ M = {Owner}
      BY <2>5, <3>2
    <3> QED  BY <1>1, <2>10, <3>3, FS_EmptySet
  <2> QED  BY <1>1, <2>9, <2>10
<1>5. ASSUME ownerPlan.owned > 0, NEW p \in Existing, roster[p][Owner].opened > 0,
             \A q \in Existing : roster[q][Owner].opened <= roster[p][Owner].opened
      PROVE  p \in active
  <2>1. PICK i \in OwnedItems : i = [id |-> p, opened |-> roster[p][Owner].opened, created |-> created[p]]
    BY OwnedRanked
  <2>2. i.id = p /\ i.opened = roster[p][Owner].opened
    BY <2>1
  <2>3. ASSUME NEW j \in OwnedItems, compareLastOpened(j, i) PROVE FALSE
    <3>1. j.id \in Existing /\ j.opened = roster[j.id][Owner].opened
      BY OwnedRanked
    <3>2. j.opened \in Nat /\ i.opened \in Nat /\ j.created \in Nat /\ i.created \in Nat /\ j.id \in Nat
      BY OwnedRanked DEF Ranked
    <3>3. j.opened <= i.opened
      BY <1>5, <2>2, <3>1
    <3>4. j.opened = i.opened
      BY <2>3, <3>2, <3>3 DEF compareLastOpened
    <3>5. j.id = p
      BY <1>5, <2>2, <3>1, <3>4 DEF ProjectInv, OpenedApart
    <3>6. j = i
      BY <2>2, <3>5, OwnedRanked DEF Ranked
    <3> QED  BY <2>3, <3>2, <3>6 DEF compareLastOpened, LaterMade
  <2>4. {j \in OwnedItems : compareLastOpened(j, i)} = {}
    BY <2>3
  <2>5. Cardinality({j \in OwnedItems : compareLastOpened(j, i)}) < ownerPlan.owned
    BY <1>1, <1>5, <2>4, FS_EmptySet
  <2>6. i \in selectActiveIds(OwnedItems, ownerPlan.owned)
    BY <2>5 DEF selectActiveIds
  <2> QED  BY <1>5, <2>2, <2>6 DEF lockedOwnedIds
<1> HIDE DEF active
<1> QED  BY <1>2, <1>3, <1>4, <1>5 DEF PlanLocksHold, active

(* However creations, invitations, acceptances, changes of role, removals and
   deletions interleave between the evaluation of a request and its write
   (project service), and however the owner's plan changes: a project has
   one owner, no more projects and members may be changed than the plan
   allows, and the project opened last stays open.  selectActiveIds is shown to
   keep to its limit because compareLastOpened orders every two items, by id
   when neither was opened and both were created at once. *)
THEOREM PlanLocksAlwaysHold == ProjectsInit /\ [][ProjectsNext]_projectVars => []PlanLocksHold
  BY ProjectInit, ProjectNext, LocksHold, PTL

-----------------------------------------------------------------------------
(* The device of a browser, its keys and its one-time prekeys.             *)

(* Where a tab stands with an identity of its own. *)
Identified == {"migrate", "save", "register", "posted", "registered"}

(* States of a row that is there. *)
RowStates == {"pending", "registered", "unmarked"}

(* The stored row, or its absence. *)
StoredOK(row) ==
    \/ row = NoDevice
    \/ /\ DOMAIN row = {"id", "state", "key"}
       /\ row.id \in DeviceIds /\ row.state \in RowStates /\ row.key \in Nat

(* A tab, after n leases. *)
BootOK(b, n) ==
    /\ DOMAIN b = {"pc", "id", "state", "owner", "key", "for"}
    /\ b.owner \in 0..n /\ b.key \in Nat
    /\ b.pc \in Identified => b.id \in DeviceIds
    /\ b.pc = "migrate" => b.state \in RowStates
    /\ b.pc \in {"load", "register", "posted", "freeze", "revoke", "clear"} => b.key = 0
    /\ b.pc \in {"save", "register", "posted", "registered"} => b.for # "wipe"

(* The lease, after n of them. *)
LeaseOK(l, n) ==
    /\ DOMAIN l = {"owner", "live"} /\ l.live \in BOOLEAN /\ l.owner \in 0..n
    /\ l.live => l.owner # 0

(* The rows have their fields. *)
DeviceTypeOK ==
    /\ leases \in Nat /\ LeaseOK(lease, leases) /\ StoredOK(stored)
    /\ DOMAIN boots = BootTabs /\ \A t \in BootTabs : BootOK(boots[t], leases)
    /\ DOMAIN keyring = {"now", "made"} /\ keyring.now \in Nat /\ keyring.made \in Nat
    /\ "none" \notin lost /\ posts \subseteq DeviceIds /\ DOMAIN registry = DeviceIds
    /\ latch \in BOOLEAN /\ overlapped \in BOOLEAN

(* An owner is one tab. *)
OwnersApart ==
    \A t, u \in BootTabs : boots[t].owner = boots[u].owner /\ boots[t].owner # 0 => t = u

(* Who holds the lease works on an identity that was not wiped, and on the row
   that is stored once it has read or written it. *)
HolderIsCurrent ==
    \A t \in BootTabs : assertActiveCoordinationLease(t) =>
        /\ boots[t].pc \in Identified => boots[t].id \notin lost
        /\ boots[t].pc \in {"migrate", "register"} => stored.id = boots[t].id

(* What the server has is stored here, unless it was wiped. *)
KeptOrLost ==
    /\ stored.id \notin lost
    /\ \A d \in DeviceIds : registry[d] = "active" \/ d \in posts => stored.id = d \/ d \in lost

(* While one tab clears, the latch keeps the others from a new lease, and once
   the database is gone nothing is stored that the key is needed for. *)
OneClears ==
    /\ \A t, u \in Clearing : t = u
    /\ Clearing # {} => latch
    /\ \A t \in BootTabs : boots[t].pc = "clearKey" => stored = NoDevice /\ ~lease.live

(* The key that a tab is about to store secrets under is in the keyring. *)
KeysFit ==
    /\ stored.key \in {0, keyring.now}
    /\ \A t \in BootTabs : boots[t].key # 0 =>
          /\ assertActiveCoordinationLease(t) /\ boots[t].pc \in {"save", "registered"} =>
                keyring.now = boots[t].key
          /\ stored # NoDevice /\ stored.key = 0 /\ boots[t].pc = "migrate" =>
                keyring.now = boots[t].key

(* A one-time prekey on the server. *)
PrekeysOK ==
    /\ DOMAIN otks = DeviceIds /\ DOMAIN given = DeviceIds
    /\ \A d \in DeviceIds :
          /\ DOMAIN otks[d] = Otks /\ DOMAIN given[d] = Otks
          /\ \A k \in Otks : given[d][k] = 0 \/ (given[d][k] = 1 /\ otks[d][k] = "used")
    /\ rotating \in DeviceIds \cup {"none"}

(* A key that an open transaction has locked is free, and locked by it alone. *)
LocksOK ==
    /\ DOMAIN claims = Readers
    /\ \A r \in Readers : claims[r] # NoClaim =>
          /\ claims[r] \in [id : DeviceIds, key : Otks]
          /\ otks[claims[r].id][claims[r].key] = "free"
          /\ \A x \in Readers : claims[x] = claims[r] => x = r

(* The inductive invariant. *)
BrowserInv ==
    /\ DeviceTypeOK /\ OwnersApart /\ HolderIsCurrent /\ KeptOrLost
    /\ overlapped \/ (OneClears /\ KeysFit)

(* And with the prekeys on the server. *)
DeviceInv == BrowserInv /\ PrekeysOK /\ LocksOK

(* The absence of a row is not a row. *)
LEMMA NoneIsNoId == NoDevice.id = "none" /\ NoDevice.key = 0 /\ "none" \notin DeviceIds
  BY LocalDeviceAssumption DEF NoDevice

(* There is no identity, or one of an earlier version. *)
LEMMA DeviceInit == LocalDeviceInit => DeviceInv
<1> SUFFICES ASSUME LocalDeviceInit PROVE DeviceInv
  OBVIOUS
<1> USE DEF LocalDeviceInit, NoDevice, FreeLease, IdleBoot, LegacyDevice, NoClaim
<1>1. DeviceTypeOK
  <2>1. StoredOK(stored) /\ DOMAIN registry = DeviceIds
    BY DEF StoredOK, RowStates
  <2>2. \A t \in BootTabs : BootOK(boots[t], leases)
    BY DEF BootOK, Identified
  <2>3. LeaseOK(lease, leases) /\ leases \in Nat
    BY DEF LeaseOK
  <2> QED  BY <2>1, <2>2, <2>3 DEF DeviceTypeOK
<1>2. OwnersApart /\ HolderIsCurrent
  BY DEF OwnersApart, HolderIsCurrent, assertActiveCoordinationLease
<1>3. KeptOrLost
  BY LocalDeviceAssumption DEF KeptOrLost
<1>4. OneClears /\ KeysFit
  BY DEF OneClears, KeysFit, Clearing
<1>5. PrekeysOK /\ LocksOK
  BY DEF PrekeysOK, LocksOK
<1> QED  BY <1>1, <1>2, <1>3, <1>4, <1>5 DEF DeviceInv, BrowserInv

(* One tab moves to b, with neither a new lease nor a new row: the lease may
   end, a key may be made, the row may be protected and its id posted, and
   the tab may begin to clear. *)
Quiet(t, b) ==
    /\ boots' = [boots EXCEPT ![t] = b] /\ BootOK(b, leases) /\ b.owner \in {0, boots[t].owner}
    /\ UNCHANGED <<lost, leases>>
    /\ lease' = lease \/ lease' = [lease EXCEPT !.live = FALSE]
    /\ keyring' = keyring \/ keyring' = localWrappingKey
    /\ b.key = 0 \/ keyring'.now = b.key
    /\ \/ stored' = stored
       \/ /\ stored # NoDevice /\ stored.key = 0 /\ boots[t].pc = "migrate" /\ boots[t].key # 0
          /\ stored' = [stored EXCEPT !.key = boots[t].key] /\ keyring' = keyring
    /\ DOMAIN registry' = DeviceIds /\ \A d \in DeviceIds : registry'[d] = "active" => registry[d] = "active"
    /\ posts' \subseteq DeviceIds /\ \A d \in posts' : d \in posts \/ d = stored.id
    /\ lease.live /\ b.owner = lease.owner /\ b.pc \in Identified => b.id \notin lost
    /\ lease.live /\ b.owner = lease.owner /\ b.pc \in {"migrate", "register"} => stored.id = b.id
    /\ b.pc # "clearKey"
    /\ \/ /\ UNCHANGED <<latch, overlapped>>
          /\ b.pc \in {"revoke", "clear"} => boots[t].pc \in {"revoke", "clear"}
       \/ latch' = TRUE /\ (overlapped' = TRUE \/ (Clearing = {} /\ overlapped' = overlapped))

(* The wrapping key is made only if there is none. *)
LEMMA KeyStays ==
    ASSUME DeviceTypeOK, keyring' = keyring \/ keyring' = localWrappingKey
    PROVE  /\ DOMAIN keyring' = {"now", "made"} /\ keyring'.now \in Nat /\ keyring'.made \in Nat
           /\ keyring.now # 0 => keyring'.now = keyring.now
  BY DEF DeviceTypeOK, localWrappingKey

(* Such a move keeps the invariant: what another tab relies on does not change. *)
LEMMA QuietStep ==
    ASSUME BrowserInv, NEW t \in BootTabs, NEW b, Quiet(t, b)
    PROVE  BrowserInv'
<1>0. DeviceTypeOK /\ OwnersApart /\ HolderIsCurrent /\ KeptOrLost
  BY DEF BrowserInv
<1>1. boots'[t] = b /\ (\A u \in BootTabs \ {t} : boots'[u] = boots[u]) /\ DOMAIN boots' = BootTabs
  BY <1>0 DEF Quiet, DeviceTypeOK
<1>2. LeaseOK(lease', leases) /\ lease'.owner = lease.owner /\ (lease'.live => lease.live)
  BY <1>0 DEF Quiet, DeviceTypeOK, LeaseOK
<1>3. StoredOK(stored') /\ stored'.id = stored.id /\ (stored' = NoDevice <=> stored = NoDevice)
  <2>1. CASE stored' = stored
    BY <1>0, <2>1 DEF DeviceTypeOK
  <2>2. CASE stored' # stored
    <3>1. PICK k \in Nat : stored' = [stored EXCEPT !.key = k] /\ stored # NoDevice
      BY <1>0, <2>2 DEF Quiet, DeviceTypeOK, BootOK
    <3>2. DOMAIN stored = {"id", "state", "key"} /\ stored.id \in DeviceIds /\ stored.state \in RowStates
      BY <1>0, <3>1 DEF DeviceTypeOK, StoredOK
    <3> QED  BY <3>1, <3>2, NoneIsNoId DEF StoredOK
  <2> QED  BY <2>1, <2>2
<1>4. /\ DOMAIN keyring' = {"now", "made"} /\ keyring'.now \in Nat /\ keyring'.made \in Nat
      /\ keyring.now # 0 => keyring'.now = keyring.now
  BY <1>0, KeyStays DEF Quiet
<1>5. DeviceTypeOK'
  <2>1. \A u \in BootTabs : BootOK(boots'[u], leases)
    BY <1>0, <1>1 DEF Quiet, DeviceTypeOK
  <2> QED  BY <1>0, <1>1, <1>2, <1>3, <1>4, <2>1 DEF Quiet, DeviceTypeOK
<1>6. OwnersApart'
  BY <1>0, <1>1 DEF Quiet, OwnersApart
<1>7. \A u \in BootTabs \ {t} : assertActiveCoordinationLease(u)' => assertActiveCoordinationLease(u)
  BY <1>1, <1>2 DEF assertActiveCoordinationLease
<1>8. assertActiveCoordinationLease(t)' => lease.live /\ b.owner = lease.owner
  BY <1>1, <1>2 DEF assertActiveCoordinationLease
<1>9. HolderIsCurrent'
  BY <1>0, <1>1, <1>3, <1>7, <1>8 DEF Quiet, HolderIsCurrent
<1>10. KeptOrLost'
  BY <1>0, <1>3 DEF Quiet, KeptOrLost
<1>11. ASSUME ~overlapped' PROVE OneClears' /\ KeysFit'
  <2>1. ~overlapped /\ OneClears /\ KeysFit
    BY <1>11 DEF Quiet, BrowserInv
  <2>2. \A u \in BootTabs : boots'[u].pc = "clearKey" => u # t /\ boots[u].pc = "clearKey"
    BY <1>1 DEF Quiet
  <2>3. \A u \in Clearing' : u = t \/ u \in Clearing
    BY <1>1 DEF Clearing
  <2>4. t \in Clearing' => t \in Clearing \/ Clearing = {}
    BY <1>1, <1>11 DEF Quiet, Clearing
  <2>5. \A u, v \in Clearing' : u = v
    BY <2>1, <2>3, <2>4 DEF OneClears
  <2>6. Clearing' # {} => latch'
    <3>1. CASE UNCHANGED <<latch, overlapped>> /\ (b.pc \in {"revoke", "clear"} => boots[t].pc \in {"revoke", "clear"})
      <4>1. Clearing' # {} => Clearing # {}
        BY <1>1, <2>3, <3>1 DEF Quiet, Clearing
      <4> QED  BY <2>1, <3>1, <4>1 DEF OneClears
    <3> QED  BY <3>1 DEF Quiet
  <2>7. OneClears'
    BY <1>2, <1>3, <2>1, <2>2, <2>5, <2>6, <1>0 DEF OneClears, DeviceTypeOK, LeaseOK
  <2>8. stored'.key \in {0, keyring'.now}
    <3>1. CASE stored' = stored
      BY <1>4, <2>1, <3>1 DEF KeysFit
    <3>2. CASE stored' # stored
      <4>1. /\ stored # NoDevice /\ stored.key = 0 /\ boots[t].pc = "migrate" /\ boots[t].key # 0
            /\ stored' = [stored EXCEPT !.key = boots[t].key] /\ keyring' = keyring
        BY <3>2 DEF Quiet
      <4>2. keyring.now = boots[t].key
        BY <2>1, <4>1 DEF KeysFit
      <4>3. "key" \in DOMAIN stored
        BY <1>0, <4>1 DEF DeviceTypeOK, StoredOK
      <4> QED  BY <4>1, <4>2, <4>3
    <3> QED  BY <3>1, <3>2
  <2>9. stored'.key = 0 => stored.key = 0
    <3>1. "key" \in DOMAIN stored
      BY <1>0 DEF DeviceTypeOK, StoredOK, NoDevice
    <3> QED  BY <3>1 DEF Quiet
  <2>10. ASSUME NEW u \in BootTabs, boots'[u].key # 0
         PROVE  /\ assertActiveCoordinationLease(u)' /\ boots'[u].pc \in {"save", "registered"} =>
                      keyring'.now = boots'[u].key
                /\ stored' # NoDevice /\ stored'.key = 0 /\ boots'[u].pc = "migrate" =>
                      keyring'.now = boots'[u].key
    <3>1. CASE u = t
      BY <1>1, <2>10, <3>1 DEF Quiet
    <3>2. CASE u # t
      BY <1>1, <1>3, <1>4, <1>7, <2>1, <2>9, <2>10, <3>2 DEF KeysFit
    <3> QED  BY <3>1, <3>2
  <2>11. KeysFit'
    BY <2>8, <2>10 DEF KeysFit
  <2> QED  BY <2>7, <2>11
<1>12. overlapped' \in BOOLEAN
  BY <1>5 DEF DeviceTypeOK
<1> QED  BY <1>5, <1>6, <1>9, <1>10, <1>11, <1>12 DEF BrowserInv

(* What the steps of ensureLocalDevice that move one tab leave alone. *)
Keeps(t) ==
    /\ UNCHANGED <<lost, leases, posts, registry, latch, overlapped>>
    /\ keyring' = keyring \/ keyring' = localWrappingKey
    /\ \/ stored' = stored
       \/ /\ stored # NoDevice /\ stored.key = 0 /\ boots[t].pc = "migrate" /\ boots[t].key # 0
          /\ stored' = [stored EXCEPT !.key = boots[t].key] /\ keyring' = keyring

(* A tab gives up. *)
LEMMA EndsStep ==
    ASSUME BrowserInv, NEW t \in BootTabs, BootEnds(t), Keeps(t)
    PROVE  BrowserInv'
<1>1. PICK b : b = IdleBoot
  OBVIOUS
<1>2. DeviceTypeOK
  BY DEF BrowserInv
<1>3. BootOK(b, leases) /\ b.owner = 0 /\ b.key = 0 /\ b.pc = "idle"
  BY <1>1, <1>2 DEF IdleBoot, BootOK, Identified, DeviceTypeOK
<1>4. boots' = [boots EXCEPT ![t] = b] /\ (lease' = lease \/ lease' = [lease EXCEPT !.live = FALSE])
  BY <1>1 DEF BootEnds, Boot, releaseRatchetLease
<1>5. lease.live => lease.owner # 0
  BY <1>2 DEF DeviceTypeOK, LeaseOK
<1>6. Quiet(t, b)
  BY <1>2, <1>3, <1>4, <1>5 DEF Quiet, Keeps, DeviceTypeOK
<1> QED  BY <1>6, QuietStep

(* A tab has loaded a row, that of the store if it holds the lease. *)
LEMMA LoadedStep ==
    ASSUME BrowserInv, NEW t \in BootTabs, NEW row, DeviceLoaded(t, row), Keeps(t),
           boots[t].pc \in {"load", "migrate"},
           row = NoDevice => boots[t].pc = "load" \/ boots[t].for = "wipe",
           row # NoDevice => row.id \in DeviceIds /\ row.state \in RowStates,
           row # NoDevice /\ assertActiveCoordinationLease(t) => row.id = stored.id
    PROVE  BrowserInv'
<1>0. PICK old : old = boots[t]
  OBVIOUS
<1>1. DeviceTypeOK /\ KeptOrLost
  BY DEF BrowserInv
<1>2. BootOK(old, leases)
  BY <1>0, <1>1 DEF DeviceTypeOK
<1>3. \A b : /\ boots' = [boots EXCEPT ![t] = b] /\ UNCHANGED lease /\ BootOK(b, leases)
             /\ b.owner = old.owner /\ b.key = 0
             /\ b.pc \in {"freeze", "register", "save"}
             /\ b.pc = "save" => b.id \notin lost
             /\ b.pc = "register" /\ assertActiveCoordinationLease(t) => b.id = stored.id
             => Quiet(t, b)
  BY <1>0, <1>1 DEF Quiet, Keeps, DeviceTypeOK, Identified, KeptOrLost, assertActiveCoordinationLease
<1>4. CASE old.for = "wipe" /\ UNCHANGED lease /\
           Boot(t, [old EXCEPT !.pc = "freeze", !.id = row.id, !.state = row.state, !.key = 0])
  <2>1. PICK b : b = [old EXCEPT !.pc = "freeze", !.id = row.id, !.state = row.state, !.key = 0]
    OBVIOUS
  <2>2. BootOK(b, leases) /\ b.owner = old.owner /\ b.key = 0 /\ b.pc = "freeze"
    BY <1>2, <2>1 DEF BootOK, Identified
  <2>3. Quiet(t, b)
    BY <1>3, <1>4, <2>1, <2>2 DEF Boot
  <2> QED  BY <2>3, QuietStep
<1>5. CASE BootEnds(t)
  BY <1>5, EndsStep
<1>6. CASE old.for # "wipe" /\ row.state = "pending" /\ UNCHANGED lease /\
           Boot(t, [old EXCEPT !.pc = "register", !.id = row.id, !.key = 0])
  <2>1. PICK b : b = [old EXCEPT !.pc = "register", !.id = row.id, !.key = 0]
    OBVIOUS
  <2>2. row # NoDevice
    BY <1>6 DEF NoDevice
  <2>3. BootOK(b, leases) /\ b.owner = old.owner /\ b.key = 0 /\ b.pc = "register" /\ b.id = row.id
    BY <1>2, <1>6, <2>1, <2>2 DEF BootOK, Identified
  <2>4. Quiet(t, b)
    BY <1>3, <1>6, <2>1, <2>2, <2>3 DEF Boot
  <2> QED  BY <2>4, QuietStep
<1>7. ASSUME old.for # "wipe", row.state \notin RowStates, UNCHANGED lease, NEW d \in DeviceIds,
             d \notin lost, Boot(t, [old EXCEPT !.pc = "save", !.id = d])
      PROVE  BrowserInv'
  <2>1. PICK b : b = [old EXCEPT !.pc = "save", !.id = d]
    OBVIOUS
  <2>2. old.key = 0
    BY <1>0, <1>2, <1>7 DEF BootOK
  <2>3. BootOK(b, leases) /\ b.owner = old.owner /\ b.key = 0 /\ b.pc = "save" /\ b.id = d
    BY <1>2, <1>7, <2>1, <2>2 DEF BootOK, Identified
  <2>4. Quiet(t, b)
    BY <1>3, <1>7, <2>1, <2>3 DEF Boot
  <2> QED  BY <2>4, QuietStep
<1> QED  BY <1>0, <1>4, <1>5, <1>6, <1>7 DEF DeviceLoaded, RowStates

(* A tab has nothing to load. *)
LEMMA FailsStep ==
    ASSUME BrowserInv, NEW t \in BootTabs, LoadFails(t), Keeps(t),
           boots[t].pc \in {"load", "migrate"} \/ BootEnds(t)
    PROVE  BrowserInv'
<1>1. CASE BootEnds(t)
  BY <1>1, EndsStep
<1>2. CASE boots[t].for = "wipe" /\ DeviceLoaded(t, NoDevice) /\ ~BootEnds(t)
  <2>1. PICK row : row = NoDevice
    OBVIOUS
  <2> QED  BY <1>2, <2>1, LoadedStep
<1> QED  BY <1>1, <1>2 DEF LoadFails

(* The row is read, under the lease or by a wipe. *)
LEMMA LoadStep ==
    ASSUME BrowserInv, NEW t \in BootTabs, loadDeviceMaterial(t)
    PROVE  BrowserInv'
<1>1. /\ boots[t].pc = "load" /\ UNCHANGED <<stored, latch, lost, overlapped, leases, posts, registry>>
      /\ DeviceTypeOK /\ KeptOrLost
  BY DEF loadDeviceMaterial, RemoteSame, BrowserInv
<1>2. PICK row : row = stored
  OBVIOUS
<1>3. PICK none : none = NoDevice
  OBVIOUS
<1>4. keyring' = keyring \/ keyring' = localWrappingKey => Keeps(t)
  BY <1>1 DEF Keeps
<1>5. row # none => row.id \in DeviceIds /\ row.state \in RowStates
  BY <1>1, <1>2, <1>3 DEF DeviceTypeOK, StoredOK
<1>6. CASE LoadFails(t) /\ (keyring' = keyring \/ keyring' = localWrappingKey)
  BY <1>1, <1>4, <1>6, FailsStep
<1>7. CASE DeviceLoaded(t, none) /\ UNCHANGED keyring
  BY <1>1, <1>3, <1>4, <1>7, LoadedStep
<1>8. CASE DeviceLoaded(t, row) /\ keyring' = localWrappingKey
  BY <1>1, <1>2, <1>3, <1>4, <1>5, <1>8, LoadedStep
<1>9. CASE /\ stored # NoDevice
           /\ Boot(t, [boots[t] EXCEPT !.pc = "migrate", !.id = stored.id, !.state = stored.state])
           /\ UNCHANGED <<lease, keyring>>
  <2>0. PICK old : old = boots[t]
    OBVIOUS
  <2>1. PICK b : b = [old EXCEPT !.pc = "migrate", !.id = row.id, !.state = row.state]
    OBVIOUS
  <2>2. BootOK(old, leases) /\ old.pc = "load"
    BY <1>1, <2>0 DEF DeviceTypeOK
  <2>3. BootOK(b, leases) /\ b.owner = old.owner /\ b.key = 0 /\ b.pc = "migrate" /\ b.id = row.id
    BY <1>2, <1>3, <1>5, <1>9, <2>1, <2>2 DEF BootOK, Identified
  <2>4. boots' = [boots EXCEPT ![t] = b]
    BY <1>2, <1>9, <2>0, <2>1 DEF Boot
  <2>5. Quiet(t, b)
    BY <1>1, <1>2, <1>9, <2>0, <2>3, <2>4 DEF Quiet, DeviceTypeOK, KeptOrLost
  <2> QED  BY <2>5, QuietStep
<1> QED  BY <1>2, <1>3, <1>6, <1>7, <1>8, <1>9 DEF loadDeviceMaterial

(* A key is in the keyring before anything is encrypted with it. *)
LEMMA ProtectStep ==
    ASSUME BrowserInv, NEW t \in BootTabs, protectDeviceMaterial(t)
    PROVE  BrowserInv'
<1>1. /\ boots[t].pc \in {"migrate", "save", "registered"}
      /\ UNCHANGED <<stored, latch, lost, overlapped, leases, posts, registry>>
      /\ DeviceTypeOK /\ HolderIsCurrent
  BY DEF protectDeviceMaterial, RemoteSame, BrowserInv
<1>2. CASE LoadFails(t) /\ UNCHANGED keyring
  <2>1. Keeps(t)
    BY <1>1, <1>2 DEF Keeps
  <2>2. BootOK(boots[t], leases)
    BY <1>1 DEF DeviceTypeOK
  <2>3. boots[t].pc = "migrate" \/ BootEnds(t)
    BY <1>1, <1>2, <2>2 DEF BootOK, LoadFails
  <2> QED  BY <1>2, <2>1, <2>3, FailsStep
<1>3. CASE /\ keyring' = localWrappingKey /\ UNCHANGED lease
           /\ Boot(t, [boots[t] EXCEPT !.key = localWrappingKey.now])
  <2>0. PICK old : old = boots[t]
    OBVIOUS
  <2>k. PICK k : k = localWrappingKey.now
    OBVIOUS
  <2>n. k \in Nat /\ keyring'.now = k
    BY <1>1, <1>3, <2>k DEF localWrappingKey, DeviceTypeOK
  <2>1. PICK b : b = [old EXCEPT !.key = k]
    OBVIOUS
  <2>2. BootOK(old, leases) /\ old.pc \in {"migrate", "save", "registered"}
    BY <1>1, <2>0 DEF DeviceTypeOK
  <2>3. BootOK(b, leases) /\ b.owner = old.owner /\ b.key = k /\ b.pc = old.pc /\ b.id = old.id
    BY <2>1, <2>2, <2>n DEF BootOK
  <2>4. boots' = [boots EXCEPT ![t] = b]
    BY <1>3, <2>0, <2>1, <2>k DEF Boot
  <2>5. lease.live /\ b.owner = lease.owner => b.id \notin lost /\ (b.pc = "migrate" => stored.id = b.id)
    BY <1>1, <2>0, <2>2, <2>3 DEF HolderIsCurrent, assertActiveCoordinationLease, Identified
  <2>6. Quiet(t, b)
    BY <1>1, <1>3, <2>0, <2>2, <2>3, <2>4, <2>5, <2>n DEF Quiet, DeviceTypeOK
  <2> QED  BY <2>6, QuietStep
<1> QED  BY <1>2, <1>3 DEF protectDeviceMaterial

(* A migration protects the row it has read, if that is still the row. *)
LEMMA MigrateStep ==
    ASSUME BrowserInv, NEW t \in BootTabs, migrateDeviceMaterial(t)
    PROVE  BrowserInv'
<1>1. /\ boots[t].pc = "migrate" /\ boots[t].key # 0
      /\ UNCHANGED <<keyring, latch, lost, overlapped, leases, posts, registry>>
      /\ DeviceTypeOK /\ HolderIsCurrent
  BY DEF migrateDeviceMaterial, RemoteSame, BrowserInv
<1>2. CASE LoadFails(t) /\ UNCHANGED stored
  <2>1. Keeps(t)
    BY <1>1, <1>2 DEF Keeps
  <2> QED  BY <1>1, <1>2, <2>1, FailsStep
<1>3. CASE ~(LoadFails(t) /\ UNCHANGED stored)
  <2>1. PICK read : read = [id |-> boots[t].id, state |-> boots[t].state, key |-> 0]
    OBVIOUS
  <2>2. /\ stored' = IF stored = read THEN [read EXCEPT !.key = boots[t].key] ELSE stored
        /\ DeviceLoaded(t, read)
    BY <1>3, <2>1 DEF migrateDeviceMaterial
  <2>3. BootOK(boots[t], leases)
    BY <1>1 DEF DeviceTypeOK
  <2>4. read.id \in DeviceIds /\ read.state \in RowStates /\ read.key = 0 /\ read.id = boots[t].id
    BY <1>1, <2>1, <2>3 DEF BootOK, Identified
  <2>5. read # NoDevice
    BY <2>4, NoneIsNoId
  <2>6. Keeps(t)
    BY <1>1, <2>2, <2>4, <2>5 DEF Keeps
  <2>7. assertActiveCoordinationLease(t) => read.id = stored.id
    BY <1>1, <2>4 DEF HolderIsCurrent
  <2> QED  BY <1>1, <2>2, <2>4, <2>5, <2>6, <2>7, LoadedStep
<1> QED  BY <1>2, <1>3

(* A tab has a lease, and nobody else. *)
LEMMA BeginStep ==
    ASSUME BrowserInv, NEW t \in BootTabs, BeginEnsure(t)
    PROVE  BrowserInv'
<1>0. DeviceTypeOK /\ OwnersApart /\ KeptOrLost
  BY DEF BrowserInv
<1>1. PICK b : b = [IdleBoot EXCEPT !.pc = "load", !.owner = leases + 1]
  OBVIOUS
<1>2. /\ ~latch /\ ~lease.live /\ leases' = leases + 1 /\ lease' = [owner |-> leases + 1, live |-> TRUE]
      /\ UNCHANGED <<stored, keyring, latch, lost, overlapped, posts, registry>>
      /\ boots' = [boots EXCEPT ![t] = b]
  BY <1>1 DEF BeginEnsure, acquireRatchetLeaseRecord, mutateRatchetLease, Boot, RemoteSame
<1>3. /\ boots'[t] = b /\ (\A u \in BootTabs \ {t} : boots'[u] = boots[u]) /\ DOMAIN boots' = BootTabs
      /\ leases \in Nat
  BY <1>0, <1>2 DEF DeviceTypeOK
<1>4. BootOK(b, leases + 1) /\ b.owner = leases + 1 /\ b.pc = "load" /\ b.key = 0
  BY <1>1, <1>3 DEF BootOK, IdleBoot, Identified
<1>5. \A u \in BootTabs : BootOK(boots[u], leases + 1) /\ boots[u].owner # leases + 1
  BY <1>0, <1>3 DEF DeviceTypeOK, BootOK
<1>6. DeviceTypeOK'
  <2>1. \A u \in BootTabs : BootOK(boots'[u], leases')
    BY <1>2, <1>3, <1>4, <1>5
  <2>2. LeaseOK(lease', leases')
    BY <1>2, <1>3 DEF LeaseOK
  <2> QED  BY <1>0, <1>2, <1>3, <2>1, <2>2 DEF DeviceTypeOK
<1>7. OwnersApart'
  BY <1>0, <1>3, <1>4, <1>5 DEF OwnersApart
<1>8. \A u \in BootTabs \ {t} : ~assertActiveCoordinationLease(u)'
  BY <1>2, <1>3, <1>5 DEF assertActiveCoordinationLease
<1>9. HolderIsCurrent'
  BY <1>3, <1>4, <1>8 DEF HolderIsCurrent, Identified
<1>10. KeptOrLost'
  BY <1>0, <1>2 DEF KeptOrLost
<1>11. ASSUME ~overlapped' PROVE OneClears' /\ KeysFit'
  <2>1. OneClears /\ KeysFit
    BY <1>2, <1>11 DEF BrowserInv
  <2>2. Clearing = {}
    BY <1>2, <2>1 DEF OneClears
  <2>3. Clearing' = {} /\ \A u \in BootTabs : boots'[u].pc # "clearKey"
    BY <1>3, <1>4, <2>2 DEF Clearing
  <2>4. OneClears'
    BY <2>3 DEF OneClears
  <2>5. KeysFit'
    BY <1>2, <1>3, <1>4, <1>8, <2>1 DEF KeysFit
  <2> QED  BY <2>4, <2>5
<1>12. overlapped' \in BOOLEAN
  BY <1>6 DEF DeviceTypeOK
<1> QED  BY <1>6, <1>7, <1>9, <1>10, <1>11, <1>12 DEF BrowserInv

(* The holder of the lease stores its row, and then moves as it may. *)
Stores(t, row, b) ==
    /\ SaveAllowed(t) /\ boots[t].pc \in {"save", "registered"} /\ boots[t].key # 0
    /\ UNCHANGED <<keyring, latch, lost, overlapped, leases, posts, registry>>
    /\ stored' = row /\ row.id = boots[t].id /\ row.key = boots[t].key /\ StoredOK(row)
    /\ boots' = [boots EXCEPT ![t] = b] /\ BootOK(b, leases) /\ b.key = 0
    /\ \/ b.owner = boots[t].owner /\ b.pc = "register" /\ b.id = boots[t].id /\ lease' = lease
       \/ b = IdleBoot /\ lease' = [lease EXCEPT !.live = FALSE]

(* No other tab can have the lease or need the key of a row that was there. *)
LEMMA StoresStep ==
    ASSUME BrowserInv, NEW t \in BootTabs, NEW row, NEW b, Stores(t, row, b)
    PROVE  BrowserInv'
<1>0. DeviceTypeOK /\ OwnersApart /\ HolderIsCurrent /\ KeptOrLost
  BY DEF BrowserInv
<1>1. boots'[t] = b /\ (\A u \in BootTabs \ {t} : boots'[u] = boots[u]) /\ DOMAIN boots' = BootTabs
  BY <1>0 DEF Stores, DeviceTypeOK
<1>2. assertActiveCoordinationLease(t) /\ (stored = NoDevice \/ stored.id = boots[t].id)
  BY DEF Stores, SaveAllowed
<1>3. boots[t].owner = lease.owner /\ lease.owner # 0 /\ lease.live
  BY <1>0, <1>2 DEF assertActiveCoordinationLease, DeviceTypeOK, LeaseOK
<1>4. boots[t].id \in DeviceIds /\ boots[t].id \notin lost
  BY <1>0, <1>2 DEF Stores, HolderIsCurrent, Identified, DeviceTypeOK, BootOK
<1>5. LeaseOK(lease', leases) /\ lease'.owner = lease.owner
  BY <1>0 DEF Stores, DeviceTypeOK, LeaseOK
<1>6. DeviceTypeOK'
  <2>1. \A u \in BootTabs : BootOK(boots'[u], leases)
    BY <1>0, <1>1 DEF Stores, DeviceTypeOK
  <2> QED  BY <1>0, <1>1, <1>5, <2>1 DEF Stores, DeviceTypeOK
<1>7. b.owner \in {0, boots[t].owner} /\ b.pc \in {"register", "idle"}
  BY DEF Stores, IdleBoot
<1>8. OwnersApart'
  BY <1>0, <1>1, <1>7 DEF OwnersApart
<1>9. \A u \in BootTabs \ {t} : ~assertActiveCoordinationLease(u)'
  BY <1>0, <1>1, <1>3, <1>5 DEF assertActiveCoordinationLease, OwnersApart
<1>10. HolderIsCurrent'
  BY <1>1, <1>4, <1>9 DEF Stores, HolderIsCurrent, Identified, IdleBoot
<1>11. KeptOrLost'
  BY <1>0, <1>2, <1>4, NoneIsNoId DEF Stores, KeptOrLost
<1>12. ASSUME ~overlapped' PROVE OneClears' /\ KeysFit'
  <2>1. OneClears /\ KeysFit
    BY <1>12 DEF Stores, BrowserInv
  <2>2. \A u \in BootTabs : boots'[u].pc # "clearKey"
    BY <1>1, <1>3, <1>7, <2>1 DEF OneClears
  <2>3. Clearing' \subseteq Clearing
    BY <1>1, <1>7 DEF Clearing
  <2>4. OneClears'
    BY <2>1, <2>2, <2>3 DEF Stores, OneClears
  <2>5. keyring.now = boots[t].key
    BY <1>2, <2>1 DEF Stores, KeysFit
  <2>6. KeysFit'
    BY <1>1, <1>9, <2>5 DEF Stores, KeysFit
  <2> QED  BY <2>4, <2>6
<1>13. overlapped' \in BOOLEAN
  BY <1>6 DEF DeviceTypeOK
<1> QED  BY <1>6, <1>8, <1>10, <1>11, <1>12, <1>13 DEF BrowserInv

(* Both saves of ensureLocalDevice. *)
LEMMA SaveStep ==
    ASSUME BrowserInv, NEW t \in BootTabs, saveDeviceMaterial(t)
    PROVE  BrowserInv'
<1>1. /\ boots[t].pc \in {"save", "registered"} /\ boots[t].key # 0 /\ DeviceTypeOK
      /\ UNCHANGED <<keyring, latch, lost, overlapped, leases, posts, registry>>
  BY DEF saveDeviceMaterial, RemoteSame, BrowserInv
<1>2. CASE BootEnds(t) /\ UNCHANGED stored
  <2>1. Keeps(t)
    BY <1>1, <1>2 DEF Keeps
  <2> QED  BY <1>2, <2>1, EndsStep
<1>3. CASE ~(BootEnds(t) /\ UNCHANGED stored)
  <2>0. PICK old : old = boots[t]
    OBVIOUS
  <2>1. PICK row : row = [id |-> old.id, key |-> old.key,
                          state |-> IF old.pc = "save" THEN "pending" ELSE "registered"]
    OBVIOUS
  <2>2. /\ SaveAllowed(t) /\ stored' = row
        /\ IF old.pc = "save"
           THEN Boot(t, [old EXCEPT !.pc = "register", !.key = 0]) /\ UNCHANGED lease
           ELSE BootEnds(t)
    BY <1>3, <2>0, <2>1 DEF saveDeviceMaterial
  <2>3. BootOK(old, leases) /\ old.pc \in {"save", "registered"} /\ old.key # 0
    BY <1>1, <2>0 DEF DeviceTypeOK
  <2>4. StoredOK(row) /\ row.id = old.id /\ row.key = old.key
    BY <2>1, <2>3 DEF StoredOK, BootOK, Identified, RowStates
  <2>5. CASE old.pc = "save"
    <3>1. PICK b : b = [old EXCEPT !.pc = "register", !.key = 0]
      OBVIOUS
    <3>2. BootOK(b, leases) /\ b.owner = old.owner /\ b.key = 0 /\ b.pc = "register" /\ b.id = old.id
      BY <2>3, <2>5, <3>1 DEF BootOK, Identified
    <3>3. Stores(t, row, b)
      BY <1>1, <2>0, <2>2, <2>4, <2>5, <3>1, <3>2 DEF Stores, Boot
    <3> QED  BY <3>3, StoresStep
  <2>6. CASE old.pc # "save"
    <3>1. PICK b : b = IdleBoot
      OBVIOUS
    <3>2. BootOK(b, leases) /\ b.key = 0
      BY <1>1, <3>1 DEF BootOK, Identified, IdleBoot, DeviceTypeOK
    <3>3. boots' = [boots EXCEPT ![t] = b] /\ lease' = [lease EXCEPT !.live = FALSE]
      BY <2>2, <2>6, <3>1 DEF BootEnds, Boot, releaseRatchetLease, SaveAllowed, assertActiveCoordinationLease
    <3>4. Stores(t, row, b)
      BY <1>1, <2>0, <2>2, <2>4, <3>1, <3>2, <3>3 DEF Stores
    <3> QED  BY <3>4, StoresStep
  <2> QED  BY <2>5, <2>6
<1> QED  BY <1>2, <1>3

(* A tab whose lease, row and identity nobody looks at moves on. *)
LEMMA IdleStep ==
    ASSUME BrowserInv, NEW t \in BootTabs, NEW b, boots' = [boots EXCEPT ![t] = b], BootOK(b, leases),
           b.owner \in {0, boots[t].owner}, b.key = 0, b.pc \notin Identified \cup {"clearKey"},
           UNCHANGED <<stored, keyring, lease, lost, leases, posts>>,
           DOMAIN registry' = DeviceIds, \A d \in DeviceIds : registry'[d] = "active" => registry[d] = "active",
           \/ /\ UNCHANGED <<latch, overlapped>>
              /\ b.pc \in {"revoke", "clear"} => boots[t].pc \in {"revoke", "clear"}
           \/ latch' = TRUE /\ (overlapped' = TRUE \/ (Clearing = {} /\ overlapped' = overlapped))
    PROVE  BrowserInv'
<1>1. Quiet(t, b)
  BY DEF Quiet, BrowserInv, DeviceTypeOK, Identified
<1> QED  BY <1>1, QuietStep

(* Only the identity that is stored is posted. *)
LEMMA RegisterStep ==
    ASSUME BrowserInv, NEW t \in BootTabs, registerStoredDevice(t)
    PROVE  BrowserInv'
<1>1. /\ boots[t].pc = "register" /\ UNCHANGED <<stored, keyring, latch, lost, overlapped, leases, registry>>
      /\ DeviceTypeOK /\ HolderIsCurrent
  BY DEF registerStoredDevice, BrowserInv
<1>2. CASE BootEnds(t) /\ UNCHANGED posts
  <2>1. Keeps(t)
    BY <1>1, <1>2 DEF Keeps
  <2> QED  BY <1>2, <2>1, EndsStep
<1>3. CASE /\ assertActiveCoordinationLease(t) /\ posts' = posts \cup {boots[t].id} /\ UNCHANGED lease
           /\ Boot(t, [boots[t] EXCEPT !.pc = "posted"])
  <2>0. PICK old : old = boots[t]
    OBVIOUS
  <2>1. PICK b : b = [old EXCEPT !.pc = "posted"]
    OBVIOUS
  <2>2. BootOK(old, leases) /\ old.pc = "register" /\ old.id \notin lost /\ stored.id = old.id
    BY <1>1, <1>3, <2>0 DEF DeviceTypeOK, HolderIsCurrent, Identified
  <2>3. /\ BootOK(b, leases) /\ b.owner = old.owner /\ b.key = 0 /\ b.pc = "posted" /\ b.id = old.id
        /\ old.id \in DeviceIds
    BY <2>1, <2>2 DEF BootOK, Identified
  <2>4. boots' = [boots EXCEPT ![t] = b]
    BY <1>3, <2>0, <2>1 DEF Boot
  <2>5. Quiet(t, b)
    BY <1>1, <1>3, <2>0, <2>2, <2>3, <2>4 DEF Quiet, DeviceTypeOK
  <2> QED  BY <2>5, QuietStep
<1> QED  BY <1>2, <1>3 DEF registerStoredDevice

(* The answer counts only for the tab that waits for it. *)
LEMMA AnsweredStep ==
    ASSUME BrowserInv, NEW t \in BootTabs, RegisterAnswered(t)
    PROVE  BrowserInv'
<1>1. /\ boots[t].pc = "posted" /\ UNCHANGED <<stored, keyring, lost, leases, posts, registry>>
      /\ DeviceTypeOK /\ HolderIsCurrent
  BY DEF RegisterAnswered, RemoteSame, BrowserInv
<1>0. PICK old : old = boots[t]
  OBVIOUS
<1>2. BootOK(old, leases) /\ old.pc = "posted"
  BY <1>0, <1>1 DEF DeviceTypeOK
<1>3. CASE BootEnds(t) /\ UNCHANGED <<latch, overlapped>>
  <2>1. Keeps(t)
    BY <1>1, <1>3 DEF Keeps
  <2> QED  BY <1>3, <2>1, EndsStep
<1>4. CASE Boot(t, [old EXCEPT !.pc = "registered"]) /\ UNCHANGED <<lease, latch, overlapped>>
  <2>1. PICK b : b = [old EXCEPT !.pc = "registered"]
    OBVIOUS
  <2>2. BootOK(b, leases) /\ b.owner = old.owner /\ b.key = 0 /\ b.pc = "registered" /\ b.id = old.id
    BY <1>2, <2>1 DEF BootOK, Identified
  <2>3. lease.live /\ b.owner = lease.owner => b.id \notin lost
    BY <1>0, <1>1, <2>2 DEF HolderIsCurrent, assertActiveCoordinationLease, Identified
  <2>4. Quiet(t, b)
    BY <1>0, <1>1, <1>4, <2>1, <2>2, <2>3 DEF Quiet, DeviceTypeOK, Boot
  <2> QED  BY <2>4, QuietStep
<1>5. CASE /\ latch' = TRUE /\ overlapped' = (overlapped \/ Clearing # {}) /\ UNCHANGED lease
           /\ Boot(t, [old EXCEPT !.pc = "clear", !.for = "revoked"])
  <2>1. PICK b : b = [old EXCEPT !.pc = "clear", !.for = "revoked"]
    OBVIOUS
  <2>2. BootOK(b, leases) /\ b.owner = old.owner /\ b.key = 0 /\ b.pc = "clear"
    BY <1>2, <2>1 DEF BootOK, Identified
  <2>3. overlapped' = TRUE \/ (Clearing = {} /\ overlapped' = overlapped)
    BY <1>1, <1>5, Zenon DEF DeviceTypeOK
  <2> QED  BY <1>0, <1>1, <1>5, <2>1, <2>2, <2>3, IdleStep DEF Boot, Identified, DeviceTypeOK
<1> QED  BY <1>0, <1>3, <1>4, <1>5 DEF RegisterAnswered

(* A tab begins to wipe, freezes the others, and revokes its device. *)
LEMMA WipeStep ==
    ASSUME BrowserInv, NEW t \in BootTabs, WipeBegins(t) \/ WipeFreezes(t) \/ WipeRevokes(t)
    PROVE  BrowserInv'
<1>0. PICK old : old = boots[t]
  OBVIOUS
<1>1. DeviceTypeOK /\ BootOK(old, leases)
  BY <1>0 DEF BrowserInv, DeviceTypeOK
<1>2. CASE WipeBegins(t)
  <2>1. PICK b : b = [IdleBoot EXCEPT !.pc = "load", !.for = "wipe"]
    OBVIOUS
  <2>2. BootOK(b, leases) /\ b.owner = 0 /\ b.key = 0 /\ b.pc = "load"
    BY <1>1, <2>1 DEF BootOK, Identified, IdleBoot, DeviceTypeOK
  <2> QED  BY <1>1, <1>2, <2>1, <2>2, IdleStep DEF Boot, WipeBegins, Identified, RemoteSame, DeviceTypeOK
<1>3. CASE WipeFreezes(t)
  <2>0. PICK pc : pc = IF old.state = "registered" THEN "revoke" ELSE "clear"
    OBVIOUS
  <2>1. PICK b : b = [old EXCEPT !.pc = pc]
    OBVIOUS
  <2>k. old.pc = "freeze" /\ old.key = 0
    BY <1>0, <1>1, <1>3 DEF WipeFreezes, BootOK
  <2>2. BootOK(b, leases) /\ b.owner = old.owner /\ b.key = 0 /\ b.pc \in {"revoke", "clear"}
    BY <1>1, <2>0, <2>1, <2>k DEF BootOK, Identified
  <2>3. overlapped' = TRUE \/ (Clearing = {} /\ overlapped' = overlapped)
    BY <1>1, <1>3, Zenon DEF DeviceTypeOK, WipeFreezes
  <2> QED  BY <1>0, <1>1, <1>3, <2>0, <2>1, <2>2, <2>3, IdleStep
           DEF Boot, WipeFreezes, Identified, RemoteSame, DeviceTypeOK
<1>4. CASE WipeRevokes(t)
  <2>1. PICK b : b = [old EXCEPT !.pc = "clear"]
    OBVIOUS
  <2>2. old.pc = "revoke" /\ old.key = 0
    BY <1>0, <1>1, <1>4 DEF WipeRevokes, BootOK
  <2>3. BootOK(b, leases) /\ b.owner = old.owner /\ b.key = 0 /\ b.pc = "clear"
    BY <1>1, <2>1, <2>2 DEF BootOK, Identified
  <2>4. DOMAIN registry' = DeviceIds /\ \A d \in DeviceIds : registry'[d] = "active" => registry[d] = "active"
    BY <1>1, <1>4 DEF WipeRevokes, DeviceTypeOK
  <2>5. UNCHANGED <<stored, keyring, lease, lost, leases, posts, latch, overlapped>>
    BY <1>4 DEF WipeRevokes, LocalSame
  <2>6. boots' = [boots EXCEPT ![t] = b]
    BY <1>0, <1>4, <2>1 DEF WipeRevokes, Boot
  <2> QED  BY <1>0, <2>2, <2>3, <2>4, <2>5, <2>6, IdleStep DEF Identified
<1> QED  BY <1>2, <1>3, <1>4

(* The database is cleared: what was stored is lost, and nobody has a lease. *)
LEMMA ClearStep ==
    ASSUME BrowserInv, NEW t \in BootTabs, clearLocalE2eeData(t)
    PROVE  BrowserInv'
<1>0. DeviceTypeOK /\ OwnersApart /\ KeptOrLost
  BY DEF BrowserInv
<1>o. PICK old : old = boots[t]
  OBVIOUS
<1>1. PICK b : b = [old EXCEPT !.pc = "clearKey"]
  OBVIOUS
<1>2. /\ old.pc = "clear" /\ lost' = lost \cup ({stored.id} \ {"none"})
      /\ stored' = NoDevice /\ lease' = FreeLease /\ boots' = [boots EXCEPT ![t] = b]
      /\ UNCHANGED <<keyring, latch, overlapped, leases, posts, registry>>
  BY <1>o, <1>1 DEF clearLocalE2eeData, Boot, RemoteSame
<1>3. boots'[t] = b /\ (\A u \in BootTabs \ {t} : boots'[u] = boots[u]) /\ DOMAIN boots' = BootTabs
  BY <1>0, <1>2 DEF DeviceTypeOK
<1>4. BootOK(old, leases)
  BY <1>0, <1>o DEF DeviceTypeOK
<1>5. BootOK(b, leases) /\ b.owner = old.owner /\ b.key = 0 /\ b.pc = "clearKey"
  BY <1>1, <1>2, <1>4 DEF BootOK, Identified
<1>6. DeviceTypeOK'
  <2>1. \A u \in BootTabs : BootOK(boots'[u], leases)
    BY <1>0, <1>3, <1>5 DEF DeviceTypeOK
  <2>2. LeaseOK(lease', leases)
    BY <1>0, <1>2 DEF LeaseOK, FreeLease, DeviceTypeOK
  <2>3. StoredOK(stored')
    BY <1>2 DEF StoredOK
  <2>4. "none" \notin lost'
    BY <1>0, <1>2 DEF DeviceTypeOK
  <2> QED  BY <1>0, <1>2, <1>3, <2>1, <2>2, <2>3, <2>4 DEF DeviceTypeOK
<1>7. OwnersApart'
  BY <1>0, <1>o, <1>3, <1>5 DEF OwnersApart
<1>8. ~lease'.live
  BY <1>2 DEF FreeLease
<1>9. HolderIsCurrent'
  BY <1>8 DEF HolderIsCurrent, assertActiveCoordinationLease
<1>10. KeptOrLost'
  BY <1>0, <1>2, <1>6, NoneIsNoId DEF KeptOrLost, DeviceTypeOK
<1>11. ASSUME ~overlapped' PROVE OneClears' /\ KeysFit'
  <2>1. OneClears /\ KeysFit
    BY <1>2, <1>11 DEF BrowserInv
  <2>2. t \in Clearing /\ Clearing' = Clearing
    BY <1>o, <1>2, <1>3, <1>5 DEF Clearing
  <2>3. OneClears'
    BY <1>2, <1>8, <2>1, <2>2 DEF OneClears
  <2>4. stored'.key = 0 /\ stored' = NoDevice
    BY <1>2, NoneIsNoId
  <2>5. KeysFit'
    BY <1>8, <2>4 DEF KeysFit, assertActiveCoordinationLease
  <2> QED  BY <2>3, <2>5
<1>12. overlapped' \in BOOLEAN
  BY <1>6 DEF DeviceTypeOK
<1> QED  BY <1>6, <1>7, <1>9, <1>10, <1>11, <1>12 DEF BrowserInv

(* Then the key, of which nothing is left that needs it. *)
LEMMA ClearKeyStep ==
    ASSUME BrowserInv, NEW t \in BootTabs, clearLocalProtectionKey(t)
    PROVE  BrowserInv'
<1>0. DeviceTypeOK /\ OwnersApart /\ HolderIsCurrent /\ KeptOrLost
  BY DEF BrowserInv
<1>1. PICK b : b = IdleBoot
  OBVIOUS
<1>2. /\ boots[t].pc = "clearKey" /\ keyring' = [keyring EXCEPT !.now = 0]
      /\ boots' = [boots EXCEPT ![t] = b]
      /\ UNCHANGED <<stored, lease, lost, overlapped, leases, posts, registry>>
  BY <1>1 DEF clearLocalProtectionKey, Boot, RemoteSame
<1>l. latch' \in BOOLEAN
  BY Zenon DEF clearLocalProtectionKey
<1>3. boots'[t] = b /\ (\A u \in BootTabs \ {t} : boots'[u] = boots[u]) /\ DOMAIN boots' = BootTabs
  BY <1>0, <1>2 DEF DeviceTypeOK
<1>5. BootOK(b, leases) /\ b.owner = 0 /\ b.key = 0 /\ b.pc = "idle"
  BY <1>0, <1>1 DEF BootOK, Identified, IdleBoot, DeviceTypeOK
<1>6. DeviceTypeOK'
  <2>1. \A u \in BootTabs : BootOK(boots'[u], leases)
    BY <1>0, <1>3, <1>5 DEF DeviceTypeOK
  <2>2. DOMAIN keyring' = {"now", "made"} /\ keyring'.now \in Nat /\ keyring'.made \in Nat
    BY <1>0, <1>2 DEF DeviceTypeOK
  <2> QED  BY <1>0, <1>2, <1>3, <1>l, <2>1, <2>2 DEF DeviceTypeOK
<1>7. OwnersApart'
  BY <1>0, <1>3, <1>5 DEF OwnersApart
<1>9. HolderIsCurrent'
  BY <1>0, <1>2, <1>3, <1>5 DEF HolderIsCurrent, assertActiveCoordinationLease, DeviceTypeOK, LeaseOK, Identified
<1>10. KeptOrLost'
  BY <1>0, <1>2 DEF KeptOrLost
<1>11. ASSUME ~overlapped' PROVE OneClears' /\ KeysFit'
  <2>1. OneClears /\ KeysFit
    BY <1>2, <1>11 DEF BrowserInv
  <2>2. t \in Clearing /\ stored = NoDevice /\ ~lease.live
    BY <1>2, <2>1 DEF Clearing, OneClears
  <2>3. Clearing' = {}
    BY <1>3, <1>5, <2>1, <2>2 DEF Clearing, OneClears
  <2>4. \A u \in BootTabs : boots'[u].pc # "clearKey"
    BY <2>3 DEF Clearing
  <2>5. OneClears'
    BY <2>3, <2>4 DEF OneClears
  <2>6. KeysFit'
    BY <1>2, <2>2, NoneIsNoId DEF KeysFit, assertActiveCoordinationLease
  <2> QED  BY <2>5, <2>6
<1>12. overlapped' \in BOOLEAN
  BY <1>6 DEF DeviceTypeOK
<1> QED  BY <1>6, <1>7, <1>9, <1>10, <1>11, <1>12 DEF BrowserInv

(* What happens outside the tabs: the lease ends, the server works. *)
LEMMA OutsideStep ==
    ASSUME BrowserInv, UNCHANGED <<stored, keyring, boots, latch, lost, overlapped, leases>>,
           lease' = lease \/ lease' = [lease EXCEPT !.live = FALSE],
           posts' \subseteq posts, DOMAIN registry' = DeviceIds,
           \A d \in DeviceIds : registry'[d] = "active" => registry[d] = "active" \/ d \in posts
    PROVE  BrowserInv'
<1>0. DeviceTypeOK /\ OwnersApart /\ HolderIsCurrent /\ KeptOrLost
  BY DEF BrowserInv
<1>1. LeaseOK(lease', leases) /\ lease'.owner = lease.owner /\ (lease'.live => lease.live)
  BY <1>0 DEF DeviceTypeOK, LeaseOK
<1>2. DeviceTypeOK' /\ OwnersApart'
  BY <1>0, <1>1 DEF DeviceTypeOK, OwnersApart
<1>3. \A u \in BootTabs : assertActiveCoordinationLease(u)' => assertActiveCoordinationLease(u)
  BY <1>1 DEF assertActiveCoordinationLease
<1>4. HolderIsCurrent'
  BY <1>0, <1>3 DEF HolderIsCurrent
<1>5. KeptOrLost'
  BY <1>0 DEF KeptOrLost
<1>6. ASSUME ~overlapped' PROVE OneClears' /\ KeysFit'
  <2>1. OneClears /\ KeysFit
    BY <1>6 DEF BrowserInv
  <2>2. Clearing' = Clearing
    BY DEF Clearing
  <2>3. OneClears'
    BY <1>0, <1>1, <2>1, <2>2 DEF OneClears, DeviceTypeOK, LeaseOK
  <2>4. KeysFit'
    BY <1>3, <2>1 DEF KeysFit
  <2> QED  BY <2>3, <2>4
<1>7. overlapped' \in BOOLEAN
  BY <1>2 DEF DeviceTypeOK
<1> QED  BY <1>2, <1>4, <1>5, <1>6, <1>7 DEF BrowserInv

(* Each step keeps what the browser relies on. *)
LEMMA BrowserNext == BrowserInv /\ [LocalDeviceNext]_deviceVars => BrowserInv'
<1> SUFFICES ASSUME BrowserInv, [LocalDeviceNext]_deviceVars PROVE BrowserInv'
  OBVIOUS
<1>0. DeviceTypeOK
  BY DEF BrowserInv
<1>1. ASSUME NEW t \in BootTabs, BootStep(t) PROVE BrowserInv'
  BY <1>1, BeginStep, LoadStep, ProtectStep, MigrateStep, SaveStep, RegisterStep, AnsweredStep, WipeStep,
     ClearStep, ClearKeyStep DEF BootStep
<1>2. CASE LeaseExpires
  BY <1>0, <1>2, OutsideStep DEF LeaseExpires, RemoteSame, DeviceTypeOK
<1>3. CASE UNCHANGED deviceVars \/ RotateCreates \/ \E d \in DeviceIds : RotateDeletes(d)
  BY <1>0, <1>3, OutsideStep DEF deviceVars, RotateCreates, RotateDeletes, LocalSame, DeviceTypeOK
<1>4. ASSUME NEW r \in Readers, BundleCommits(r) \/ \E d \in DeviceIds : consumePrekeyBundles(r, d)
      PROVE  BrowserInv'
  BY <1>0, <1>4, OutsideStep DEF BundleCommits, consumePrekeyBundles, LocalSame, DeviceTypeOK
<1>5. ASSUME NEW d \in DeviceIds, registerDevice(d) \/ revokeDevice(d) PROVE BrowserInv'
  <2>1. /\ UNCHANGED <<stored, keyring, boots, latch, lost, overlapped, leases, lease>>
        /\ posts' \subseteq posts /\ DOMAIN registry' = DeviceIds
        /\ \A x \in DeviceIds : registry'[x] = "active" => registry[x] = "active" \/ x \in posts
    BY <1>0, <1>5 DEF registerDevice, revokeDevice, LocalSame, DeviceTypeOK
  <2> QED  BY <2>1, OutsideStep
<1> QED  BY <1>1, <1>2, <1>3, <1>4, <1>5 DEF LocalDeviceNext

(* The keys of one device change; used ones stay, and none that is locked is deleted. *)
Restocks(d, keys) ==
    /\ otks' = [otks EXCEPT ![d] = keys] /\ UNCHANGED <<claims, given>>
    /\ DOMAIN keys = Otks /\ \A k \in Otks : otks[d][k] = "used" => keys[k] = "used"
    /\ rotating' \in DeviceIds \cup {"none"}
    /\ \A r \in Readers : claims[r] # NoClaim /\ claims[r].id = d => keys[claims[r].key] = "free"

(* Registration and both halves of a rotation do no more than this. *)
LEMMA RestockStep ==
    ASSUME PrekeysOK, LocksOK, NEW d \in DeviceIds, NEW keys, Restocks(d, keys)
    PROVE  PrekeysOK' /\ LocksOK'
<1>1. otks'[d] = keys /\ (\A x \in DeviceIds \ {d} : otks'[x] = otks[x]) /\ DOMAIN otks' = DeviceIds
  BY DEF PrekeysOK, Restocks
<1>2. PrekeysOK'
  BY <1>1 DEF PrekeysOK, Restocks
<1>3. LocksOK'
  BY <1>1 DEF LocksOK, Restocks, NoClaim
<1> QED  BY <1>2, <1>3

(* No transaction has locked a key of the device. *)
LEMMA NobodyLocks ==
    ASSUME NEW d, Locked(d) = {}
    PROVE  \A r \in Readers : claims[r].id # d
  BY DEF Locked

(* Of several keys one is the lowest. *)
LEMMA LowestKey ==
    ASSUME NEW free \in SUBSET Otks, free # {}
    PROVE  (CHOOSE k \in free : \A j \in free : k <= j) \in free
<1>1. free \in SUBSET Nat
  BY LocalDeviceAssumption
<1>2. PICK less : less = {p \in Nat \X Nat : p[1] < p[2]}
  OBVIOUS
<1>3. IsWellFoundedOn(less, Nat)
  BY <1>2, NatLessThanWellFounded DEF OpToRel
<1>4. PICK k \in free : \A j \in free : <<j, k>> \notin less
  BY <1>1, <1>3, WFMin
<1>5. ASSUME NEW j \in free PROVE k <= j
  <2>1. j \in Nat /\ k \in Nat
    BY <1>1
  <2>2. j < k => <<j, k>> \in less
    BY <1>2, <2>1
  <2> QED  BY <1>4, <2>1, <2>2
<1> QED  BY <1>5

(* A reader locks a key that nobody has locked. *)
LEMMA ConsumeStep ==
    ASSUME PrekeysOK, LocksOK, NEW r \in Readers, NEW d \in DeviceIds, consumePrekeyBundles(r, d)
    PROVE  PrekeysOK' /\ LocksOK'
<1>1. PICK free : free = {k \in Otks : otks[d][k] = "free"} \ Locked(d)
  OBVIOUS
<1>2. PICK key : key = CHOOSE k \in free : \A j \in free : k <= j
  OBVIOUS
<1>3. key \in free
  BY <1>1, <1>2, LowestKey DEF consumePrekeyBundles
<1>4. PICK c : c = [id |-> d, key |-> key]
  OBVIOUS
<1>5. /\ claims' = [claims EXCEPT ![r] = c] /\ UNCHANGED <<otks, given, rotating>>
      /\ c.id = d /\ c.key = key /\ c \in [id : DeviceIds, key : Otks]
  BY <1>1, <1>2, <1>3, <1>4 DEF consumePrekeyBundles
<1>6. \A x \in Readers : claims[x] # c
  BY <1>1, <1>3, <1>4 DEF Locked
<1>7. PrekeysOK'
  BY <1>5 DEF PrekeysOK
<1>8. LocksOK'
  BY <1>1, <1>3, <1>5, <1>6 DEF LocksOK, NoClaim
<1> QED  BY <1>7, <1>8

(* Its commit uses up a free key. *)
LEMMA CommitStep ==
    ASSUME PrekeysOK, LocksOK, NEW r \in Readers, BundleCommits(r)
    PROVE  PrekeysOK' /\ LocksOK'
<1>1. PICK c : c = claims[r]
  OBVIOUS
<1>2. /\ c # NoClaim /\ claims' = [claims EXCEPT ![r] = NoClaim] /\ UNCHANGED rotating
      /\ \/ /\ otks' = [otks EXCEPT ![c.id] = [@ EXCEPT ![c.key] = "used"]]
            /\ given' = [given EXCEPT ![c.id] = [@ EXCEPT ![c.key] = given[c.id][c.key] + 1]]
         \/ UNCHANGED <<otks, given>>
  BY <1>1 DEF BundleCommits
<1>3. /\ c \in [id : DeviceIds, key : Otks] /\ otks[c.id][c.key] = "free"
      /\ \A x \in Readers \ {r} : claims[x] # c
  BY <1>1, <1>2 DEF LocksOK
<1>4. claims'[r] = NoClaim /\ (\A x \in Readers \ {r} : claims'[x] = claims[x]) /\ DOMAIN claims' = Readers
  BY <1>2 DEF LocksOK
<1>5. \A x \in Readers : claims'[x] # NoClaim => x # r
  BY <1>4
<1>6. CASE UNCHANGED <<otks, given>>
  BY <1>2, <1>4, <1>6 DEF PrekeysOK, LocksOK
<1>7. CASE /\ otks' = [otks EXCEPT ![c.id] = [@ EXCEPT ![c.key] = "used"]]
           /\ given' = [given EXCEPT ![c.id] = [@ EXCEPT ![c.key] = given[c.id][c.key] + 1]]
  <2>1. /\ DOMAIN otks' = DeviceIds /\ DOMAIN given' = DeviceIds
        /\ \A d \in DeviceIds : DOMAIN otks'[d] = Otks /\ DOMAIN given'[d] = Otks
    BY <1>3, <1>7 DEF PrekeysOK
  <2>2. /\ otks'[c.id][c.key] = "used" /\ given'[c.id][c.key] = given[c.id][c.key] + 1
        /\ \A d \in DeviceIds, k \in Otks : d # c.id \/ k # c.key =>
              otks'[d][k] = otks[d][k] /\ given'[d][k] = given[d][k]
    BY <1>3, <1>7 DEF PrekeysOK
  <2>3. given[c.id][c.key] = 0
    BY <1>3 DEF PrekeysOK
  <2>4. \A d \in DeviceIds, k \in Otks : given'[d][k] = 0 \/ (given'[d][k] = 1 /\ otks'[d][k] = "used")
    BY <2>2, <2>3 DEF PrekeysOK
  <2>5. PrekeysOK'
    BY <1>2, <2>1, <2>4 DEF PrekeysOK
  <2>6. ASSUME NEW x \in Readers, claims'[x] # NoClaim
        PROVE  /\ claims'[x] \in [id : DeviceIds, key : Otks]
               /\ otks'[claims'[x].id][claims'[x].key] = "free"
               /\ \A y \in Readers : claims'[y] = claims'[x] => y = x
    <3>1. PICK e : e = claims[x]
      OBVIOUS
    <3>2. x # r /\ claims'[x] = e
      BY <1>4, <2>6, <3>1
    <3>3. /\ e \in [id : DeviceIds, key : Otks] /\ otks[e.id][e.key] = "free"
          /\ \A y \in Readers : claims[y] = e => y = x
      BY <2>6, <3>1, <3>2 DEF LocksOK
    <3>4. e # c
      BY <1>3, <3>1, <3>2
    <3>5. e.id # c.id \/ e.key # c.key
      BY <1>3, <3>3, <3>4
    <3> QED  BY <1>4, <2>2, <2>6, <3>2, <3>3, <3>5
  <2>7. LocksOK'
    BY <1>4, <2>6 DEF LocksOK
  <2> QED  BY <2>5, <2>7
<1> QED  BY <1>2, <1>6, <1>7

(* Each step keeps the prekeys in order. *)
LEMMA PrekeysNext ==
    ASSUME PrekeysOK, LocksOK, [LocalDeviceNext]_deviceVars
    PROVE  PrekeysOK' /\ LocksOK'
<1>1. CASE UNCHANGED <<otks, rotating, claims, given>>
  BY <1>1 DEF PrekeysOK, LocksOK
<1>2. ASSUME NEW t \in BootTabs, BootStep(t) PROVE UNCHANGED <<otks, rotating, claims, given>>
  BY <1>2 DEF BootStep, BeginEnsure, loadDeviceMaterial, protectDeviceMaterial, migrateDeviceMaterial,
     saveDeviceMaterial, registerStoredDevice, RegisterAnswered, WipeBegins, WipeFreezes, WipeRevokes,
     clearLocalE2eeData, clearLocalProtectionKey, RemoteSame
<1>3. CASE UNCHANGED deviceVars \/ LeaseExpires \/ \E d \in DeviceIds : revokeDevice(d)
  BY <1>1, <1>3 DEF deviceVars, LeaseExpires, RemoteSame, revokeDevice
<1>4. ASSUME NEW d \in DeviceIds, registerDevice(d) PROVE PrekeysOK' /\ LocksOK'
  <2>1. PICK keys : keys = [k \in Otks |-> IF otks[d][k] = "used" THEN "used" ELSE "free"]
    OBVIOUS
  <2>2. CASE ~UNCHANGED otks
    <3>1. Restocks(d, keys)
      BY <1>4, <2>1, <2>2, NobodyLocks DEF Restocks, registerDevice, replaceUnusedPrekeys, PrekeysOK
    <3> QED  BY <3>1, RestockStep
  <2> QED  BY <1>1, <1>4, <2>2 DEF registerDevice
<1>5. ASSUME NEW d \in DeviceIds, RotateDeletes(d) PROVE PrekeysOK' /\ LocksOK'
  <2>1. PICK keys : keys = [k \in Otks |-> IF otks[d][k] = "used" THEN "used" ELSE "none"]
    OBVIOUS
  <2>2. Restocks(d, keys)
    BY <1>5, <2>1, NobodyLocks DEF Restocks, RotateDeletes, PrekeysOK
  <2> QED  BY <2>2, RestockStep
<1>6. CASE RotateCreates
  <2>0. PICK d \in DeviceIds : d = rotating
    BY <1>6 DEF RotateCreates, PrekeysOK
  <2>1. PICK keys : keys = [k \in Otks |-> IF otks[d][k] = "used" THEN "used" ELSE "free"]
    OBVIOUS
  <2>2. otks' = [otks EXCEPT ![d] = keys] /\ UNCHANGED <<claims, given>> /\ rotating' = "none"
    BY <1>6, <2>0, <2>1 DEF RotateCreates, replaceUnusedPrekeys, PrekeysOK
  <2>3. \A r \in Readers : claims[r] # NoClaim /\ claims[r].id = d => keys[claims[r].key] = "free"
    BY <2>1 DEF LocksOK
  <2>4. Restocks(d, keys)
    BY <2>1, <2>2, <2>3 DEF Restocks
  <2> QED  BY <2>4, RestockStep
<1> QED  BY <1>1, <1>2, <1>3, <1>4, <1>5, <1>6, ConsumeStep, CommitStep DEF LocalDeviceNext

(* However many tabs run ensureLocalDevice, lose their leases, migrate, register
   and wipe, and whatever prekeyBundles and rotations run on the server: the
   server has no device whose secret keys this browser has not kept or
   wiped, nothing wiped comes back, what is stored can be decrypted unless two
   tabs cleared at once, and a one-time prekey is handed out once. *)
THEOREM DeviceKeysAlwaysHold == LocalDeviceSpec => []DeviceKeysHold
<1>1. DeviceInv /\ [LocalDeviceNext]_deviceVars => DeviceInv'
  BY BrowserNext, PrekeysNext DEF DeviceInv
<1>2. DeviceInv => DeviceKeysHold
  <2> SUFFICES ASSUME DeviceInv PROVE DeviceKeysHold
    OBVIOUS
  <2>1. KeptOrLost /\ (KeysFit \/ overlapped) /\ PrekeysOK
    BY DEF DeviceInv, BrowserInv
  <2> QED  BY <2>1 DEF DeviceKeysHold, KeptOrLost, KeysFit, PrekeysOK
<1> QED  BY DeviceInit, <1>1, <1>2, PTL DEF LocalDeviceSpec

-----------------------------------------------------------------------------
(* The listings: rows, their orders, and what a page takes of them.        *)

(* A row of any listing.                                                   *)
AnyRow ==
  [id : RowIds, time : Int, created : Int, due : 0..Newest, listed : BOOLEAN,
   group : Statuses \cup {"AI_THREAD", "DIRECT", "ROW"}]

Bys == {"newest", "soonest", "pinned", "active", "finished"}

LEMMA RowFields ==
  ASSUME NEW r \in AnyRow
  PROVE  /\ r.id \in Int /\ r.id \in RowIds /\ r.time \in Int /\ r.created \in Int
         /\ r.due \in Int /\ 0 <= r.due /\ r.due <= Newest /\ Newest \in Int
  <1>1. RowIds \subseteq Int /\ Newest \in Nat
    BY PagingAssumption
  <1>2. r.id \in RowIds /\ r.time \in Int /\ r.created \in Int /\ r.due \in 0..Newest
    BY DEF AnyRow
  <1>3. r.id \in Int
    BY <1>1, <1>2
  <1>4. r.due \in Int /\ 0 <= r.due /\ r.due <= Newest /\ Newest \in Int
    BY <1>1, <1>2
  <1> QED BY <1>2, <1>3, <1>4

(* Each orderBy is a strict order that ends with the id.                   *)
LEMMA Orders ==
  ASSUME NEW by \in Bys, NEW r \in AnyRow, NEW s \in AnyRow, NEW t \in AnyRow
  PROVE  /\ ~SortsBefore(by, r, r)
         /\ SortsBefore(by, r, s) /\ SortsBefore(by, s, t) => SortsBefore(by, r, t)
         /\ r.id # s.id => SortsBefore(by, r, s) \/ SortsBefore(by, s, r)
  <1>1. CASE by = "newest"
    BY <1>1, RowFields DEF SortsBefore, NewestFirstOrder
  <1>2. CASE by = "soonest"
    BY <1>2, RowFields DEF SortsBefore, SoonestOrder
  <1>3. CASE by = "pinned"
    BY <1>3, RowFields DEF SortsBefore, PinnedOrder, NewestFirstOrder
  <1>4. CASE by = "active"
    BY <1>4, RowFields DEF SortsBefore, ActiveOrder
  <1>5. CASE by = "finished"
    BY <1>5, RowFields DEF SortsBefore, FinishedOrder
  <1> QED BY <1>1, <1>2, <1>3, <1>4, <1>5 DEF Bys

(* Rows of one moment: one for an id.                                      *)
RowSet(S) ==
  /\ S \subseteq AnyRow /\ IsFiniteSet(S)
  /\ \A r, s \in S : r.id = s.id => r = s

LEMMA PartOfRowSet ==
  ASSUME NEW S, RowSet(S), NEW T, T \subseteq S
  PROVE  RowSet(T) /\ Cardinality(T) \in Nat /\ Cardinality(T) <= Cardinality(S)
  BY FS_Subset, FS_CardinalityType DEF RowSet

(* A row is fetched at the place that the number of rows before it gives.  *)
Rank(S, by, r) == Cardinality({s \in S : SortsBefore(by, s, r)})

LEMMA Ranks ==
  ASSUME NEW S, RowSet(S), NEW by \in Bys
  PROVE  /\ Cardinality(S) \in Nat
         /\ \A r \in S : Rank(S, by, r) \in 0..Cardinality(S) - 1
         /\ \A r, s \in S : SortsBefore(by, r, s) <=> Rank(S, by, r) < Rank(S, by, s)
         /\ \A k \in 0..Cardinality(S) - 1 : \E r \in S : Rank(S, by, r) = k
  <1> DEFINE n == Cardinality(S)
             Below(r) == {s \in S : SortsBefore(by, s, r)}
  <1>1. IsFiniteSet(S) /\ n \in Nat /\ IsFiniteSet(0..n - 1) /\ Cardinality(0..n - 1) = n
    <2>1. IsFiniteSet(S) /\ n \in Nat
      BY FS_CardinalityType DEF RowSet
    <2>2. IsFiniteSet(0..n - 1) /\ Cardinality(0..n - 1) = IF 0 > n - 1 THEN 0 ELSE n - 1 - 0 + 1
      BY <2>1, FS_Interval
    <2> QED BY <2>1, <2>2
  <1> HIDE DEF n
  <1>2. ASSUME NEW r \in S
        PROVE  /\ IsFiniteSet(Below(r)) /\ Cardinality(Below(r)) \in 0..n - 1
               /\ Cardinality(Below(r)) \in Int
    <2>1. r \in AnyRow /\ r \notin Below(r) /\ Below(r) \subseteq S
      BY Orders DEF RowSet
    <2> HIDE DEF Below
    <2>2. IsFiniteSet(S \ {r}) /\ Cardinality(S \ {r}) = n - 1
      BY <1>1, FS_RemoveElement DEF n
    <2>3. IsFiniteSet(Below(r)) /\ Cardinality(Below(r)) <= n - 1
      BY <2>1, <2>2, FS_Subset
    <2>4. Cardinality(Below(r)) \in Nat
      BY <2>3, FS_CardinalityType
    <2> QED BY <1>1, <2>3, <2>4
  <1>3. ASSUME NEW r \in S, NEW s \in S, SortsBefore(by, r, s)
        PROVE  Cardinality(Below(r)) < Cardinality(Below(s))
    <2>1. \A t \in S : t \in AnyRow
      BY DEF RowSet
    <2>2. Below(r) \subseteq Below(s)
      BY <1>3, <2>1, Orders
    <2>3. r \notin Below(r) /\ r \in Below(s)
      BY <1>3, <2>1, Orders
    <2>4. IsFiniteSet(Below(s)) /\ Cardinality(Below(s)) \in Int /\ Cardinality(Below(r)) \in Int
      BY <1>1, <1>2
    <2> HIDE DEF Below
    <2>5. Cardinality(Below(r)) <= Cardinality(Below(s))
          /\ (Cardinality(Below(s)) = Cardinality(Below(r)) => Below(s) = Below(r))
      BY <2>2, <2>4, FS_Subset
    <2> QED BY <2>3, <2>4, <2>5
  <1>4. \A r \in S : Rank(S, by, r) = Cardinality(Below(r))
    BY DEF Rank
  <1> HIDE DEF Below
  <1>5. \A r, s \in S : r # s => SortsBefore(by, r, s) \/ SortsBefore(by, s, r)
    BY Orders DEF RowSet
  <1>6. \A r \in S : ~SortsBefore(by, r, r)
    BY Orders DEF RowSet
  <1>7. ASSUME NEW r \in S, NEW s \in S
        PROVE  SortsBefore(by, r, s) <=> Rank(S, by, r) < Rank(S, by, s)
    BY <1>1, <1>2, <1>3, <1>4, <1>5, <1>6
  <1>8. PICK f : f = [r \in S |-> Rank(S, by, r)]
    OBVIOUS
  <1>9. f \in [S -> 0..n - 1]
    BY <1>2, <1>4, <1>8
  <1>10. f \in Injection(S, 0..n - 1)
    <2>1. \A r, s \in S : f[r] = f[s] => r = s
      BY <1>1, <1>2, <1>4, <1>5, <1>7, <1>8
    <2> QED BY <1>9, <2>1 DEF Injection, IsInjective
  <1>11. f \in Surjection(S, 0..n - 1)
    BY <1>1, <1>10, FS_Injection DEF n
  <1>12. \A k \in 0..n - 1 : \E r \in S : Rank(S, by, r) = k
    BY <1>8, <1>11 DEF Surjection
  <1> QED BY <1>1, <1>2, <1>4, <1>7, <1>12 DEF n

(* What findMany answers: the first rows in order, and what is left out    *)
(* comes after all of them.                                                *)
LEMMA Fetched ==
  ASSUME NEW S, RowSet(S), NEW by \in Bys, NEW n \in Nat
  PROVE  /\ Fetch(S, by, n) \in Seq(S)
         /\ Len(Fetch(S, by, n)) = IF n < Cardinality(S) THEN n ELSE Cardinality(S)
         /\ Cardinality(S) \in Nat
         /\ \A k, l \in 1..Len(Fetch(S, by, n)) :
              k < l => SortsBefore(by, Fetch(S, by, n)[k], Fetch(S, by, n)[l])
         /\ \A r \in S : \/ \E k \in 1..Len(Fetch(S, by, n)) : Fetch(S, by, n)[k] = r
                         \/ /\ n < Cardinality(S)
                            /\ \A k \in 1..Len(Fetch(S, by, n)) : SortsBefore(by, Fetch(S, by, n)[k], r)
  <1> DEFINE m == IF n < Cardinality(S) THEN n ELSE Cardinality(S)
  <1>1. PICK f : f = Fetch(S, by, n)
    OBVIOUS
  <1>2. f = [k \in 1..m |-> CHOOSE r \in S : Rank(S, by, r) = k - 1]
    BY <1>1 DEF Fetch, Rank
  <1>3. m \in Nat /\ m <= Cardinality(S) /\ Cardinality(S) \in Nat
    BY Ranks
  <1>4. m = n \/ m = Cardinality(S)
    OBVIOUS
  <1>5. n < Cardinality(S) \/ m = Cardinality(S)
    OBVIOUS
  <1>6. m = IF n < Cardinality(S) THEN n ELSE Cardinality(S)
    OBVIOUS
  <1> HIDE DEF m
  <1>7. ASSUME NEW k \in 1..m PROVE f[k] \in S /\ Rank(S, by, f[k]) = k - 1
    <2>1. k - 1 \in 0..Cardinality(S) - 1
      BY <1>3
    <2>2. \E r \in S : Rank(S, by, r) = k - 1
      BY <2>1, Ranks
    <2> QED BY <1>2, <2>2
  <1>8. f \in Seq(S) /\ Len(f) = m
    BY <1>2, <1>3, <1>7
  <1>9. ASSUME NEW k \in 1..m, NEW l \in 1..m, k < l PROVE SortsBefore(by, f[k], f[l])
    <2>1. Rank(S, by, f[k]) < Rank(S, by, f[l])
      BY <1>3, <1>7, <1>9
    <2> QED BY <1>7, <2>1, Ranks
  <1>10. ASSUME NEW r \in S, \A k \in 1..m : f[k] # r
         PROVE  n < Cardinality(S) /\ \A k \in 1..m : SortsBefore(by, f[k], r)
    <2>1. Rank(S, by, r) \in 0..Cardinality(S) - 1
      BY Ranks
    <2>2. ASSUME Rank(S, by, r) < m PROVE FALSE
      <3>1. Rank(S, by, r) + 1 \in 1..m
        BY <1>3, <2>1, <2>2
      <3>2. PICK k \in 1..m : k = Rank(S, by, r) + 1
        BY <3>1
      <3>3. f[k] \in S /\ Rank(S, by, f[k]) = Rank(S, by, r)
        BY <1>3, <1>7, <2>1, <3>2
      <3>4. ~SortsBefore(by, f[k], r) /\ ~SortsBefore(by, r, f[k])
        BY <2>1, <3>3, Ranks
      <3>5. f[k] # r /\ f[k].id # r.id
        BY <1>10, <3>3 DEF RowSet
      <3> QED BY <3>3, <3>4, <3>5, Orders DEF RowSet
    <2>3. m < Cardinality(S)
      BY <1>3, <2>1, <2>2
    <2>4. ASSUME NEW k \in 1..m PROVE SortsBefore(by, f[k], r)
      <3>1. Rank(S, by, f[k]) < Rank(S, by, r)
        BY <1>3, <1>7, <2>1, <2>2
      <3> QED BY <1>7, <3>1, Ranks
    <2> QED BY <1>3, <1>5, <2>3, <2>4
  <1> QED BY <1>1, <1>3, <1>6, <1>8, <1>9, <1>10

-----------------------------------------------------------------------------
(* What is still to come.                                                  *)

(* A row this listing may have.                                            *)
Row == {r \in Rows(listing.of) : listing.of = "NOTES" => r.due = NoDue}

Active(r) == r.group \in {"TODO", "IN_PROGRESS"}

ListingTyped ==
  /\ listing \in [of : Listeds, status : Statuses \cup {"ANY"}]
  /\ shelf \in [RowIds -> Row] /\ \A i \in RowIds : shelf[i].id = i
  /\ pageSize \in Nat \ {0}

LEMMA RowKinds ==
  ASSUME listing.of \in Listeds
  PROVE  /\ Row \subseteq AnyRow
         /\ listing.of = "TASKS" => \A r \in Row : r.group \in Statuses
         /\ listing.of = "INBOX" => \A r \in Row : r.group \in {"AI_THREAD", "DIRECT"}
         /\ listing.of = "NOTES" => \A r \in Row : r.due = 0
  <1>1. ASSUME NEW r \in Row
        PROVE  /\ r \in AnyRow
               /\ listing.of = "TASKS" => r.group \in Statuses
               /\ listing.of = "INBOX" => r.group \in {"AI_THREAD", "DIRECT"}
    <2>1. CASE listing.of = "TASKS"
      BY <2>1 DEF Row, Rows, AnyRow
    <2>2. CASE listing.of = "INBOX"
      BY <2>2 DEF Row, Rows, AnyRow
    <2>3. CASE listing.of # "TASKS" /\ listing.of # "INBOX"
      BY <2>3 DEF Row, Rows, AnyRow
    <2> QED BY <2>1, <2>2, <2>3
  <1>2. listing.of = "NOTES" => \A r \in Row : r.due = 0
    BY DEF Row, NoDue
  <1> QED BY <1>1, <1>2

(* Which orderBy the listing's promise comes to, for two of its rows.      *)
LEMMA PromisedOrder ==
  ASSUME listing.of \in Listeds, NEW r \in Row, NEW s \in Row
  PROVE  /\ listing.of = "REMINDERS" => (Precedes(r, s) <=> SortsBefore("soonest", r, s))
         /\ listing.of = "NOTES" => (Precedes(r, s) <=> SortsBefore("pinned", r, s))
         /\ listing.of \notin {"REMINDERS", "NOTES", "TASKS"} =>
              (Precedes(r, s) <=> SortsBefore("newest", r, s))
         /\ listing.of = "TASKS" /\ Active(r) /\ Active(s) =>
              (Precedes(r, s) <=> SortsBefore("active", r, s))
         /\ listing.of = "TASKS" /\ ~Active(r) /\ ~Active(s) =>
              (Precedes(r, s) <=> SortsBefore("finished", r, s))
         /\ listing.of = "TASKS" /\ Active(r) /\ ~Active(s) => Precedes(r, s) /\ ~Precedes(s, r)
  BY DEF Precedes, SortsBefore, Active, Listeds

LEMMA Promises ==
  ASSUME listing.of \in Listeds, NEW r \in Row, NEW s \in Row, NEW t \in Row
  PROVE  /\ ~Precedes(r, r)
         /\ Precedes(r, s) /\ Precedes(s, t) => Precedes(r, t)
         /\ r.id # s.id => Precedes(r, s) \/ Precedes(s, r)
  <1>1. r \in AnyRow /\ s \in AnyRow /\ t \in AnyRow
    BY RowKinds
  <1>2. {"newest", "soonest", "pinned", "active", "finished"} = Bys
    BY DEF Bys
  <1>3. CASE listing.of = "REMINDERS"
    <2>1. "soonest" \in Bys
      BY <1>2
    <2> QED BY <1>1, <1>3, <2>1, Orders, PromisedOrder
  <1>4. CASE listing.of = "NOTES"
    <2>1. "pinned" \in Bys
      BY <1>2
    <2> QED BY <1>1, <1>4, <2>1, Orders, PromisedOrder
  <1>5. CASE listing.of \notin {"REMINDERS", "NOTES", "TASKS"}
    <2>1. "newest" \in Bys
      BY <1>2
    <2> QED BY <1>1, <1>5, <2>1, Orders, PromisedOrder
  <1>6. CASE listing.of = "TASKS"
    <2>1. "active" \in Bys /\ "finished" \in Bys
      BY <1>2
    <2>2. \A x, y, z \in {r, s, t} : x \in AnyRow /\ x \in Row /\ y \in Row
      BY <1>1
    <2>3. CASE Active(r) /\ Active(s) /\ Active(t)
      BY <1>1, <1>6, <2>1, <2>3, Orders, PromisedOrder
    <2>4. CASE ~Active(r) /\ ~Active(s) /\ ~Active(t)
      BY <1>1, <1>6, <2>1, <2>4, Orders, PromisedOrder
    <2>5. \A x, y \in {r, s, t} : Active(x) /\ ~Active(y) => Precedes(x, y) /\ ~Precedes(y, x)
      BY <1>6, PromisedOrder
    <2>6. ~Precedes(r, r) /\ (r.id # s.id => Precedes(r, s) \/ Precedes(s, r))
      BY <1>1, <1>6, <2>1, <2>5, Orders, PromisedOrder
    <2>7. Precedes(r, s) /\ Precedes(s, t) => Precedes(r, t)
      BY <2>3, <2>4, <2>5
    <2> QED BY <2>6, <2>7
  <1> QED BY <1>3, <1>4, <1>5, <1>6 DEF Listeds

LEMMA RowsListed ==
  ASSUME ListingTyped
  PROVE  /\ listing.of \in Listeds /\ Listed \subseteq Row /\ RowSet(Listed)
         /\ \A r \in Listed : r.listed /\ r.id \in RowIds /\ r = shelf[r.id]
         /\ \A i \in RowIds : shelf[i].listed => shelf[i] \in Listed
  <1>1. listing.of \in Listeds /\ IsFiniteSet(RowIds)
    BY PagingAssumption DEF ListingTyped
  <1>2. /\ \A r \in Listed : r \in Row /\ r.listed /\ r.id \in RowIds /\ r = shelf[r.id]
        /\ \A i \in RowIds : shelf[i].listed => shelf[i] \in Listed
    BY DEF Listed, ListingTyped
  <1>3. PICK f : f = [r \in Listed |-> r.id]
    OBVIOUS
  <1>4. f \in Injection(Listed, RowIds)
    <2>1. \A r, s \in Listed : f[r] = f[s] => r = s
      BY <1>2, <1>3
    <2>2. f \in [Listed -> RowIds]
      BY <1>2, <1>3
    <2> QED BY <2>1, <2>2 DEF Injection, IsInjective
  <1>5. IsFiniteSet(Listed)
    BY <1>1, <1>4, FS_Injection
  <1>6. RowSet(Listed)
    BY <1>1, <1>2, <1>5, RowKinds DEF RowSet
  <1> QED BY <1>1, <1>2, <1>6

(* The rows a cursor has not passed.                                       *)
Ahead(c, r) ==
  \/ c.at = "none"
  \/ c.at = "start" /\ ~Active(r)
  \/ c.at = "row" /\ Precedes(c.row, r)

AheadRows(c) == {r \in Listed : Belongs(r) /\ Ahead(c, r)}

(* The cursors a listing gives out.                                        *)
CursorOK(c) ==
  \/ c = NoCursor
  \/ listing.of # "TASKS" /\ \E row \in Row : c = CursorOf(row)
  \/ listing.of = "TASKS" /\ listing.status = "ANY" /\ c = GroupStart("f")
  \/ /\ listing.of = "TASKS"
     /\ \E row \in Row : /\ c = TaskCursor(IF Active(row) THEN "a" ELSE "f", row)
                         /\ listing.status # "ANY" => row.group = listing.status

LEMMA AheadClosed ==
  ASSUME ListingTyped, NEW c, CursorOK(c), NEW r \in Row, NEW s \in Row,
         Ahead(c, r), Precedes(r, s)
  PROVE  Ahead(c, s)
  <1>0. listing.of \in Listeds
    BY RowsListed
  <1>1. CASE c.at = "row"
    <2>1. c.row \in Row
      BY <1>1 DEF CursorOK, NoCursor, CursorOf, TaskCursor, GroupStart
    <2> QED BY <1>0, <1>1, <2>1, Promises DEF Ahead
  <1>2. CASE c.at = "start"
    <2>1. listing.of = "TASKS"
      BY <1>2 DEF CursorOK, NoCursor, CursorOf, TaskCursor, GroupStart
    <2> QED BY <1>0, <1>2, <2>1, PromisedOrder DEF Ahead
  <1> QED BY <1>1, <1>2 DEF Ahead

-----------------------------------------------------------------------------
(* What a page takes of the rows that are still to come.                   *)

(* The rows q of A come before the rest R of A.                            *)
Cut(A, q, R) ==
  /\ R \subseteq A /\ q \in Seq(A)
  /\ \A k, l \in 1..Len(q) : k < l => Precedes(q[k], q[l])
  /\ \A r \in A : (\E k \in 1..Len(q) : q[k] = r) <=> r \notin R

(* The rows of S behind one of them.                                       *)
Behind(S, last) == {r \in S : Precedes(last, r)}

LEMMA FirstRows ==
  ASSUME ListingTyped, NEW S, S \subseteq Listed, NEW by \in Bys, NEW n \in Nat \ {0},
         \A r, s \in S : SortsBefore(by, r, s) <=> Precedes(r, s)
  PROVE  /\ Cardinality(S) \in Nat
         /\ Len(Fetch(S, by, n + 1)) > n <=> Cardinality(S) > n
         /\ Cardinality(S) <= n => /\ Cut(S, Fetch(S, by, n), {})
                                   /\ Len(Fetch(S, by, n)) = Cardinality(S)
         /\ Cardinality(S) > n =>
              /\ Len(Fetch(S, by, n)) = n /\ LastOf(Fetch(S, by, n)) \in S
              /\ Cut(S, Fetch(S, by, n), Behind(S, LastOf(Fetch(S, by, n))))
  <1>1. RowSet(S) /\ \A r \in S : r \in Row /\ listing.of \in Listeds
    BY RowsListed, PartOfRowSet
  <1>2. PICK q : q = Fetch(S, by, n)
    OBVIOUS
  <1>3. /\ q \in Seq(S) /\ Cardinality(S) \in Nat
        /\ Len(q) = IF n < Cardinality(S) THEN n ELSE Cardinality(S)
        /\ \A k, l \in 1..Len(q) : k < l => SortsBefore(by, q[k], q[l])
        /\ \A r \in S : \/ \E k \in 1..Len(q) : q[k] = r
                        \/ n < Cardinality(S) /\ \A k \in 1..Len(q) : SortsBefore(by, q[k], r)
    BY <1>1, <1>2, Fetched
  <1>4. Len(Fetch(S, by, n + 1)) > n <=> Cardinality(S) > n
    <2>1. n + 1 \in Nat
      OBVIOUS
    <2>2. Len(Fetch(S, by, n + 1)) = IF n + 1 < Cardinality(S) THEN n + 1 ELSE Cardinality(S)
      BY <1>1, <2>1, Fetched
    <2> QED BY <1>3, <2>2
  <1>5. \A k \in 1..Len(q) : q[k] \in S
    BY <1>3
  <1>6. \A k, l \in 1..Len(q) : k < l => Precedes(q[k], q[l])
    BY <1>3, <1>5
  <1>7. ASSUME Cardinality(S) <= n PROVE Cut(S, q, {}) /\ Len(q) = Cardinality(S)
    BY <1>3, <1>6, <1>7 DEF Cut
  <1>8. ASSUME Cardinality(S) > n
        PROVE  /\ Len(q) = n /\ LastOf(q) \in S
               /\ Cut(S, q, Behind(S, LastOf(q)))
    <2>1. Len(q) = n /\ n \in 1..Len(q) /\ LastOf(q) = q[n] /\ q[n] \in S
      BY <1>3, <1>5, <1>8 DEF LastOf
    <2>2. ASSUME NEW k \in 1..Len(q) PROVE ~Precedes(q[n], q[k])
      <3>1. q[k] \in Row /\ q[n] \in Row /\ listing.of \in Listeds
        BY <1>1, <1>5, <2>1
      <3>2. CASE k = n
        BY <3>1, <3>2, Promises
      <3>3. CASE k # n
        <4>1. Precedes(q[k], q[n])
          BY <1>6, <2>1, <3>3
        <4> QED BY <3>1, <4>1, Promises
      <3> QED BY <3>2, <3>3
    <2>3. ASSUME NEW r \in S, \A k \in 1..Len(q) : q[k] # r PROVE Precedes(q[n], r)
      BY <1>3, <2>1, <2>3
    <2> QED BY <1>3, <1>6, <2>1, <2>2, <2>3 DEF Cut, Behind
  <1> QED BY <1>2, <1>3, <1>4, <1>7, <1>8

LEMMA CutThenAll ==
  ASSUME NEW A, NEW B, NEW q, NEW R, Cut(A, q, R), A \cap B = {}
  PROVE  Cut(A \cup B, q, R \cup B)
  <1>1. q \in Seq(A \cup B) /\ \A k \in 1..Len(q) : q[k] \in A
    BY DEF Cut
  <1> QED BY <1>1 DEF Cut

LEMMA CutAfterAll ==
  ASSUME NEW A, NEW B, NEW x, NEW y, NEW R, Cut(A, x, {}), Cut(B, y, R), A \cap B = {},
         \A r \in A, s \in B : Precedes(r, s)
  PROVE  Cut(A \cup B, x \o y, R)
  <1>1. /\ x \in Seq(A) /\ y \in Seq(B) /\ x \in Seq(A \cup B) /\ y \in Seq(A \cup B)
        /\ Len(x) \in Nat /\ Len(y) \in Nat
        /\ \A k \in 1..Len(x) : x[k] \in A
        /\ \A k \in 1..Len(y) : y[k] \in B
    BY DEF Cut
  <1>2. PICK q : q = x \o y
    OBVIOUS
  <1>3. /\ q \in Seq(A \cup B) /\ Len(q) = Len(x) + Len(y)
        /\ \A k \in 1..Len(x) : q[k] = x[k]
        /\ \A k \in Len(x) + 1..Len(q) : q[k] = y[k - Len(x)] /\ k - Len(x) \in 1..Len(y)
    BY <1>1, <1>2
  <1>4. \A k \in 1..Len(y) : Len(x) + k \in Len(x) + 1..Len(q) /\ q[Len(x) + k] = y[k]
    <2> SUFFICES ASSUME NEW k \in 1..Len(y)
                 PROVE  Len(x) + k \in Len(x) + 1..Len(q) /\ q[Len(x) + k] = y[k]
      OBVIOUS
    <2>1. Len(x) + k \in Len(x) + 1..Len(q) /\ (Len(x) + k) - Len(x) = k
      BY <1>1, <1>3
    <2> QED BY <1>3, <2>1
  <1>5. ASSUME NEW k \in 1..Len(q), NEW l \in 1..Len(q), k < l PROVE Precedes(q[k], q[l])
    <2>1. CASE l \in 1..Len(x)
      <3>1. k \in 1..Len(x)
        BY <1>1, <1>5, <2>1
      <3> QED BY <1>3, <1>5, <2>1, <3>1 DEF Cut
    <2>2. CASE k \in 1..Len(x) /\ l \notin 1..Len(x)
      <3>1. l \in Len(x) + 1..Len(q)
        BY <1>1, <1>3, <2>2
      <3> QED BY <1>1, <1>3, <2>2, <3>1
    <2>3. CASE k \notin 1..Len(x) /\ l \notin 1..Len(x)
      <3>1. k \in Len(x) + 1..Len(q) /\ l \in Len(x) + 1..Len(q) /\ k - Len(x) < l - Len(x)
        BY <1>1, <1>3, <1>5, <2>3
      <3>2. /\ q[k] = y[k - Len(x)] /\ q[l] = y[l - Len(x)]
            /\ k - Len(x) \in 1..Len(y) /\ l - Len(x) \in 1..Len(y)
        BY <1>3, <3>1
      <3>3. \A i, j \in 1..Len(y) : i < j => Precedes(y[i], y[j])
        BY DEF Cut
      <3>4. Precedes(y[k - Len(x)], y[l - Len(x)])
        BY <3>1, <3>2, <3>3
      <3> QED BY <3>2, <3>4
    <2> QED BY <2>1, <2>2, <2>3
  <1>6. ASSUME NEW r \in A PROVE \E k \in 1..Len(q) : q[k] = r
    <2>1. PICK k \in 1..Len(x) : x[k] = r
      BY DEF Cut
    <2> QED BY <1>1, <1>3, <2>1
  <1>7. ASSUME NEW r \in B PROVE (\E k \in 1..Len(q) : q[k] = r) <=> r \notin R
    <2>1. ASSUME NEW k \in 1..Len(q), q[k] = r PROVE \E l \in 1..Len(y) : y[l] = r
      <3>1. k \notin 1..Len(x)
        BY <1>1, <1>3, <2>1
      <3>2. k \in Len(x) + 1..Len(q)
        BY <1>1, <1>3, <3>1
      <3> QED BY <1>3, <2>1, <3>2
    <2>2. ASSUME NEW l \in 1..Len(y), y[l] = r PROVE \E k \in 1..Len(q) : q[k] = r
      <3>1. Len(x) + l \in 1..Len(q)
        BY <1>1, <1>3
      <3> QED BY <1>4, <2>2, <3>1
    <2> QED BY <2>1, <2>2 DEF Cut
  <1>8. R \subseteq A \cup B /\ \A r \in A : r \notin R
    BY DEF Cut
  <1> QED BY <1>2, <1>3, <1>5, <1>6, <1>7, <1>8 DEF Cut

LEMMA LastOfBoth ==
  ASSUME NEW A, NEW B, NEW x \in Seq(A), NEW y \in Seq(B), Len(y) # 0
  PROVE  LastOf(x \o y) = LastOf(y)
  <1>1. PICK q : q = x \o y
    OBVIOUS
  <1>2. /\ Len(x) \in Nat /\ Len(y) \in Nat /\ Len(q) = Len(x) + Len(y)
        /\ \A k \in Len(x) + 1..Len(q) : q[k] = y[k - Len(x)]
    BY <1>1
  <1>3. Len(x) + Len(y) \in Len(x) + 1..Len(q) /\ (Len(x) + Len(y)) - Len(x) = Len(y)
    BY <1>2
  <1> QED BY <1>1, <1>2, <1>3 DEF LastOf

-----------------------------------------------------------------------------
(* The listings in one order.                                              *)

(* The page's rows come first of those to come, and its cursor stands for  *)
(* the others.                                                             *)
PageRight(c, page) ==
  \/ page.next = NoCursor /\ Cut(AheadRows(c), page.items, {})
  \/ /\ page.next # NoCursor /\ CursorOK(page.next)
     /\ Cut(AheadRows(c), page.items, AheadRows(page.next))

LEMMA RowsAfter ==
  ASSUME ListingTyped, NEW c, CursorOK(c), NEW last \in Row,
         last \in AheadRows(c), NEW d, d.at = "row", d.row = last
  PROVE  AheadRows(d) = Behind(AheadRows(c), last)
  <1>1. \A r : Ahead(d, r) <=> Precedes(last, r)
    BY DEF Ahead
  <1>2. ASSUME NEW r \in Listed, Precedes(last, r) PROVE Ahead(c, r)
    <2>1. r \in Row /\ Ahead(c, last)
      BY RowsListed DEF AheadRows
    <2> QED BY <1>2, <2>1, AheadClosed
  <1> QED BY <1>1, <1>2 DEF AheadRows, Behind

LEMMA PagedRight ==
  ASSUME ListingTyped, listing.of # "TASKS", NEW c, CursorOK(c), NEW by \in Bys,
         NEW n \in Nat \ {0}, \A r, s \in Row : SortsBefore(by, r, s) <=> Precedes(r, s),
         NEW S, S = AheadRows(c)
  PROVE  PageRight(c, Paged(S, by, n))
  <1>1. S \subseteq Listed /\ \A r \in S : r \in Row
    BY RowsListed DEF AheadRows
  <1>0. \A r, s \in S : SortsBefore(by, r, s) <=> Precedes(r, s)
    BY <1>1
  <1>2. PICK kept : kept = Fetch(S, by, n)
    OBVIOUS
  <1>3. /\ Cardinality(S) \in Nat
        /\ Len(Fetch(S, by, n + 1)) > n <=> Cardinality(S) > n
        /\ Cardinality(S) <= n => Cut(S, kept, {})
        /\ Cardinality(S) > n => /\ LastOf(kept) \in S
                                 /\ Cut(S, kept, Behind(S, LastOf(kept)))
    <2>1. /\ Cardinality(S) \in Nat
          /\ Len(Fetch(S, by, n + 1)) > n <=> Cardinality(S) > n
          /\ Cardinality(S) <= n => Cut(S, Fetch(S, by, n), {})
          /\ Cardinality(S) > n =>
               /\ LastOf(Fetch(S, by, n)) \in S
               /\ Cut(S, Fetch(S, by, n), Behind(S, LastOf(Fetch(S, by, n))))
      BY <1>0, <1>1, FirstRows
    <2> QED BY <1>2, <2>1
  <1>4. PICK page : page = Paged(S, by, n)
    OBVIOUS
  <1>5. /\ page.items = kept
        /\ page.next = IF Len(Fetch(S, by, n + 1)) > n THEN CursorOf(LastOf(kept)) ELSE NoCursor
    BY <1>2, <1>4 DEF Paged, PageOf
  <1>6. CASE Cardinality(S) > n
    <2>1. LastOf(kept) \in S /\ LastOf(kept) \in Row /\ page.next = CursorOf(LastOf(kept))
      BY <1>1, <1>3, <1>5, <1>6
    <2>2. page.next.at = "row" /\ page.next.row = LastOf(kept) /\ page.next # NoCursor
      BY <2>1 DEF CursorOf, NoCursor
    <2>3. AheadRows(page.next) = Behind(AheadRows(c), LastOf(kept))
      BY <2>1, <2>2, RowsAfter
    <2>4. Cut(AheadRows(c), page.items, AheadRows(page.next))
      BY <1>3, <1>5, <1>6, <2>3
    <2>5. CursorOK(page.next)
      BY <2>1 DEF CursorOK
    <2> QED BY <1>4, <2>2, <2>4, <2>5 DEF PageRight
  <1>7. CASE ~(Cardinality(S) > n)
    <2>1. Cardinality(S) <= n /\ page.next = NoCursor
      BY <1>3, <1>5, <1>7
    <2> QED BY <1>3, <1>4, <1>5, <2>1 DEF PageRight
  <1> QED BY <1>6, <1>7

LEMMA RowsToCome ==
  ASSUME ListingTyped, NEW c, CursorOK(c), listing.of # "TASKS"
  PROVE  /\ listing.of = "REMINDERS" => AfterSoonest(c) = AheadRows(c)
         /\ listing.of # "REMINDERS" => AfterNewest(c) = AheadRows(c)
  <1>1. /\ listing.of \in Listeds /\ \A r \in Listed : r \in Row /\ r.listed
    BY RowsListed
  <1>2. \A r \in Listed : Belongs(r)
    BY <1>1 DEF Belongs
  <1>3. CASE c = NoCursor
    <2>1. c.at = "none"
      BY <1>3 DEF NoCursor
    <2> QED BY <1>2, <2>1 DEF AfterSoonest, AfterNewest, AheadRows, Ahead, FromStart
  <1>4. CASE c # NoCursor
    <2>1. PICK row \in Row : c = CursorOf(row)
      BY <1>4 DEF CursorOK
    <2>2. c.at = "row" /\ c.row = row
      BY <2>1 DEF CursorOf
    <2>3. \A r \in Row : listing.of = "REMINDERS" => (SoonestPast(c, r) <=> Precedes(row, r))
      BY <1>1, <2>2, PromisedOrder DEF SortsBefore, SoonestPast, SoonestOrder
    <2>4. ASSUME NEW r \in Row, listing.of # "REMINDERS"
          PROVE  NewestPast(c, r) <=> Precedes(row, r)
      <3>0. r \in AnyRow /\ row \in AnyRow /\ r.time \in Int /\ row.time \in Int
            /\ r.id \in Int /\ row.id \in Int
        BY <1>1, <2>1, RowKinds, RowFields
      <3>1. NewestPast(c, r) <=> NewestFirstOrder(row, r)
        BY <2>2, <3>0 DEF NewestPast, NewestFirstOrder
      <3>2. CASE listing.of = "NOTES"
        <4>1. row.due = 0 /\ r.due = 0
          BY <1>1, <2>1, <3>2, RowKinds
        <4> QED BY <1>1, <3>1, <3>2, <4>1, PromisedOrder DEF SortsBefore, PinnedOrder
      <3>3. CASE listing.of # "NOTES"
        BY <1>1, <2>1, <2>4, <3>1, <3>3, PromisedOrder DEF SortsBefore
      <3> QED BY <3>2, <3>3
    <2> QED
      BY <1>1, <1>2, <2>2, <2>3, <2>4 DEF AfterSoonest, AfterNewest, AheadRows, Ahead, FromStart
  <1> QED BY <1>3, <1>4

LEMMA PlainPages ==
  ASSUME ListingTyped, NEW c, CursorOK(c), NEW n \in Nat \ {0}
  PROVE  /\ listing.of = "REMINDERS" => PageRight(c, RemindersPage(c, n))
         /\ listing.of = "NOTES" => PageRight(c, NotesPage(c, n))
         /\ listing.of = "LISTS" => PageRight(c, ListsPage(c, n))
         /\ listing.of = "NOTICES" => PageRight(c, NoticesPage(c, n))
         /\ listing.of = "BLOCKED" => PageRight(c, BlockedPage(c, n))
         /\ listing.of = "MESSAGES" => PageRight(c, MessagesPage(c, n))
  <1>1. listing.of \in Listeds /\ "newest" \in Bys /\ "soonest" \in Bys /\ "pinned" \in Bys
    BY RowsListed DEF Bys
  <1>2. ASSUME listing.of = "REMINDERS" PROVE PageRight(c, RemindersPage(c, n))
    <2>1. \A r, s \in Row : SortsBefore("soonest", r, s) <=> Precedes(r, s)
      BY <1>1, <1>2, PromisedOrder
    <2>2. PageRight(c, Paged(AheadRows(c), "soonest", n))
      BY <1>1, <1>2, <2>1, PagedRight
    <2> QED BY <1>2, <2>2, RowsToCome DEF RemindersPage
  <1>3. ASSUME listing.of = "NOTES" PROVE PageRight(c, NotesPage(c, n))
    <2>1. \A r, s \in Row : SortsBefore("pinned", r, s) <=> Precedes(r, s)
      BY <1>1, <1>3, PromisedOrder
    <2>2. PageRight(c, Paged(AheadRows(c), "pinned", n))
      BY <1>1, <1>3, <2>1, PagedRight
    <2> QED BY <1>3, <2>2, RowsToCome DEF NotesPage
  <1>4. ASSUME listing.of \in {"LISTS", "NOTICES", "BLOCKED", "MESSAGES"}
        PROVE  PageRight(c, Paged(AfterNewest(c), "newest", n))
    <2>1. \A r, s \in Row : SortsBefore("newest", r, s) <=> Precedes(r, s)
      BY <1>1, <1>4, PromisedOrder
    <2>2. PageRight(c, Paged(AheadRows(c), "newest", n))
      BY <1>1, <1>4, <2>1, PagedRight
    <2> QED BY <1>4, <2>2, RowsToCome
  <1> QED BY <1>2, <1>3, <1>4 DEF ListsPage, NoticesPage, BlockedPage, MessagesPage

(* Of more rows than a page has some are not on it.                        *)
LEMMA OneLeftOut ==
  ASSUME NEW P, NEW Q, IsFiniteSet(P), IsFiniteSet(Q), Cardinality(Q) < Cardinality(P),
         NEW d, NEW q, \A k, l \in P : k # l => d[k] # d[l]
  PROVE  \E k \in P : \A j \in Q : q[j] # d[k]
  <1> SUFFICES ASSUME \A k \in P : \E j \in Q : q[j] = d[k] PROVE FALSE
    OBVIOUS
  <1>1. PICK f : f = [k \in P |-> CHOOSE j \in Q : q[j] = d[k]]
    OBVIOUS
  <1>2. f \in [P -> Q] /\ \A k \in P : q[f[k]] = d[k]
    BY <1>1
  <1>3. ASSUME NEW k \in P, NEW l \in P, f[k] = f[l] PROVE k = l
    <2>1. q[f[k]] = d[k] /\ q[f[l]] = d[l]
      BY <1>2
    <2>2. d[k] = d[l]
      BY <1>3, <2>1
    <2> QED BY <2>2
  <1>4. f \in Injection(P, Q)
    BY <1>2, <1>3 DEF Injection, IsInjective
  <1>5. Cardinality(P) <= Cardinality(Q)
    BY <1>4, FS_Injection
  <1>6. Cardinality(P) \in Nat /\ Cardinality(Q) \in Nat
    BY FS_CardinalityType
  <1> QED BY <1>5, <1>6

(* The inbox: at most one more than a page of the conversations found by   *)
(* their peer is enough.                                                   *)
LEMMA InboxRight ==
  ASSUME ListingTyped, NEW c, CursorOK(c), NEW n \in Nat \ {0}, listing.of = "INBOX"
  PROVE  PageRight(c, InboxPage(c, n))
  <1>1. /\ listing.of \in Listeds /\ "newest" \in Bys /\ n + 1 \in Nat \ {0}
        /\ \A r, s \in Row : SortsBefore("newest", r, s) <=> Precedes(r, s)
    BY RowsListed, PromisedOrder DEF Bys
  <1>2. PICK S : S = AheadRows(c)
    OBVIOUS
  <1>3. /\ AfterNewest(c) = S /\ S \subseteq Listed
        /\ \A r \in S : r \in Row /\ r.group \in {"AI_THREAD", "DIRECT"}
    BY <1>1, <1>2, RowsToCome, RowsListed, RowKinds DEF AheadRows
  <1>4. PICK D : D = {r \in S : r.group = "DIRECT"}
    OBVIOUS
  <1>5. PICK direct : direct = Fetch(D, "newest", n + 1)
    OBVIOUS
  <1>6. PICK B : B = {r \in S : r.group = "AI_THREAD"} \cup {direct[k] : k \in 1..Len(direct)}
    OBVIOUS
  <1>7. InboxPage(c, n) = Paged(B, "newest", n)
    BY <1>3, <1>4, <1>5, <1>6 DEF InboxPage, authorityBranches, DirectMatches
  <1>8. D \subseteq Listed /\ D \subseteq S /\ \A r, s \in D : SortsBefore("newest", r, s) <=> Precedes(r, s)
    BY <1>1, <1>3, <1>4
  <1>9. /\ Cardinality(D) \in Nat /\ direct \in Seq(D)
        /\ Cardinality(D) <= n + 1 => Cut(D, direct, {})
        /\ Cardinality(D) > n + 1 => /\ Len(direct) = n + 1
                                     /\ Cut(D, direct, Behind(D, LastOf(direct)))
    <2>1. /\ Cardinality(D) \in Nat
          /\ Cardinality(D) <= n + 1 => Cut(D, Fetch(D, "newest", n + 1), {})
          /\ Cardinality(D) > n + 1 =>
               /\ Len(Fetch(D, "newest", n + 1)) = n + 1
               /\ Cut(D, Fetch(D, "newest", n + 1), Behind(D, LastOf(Fetch(D, "newest", n + 1))))
      BY <1>1, <1>8, FirstRows
    <2>2. direct \in Seq(D)
      BY <1>5, <2>1 DEF Cut
    <2> QED BY <1>5, <2>1, <2>2
  <1>10. B \subseteq S /\ \A k \in 1..Len(direct) : direct[k] \in D /\ direct[k] \in B
    BY <1>4, <1>6, <1>9
  <1>11. CASE Cardinality(D) <= n + 1
    <2>1. \A r \in D : \E k \in 1..Len(direct) : direct[k] = r
      BY <1>9, <1>11 DEF Cut
    <2>2. B = S
      BY <1>3, <1>4, <1>6, <1>10, <2>1
    <2> QED BY <1>1, <1>2, <1>7, <2>2, PagedRight
  <1>12. CASE Cardinality(D) > n + 1
    <2>1. PICK kept : kept = Fetch(B, "newest", n)
      OBVIOUS
    <2>2. B \subseteq Listed /\ \A r, s \in B : SortsBefore("newest", r, s) <=> Precedes(r, s)
      BY <1>1, <1>3, <1>10
    <2>3. /\ Cardinality(B) \in Nat
          /\ Len(Fetch(B, "newest", n + 1)) > n <=> Cardinality(B) > n
          /\ Cardinality(B) <= n => Cut(B, kept, {}) /\ Len(kept) = Cardinality(B)
          /\ Cardinality(B) > n => /\ Len(kept) = n /\ LastOf(kept) \in B
                                   /\ Cut(B, kept, Behind(B, LastOf(kept)))
      <3>1. /\ Cardinality(B) \in Nat
            /\ Len(Fetch(B, "newest", n + 1)) > n <=> Cardinality(B) > n
            /\ Cardinality(B) <= n => /\ Cut(B, Fetch(B, "newest", n), {})
                                      /\ Len(Fetch(B, "newest", n)) = Cardinality(B)
            /\ Cardinality(B) > n =>
                 /\ Len(Fetch(B, "newest", n)) = n /\ LastOf(Fetch(B, "newest", n)) \in B
                 /\ Cut(B, Fetch(B, "newest", n), Behind(B, LastOf(Fetch(B, "newest", n))))
        BY <1>1, <2>2, FirstRows
      <3> QED BY <2>1, <3>1
    <2>4. kept \in Seq(B) /\ Len(kept) <= n
      BY <2>3 DEF Cut
    <2>5. PICK x \in 1..n + 1 : \A j \in 1..Len(kept) : kept[j] # direct[x]
      <3>1. \A k, l \in 1..n + 1 : k < l => direct[k] # direct[l]
        <4>1. \A k, l \in 1..n + 1 : k < l => Precedes(direct[k], direct[l])
          BY <1>9, <1>12 DEF Cut
        <4>2. \A k \in 1..n + 1 : direct[k] \in Row
          BY <1>3, <1>9, <1>10, <1>12
        <4>3. \A k \in 1..n + 1 : ~Precedes(direct[k], direct[k])
          BY <1>1, <4>2, Promises
        <4> QED BY <4>1, <4>3
      <3>2. PICK P, Q : P = 1..n + 1 /\ Q = 1..Len(kept)
        OBVIOUS
      <3>3. IsFiniteSet(P) /\ Cardinality(P) = IF 1 > n + 1 THEN 0 ELSE n + 1 - 1 + 1
        BY <3>2, FS_Interval
      <3>4. IsFiniteSet(Q) /\ Cardinality(Q) = IF 1 > Len(kept) THEN 0 ELSE Len(kept) - 1 + 1
        <4>1. PICK o : o = Len(kept)
          OBVIOUS
        <4>2. o \in Int /\ 1 \in Int /\ Q = 1..o
          BY <2>4, <3>2, <4>1
        <4>3. IsFiniteSet(1..o) /\ Cardinality(1..o) = IF 1 > o THEN 0 ELSE o - 1 + 1
          BY <4>2, FS_Interval
        <4> QED BY <4>1, <4>2, <4>3
      <3>5. Cardinality(Q) < Cardinality(P)
        BY <2>4, <3>3, <3>4
      <3>6. \A k, l \in P : k # l => direct[k] # direct[l]
        <4>1. \A k, l \in P : k # l => k < l \/ l < k
          BY <3>2
        <4>2. \A k, l \in P : k < l => direct[k] # direct[l]
          BY <3>1, <3>2
        <4> QED BY <4>1, <4>2
      <3>7. \E k \in P : \A j \in Q : kept[j] # direct[k]
        BY <3>3, <3>4, <3>5, <3>6, OneLeftOut
      <3> QED BY <3>2, <3>7
    <2>6. direct[x] \in B /\ direct[x] \in Row /\ x \in 1..Len(direct)
      BY <1>3, <1>9, <1>10, <1>12
    <2>7. Cardinality(B) > n
      BY <2>3, <2>5, <2>6 DEF Cut
    <2>8. PICK last : last = LastOf(kept)
      OBVIOUS
    <2>9. last \in B /\ last \in S /\ last \in Row /\ Cut(B, kept, Behind(B, last))
      BY <1>3, <1>10, <2>3, <2>7, <2>8
    <2>10. Precedes(last, direct[x])
      BY <2>5, <2>6, <2>9 DEF Cut, Behind
    <2>11. ASSUME NEW r \in S, r \notin B PROVE Precedes(last, r)
      <3>1. r \in D /\ \A k \in 1..Len(direct) : direct[k] # r
        BY <1>3, <1>4, <1>6, <2>11
      <3>2. Precedes(LastOf(direct), r)
        BY <1>9, <1>12, <3>1 DEF Cut, Behind
      <3>3. LastOf(direct) = direct[n + 1] /\ n + 1 \in 1..Len(direct) /\ direct[n + 1] \in Row
        BY <1>3, <1>9, <1>10, <1>12 DEF LastOf
      <3>4. x = n + 1 \/ Precedes(direct[x], direct[n + 1])
        BY <1>9, <1>12, <2>6, <3>3 DEF Cut
      <3>5. r \in Row
        BY <1>3
      <3>6. Precedes(direct[x], r)
        BY <1>1, <2>6, <3>2, <3>3, <3>4, <3>5, Promises
      <3>7. PICK between : between = direct[x]
        OBVIOUS
      <3>8. /\ between \in Row /\ last \in Row /\ r \in Row
            /\ Precedes(last, between) /\ Precedes(between, r)
        BY <2>6, <2>9, <2>10, <3>5, <3>6, <3>7
      <3> QED BY <1>1, <3>8, Promises
    <2>12. Cut(S, kept, Behind(S, last))
      <3>1. kept \in Seq(S) /\ \A k \in 1..Len(kept) : kept[k] \in B
        BY <1>10, <2>4
      <3> QED BY <1>10, <2>9, <2>11, <3>1 DEF Cut, Behind
    <2>13. PICK page : page = Paged(B, "newest", n)
      OBVIOUS
    <2>14. page.items = kept /\ page.next = CursorOf(last)
      BY <2>1, <2>3, <2>7, <2>8, <2>13 DEF Paged, PageOf
    <2>15. page.next.at = "row" /\ page.next.row = last /\ page.next # NoCursor
      BY <2>14 DEF CursorOf, NoCursor
    <2>16. AheadRows(page.next) = Behind(AheadRows(c), last)
      BY <1>2, <2>9, <2>15, RowsAfter
    <2>17. Cut(AheadRows(c), page.items, AheadRows(page.next))
      BY <1>2, <2>12, <2>14, <2>16
    <2>18. CursorOK(page.next)
      BY <2>9, <2>14 DEF CursorOK
    <2> QED BY <1>7, <2>13, <2>15, <2>17, <2>18 DEF PageRight
  <1> QED BY <1>9, <1>11, <1>12

-----------------------------------------------------------------------------
(* The listing of tasks: its two groups.                                   *)

(* The tasks of a group that a cursor of this group has not passed.        *)
GroupRows(g, c) ==
  {r \in Listed : Belongs(r) /\ (Active(r) <=> g = "a") /\ (FromStart(c) \/ Precedes(c.row, r))}

By(g) == IF g = "a" THEN "active" ELSE "finished"

(* The group that a status filter leaves.                                  *)
Shown(g) ==
  /\ g \in {"a", "f"}
  /\ listing.status # "ANY" => (g = "a" <=> listing.status \in {"TODO", "IN_PROGRESS"})

LEMMA TaskFilter ==
  ASSUME ListingTyped, listing.of = "TASKS", NEW c, NEW r \in Row, c.row \in Row
  PROVE  /\ Active(c.row) /\ Active(r) => (ActiveAfterCursor(c, r) <=> Precedes(c.row, r))
         /\ ~Active(c.row) /\ ~Active(r) => (RemainingFinished(c, r) <=> Precedes(c.row, r))
  <1>1. PICK row \in Row : row = c.row
    OBVIOUS
  <1>2. listing.of \in Listeds /\ row \in AnyRow /\ r \in AnyRow
    BY <1>1, RowsListed, RowKinds
  <1>3. /\ row.id \in Int /\ row.time \in Int /\ row.created \in Int /\ row.due \in Int
        /\ r.id \in Int /\ r.time \in Int /\ r.created \in Int /\ r.due \in Int
        /\ 0 <= row.due /\ row.due <= Newest /\ 0 <= r.due /\ r.due <= Newest /\ Newest \in Int
    BY <1>2, RowFields
  <1>4. RemainingFinished(c, r) <=> FinishedOrder(row, r)
    BY <1>1, <1>3 DEF RemainingFinished, FinishedOrder
  <1>5. ActiveAfterCursor(c, r) <=> ActiveOrder(row, r)
    <2>1. RemainingActive(c, r) <=>
            \/ row.time > r.time
            \/ row.time = r.time /\ row.created < r.created
            \/ row.time = r.time /\ row.created = r.created /\ row.id < r.id
      BY <1>1, <1>3 DEF RemainingActive
    <2>2. CASE row.due = 0
      BY <1>1, <1>3, <2>1, <2>2 DEF ActiveAfterCursor, ActiveOrder, NoDue
    <2>3. CASE row.due # 0 /\ r.due = 0
      BY <1>1, <1>3, <2>1, <2>3 DEF ActiveAfterCursor, ActiveOrder, NoDue
    <2>4. CASE row.due # 0 /\ r.due # 0
      BY <1>1, <1>3, <2>1, <2>4 DEF ActiveAfterCursor, ActiveOrder, NoDue
    <2> QED BY <2>2, <2>3, <2>4
  <1> QED BY <1>1, <1>2, <1>4, <1>5, PromisedOrder DEF SortsBefore

LEMMA GroupFetched ==
  ASSUME ListingTyped, listing.of = "TASKS", NEW c, NEW g, Shown(g), NEW n,
         FromStart(c) \/ (c.row \in Row /\ (Active(c.row) <=> g = "a"))
  PROVE  fetchGroup(g, listing.status, c, n) = Fetch(GroupRows(g, c), By(g), n)
  <1>1. \A r \in Listed : r \in Row /\ r.listed /\ r.group \in Statuses
    BY RowsListed, RowKinds
  <1>2. ASSUME NEW r \in Listed
        PROVE  r \in InGroup(g, listing.status) <=> Belongs(r) /\ (Active(r) <=> g = "a")
    BY <1>1 DEF InGroup, Belongs, Active, Shown, Statuses
  <1>3. CASE g = "a"
    <2>1. \A r \in Listed : Active(r) => (FromStart(c) \/ ActiveAfterCursor(c, r) <=>
                                            FromStart(c) \/ Precedes(c.row, r))
      BY <1>1, <1>3, TaskFilter
    <2>2. PICK I : I = InGroup(g, listing.status)
      OBVIOUS
    <2>3. I \subseteq Listed
      BY <2>2 DEF InGroup
    <2>4. {r \in I : FromStart(c) \/ ActiveAfterCursor(c, r)} = GroupRows(g, c)
      BY <1>2, <1>3, <2>1, <2>2, <2>3 DEF GroupRows
    <2> QED BY <1>3, <2>2, <2>4 DEF fetchGroup, By
  <1>4. CASE g # "a"
    <2>1. \A r \in Listed : ~Active(r) => (FromStart(c) \/ RemainingFinished(c, r) <=>
                                             FromStart(c) \/ Precedes(c.row, r))
      BY <1>1, <1>4, TaskFilter
    <2>2. PICK I : I = InGroup(g, listing.status)
      OBVIOUS
    <2>3. I \subseteq Listed
      BY <2>2 DEF InGroup
    <2>4. {r \in I : FromStart(c) \/ RemainingFinished(c, r)} = GroupRows(g, c)
      BY <1>2, <1>4, <2>1, <2>2, <2>3 DEF GroupRows
    <2> QED BY <1>4, <2>2, <2>4 DEF fetchGroup, By
  <1> QED BY <1>3, <1>4

LEMMA GroupOrder ==
  ASSUME ListingTyped, listing.of = "TASKS", NEW c, NEW g \in {"a", "f"}
  PROVE  /\ By(g) \in Bys /\ GroupRows(g, c) \subseteq Listed
         /\ \A r, s \in GroupRows(g, c) : SortsBefore(By(g), r, s) <=> Precedes(r, s)
  <1>1. /\ listing.of \in Listeds
        /\ \A r \in GroupRows(g, c) : r \in Row /\ (Active(r) <=> g = "a")
    BY RowsListed DEF GroupRows
  <1>2. By(g) \in Bys /\ GroupRows(g, c) \subseteq Listed
    BY DEF By, Bys, GroupRows
  <1>3. By(g) = IF g = "a" THEN "active" ELSE "finished"
    BY DEF By
  <1>4. ASSUME NEW r \in GroupRows(g, c), NEW s \in GroupRows(g, c)
        PROVE  SortsBefore(By(g), r, s) <=> Precedes(r, s)
    <2>1. r \in Row /\ s \in Row /\ (Active(r) <=> g = "a") /\ (Active(s) <=> g = "a")
      BY <1>1
    <2> QED BY <1>1, <1>3, <2>1, PromisedOrder
  <1> QED BY <1>2, <1>4

(* The first rows of a group: q is what one page of n holds.               *)
FirstOf(S, q, more, n) ==
  /\ Cardinality(S) \in Nat
  /\ Len(more) > n <=> Cardinality(S) > n
  /\ Cardinality(S) <= n => Cut(S, q, {}) /\ Len(q) = Cardinality(S)
  /\ Cardinality(S) > n => /\ Len(q) = n /\ LastOf(q) \in S
                           /\ Cut(S, q, Behind(S, LastOf(q)))

LEMMA GroupFirst ==
  ASSUME ListingTyped, listing.of = "TASKS", NEW c, NEW g, Shown(g), NEW n \in Nat \ {0},
         FromStart(c) \/ (c.row \in Row /\ (Active(c.row) <=> g = "a"))
  PROVE  FirstOf(GroupRows(g, c), fetchGroup(g, listing.status, c, n),
                 fetchGroup(g, listing.status, c, n + 1), n)
  <1>0. PICK S, q, more : /\ S = GroupRows(g, c) /\ q = fetchGroup(g, listing.status, c, n)
                          /\ more = fetchGroup(g, listing.status, c, n + 1)
    OBVIOUS
  <1>1. q = Fetch(S, By(g), n) /\ more = Fetch(S, By(g), n + 1)
    BY <1>0, GroupFetched
  <1>2. By(g) \in Bys /\ S \subseteq Listed /\ \A r, s \in S : SortsBefore(By(g), r, s) <=> Precedes(r, s)
    <2>1. g \in {"a", "f"}
      BY DEF Shown
    <2> QED BY <1>0, <2>1, GroupOrder
  <1>3. PICK by \in Bys : by = By(g)
    BY <1>2
  <1>4. \A r, s \in S : SortsBefore(by, r, s) <=> Precedes(r, s)
    BY <1>2, <1>3
  <1>5. /\ Cardinality(S) \in Nat
        /\ Len(Fetch(S, by, n + 1)) > n <=> Cardinality(S) > n
        /\ Cardinality(S) <= n => /\ Cut(S, Fetch(S, by, n), {})
                                  /\ Len(Fetch(S, by, n)) = Cardinality(S)
        /\ Cardinality(S) > n =>
             /\ Len(Fetch(S, by, n)) = n /\ LastOf(Fetch(S, by, n)) \in S
             /\ Cut(S, Fetch(S, by, n), Behind(S, LastOf(Fetch(S, by, n))))
    BY <1>2, <1>4, FirstRows
  <1> QED BY <1>0, <1>1, <1>3, <1>5 DEF FirstOf

(* A page of one group, when the group is all that is to come.             *)
LEMMA GroupPage ==
  ASSUME ListingTyped, listing.of = "TASKS", NEW c, CursorOK(c), NEW d, NEW g, Shown(g),
         NEW n \in Nat \ {0},
         FromStart(d) \/ (d.row \in Row /\ (Active(d.row) <=> g = "a")),
         AheadRows(c) = GroupRows(g, d)
  PROVE  PageRight(c, pageGroup(g, listing.status, d, n))
  <1>1. PICK S, q, more : /\ S = GroupRows(g, d) /\ q = fetchGroup(g, listing.status, d, n)
                          /\ more = fetchGroup(g, listing.status, d, n + 1)
    OBVIOUS
  <1>2. /\ Cardinality(S) \in Nat
        /\ Len(more) > n <=> Cardinality(S) > n
        /\ Cardinality(S) <= n => Cut(S, q, {}) /\ Len(q) = Cardinality(S)
        /\ Cardinality(S) > n => /\ Len(q) = n /\ LastOf(q) \in S
                                 /\ Cut(S, q, Behind(S, LastOf(q)))
    <2>1. FirstOf(GroupRows(g, d), fetchGroup(g, listing.status, d, n),
                  fetchGroup(g, listing.status, d, n + 1), n)
      BY GroupFirst
    <2> QED BY <1>1, <2>1 DEF FirstOf
  <1>3. PICK page : page = pageGroup(g, listing.status, d, n)
    OBVIOUS
  <1>4. /\ page.items = q
        /\ page.next = IF Len(more) > n THEN TaskCursor(g, LastOf(q)) ELSE NoCursor
    BY <1>1, <1>3 DEF pageGroup, PageOf
  <1>5. CASE Cardinality(S) > n
    <2>1. PICK last : last = LastOf(q)
      OBVIOUS
    <2>2. last \in S /\ Cut(S, q, Behind(S, last)) /\ page.next = TaskCursor(g, last)
      BY <1>2, <1>4, <1>5, <2>1
    <2>3. last \in Listed /\ last \in Row /\ Belongs(last) /\ (Active(last) <=> g = "a")
      BY <1>1, <2>2, RowsListed DEF GroupRows
    <2>4. page.next.at = "row" /\ page.next.row = last /\ page.next # NoCursor
      BY <2>2 DEF TaskCursor, NoCursor
    <2>5. AheadRows(page.next) = Behind(AheadRows(c), last)
      BY <1>1, <2>2, <2>3, <2>4, RowsAfter
    <2>6. Cut(AheadRows(c), page.items, AheadRows(page.next))
      BY <1>1, <1>4, <2>2, <2>5
    <2>7. CursorOK(page.next)
      BY <2>2, <2>3 DEF CursorOK, Shown, Belongs
    <2> QED BY <1>3, <2>4, <2>6, <2>7 DEF PageRight
  <1>6. CASE ~(Cardinality(S) > n)
    <2>1. Cut(S, q, {}) /\ page.next = NoCursor
      BY <1>2, <1>4, <1>6
    <2> QED BY <1>1, <1>3, <1>4, <2>1 DEF PageRight
  <1> QED BY <1>5, <1>6

LEMMA FilteredRight ==
  ASSUME ListingTyped, NEW c, CursorOK(c), NEW n \in Nat \ {0}, listing.of = "TASKS",
         listing.status # "ANY"
  PROVE  PageRight(c, FilteredTasks(listing.status, c, n))
  <1>1. PICK g : g = IF listing.status \in {"TODO", "IN_PROGRESS"} THEN "a" ELSE "f"
    OBVIOUS
  <1>2. Shown(g) /\ \A r \in Listed : r \in Row /\ r.group \in Statuses
    BY <1>1, RowsListed, RowKinds DEF Shown
  <1>3. \A r \in Row : r.group = listing.status => (Active(r) <=> g = "a")
    BY <1>1 DEF Active
  <1>4. \A r \in Listed : Belongs(r) => (Active(r) <=> g = "a")
    BY <1>2, <1>3 DEF Belongs
  <1>5. /\ c = NoCursor \/ c.group = g
        /\ FromStart(c) \/ (c.row \in Row /\ (Active(c.row) <=> g = "a"))
        /\ FromStart(c) <=> c.at = "none"
        /\ c.at # "start" /\ (c.at = "none" \/ c.at = "row")
    <2>1. CASE c = NoCursor
      BY <2>1 DEF NoCursor, FromStart
    <2>2. CASE c # NoCursor
      <3>1. PICK row \in Row : /\ c = TaskCursor(IF Active(row) THEN "a" ELSE "f", row)
                               /\ row.group = listing.status
        BY <2>2 DEF CursorOK
      <3>2. Active(row) <=> g = "a"
        BY <1>3, <3>1
      <3> QED BY <1>1, <3>1, <3>2 DEF TaskCursor, FromStart
    <2> QED BY <2>1, <2>2
  <1>6. AheadRows(c) = GroupRows(g, c)
    BY <1>4, <1>5 DEF AheadRows, Ahead, GroupRows
  <1>7. FilteredTasks(listing.status, c, n) = pageGroup(g, listing.status, c, n)
    BY <1>1, <1>5 DEF FilteredTasks
  <1> QED BY <1>2, <1>5, <1>6, <1>7, GroupPage

(* A cursor of the finished group.                                         *)
LEMMA FinishedRight ==
  ASSUME ListingTyped, NEW c, CursorOK(c), NEW n \in Nat \ {0}, listing.of = "TASKS",
         listing.status = "ANY", ~InA(c)
  PROVE  PageRight(c, TasksPage(c, n))
  <1>1. /\ listing.of \in Listeds /\ \A r \in Listed : r \in Row
    BY RowsListed
  <1>2. \/ c = GroupStart("f")
        \/ \E row \in Row : c = TaskCursor("f", row) /\ ~Active(row)
    BY DEF CursorOK, InA, TaskCursor
  <1>3. /\ c.at = "start" \/ (c.at = "row" /\ c.row \in Row /\ ~Active(c.row))
        /\ FromStart(c) <=> c.at = "start"
    BY <1>2 DEF GroupStart, TaskCursor, FromStart
  <1>4. ASSUME NEW r \in Listed PROVE Ahead(c, r) <=> ~Active(r) /\ (FromStart(c) \/ Precedes(c.row, r))
    <2>1. CASE c.at = "start"
      BY <1>3, <2>1 DEF Ahead
    <2>2. CASE c.at = "row"
      <3>1. Active(r) => ~Precedes(c.row, r)
        BY <1>1, <1>3, <2>2, PromisedOrder
      <3> QED BY <1>3, <2>2, <3>1 DEF Ahead
    <2> QED BY <1>3, <2>1, <2>2
  <1>5. AheadRows(c) = GroupRows("f", c)
    BY <1>4 DEF AheadRows, GroupRows
  <1>6. TasksPage(c, n) = pageGroup("f", "ANY", c, n)
    BY DEF TasksPage
  <1>7. Shown("f")
    BY DEF Shown
  <1> QED BY <1>3, <1>5, <1>6, <1>7, GroupPage

(* A cursor of the active group, or none: the page may reach into the      *)
(* finished one.                                                           *)
LEMMA BothGroups ==
  ASSUME ListingTyped, NEW c, CursorOK(c), listing.of = "TASKS", listing.status = "ANY", InA(c)
  PROVE  /\ c = NoCursor \/ (c.at = "row" /\ c.row \in Row /\ Active(c.row))
         /\ AheadRows(c) = GroupRows("a", c) \cup GroupRows("f", NoCursor)
         /\ GroupRows("a", c) \cap GroupRows("f", NoCursor) = {}
         /\ \A r \in GroupRows("a", c), s \in GroupRows("f", NoCursor) :
              r \in Row /\ s \in Row /\ Precedes(r, s) /\ ~Precedes(s, r)
         /\ AheadRows(GroupStart("f")) = GroupRows("f", NoCursor)
  <1>1. /\ listing.of \in Listeds /\ \A r \in Listed : r \in Row
    BY RowsListed
  <1>2. c = NoCursor \/ (c.at = "row" /\ c.row \in Row /\ Active(c.row))
    BY DEF CursorOK, InA, TaskCursor, GroupStart, NoCursor
  <1>3. ASSUME NEW r \in Listed
        PROVE  Ahead(c, r) <=> ~Active(r) \/ FromStart(c) \/ Precedes(c.row, r)
    <2>1. CASE c = NoCursor
      BY <2>1 DEF NoCursor, FromStart, Ahead
    <2>2. CASE c.at = "row" /\ c.row \in Row /\ Active(c.row)
      BY <1>1, <2>2, PromisedOrder DEF FromStart, Ahead
    <2> QED BY <1>2, <2>1, <2>2
  <1>4. FromStart(NoCursor)
    BY DEF FromStart, NoCursor
  <1>5. AheadRows(c) = GroupRows("a", c) \cup GroupRows("f", NoCursor)
    BY <1>3, <1>4 DEF AheadRows, GroupRows
  <1>6. /\ GroupRows("a", c) \cap GroupRows("f", NoCursor) = {}
        /\ \A r \in GroupRows("a", c) : r \in Row /\ Active(r)
        /\ \A r \in GroupRows("f", NoCursor) : r \in Row /\ ~Active(r)
    BY <1>1 DEF GroupRows
  <1>7. \A r \in Listed : Ahead(GroupStart("f"), r) <=> ~Active(r)
    BY DEF GroupStart, Ahead
  <1>8. AheadRows(GroupStart("f")) = GroupRows("f", NoCursor)
    BY <1>4, <1>7 DEF AheadRows, GroupRows
  <1> QED BY <1>1, <1>2, <1>5, <1>6, <1>8, PromisedOrder

(* The first of n + 1 rows fetched are the n fetched.                      *)
LEMMA FewerFetched ==
  ASSUME NEW S, Cardinality(S) \in Nat, NEW by, NEW n \in Nat, Cardinality(S) > n
  PROVE  SubSeq(Fetch(S, by, n + 1), 1, n) = Fetch(S, by, n)
  <1>1. PICK p : p = [k \in Int |-> CHOOSE r \in S : Cardinality({s \in S : SortsBefore(by, s, r)}) = k - 1]
    OBVIOUS
  <1>2. PICK f : f = Fetch(S, by, n)
    OBVIOUS
  <1>3. PICK g : g = Fetch(S, by, n + 1)
    OBVIOUS
  <1>4. f = [k \in 1..n |-> p[k]]
    BY <1>1, <1>2 DEF Fetch
  <1>5. (IF n + 1 < Cardinality(S) THEN n + 1 ELSE Cardinality(S)) = n + 1
    OBVIOUS
  <1>6. g = [k \in 1..n + 1 |-> p[k]]
    BY <1>1, <1>3, <1>5 DEF Fetch
  <1>7. SubSeq(g, 1, n) = f
    BY <1>4, <1>6
  <1> QED BY <1>2, <1>3, <1>7

LEMMA MixedRight ==
  ASSUME ListingTyped, NEW c, CursorOK(c), NEW n \in Nat \ {0}, listing.of = "TASKS",
         listing.status = "ANY", InA(c)
  PROVE  PageRight(c, TasksPage(c, n))
  <1>1. PICK A, F : A = GroupRows("a", c) /\ F = GroupRows("f", NoCursor)
    OBVIOUS
  <1>2. PICK T : T = AheadRows(c)
    OBVIOUS
  <1>3. /\ T = A \cup F /\ A \cap F = {} /\ AheadRows(GroupStart("f")) = F
        /\ \A r \in A, s \in F : r \in Row /\ s \in Row /\ Precedes(r, s) /\ ~Precedes(s, r)
        /\ FromStart(c) \/ (c.row \in Row /\ Active(c.row))
    BY <1>1, <1>2, BothGroups DEF FromStart, NoCursor
  <1>4. /\ Shown("a") /\ Shown("f") /\ FromStart(NoCursor) /\ n + 1 \in Nat \ {0}
        /\ 1 \in Nat \ {0}
    BY DEF Shown, FromStart, NoCursor
  <1>5. PICK active : active = fetchGroup("a", "ANY", c, n + 1)
    OBVIOUS
  <1>6. PICK left : left = n - Len(active)
    OBVIOUS
  <1>7. /\ Cardinality(A) \in Nat
        /\ Cardinality(A) > n => Len(active) = n + 1
        /\ Cardinality(A) <= n => Len(active) = Cardinality(A) /\ Cut(A, active, {})
    <2>1. FirstOf(A, active, fetchGroup("a", "ANY", c, n + 1 + 1), n + 1)
      BY <1>1, <1>3, <1>4, <1>5, GroupFirst
    <2>2. /\ Cardinality(A) \in Nat
          /\ Cardinality(A) <= n + 1 => Cut(A, active, {}) /\ Len(active) = Cardinality(A)
          /\ Cardinality(A) > n + 1 => Len(active) = n + 1
      BY <2>1 DEF FirstOf
    <2> QED BY <2>2
  <1>8. PICK page : page = TasksPage(c, n)
    OBVIOUS
  <1>9. ASSUME NEW last \in T
        PROVE  /\ last \in Listed /\ last \in Row /\ Belongs(last)
               /\ Active(last) => CursorOK(TaskCursor("a", last))
               /\ ~Active(last) => CursorOK(TaskCursor("f", last))
               /\ AheadRows(TaskCursor("a", last)) = Behind(T, last)
               /\ AheadRows(TaskCursor("f", last)) = Behind(T, last)
    <2>1. last \in Listed /\ last \in Row /\ Belongs(last)
      BY <1>2, <1>9, RowsListed DEF AheadRows
    <2>2. ASSUME NEW g PROVE AheadRows(TaskCursor(g, last)) = Behind(T, last)
      <3>1. PICK d : d = TaskCursor(g, last)
        OBVIOUS
      <3>2. d.at = "row" /\ d.row = last
        BY <3>1 DEF TaskCursor
      <3> QED BY <1>2, <1>9, <2>1, <3>1, <3>2, RowsAfter
    <2> QED BY <2>1, <2>2 DEF CursorOK
  <1>10. /\ \A r \in A : r \in T /\ Active(r)
         /\ \A r \in F : r \in T /\ ~Active(r)
    BY <1>1, <1>3 DEF GroupRows
  <1>11. CASE left < 0
    <2>1. Cardinality(A) > n /\ Len(active) = n + 1
      BY <1>6, <1>7, <1>11
    <2>2. PICK kept : kept = fetchGroup("a", "ANY", c, n)
      OBVIOUS
    <2>3. SubSeq(active, 1, n) = kept
      <3>1. active = Fetch(A, "active", n + 1) /\ kept = Fetch(A, "active", n)
        BY <1>1, <1>3, <1>4, <1>5, <2>2, GroupFetched DEF By
      <3> QED BY <1>7, <2>1, <3>1, FewerFetched
    <2>4. FirstOf(A, kept, active, n)
      BY <1>1, <1>3, <1>4, <1>5, <2>2, GroupFirst
    <2>5. PICK last : last = LastOf(kept)
      OBVIOUS
    <2>6. last \in A /\ Cut(A, kept, Behind(A, last))
      BY <2>1, <2>4, <2>5 DEF FirstOf
    <2>7. page.items = kept /\ page.next = TaskCursor("a", last)
      <3>1. page = PageOf(SubSeq(active, 1, n), TaskCursor("a", LastOf(SubSeq(active, 1, n))))
        BY <1>5, <1>6, <1>8, <1>11 DEF TasksPage
      <3>2. page = PageOf(kept, TaskCursor("a", last))
        BY <2>3, <2>5, <3>1
      <3> QED BY <3>2 DEF PageOf
    <2>8. Behind(A, last) \cup F = Behind(T, last)
      BY <1>3, <2>6 DEF Behind
    <2>9. Cut(T, kept, Behind(T, last))
      <3>1. Cut(A \cup F, kept, Behind(A, last) \cup F)
        BY <1>3, <2>6, CutThenAll
      <3> QED BY <1>3, <2>8, <3>1
    <2>10. page.next # NoCursor /\ CursorOK(page.next) /\ AheadRows(page.next) = Behind(T, last)
      <3>1. page.next # NoCursor
        BY <2>7 DEF TaskCursor, NoCursor
      <3>2. last \in T /\ Active(last)
        BY <1>10, <2>6
      <3> QED BY <1>9, <2>7, <3>1, <3>2
    <2> QED BY <1>2, <1>8, <2>7, <2>9, <2>10 DEF PageRight
  <1>12. CASE left = 0
    <2>1. Cut(A, active, {})
      BY <1>6, <1>7, <1>12
    <2>2. PICK some : some = fetchGroup("f", "ANY", NoCursor, 1)
      OBVIOUS
    <2>3. FirstOf(F, some, fetchGroup("f", "ANY", NoCursor, 1 + 1), 1)
      BY <1>1, <1>4, <2>2, GroupFirst
    <2>4. page.items = active /\ page.next = IF some # <<>> THEN GroupStart("f") ELSE NoCursor
      BY <1>5, <1>6, <1>8, <1>12, <2>2 DEF TasksPage, PageOf
    <2>5. CASE some # <<>>
      <3>1. page.next # NoCursor /\ CursorOK(page.next) /\ AheadRows(page.next) = F
        BY <1>3, <2>4, <2>5 DEF GroupStart, NoCursor, CursorOK
      <3>2. Cut(A \cup F, active, {} \cup F)
        BY <1>3, <2>1, CutThenAll
      <3> QED BY <1>2, <1>3, <1>8, <2>4, <3>1, <3>2 DEF PageRight
    <2>6. CASE some = <<>>
      <3>1. Cardinality(F) \in Nat /\ Len(some) = 0 /\ ~(Cardinality(F) > 1)
        BY <2>3, <2>6 DEF FirstOf
      <3>2. Cut(F, some, {})
        BY <2>3, <3>1 DEF FirstOf
      <3>3. F = {}
        BY <3>1, <3>2 DEF Cut
      <3>4. T = A /\ page.next = NoCursor
        BY <1>3, <2>4, <2>6, <3>3
      <3> QED BY <1>2, <1>8, <2>1, <2>4, <3>4 DEF PageRight
    <2> QED BY <2>5, <2>6
  <1>13. CASE left > 0
    <2>1. Cut(A, active, {}) /\ left \in Nat \ {0} /\ ~(left < 0) /\ left # 0
      BY <1>6, <1>7, <1>13
    <2>2. PICK finished, more : /\ finished = fetchGroup("f", "ANY", NoCursor, left)
                                /\ more = fetchGroup("f", "ANY", NoCursor, left + 1)
      OBVIOUS
    <2>3. FirstOf(F, finished, more, left)
      BY <1>1, <1>4, <2>1, <2>2, GroupFirst
    <2>4. /\ page.items = active \o finished
          /\ page.next = IF Len(more) > left THEN TaskCursor("f", LastOf(active \o finished))
                         ELSE NoCursor
      BY <1>5, <1>6, <1>8, <1>13, <2>1, <2>2 DEF TasksPage, PageOf
    <2>5. CASE Cardinality(F) > left
      <3>1. PICK last : last = LastOf(finished)
        OBVIOUS
      <3>2. /\ Len(finished) = left /\ last \in F /\ Len(more) > left
            /\ Cut(F, finished, Behind(F, last))
        BY <2>3, <2>5, <3>1 DEF FirstOf
      <3>3. Cut(T, active \o finished, Behind(F, last)) /\ LastOf(active \o finished) = last
        <4>1. \A r \in A, s \in F : Precedes(r, s)
          BY <1>3
        <4>2. A \cap F = {}
          BY <1>3
        <4>3. /\ Cut(A \cup F, active \o finished, Behind(F, last))
              /\ Len(finished) # 0 => LastOf(active \o finished) = LastOf(finished)
          <5>1. PICK R : R = Behind(F, last)
            OBVIOUS
          <5>2. Cut(F, finished, R)
            BY <3>2, <5>1
          <5>3. Cut(A \cup F, active \o finished, R)
            BY <2>1, <4>1, <4>2, <5>2, CutAfterAll
          <5>4. active \in Seq(A) /\ finished \in Seq(F) /\ Len(finished) # 0
            BY <2>1, <3>2 DEF Cut
          <5>5. LastOf(active \o finished) = LastOf(finished)
            BY <5>4, LastOfBoth
          <5> QED BY <5>1, <5>3, <5>5
        <4> QED BY <1>3, <2>1, <3>1, <3>2, <4>3
      <3>4. Behind(F, last) = Behind(T, last)
        BY <1>3, <3>2 DEF Behind
      <3>5. page.next = TaskCursor("f", last)
        BY <2>4, <3>2, <3>3
      <3>6. page.next # NoCursor /\ CursorOK(page.next) /\ AheadRows(page.next) = Behind(T, last)
        <4>1. page.next # NoCursor
          BY <3>5 DEF TaskCursor, NoCursor
        <4>2. last \in T /\ ~Active(last)
          BY <1>10, <3>2
        <4> QED BY <1>9, <3>5, <4>1, <4>2
      <3> QED BY <1>2, <1>8, <2>4, <3>3, <3>4, <3>6 DEF PageRight
    <2>6. CASE ~(Cardinality(F) > left)
      <3>1. Cut(F, finished, {}) /\ page.next = NoCursor
        BY <2>1, <2>3, <2>4, <2>6 DEF FirstOf
      <3>2. Cut(T, active \o finished, {})
        <4>1. \A r \in A, s \in F : Precedes(r, s)
          BY <1>3
        <4>2. A \cap F = {}
          BY <1>3
        <4>3. Cut(A \cup F, active \o finished, {})
          BY <2>1, <3>1, <4>1, <4>2, CutAfterAll
        <4> QED BY <1>3, <4>3
      <3> QED BY <1>2, <1>8, <2>4, <3>1, <3>2 DEF PageRight
    <2> QED BY <2>5, <2>6
  <1> QED BY <1>6, <1>7, <1>11, <1>12, <1>13

LEMMA PageCuts ==
  ASSUME ListingTyped, NEW c, CursorOK(c), NEW n \in Nat \ {0}
  PROVE  PageRight(c, Answered(c, n))
  <1>1. listing.of \in Listeds
    BY RowsListed
  <1>2. CASE listing.of = "TASKS"
    <2>1. CASE listing.status = "ANY" /\ InA(c)
      BY <1>2, <2>1, MixedRight DEF Answered
    <2>2. CASE listing.status = "ANY" /\ ~InA(c)
      BY <1>2, <2>2, FinishedRight DEF Answered
    <2>3. CASE listing.status # "ANY"
      BY <1>2, <2>3, FilteredRight DEF Answered
    <2> QED BY <2>1, <2>2, <2>3
  <1>3. CASE listing.of = "INBOX"
    BY <1>3, InboxRight DEF Answered
  <1>4. CASE listing.of \notin {"TASKS", "INBOX"}
    BY <1>1, <1>4, PlainPages DEF Answered, Listeds
  <1> QED BY <1>2, <1>3, <1>4

-----------------------------------------------------------------------------
(* The walk over the pages.                                                *)

(* The order and the membership of a listing, as sets: they are the same   *)
(* before and after a step that keeps the listing.                         *)
Order == {p \in Row \X Row : Precedes(p[1], p[2])}

Members == {r \in Row : Belongs(r)}

Still == {i \in RowIds \ touched : shelf[i] \in Members}

ToCome(c, r) ==
  \/ c.at = "none"
  \/ c.at = "start" /\ ~Active(r)
  \/ c.at = "row" /\ <<c.row, r>> \in Order

(* A row that did not change has been shown unless it is still to come,    *)
(* and those shown stand in the promised order.                            *)
ShownSoFar ==
  \A i \in Still :
    (\E k \in 1..Len(shown) : shown[k] = i) <=> ~(walk = "OPEN" /\ ToCome(cursorAt, shelf[i]))

ShownInOrder ==
  \A k, l \in 1..Len(shown) :
    k < l /\ shown[k] \in Still /\ shown[l] \in Still => <<shelf[shown[k]], shelf[shown[l]]>> \in Order

WalkInv ==
  /\ ListingTyped /\ CursorOK(cursorAt) /\ walk \in {"OPEN", "DONE"} /\ shown \in Seq(RowIds)
  /\ ShownSoFar /\ ShownInOrder

LEMMA SameListing ==
  ASSUME listing' = listing
  PROVE  Row' = Row /\ Order' = Order /\ Members' = Members
  <1>1. Row' = Row
    BY DEF Row
  <1>2. \A r, s : Precedes(r, s)' <=> Precedes(r, s)
    BY DEF Precedes
  <1>3. \A r : Belongs(r)' <=> Belongs(r)
    BY DEF Belongs
  <1> QED BY <1>1, <1>2, <1>3 DEF Order, Members

(* Notes are unpinned, where the listing of notes is walked: its cursor    *)
(* carries no pinnedAt.                                                    *)
Unpinned ==
  \A l \in Listings : l.of = "NOTES" => \A t \in RowsOf(l.of), i \in RowIds : t[i].due = NoDue

LEMMA WalkStarts ==
  ASSUME Unpinned, PagingInit
  PROVE  WalkInv
  <1>1. /\ listing \in [of : Listeds, status : Statuses \cup {"ANY"}]
        /\ shelf \in [RowIds -> Rows(listing.of)] /\ \A i \in RowIds : shelf[i].id = i
        /\ pageSize \in Nat \ {0}
    BY PagingAssumption DEF PagingInit
  <1>2. \A i \in RowIds : shelf[i] \in Row
    BY <1>1 DEF PagingInit, Unpinned, Row
  <1>3. ListingTyped
    BY <1>1, <1>2 DEF ListingTyped
  <1>4. CursorOK(cursorAt) /\ walk \in {"OPEN", "DONE"} /\ shown \in Seq(RowIds)
        /\ Len(shown) = 0 /\ walk = "OPEN" /\ cursorAt.at = "none"
    BY DEF PagingInit, CursorOK, NoCursor
  <1>5. ShownSoFar /\ ShownInOrder
    BY <1>4 DEF ShownSoFar, ShownInOrder, ToCome
  <1> QED BY <1>3, <1>4, <1>5 DEF WalkInv

(* A row is edited or hidden: it no longer counts.                         *)
LEMMA WalkTouched ==
  ASSUME WalkInv, NEW i \in RowIds, listing' = listing,
         pageSize' = pageSize /\ cursorAt' = cursorAt /\ shown' = shown /\ walk' = walk,
         touched' = touched \cup {i}, NEW row \in Row, row.id = i,
         shelf' = [shelf EXCEPT ![i] = row]
  PROVE  WalkInv'
  <1>1. Row' = Row /\ Order' = Order /\ Members' = Members
    BY SameListing
  <1>2. /\ shelf' \in [RowIds -> Row] /\ \A j \in RowIds : shelf'[j].id = j
        /\ \A j \in RowIds : j # i => shelf'[j] = shelf[j]
    BY DEF WalkInv, ListingTyped
  <1>3. ListingTyped'
    BY <1>1, <1>2 DEF WalkInv, ListingTyped
  <1>4. CursorOK(cursorAt)'
    BY <1>1 DEF WalkInv, CursorOK
  <1>5. \A j \in Still' : j \in Still /\ shelf'[j] = shelf[j]
    BY <1>1, <1>2 DEF Still
  <1>6. ShownSoFar'
    BY <1>1, <1>5 DEF WalkInv, ShownSoFar, ToCome
  <1>7. ShownInOrder'
    BY <1>1, <1>5 DEF WalkInv, ShownInOrder
  <1> QED BY <1>3, <1>4, <1>6, <1>7 DEF WalkInv

(* Row as a set of records, whatever is listed.                            *)
LEMMA RowParts ==
  ASSUME listing.of \in Listeds, NEW r \in Row, NEW t \in Int
  PROVE  /\ [r EXCEPT !.time = t] \in Row /\ [r EXCEPT !.time = t].id = r.id
         /\ [r EXCEPT !.listed = FALSE] \in Row /\ [r EXCEPT !.listed = FALSE].id = r.id
  <1>1. PICK G : G = CASE listing.of = "TASKS" -> Statuses
                       [] listing.of = "INBOX" -> {"AI_THREAD", "DIRECT"}
                       [] OTHER -> {"ROW"}
    OBVIOUS
  <1>2. Row = {x \in [id : RowIds, time : Int, created : Int, due : 0..Newest, listed : BOOLEAN, group : G] :
                 listing.of = "NOTES" => x.due = NoDue}
    BY <1>1 DEF Row, Rows
  <1> QED BY <1>2

LEMMA WalkEdits ==
  ASSUME WalkInv, NEW i \in RowIds,
         \/ \E g \in {shelf[j].group : j \in RowIds}, d \in {shelf[j].due : j \in RowIds} : UpdateTask(i, g, d)
         \/ \E t \in {shelf[j].time : j \in RowIds} \cup {Newest} : MoveReminder(i, t)
         \/ TouchRow(i)
         \/ HideRow(i)
  PROVE  WalkInv'
  <1>1. /\ listing' = listing /\ touched' = touched \cup {i}
        /\ pageSize' = pageSize /\ cursorAt' = cursorAt /\ shown' = shown /\ walk' = walk
    BY DEF UpdateTask, MoveReminder, TouchRow, HideRow, Touches
  <1>2. listing.of \in Listeds /\ \A j \in RowIds : shelf[j] \in Row /\ shelf[j].id = j
    BY RowsListed DEF WalkInv, ListingTyped
  <1>3. \A j \in RowIds : shelf[j] \in AnyRow /\ shelf[j].time \in Int /\ shelf[j].due \in 0..Newest
    BY <1>2, RowKinds DEF AnyRow
  <1>4. Newest \in Int
    BY PagingAssumption
  <1>5. PICK r \in Row : r = shelf[i] /\ r.id = i
    BY <1>2
  <1>6. \E row \in Row : row.id = i /\ shelf' = [shelf EXCEPT ![i] = row]
    <2>1. CASE \E g \in {shelf[j].group : j \in RowIds}, d \in {shelf[j].due : j \in RowIds} : UpdateTask(i, g, d)
      <3>1. PICK g \in {shelf[j].group : j \in RowIds}, d \in {shelf[j].due : j \in RowIds} : UpdateTask(i, g, d)
        BY <2>1
      <3>2. listing.of = "TASKS"
        BY <3>1 DEF UpdateTask
      <3>3. g \in Statuses /\ d \in 0..Newest
        BY <1>2, <1>3, <3>1, <3>2, RowKinds
      <3>4. PICK row : row = [r EXCEPT !.group = g, !.due = d, !.time = Newest]
        OBVIOUS
      <3>5. row \in Row /\ row.id = i
        BY <1>4, <1>5, <3>2, <3>3, <3>4 DEF Row, Rows
      <3>6. shelf' = [shelf EXCEPT ![i] = row]
        BY <1>5, <3>1, <3>4 DEF UpdateTask, WalkInv, ListingTyped
      <3> QED BY <3>5, <3>6
    <2>2. CASE \E t \in {shelf[j].time : j \in RowIds} \cup {Newest} : MoveReminder(i, t)
      <3>1. PICK t \in Int : shelf' = [shelf EXCEPT ![i].time = t]
        BY <1>3, <1>4, <2>2 DEF MoveReminder
      <3>2. PICK row : row = [r EXCEPT !.time = t]
        OBVIOUS
      <3>3. row \in Row /\ row.id = i
        BY <1>2, <1>5, <3>2, RowParts
      <3> QED BY <1>5, <3>1, <3>2, <3>3
    <2>3. CASE TouchRow(i)
      <3>1. PICK t \in Int : shelf' = [shelf EXCEPT ![i].time = t]
        BY <1>4, <2>3 DEF TouchRow
      <3>2. PICK row : row = [r EXCEPT !.time = t]
        OBVIOUS
      <3>3. row \in Row /\ row.id = i
        BY <1>2, <1>5, <3>2, RowParts
      <3> QED BY <1>5, <3>1, <3>2, <3>3
    <2>4. CASE HideRow(i)
      <3>1. PICK row : row = [r EXCEPT !.listed = FALSE]
        OBVIOUS
      <3>2. row \in Row /\ row.id = i
        BY <1>2, <1>4, <1>5, <3>1, RowParts
      <3> QED BY <1>5, <2>4, <3>1, <3>2 DEF HideRow
    <2> QED BY <2>1, <2>2, <2>3, <2>4
  <1> QED BY <1>1, <1>6, WalkTouched

(* A page is shown: its rows come behind those shown before.               *)
LEMMA WalkShows ==
  ASSUME WalkInv, NextPage
  PROVE  WalkInv'
  <1>1. /\ walk = "OPEN" /\ listing' = listing /\ shelf' = shelf /\ pageSize' = pageSize
        /\ touched' = touched
    BY DEF NextPage
  <1>2. PICK page : page = Answered(cursorAt, pageSize)
    OBVIOUS
  <1>3. PICK q, next : q = page.items /\ next = page.next
    OBVIOUS
  <1>4. /\ shown' = shown \o [k \in 1..Len(q) |-> q[k].id]
        /\ cursorAt' = next /\ walk' = IF next = NoCursor THEN "DONE" ELSE "OPEN"
    BY <1>2, <1>3 DEF NextPage
  <1>5. ListingTyped /\ CursorOK(cursorAt) /\ pageSize \in Nat \ {0} /\ shown \in Seq(RowIds)
    BY DEF WalkInv, ListingTyped
  <1>6. PageRight(cursorAt, page)
    BY <1>2, <1>5, PageCuts
  <1>7. /\ listing.of \in Listeds
        /\ \A r \in Listed : r \in Row /\ r.id \in RowIds /\ r = shelf[r.id]
        /\ \A i \in RowIds : shelf[i] \in Row /\ shelf[i].id = i
        /\ \A i \in RowIds : shelf[i].listed => shelf[i] \in Listed
    BY <1>5, RowsListed DEF ListingTyped
  <1>8. PICK A : A = AheadRows(cursorAt)
    OBVIOUS
  <1>9. PICK R : R = IF next = NoCursor THEN {} ELSE AheadRows(next)
    OBVIOUS
  <1>10. Cut(A, q, R) /\ CursorOK(next)
    BY <1>3, <1>6, <1>8, <1>9 DEF PageRight, CursorOK
  <1>11. /\ R \subseteq A /\ q \in Seq(A) /\ Len(q) \in Nat
         /\ \A k \in 1..Len(q) : q[k] \in A
         /\ \A k, l \in 1..Len(q) : k < l => Precedes(q[k], q[l])
         /\ \A r \in A : (\E k \in 1..Len(q) : q[k] = r) <=> r \notin R
    BY <1>10 DEF Cut
  <1>12. \A r \in A : r \in Row /\ r.id \in RowIds /\ r = shelf[r.id]
    BY <1>7, <1>8 DEF AheadRows
  <1>13. ASSUME NEW i \in Still
         PROVE  /\ i \in RowIds /\ shelf[i] \in Row /\ shelf[i].id = i
                /\ shelf[i] \in A <=> ToCome(cursorAt, shelf[i])
                /\ shelf[i] \in R <=> next # NoCursor /\ ToCome(next, shelf[i])
    <2>1. i \in RowIds /\ shelf[i] \in Row /\ shelf[i].id = i /\ shelf[i].listed /\ Belongs(shelf[i])
      BY <1>7 DEF Still, Members, Belongs
    <2>2. shelf[i] \in Listed
      BY <1>7, <2>1
    <2>3. ASSUME NEW c, CursorOK(c) PROVE Ahead(c, shelf[i]) <=> ToCome(c, shelf[i])
      <3>1. c.at = "row" => c.row \in Row
        BY <2>3 DEF CursorOK, NoCursor, CursorOf, TaskCursor, GroupStart
      <3> QED BY <2>1, <3>1 DEF Ahead, ToCome, Order
    <2> QED BY <1>5, <1>8, <1>9, <1>10, <2>1, <2>2, <2>3 DEF AheadRows
  <1>14. PICK new : new = shown'
    OBVIOUS
  <1>15. /\ new \in Seq(RowIds) /\ Len(new) = Len(shown) + Len(q) /\ Len(shown) \in Nat
         /\ \A k \in 1..Len(shown) : new[k] = shown[k]
         /\ \A k \in Len(shown) + 1..Len(new) : new[k] = q[k - Len(shown)].id /\ k - Len(shown) \in 1..Len(q)
    <2>1. PICK ids : ids = [k \in 1..Len(q) |-> q[k].id]
      OBVIOUS
    <2>2. ids \in Seq(RowIds) /\ Len(ids) = Len(q) /\ \A k \in 1..Len(q) : ids[k] = q[k].id
      BY <1>11, <1>12, <2>1
    <2>3. new = shown \o ids
      BY <1>4, <1>14, <2>1
    <2>4. /\ new \in Seq(RowIds) /\ Len(new) = Len(shown) + Len(ids) /\ Len(shown) \in Nat
          /\ Len(ids) \in Nat
          /\ \A k \in 1..Len(shown) : new[k] = shown[k]
          /\ \A k \in Len(shown) + 1..Len(new) :
               new[k] = ids[k - Len(shown)] /\ k - Len(shown) \in 1..Len(ids)
      <3>1. PICK old : old = shown
        OBVIOUS
      <3>2. /\ old \in Seq(RowIds) /\ ids \in Seq(RowIds) /\ new = old \o ids
            /\ Len(old) \in Nat /\ Len(ids) \in Nat
        BY <1>5, <2>2, <2>3, <3>1
      <3>3. new \in Seq(RowIds) /\ Len(new) = Len(old) + Len(ids)
        BY <3>2
      <3>4. \A k \in 1..Len(old) : new[k] = old[k]
        BY <3>2
      <3>5. \A k \in Len(old) + 1..Len(new) :
              new[k] = ids[k - Len(old)] /\ k - Len(old) \in 1..Len(ids)
        BY <3>2, <3>3
      <3> QED BY <3>1, <3>2, <3>3, <3>4, <3>5
    <2> QED BY <2>2, <2>4
  <1>16. \A k \in 1..Len(q) : Len(shown) + k \in Len(shown) + 1..Len(new) /\ new[Len(shown) + k] = q[k].id
    <2> SUFFICES ASSUME NEW k \in 1..Len(q)
                 PROVE  Len(shown) + k \in Len(shown) + 1..Len(new) /\ new[Len(shown) + k] = q[k].id
      OBVIOUS
    <2>1. Len(shown) + k \in Len(shown) + 1..Len(new) /\ (Len(shown) + k) - Len(shown) = k
      BY <1>11, <1>15
    <2> QED BY <1>15, <2>1
  <1>17. ASSUME NEW i \in Still
         PROVE  (\E k \in 1..Len(new) : new[k] = i) <=>
                  (\E k \in 1..Len(shown) : shown[k] = i) \/ (shelf[i] \in A /\ shelf[i] \notin R)
    <2>1. ASSUME NEW k \in 1..Len(new), new[k] = i, k \notin 1..Len(shown)
          PROVE  shelf[i] \in A /\ shelf[i] \notin R
      <3>1. k \in Len(shown) + 1..Len(new)
        BY <1>15, <2>1
      <3>2. PICK l \in 1..Len(q) : q[l].id = i
        BY <1>15, <2>1, <3>1
      <3>3. q[l] = shelf[i]
        BY <1>11, <1>12, <3>2
      <3> QED BY <1>11, <3>3
    <2>2. ASSUME shelf[i] \in A, shelf[i] \notin R PROVE \E k \in 1..Len(new) : new[k] = i
      <3>1. PICK l \in 1..Len(q) : q[l] = shelf[i]
        BY <1>11, <2>2
      <3>2. new[Len(shown) + l] = i /\ Len(shown) + l \in 1..Len(new)
        BY <1>11, <1>13, <1>15, <1>16, <3>1
      <3> QED BY <3>2
    <2>3. ASSUME NEW k \in 1..Len(shown), shown[k] = i PROVE \E l \in 1..Len(new) : new[l] = i
      <3>1. k \in 1..Len(new)
        BY <1>11, <1>15
      <3> QED BY <1>15, <2>3, <3>1
    <2>4. ASSUME NEW k \in 1..Len(new), new[k] = i, k \in 1..Len(shown)
          PROVE  \E l \in 1..Len(shown) : shown[l] = i
      BY <1>15, <2>4
    <2> QED BY <2>1, <2>2, <2>3, <2>4
  <1>18. ASSUME NEW i \in Still
         PROVE  (\E k \in 1..Len(new) : new[k] = i) <=> ~(next # NoCursor /\ ToCome(next, shelf[i]))
    <2>1. (\E k \in 1..Len(shown) : shown[k] = i) <=> ~ToCome(cursorAt, shelf[i])
      BY <1>1 DEF WalkInv, ShownSoFar
    <2> QED BY <1>11, <1>13, <1>17, <2>1
  <1>19. ASSUME NEW k \in 1..Len(new), NEW l \in 1..Len(new), k < l, new[k] \in Still, new[l] \in Still
         PROVE  <<shelf[new[k]], shelf[new[l]]>> \in Order
    <2>1. /\ shelf[new[k]] \in Row /\ shelf[new[k]].id = new[k] /\ k \in Int
          /\ shelf[new[l]] \in Row /\ shelf[new[l]].id = new[l] /\ l \in Int
      BY <1>13, <1>15, <1>19
    <2>2. CASE l \in 1..Len(shown)
      <3>1. k \in 1..Len(shown) /\ new[k] = shown[k] /\ new[l] = shown[l]
        BY <1>15, <1>19, <2>2
      <3> QED BY <1>19, <2>2, <3>1 DEF WalkInv, ShownInOrder
    <2>3. ASSUME NEW m \in 1..Len(new), m \notin 1..Len(shown)
          PROVE  /\ m - Len(shown) \in 1..Len(q) /\ shelf[new[m]] = q[m - Len(shown)]
                 /\ shelf[new[m]] \in A
      <3>1. m \in Len(shown) + 1..Len(new)
        BY <1>15, <2>3
      <3>2. new[m] = q[m - Len(shown)].id /\ m - Len(shown) \in 1..Len(q)
        BY <1>15, <3>1
      <3> QED BY <1>11, <1>12, <3>2
    <2>4. CASE k \in 1..Len(shown) /\ l \notin 1..Len(shown)
      <3>1. ~ToCome(cursorAt, shelf[new[k]])
        <4>1. new[k] = shown[k]
          BY <1>15, <2>4
        <4> QED BY <1>1, <1>19, <2>4, <4>1 DEF WalkInv, ShownSoFar
      <3>2. PICK r, s \in Row : r = shelf[new[k]] /\ s = shelf[new[l]]
        BY <2>1
      <3>3. s \in A /\ r \notin A /\ r.id # s.id
        BY <1>13, <1>19, <2>1, <2>3, <2>4, <3>1, <3>2
      <3>4. Ahead(cursorAt, s) /\ ~Ahead(cursorAt, r)
        <4>1. r \in Listed /\ Belongs(r)
          BY <1>7, <1>13, <1>19, <3>2 DEF Still, Members, Belongs
        <4> QED BY <1>8, <3>3, <4>1 DEF AheadRows
      <3>5. Precedes(r, s)
        BY <1>5, <1>7, <3>3, <3>4, Promises, AheadClosed
      <3> QED BY <3>2, <3>5 DEF Order
    <2>5. CASE k \notin 1..Len(shown) /\ l \notin 1..Len(shown)
      <3>1. PICK i, j \in 1..Len(q) : /\ i = k - Len(shown) /\ j = l - Len(shown)
                                      /\ shelf[new[k]] = q[i] /\ shelf[new[l]] = q[j]
        BY <2>3, <2>5
      <3>2. i < j
        BY <1>15, <1>19, <2>1, <3>1
      <3>3. Precedes(q[i], q[j])
        BY <1>11, <3>2
      <3> QED BY <2>1, <3>1, <3>3 DEF Order
    <2> QED BY <1>15, <1>19, <2>2, <2>4, <2>5
  <1>20. Row' = Row /\ Order' = Order /\ Members' = Members
    BY <1>1, SameListing
  <1>21. Still' = Still
    BY <1>1, <1>20 DEF Still
  <1>22. ListingTyped' /\ CursorOK(cursorAt)' /\ walk' \in {"OPEN", "DONE"}
    BY <1>1, <1>4, <1>5, <1>10, <1>20 DEF ListingTyped, CursorOK
  <1>23. ShownSoFar'
    BY <1>1, <1>4, <1>14, <1>18, <1>20, <1>21 DEF ShownSoFar, ToCome
  <1>24. ShownInOrder'
    BY <1>1, <1>14, <1>19, <1>20, <1>21 DEF ShownInOrder
  <1> QED BY <1>14, <1>15, <1>22, <1>23, <1>24 DEF WalkInv

LEMMA WalkStays ==
  Unpinned => (PagingSpec => []WalkInv)
  <1>1. ASSUME WalkInv, [PagingNext]_pagingVars PROVE WalkInv'
    <2>1. CASE NextPage
      BY <1>1, <2>1, WalkShows
    <2>2. CASE \E i \in RowIds :
                 \/ \E g \in {shelf[j].group : j \in RowIds}, d \in {shelf[j].due : j \in RowIds} :
                      UpdateTask(i, g, d)
                 \/ \E t \in {shelf[j].time : j \in RowIds} \cup {Newest} : MoveReminder(i, t)
                 \/ TouchRow(i)
                 \/ HideRow(i)
      BY <1>1, <2>2, WalkEdits
    <2>3. CASE UNCHANGED pagingVars
      <3>1. /\ listing' = listing /\ shelf' = shelf /\ pageSize' = pageSize /\ touched' = touched
            /\ cursorAt' = cursorAt /\ shown' = shown /\ walk' = walk
        BY <2>3 DEF pagingVars
      <3>2. Row' = Row /\ Order' = Order /\ Members' = Members
        BY <3>1, SameListing
      <3> QED BY <1>1, <3>1, <3>2
           DEF WalkInv, ListingTyped, CursorOK, ShownSoFar, ShownInOrder, Still, ToCome
    <2> QED BY <1>1, <2>1, <2>2, <2>3 DEF PagingNext
  <1>2. Unpinned /\ PagingInit => WalkInv
    BY WalkStarts
  <1> QED BY <1>1, <1>2, PTL DEF PagingSpec

LEMMA WalkedRight ==
  ASSUME WalkInv PROVE ListingComplete
  <1> SUFFICES ASSUME walk = "DONE" PROVE ListingComplete
    BY DEF ListingComplete
  <1> DEFINE where(i) == {k \in 1..Len(shown) : shown[k] = i}
  <1>1. /\ listing.of \in Listeds /\ \A i \in RowIds : shelf[i] \in Row /\ shelf[i].id = i
        /\ Len(shown) \in Nat
    BY RowsListed DEF WalkInv, ListingTyped
  <1>2. \A i \in RowIds \ touched : Belongs(shelf[i]) => i \in Still
    BY <1>1 DEF Still, Members
  <1>3. \A i \in Still : i \in RowIds /\ \E k \in 1..Len(shown) : shown[k] = i
    BY DEF WalkInv, ShownSoFar, Still
  <1>4. ASSUME NEW i \in Still, NEW j \in Still, NEW k \in where(i), NEW l \in where(j), k < l
        PROVE  Precedes(shelf[i], shelf[j])
    BY <1>4 DEF WalkInv, ShownInOrder, Order
  <1>5. ASSUME NEW i \in Still PROVE Cardinality(where(i)) = 1
    <2>1. PICK k \in 1..Len(shown) : shown[k] = i
      BY <1>3
    <2>2. ASSUME NEW l \in where(i) PROVE l = k
      <3>1. ~Precedes(shelf[i], shelf[i])
        BY <1>1, <1>3, Promises
      <3>2. ~(k < l) /\ ~(l < k)
        BY <1>4, <2>1, <3>1
      <3> QED BY <1>1, <2>1, <3>2
    <2>3. where(i) = {k}
      BY <2>1, <2>2
    <2> HIDE DEF where
    <2> QED BY <2>3, FS_Singleton
  <1>6. ASSUME NEW i \in Still, NEW j \in Still, Precedes(shelf[i], shelf[j]),
               NEW k \in where(i), NEW l \in where(j)
        PROVE  k < l
    <2>1. ~Precedes(shelf[i], shelf[i]) /\ ~Precedes(shelf[j], shelf[i])
      BY <1>1, <1>3, <1>6, Promises
    <2>2. k # l
      BY <1>6, <2>1
    <2>3. ~(l < k)
      BY <1>4, <2>1
    <2> QED BY <1>1, <2>2, <2>3
  <1> HIDE DEF where
  <1> QED BY <1>2, <1>5, <1>6 DEF ListingComplete, where

(* Whoever pages a listing to its end has been shown every row that did    *)
(* not change meanwhile exactly once and in the promised order, for any    *)
(* number of rows, any sizes of page and any edits between two pages:      *)
(* TaskService.list with its two groups and its statuses, the search of    *)
(* InboxService.list, and the listings in one order.  Of notes it is true  *)
(* while none is pinned.                                                   *)
THEOREM ListingsAreComplete ==
  Unpinned => (PagingSpec => []ListingComplete)
  BY WalkStays, WalkedRight, PTL
=============================================================================
