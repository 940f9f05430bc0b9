------------------------------ MODULE SyncProofs ------------------------------
(***************************************************************************)
(* A tab that may be connected is never closed for good, and what it has   *)
(* applied of its user's stream is always a prefix of it.                  *)
(*                                                                         *)
(* The socket: of a heartbeat and its PONG at most one is under way, and   *)
(* it is the one the gateway waits for.  The stream: everything that may   *)
(* be read up to a cursor the tab keeps has been applied, and a page that  *)
(* is being applied leaves nothing out up to its own cursor.               *)
(***************************************************************************)
EXTENDS ClientSync, FiniteSetTheorems, WellFoundedInduction, TLAPS

-----------------------------------------------------------------------------
(* The socket of a tab.                                                    *)

SocketFields == {"status", "expected", "last", "checking", "toClient", "toServer"}

(* At most one heartbeat is unanswered, and it or its PONG is under way. *)
OneHeartbeat(s) ==
    \/ s.expected = 0 /\ s.toClient = <<>> /\ s.toServer = <<>>
    \/ /\ s.expected # 0
       /\ \/ s.toClient = <<s.expected>> /\ s.toServer = <<>>
          \/ s.toClient = <<>> /\ s.toServer = <<s.expected>>

SocketOK(s) ==
    /\ DOMAIN s = SocketFields
    /\ s.last \in {1, 2}
    /\ s.status = "open" => OneHeartbeat(s)

SocketInv == SocketOK(socket) /\ HonestClientKept

LEMMA NewSocketOK ==
  \A st : /\ SocketOK([NoSocket EXCEPT !.status = st])
          /\ [NoSocket EXCEPT !.status = st].status = st
  BY DEF SocketOK, SocketFields, NoSocket, OneHeartbeat

LEMMA SameSocket == SocketInv /\ UNCHANGED <<socket, authorized>> => SocketInv'
  BY DEF SocketInv, HonestClientKept

LEMMA SocketSteps ==
  ASSUME SocketInv, connect \/ ConnectRefused \/ heartbeat \/ Revalidated \/ ClientFrame
                      \/ handleClientMessage \/ ConnectionBreaks \/ GatewayCloses \/ Remount
  PROVE  SocketInv'
  <1> USE DEF SocketInv, HonestClientKept, SocketStep, SocketFrame
  <1>0. SocketOK(NoSocket) /\ NoSocket.status = "down"
    BY DEF SocketOK, SocketFields, NoSocket
  <1>1. CASE connect
    BY <1>1, NewSocketOK DEF connect, acceptConnection
  <1>2. CASE ConnectRefused
    BY <1>2, NewSocketOK DEF ConnectRefused, authorizeUpgrade
  <1>3. CASE heartbeat
    <2>1. \E b : socket' = [socket EXCEPT !.checking = b] /\ authorized' = authorized
      BY <1>3, Zenon DEF heartbeat
    <2> QED BY <2>1 DEF SocketOK, SocketFields, OneHeartbeat
  <1>4. CASE Revalidated
    <2>1. authorized' = authorized /\ socket.status = "open" /\ OneHeartbeat(socket)
      BY <1>4 DEF Revalidated, SocketOK
    <2>2. CASE ~authorized
      <3>1. socket' = [NoSocket EXCEPT !.status = "ended"]
        BY <1>4, <2>2 DEF Revalidated, revalidateConnection
      <3>2. ~authorized'
        BY <2>1, <2>2, Zenon
      <3>3. SocketOK(socket')
        BY <3>1, NewSocketOK
      <3> QED BY <3>2, <3>3
    <2>3. CASE authorized /\ socket.expected = 0
      <3>1. PICK n : n = FreshId
        OBVIOUS
      <3>2. n \in {1, 2} /\ n # 0
        BY <3>1 DEF FreshId, SocketOK
      <3>3. PICK b : socket' = [socket EXCEPT !.checking = b, !.expected = n, !.last = n,
                                            !.toClient = Append(@, n)]
        BY <1>4, <2>3, <3>1 DEF Revalidated, revalidateConnection, SendHeartbeat
      <3>4. /\ socket'.expected = n /\ socket'.last = n /\ socket'.toServer = socket.toServer
            /\ socket'.toClient = Append(socket.toClient, n) /\ socket'.status = "open"
            /\ DOMAIN socket' = SocketFields
        BY <2>1, <3>3 DEF SocketOK, SocketFields
      <3>5. socket.toClient = <<>> /\ socket.toServer = <<>>
        BY <2>1, <2>3 DEF OneHeartbeat
      <3>6. socket'.toClient = <<n>>
        BY <3>4, <3>5
      <3> QED BY <2>1, <3>2, <3>4, <3>5, <3>6 DEF SocketOK, OneHeartbeat
    <2>4. CASE authorized /\ socket.expected # 0
      <3>1. PICK b : socket' = [socket EXCEPT !.checking = b]
        BY <1>4, <2>4 DEF Revalidated, revalidateConnection
      <3> QED BY <2>1, <3>1 DEF SocketOK, SocketFields, OneHeartbeat
    <2> QED BY <2>2, <2>3, <2>4
  <1>5. CASE ClientFrame
    <2>1. /\ authorized' = authorized /\ socket.status = "open" /\ OneHeartbeat(socket)
          /\ socket.toClient # <<>>
          /\ socket' = [socket EXCEPT !.toClient = Tail(@),
                                      !.toServer = Append(@, Head(socket.toClient))]
      BY <1>5 DEF ClientFrame, SocketOK
    <2>2. /\ socket'.expected = socket.expected /\ socket'.last = socket.last
          /\ socket'.status = "open" /\ DOMAIN socket' = SocketFields
          /\ socket'.toClient = Tail(socket.toClient)
          /\ socket'.toServer = Append(socket.toServer, Head(socket.toClient))
      BY <2>1 DEF SocketOK, SocketFields
    <2>3. /\ socket.expected # 0 /\ socket.toClient = <<socket.expected>>
          /\ socket.toServer = <<>>
      BY <2>1 DEF OneHeartbeat
    <2>4. socket'.toClient = <<>> /\ socket'.toServer = <<socket.expected>>
      BY <2>2, <2>3
    <2> QED BY <2>1, <2>2, <2>3, <2>4 DEF SocketOK, OneHeartbeat
  <1>6. CASE handleClientMessage
    <2>1. /\ authorized' = authorized /\ socket.status = "open" /\ OneHeartbeat(socket)
          /\ socket.toServer # <<>>
      BY <1>6 DEF handleClientMessage, SocketOK
    <2>2. /\ socket.expected # 0 /\ socket.toServer = <<socket.expected>>
          /\ socket.toClient = <<>>
      BY <2>1 DEF OneHeartbeat
    <2>3. Head(socket.toServer) = socket.expected
      BY <2>2
    <2>4. socket' = [socket EXCEPT !.toServer = Tail(@), !.expected = 0]
      BY <1>6, <2>3 DEF handleClientMessage
    <2>5. /\ socket'.expected = 0 /\ socket'.last = socket.last
          /\ socket'.status = "open" /\ DOMAIN socket' = SocketFields
          /\ socket'.toClient = <<>> /\ socket'.toServer = <<>>
      BY <2>1, <2>2, <2>4 DEF SocketOK, SocketFields
    <2> QED BY <2>1, <2>5 DEF SocketOK, OneHeartbeat
  <1>7. CASE ConnectionBreaks \/ GatewayCloses \/ Remount
    <2>1. socket' = NoSocket /\ authorized' = authorized
      BY <1>7 DEF ConnectionBreaks, GatewayCloses, Remount
    <2> QED BY <1>0, <2>1
  <1> QED BY <1>1, <1>2, <1>3, <1>4, <1>5, <1>6, <1>7

LEMMA SocketNext == SocketInv /\ [SyncNext]_syncVars => SocketInv'
  <1> SUFFICES ASSUME SocketInv, [SyncNext]_syncVars PROVE SocketInv'
    OBVIOUS
  <1>1. CASE UNCHANGED syncVars
    BY <1>1, SameSocket DEF syncVars, clientVars
  <1>2. CASE UNCHANGED clientVars
    BY <1>2, SameSocket DEF clientVars
  <1>3. CASE ReadPage \/ ReadStale \/ ReadUnauthorized \/ ApplyDeltas \/ SyncFails \/ RetryFires
    BY <1>3, SameSocket DEF ReadPage, ReadStale, ReadUnauthorized, ApplyDeltas, SyncFails,
                            RetryFires, RestUnchanged
  <1>4. CASE WokenByBrowser \/ HintArrives \/ UpgradeAborted \/ ReapConnection \/ ChangeSecret
    BY <1>4, SameSocket DEF WokenByBrowser, HintArrives, UpgradeAborted, ReapConnection,
                            ChangeSecret, SocketStep, SocketFrame
  <1>5. CASE RevokeAccess
    BY <1>5 DEF RevokeAccess, SocketInv, HonestClientKept
  <1>6. CASE connect \/ ConnectRefused \/ heartbeat \/ Revalidated \/ ClientFrame
               \/ handleClientMessage \/ ConnectionBreaks \/ GatewayCloses \/ Remount
    BY <1>6, SocketSteps
  <1> QED BY <1>1, <1>2, <1>3, <1>4, <1>5, <1>6 DEF SyncNext, TabStep

(* Whatever is lost and whatever breaks, a tab that may be connected is    *)
(* never closed for good: the PONG the gateway receives is that of the     *)
(* heartbeat it waits for. *)
THEOREM HonestClientsStay == SyncSpec => []HonestClientKept
  <1>1. SyncInit => SocketInv
    BY DEF SyncInit, ClientInit, SocketInv, SocketOK, SocketFields, NoSocket, HonestClientKept
  <1>2. SocketInv => HonestClientKept
    BY DEF SocketInv
  <1> QED BY <1>1, <1>2, SocketNext, PTL DEF SyncSpec

-----------------------------------------------------------------------------
(* The stream of the user.                                                 *)

(* Of some numbers one is the least. *)
LEMMA LeastNumber ==
  ASSUME NEW S \in SUBSET Nat, S # {}
  PROVE  \E m \in S : \A x \in S : m <= x
  <1>1. PICK less : less = {p \in Nat \X Nat : p[1] < p[2]}
    OBVIOUS
  <1>2. IsWellFoundedOn(less, Nat)
    BY <1>1, NatLessThanWellFounded DEF OpToRel
  <1>3. PICK m \in S : \A x \in S : <<x, m>> \notin less
    BY <1>2, WFMin
  <1>4. ASSUME NEW x \in S PROVE m <= x
    <2>1. m \in Nat /\ x \in Nat /\ <<x, m>> \in Nat \X Nat
      OBVIOUS
    <2>2. ~(<<x, m>>[1] < <<x, m>>[2])
      BY <1>1, <1>3, <2>1
    <2> QED BY <2>1, <2>2
  <1> QED BY <1>4

(* Of the events up to a position one is the last. *)
LEMMA LastEvent ==
  ASSUME NEW n \in Nat, NEW S \in SUBSET (1..n), S # {}
  PROVE  Max(S) \in S /\ \A x \in S : x <= Max(S)
  <1>1. PICK T : T = {b \in Nat : \A x \in S : x <= b}
    OBVIOUS
  <1>2. n \in T /\ T \in SUBSET Nat
    BY <1>1
  <1>3. PICK m \in T : \A b \in T : m <= b
    BY <1>2, LeastNumber
  <1>4. m \in S
    <2>1. SUFFICES ASSUME m \notin S PROVE FALSE
      OBVIOUS
    <2>2. m \in Nat /\ m >= 1
      <3>1. PICK x \in S : TRUE
        OBVIOUS
      <3> QED BY <1>1, <1>3, <3>1
    <2>3. m - 1 \in T
      BY <1>1, <1>3, <2>1, <2>2
    <2> QED BY <1>3, <2>2, <2>3
  <1>5. \E x \in S : \A y \in S : x >= y
    BY <1>1, <1>3, <1>4
  <1> QED BY <1>5 DEF Max

Readable(p) == (1..p) \ Ineligible

LEMMA ReadableFinite ==
  \A p \in Nat : IsFiniteSet(Readable(p)) /\ Rank(p) \in Nat /\ Rank(p) = Cardinality(Readable(p))
  <1> SUFFICES ASSUME NEW p \in Nat
               PROVE  /\ IsFiniteSet(Readable(p)) /\ Rank(p) \in Nat
                      /\ Rank(p) = Cardinality(Readable(p))
    OBVIOUS
  <1>1. IsFiniteSet(1..p)
    BY FS_Interval
  <1>2. IsFiniteSet(Readable(p))
    BY <1>1, FS_Subset DEF Readable
  <1> QED BY <1>2, FS_CardinalityType DEF Readable, Rank

LEMMA RankStart == Rank(0) = 0
  <1>1. (1..0) \ Ineligible = {}
    OBVIOUS
  <1> QED BY <1>1, FS_EmptySet DEF Rank

LEMMA RankStep ==
  ASSUME NEW p \in Nat
  PROVE  Rank(p + 1) = IF p + 1 \in Ineligible THEN Rank(p) ELSE Rank(p) + 1
  <1>1. CASE p + 1 \in Ineligible
    <2>1. Readable(p + 1) = Readable(p)
      BY <1>1 DEF Readable
    <2> QED BY <1>1, <2>1 DEF Rank, Readable
  <1>2. CASE p + 1 \notin Ineligible
    <2>1. Readable(p + 1) = Readable(p) \cup {p + 1} /\ p + 1 \notin Readable(p)
      BY <1>2 DEF Readable
    <2> QED BY <1>2, <2>1, ReadableFinite, FS_AddElement DEF Rank, Readable
  <1> QED BY <1>1, <1>2

LEMMA RankGrows ==
  ASSUME NEW a \in Nat, NEW b \in Nat, a <= b
  PROVE  Rank(a) <= Rank(b)
  <1>1. Readable(a) \in SUBSET Readable(b)
    BY DEF Readable
  <1> QED BY <1>1, ReadableFinite, FS_Subset

LEMMA RankApart ==
  ASSUME NEW a \in Nat, NEW b \in Nat, a < b, b \notin Ineligible
  PROVE  Rank(a) < Rank(b)
  <1>1. PICK c \in Nat : b = c + 1 /\ a <= c
    <2>1. b - 1 \in Nat /\ b = (b - 1) + 1 /\ a <= b - 1
      OBVIOUS
    <2> QED BY <2>1
  <1>2. Rank(b) = Rank(c) + 1
    BY <1>1, RankStep
  <1> QED BY <1>1, <1>2, RankGrows, ReadableFinite

(* Up to any position, the ranks of the events that may be read are the    *)
(* numbers from one: the least position for which they were not would not  *)
(* be the least. *)
LEMMA RankCovers ==
  ASSUME NEW n \in Nat
  PROVE  {Rank(p) : p \in Readable(n)} = 1..Rank(n)
  <1>1. PICK S : S = {m \in Nat : {Rank(p) : p \in Readable(m)} # 1..Rank(m)}
    OBVIOUS
  <1>2. ASSUME S # {} PROVE FALSE
    <2>1. PICK m \in S : \A x \in S : m <= x
      BY <1>1, <1>2, LeastNumber
    <2>2. m \in Nat /\ {Rank(p) : p \in Readable(m)} # 1..Rank(m)
      BY <1>1, <2>1
    <2>3. m # 0
      <3>1. Readable(0) = {} /\ 1..0 = {}
        BY DEF Readable
      <3> QED BY <2>2, <3>1, RankStart
    <2>4. PICK k \in Nat : m = k + 1
      BY <2>2, <2>3
    <2>5. {Rank(p) : p \in Readable(k)} = 1..Rank(k)
      BY <1>1, <2>1, <2>4
    <2>6. CASE m \in Ineligible
      <3>1. Readable(m) = Readable(k)
        BY <2>4, <2>6 DEF Readable
      <3> QED BY <2>2, <2>4, <2>5, <2>6, <3>1, RankStep
    <2>7. CASE m \notin Ineligible
      <3>1. Readable(m) = Readable(k) \cup {m}
        BY <2>4, <2>7 DEF Readable
      <3>2. Rank(m) = Rank(k) + 1 /\ Rank(k) \in Nat
        BY <2>4, <2>7, RankStep, ReadableFinite
      <3>3. {Rank(p) : p \in Readable(m)} = {Rank(p) : p \in Readable(k)} \cup {Rank(m)}
        BY <3>1
      <3> QED BY <2>2, <2>5, <3>2, <3>3
    <2> QED BY <2>6, <2>7
  <1> QED BY <1>1, <1>2

CursorFields == {"pos", "snap", "key"}
PageFields == {"deltas", "next", "more"}
EngineFields == {"pc", "queued", "retry", "terminal", "reset", "cur", "page"}

CursorOK(c) == DOMAIN c = CursorFields /\ c.pos \in Nat /\ c.snap \in Nat

(* All that may be read up to the cursor has been applied. *)
Reached(c, a) == CursorOK(c) /\ Readable(c.pos) \subseteq a

(* A page of what follows a cursor: up to its own cursor it leaves nothing out. *)
PageFor(p, c, h) ==
    /\ DOMAIN p = PageFields /\ CursorOK(p.next)
    /\ c.pos <= p.next.pos /\ p.next.pos <= h
    /\ p.deltas = (c.pos + 1..p.next.pos) \ Ineligible

EngineOK(e, a, h) ==
    /\ DOMAIN e = EngineFields
    /\ Reached(e.cur, a)
    /\ e.pc = "applying" => PageFor(e.page, e.cur, h)

(* What has been applied is what may be read up to some event. *)
AppliedOK(a, h) ==
    /\ a \subseteq Readable(h)
    /\ \A p \in a : Readable(p) \subseteq a

StreamInv ==
    /\ head \in Nat
    /\ AppliedOK(applied, head)
    /\ Reached(cursor, applied)
    /\ EngineOK(engine, applied, head)

(* What a page takes of its candidates: the first ones, and all of them *)
(* unless it is full. *)
TakenFrom(E, D) == D = {p \in E : Cardinality({q \in E : q <= p}) <= PageLimit}

LEMMA FirstAreTaken ==
  ASSUME NEW n \in Nat, NEW E \in SUBSET (1..n), NEW D, TakenFrom(E, D)
  PROVE  /\ IsFiniteSet(D) /\ D \in SUBSET E
         /\ \A p \in D : \A q \in E : q <= p => q \in D
         /\ Cardinality(D) # PageLimit => D = E
  <1> DEFINE UpTo(p) == {q \in E : q <= p}
  <1>0. IsFiniteSet(E) /\ E \in SUBSET Nat
    <2>1. IsFiniteSet(1..n)
      BY FS_Interval
    <2>2. IsFiniteSet(E)
      BY <2>1, FS_Subset
    <2> QED BY <2>2
  <1>1. \A p : UpTo(p) \in SUBSET E /\ IsFiniteSet(UpTo(p)) /\ Cardinality(UpTo(p)) \in Nat
    <2>1. \A p : UpTo(p) \in SUBSET E
      OBVIOUS
    <2> QED BY <1>0, <2>1, FS_Subset, FS_CardinalityType
  <1>2. \A p : p \in D <=> p \in E /\ Cardinality(UpTo(p)) <= PageLimit
    BY DEF TakenFrom
  <1>3. \A p, q : q \in UpTo(p) <=> q \in E /\ q <= p
    OBVIOUS
  <1>4. D \in SUBSET E
    BY <1>2
  <1>5. IsFiniteSet(D) /\ Cardinality(D) \in Nat
    BY <1>0, <1>4, FS_Subset, FS_CardinalityType
  <1>6. PageLimit \in Nat /\ PageLimit >= 1
    BY SyncAssumption
  <1> HIDE DEF UpTo
  <1>7. \A p \in D : \A q \in E : q <= p => q \in D
    <2> SUFFICES ASSUME NEW p \in D, NEW q \in E, q <= p PROVE q \in D
      OBVIOUS
    <2>1. p \in Nat /\ q \in Nat /\ \A x \in E : x \in Nat
      BY <1>0, <1>4
    <2>2. UpTo(q) \in SUBSET UpTo(p)
      <3> SUFFICES ASSUME NEW x \in UpTo(q) PROVE x \in UpTo(p)
        OBVIOUS
      <3>1. x \in E /\ x <= q
        BY <1>3
      <3>2. x \in Nat /\ x <= p
        BY <2>1, <3>1
      <3> QED BY <1>3, <3>1, <3>2
    <2>3. Cardinality(UpTo(q)) <= Cardinality(UpTo(p))
      BY <1>1, <2>2, FS_Subset
    <2>4. Cardinality(UpTo(p)) <= PageLimit
      BY <1>2
    <2>5. Cardinality(UpTo(q)) \in Nat /\ Cardinality(UpTo(p)) \in Nat
      BY <1>1
    <2>6. Cardinality(UpTo(q)) <= PageLimit
      BY <1>6, <2>3, <2>4, <2>5
    <2> QED BY <1>2, <2>6
  <1>8. ASSUME D # E PROVE Cardinality(D) = PageLimit
    <2>1. E \ D # {} /\ E \ D \in SUBSET Nat
      BY <1>0, <1>4, <1>8
    <2>2. PICK p \in E \ D : \A x \in E \ D : p <= x
      BY <2>1, LeastNumber
    <2>3. p \in E /\ p \notin D /\ p \in Nat /\ \A x \in E : x \in Nat
      BY <1>0, <2>2
    <2>4. \A q \in D : q \in Nat /\ q < p
      <3> SUFFICES ASSUME NEW q \in D PROVE q \in Nat /\ q < p
        OBVIOUS
      <3>1. q \in Nat
        BY <1>4, <2>3
      <3>2. ~(p <= q)
        BY <1>7, <2>3
      <3> QED BY <2>3, <3>1, <3>2
    <2>5. \A q \in UpTo(p) : q = p \/ q \in D
      <3> SUFFICES ASSUME NEW q \in UpTo(p), q \notin D PROVE q = p
        OBVIOUS
      <3>1. q \in E /\ q <= p /\ p <= q
        BY <1>3, <2>2
      <3> QED BY <2>3, <3>1
    <2>6. \A q \in D \cup {p} : q \in UpTo(p)
      <3> SUFFICES ASSUME NEW q \in D \cup {p} PROVE q \in UpTo(p)
        OBVIOUS
      <3>1. q \in E /\ q <= p
        BY <1>4, <2>3, <2>4
      <3> QED BY <1>3, <3>1
    <2>7. UpTo(p) = D \cup {p}
      BY <2>5, <2>6, <2>3
    <2>8. Cardinality(UpTo(p)) = Cardinality(D) + 1
      BY <1>5, <2>3, <2>7, FS_AddElement
    <2>9. ~(Cardinality(UpTo(p)) <= PageLimit)
      BY <1>2, <2>3
    <2>10. Cardinality(D) <= PageLimit
      <3>1. CASE D = {}
        <4>1. Cardinality(D) = 0
          BY <3>1, FS_EmptySet
        <4> QED BY <1>6, <4>1
      <3>2. CASE D # {}
        <4>1. PICK m \in D : \A x \in D : x <= m
          <5>1. D \in SUBSET (1..n)
            BY <1>4
          <5> QED BY <3>2, <5>1, LastEvent
        <4>2. D \in SUBSET UpTo(m)
          BY <1>3, <1>4, <4>1
        <4>3. Cardinality(D) <= Cardinality(UpTo(m))
          BY <1>1, <4>2, FS_Subset
        <4>4. Cardinality(UpTo(m)) <= PageLimit
          BY <1>2, <4>1
        <4>5. Cardinality(UpTo(m)) \in Nat
          BY <1>1
        <4> QED BY <1>5, <1>6, <4>3, <4>4, <4>5
      <3> QED BY <3>1, <3>2
    <2> QED BY <1>5, <1>6, <2>8, <2>9, <2>10
  <1> QED BY <1>4, <1>5, <1>7, <1>8

LEMMA PageIsNext ==
  ASSUME NEW c, CursorOK(c), NEW snap \in Nat, NEW h \in Nat, c.pos <= h, snap <= h
  PROVE  PageFor(PageOf(c, snap), c, h)
  <1> DEFINE scanned == {p \in c.pos + 1..snap : p <= c.pos + 4 * PageLimit}
             eligible == scanned \ Ineligible
             deltas == {p \in eligible : Cardinality({q \in eligible : q <= p}) <= PageLimit}
             last == IF Cardinality(deltas) = PageLimit THEN Max(deltas)
                     ELSE IF scanned = {} THEN c.pos ELSE Max(scanned)
  <1>1. /\ PageOf(c, snap) = [deltas |-> deltas,
                              next |-> [pos |-> last, snap |-> snap, key |-> secret],
                              more |-> last < snap]
        /\ c.pos \in Nat
    BY DEF PageOf, CursorOK
  <1>2. PageLimit \in Nat /\ PageLimit >= 1
    BY SyncAssumption
  <1>3. \A p : p \in scanned <=> /\ p \in Nat /\ c.pos < p /\ p <= snap
                                 /\ p <= c.pos + 4 * PageLimit
    BY <1>1
  <1>4. \A p : p \in eligible <=> p \in scanned /\ p \notin Ineligible
    OBVIOUS
  <1>5. scanned \in SUBSET (1..snap) /\ eligible \in SUBSET (1..snap)
    BY <1>1, <1>3, <1>4
  <1>6. /\ deltas \in SUBSET eligible
        /\ \A p \in deltas : \A q \in eligible : q <= p => q \in deltas
        /\ Cardinality(deltas) # PageLimit => deltas = eligible
    <2>1. PICK E : E = eligible
      OBVIOUS
    <2>2. E \in SUBSET (1..snap)
      BY <1>5, <2>1
    <2>3. TakenFrom(E, deltas)
      BY <2>1 DEF TakenFrom
    <2>4. PICK D : D = deltas
      OBVIOUS
    <2> HIDE DEF eligible, deltas
    <2> QED BY <2>1, <2>2, <2>3, <2>4, FirstAreTaken
  <1>7. last = IF Cardinality(deltas) = PageLimit THEN Max(deltas)
               ELSE IF scanned = {} THEN c.pos ELSE Max(scanned)
    OBVIOUS
  <1> HIDE DEF scanned, eligible, deltas, last
  <1>8. deltas \in SUBSET (1..snap)
    BY <1>5, <1>6
  <1>9. /\ last \in Nat /\ c.pos <= last /\ last <= h
        /\ deltas = (c.pos + 1..last) \ Ineligible
    <2>1. CASE Cardinality(deltas) = PageLimit
      <3>1. deltas # {}
        <4>1. SUFFICES ASSUME deltas = {} PROVE FALSE
          OBVIOUS
        <4>2. Cardinality(deltas) = 0
          BY <4>1, FS_EmptySet
        <4> QED BY <1>2, <2>1, <4>2
      <3>2. last \in deltas /\ \A x \in deltas : x <= last
        BY <1>7, <1>8, <2>1, <3>1, LastEvent
      <3>3. last \in scanned
        BY <1>4, <1>6, <3>2
      <3>4. last \in Nat /\ c.pos < last /\ last <= snap /\ last <= c.pos + 4 * PageLimit
        BY <1>3, <3>3
      <3>5. \A x \in (c.pos + 1..last) \ Ineligible : x \in deltas
        <4> SUFFICES ASSUME NEW x \in (c.pos + 1..last) \ Ineligible PROVE x \in deltas
          OBVIOUS
        <4>1. x \in Nat /\ c.pos < x /\ x <= last /\ x \notin Ineligible
          BY <1>1, <3>4
        <4>2. x <= snap /\ x <= c.pos + 4 * PageLimit
          BY <1>1, <1>2, <3>4, <4>1
        <4>3. x \in eligible
          BY <1>3, <1>4, <4>1, <4>2
        <4> QED BY <1>6, <3>2, <4>1, <4>3
      <3>6. \A x \in deltas : x \in (c.pos + 1..last) \ Ineligible
        <4> SUFFICES ASSUME NEW x \in deltas PROVE x \in (c.pos + 1..last) \ Ineligible
          OBVIOUS
        <4>1. x \in Nat /\ c.pos < x /\ x \notin Ineligible
          BY <1>3, <1>4, <1>6
        <4> QED BY <1>1, <3>2, <3>4, <4>1
      <3>7. deltas = (c.pos + 1..last) \ Ineligible
        BY <3>5, <3>6
      <3> QED BY <1>1, <3>4, <3>7
    <2>2. CASE Cardinality(deltas) # PageLimit /\ scanned = {}
      <3>1. deltas = {} /\ last = c.pos
        BY <1>6, <1>4, <1>7, <2>2
      <3>2. (c.pos + 1..c.pos) = {}
        BY <1>1
      <3> QED BY <1>1, <3>1, <3>2
    <2>3. CASE Cardinality(deltas) # PageLimit /\ scanned # {}
      <3>1. last \in scanned /\ \A x \in scanned : x <= last
        BY <1>5, <1>7, <2>3, LastEvent
      <3>2. last \in Nat /\ c.pos < last /\ last <= snap /\ last <= c.pos + 4 * PageLimit
        BY <1>3, <3>1
      <3>3. \A x : x \in (c.pos + 1..last) \ Ineligible <=> x \in deltas
        <4> SUFFICES ASSUME NEW x PROVE x \in (c.pos + 1..last) \ Ineligible <=> x \in deltas
          OBVIOUS
        <4>1. x \in deltas <=> x \in scanned /\ x \notin Ineligible
          BY <1>4, <1>6, <2>3
        <4>2. x \in scanned <=> x \in Nat /\ c.pos < x /\ x <= last
          <5>1. x \in scanned => x \in Nat /\ c.pos < x /\ x <= last
            BY <1>3, <3>1
          <5>2. x \in Nat /\ c.pos < x /\ x <= last =>
                  x <= snap /\ x <= c.pos + 4 * PageLimit
            BY <1>1, <1>2, <3>2
          <5> QED BY <1>3, <5>1, <5>2
        <4> QED BY <1>1, <3>2, <4>1, <4>2
      <3>4. deltas = (c.pos + 1..last) \ Ineligible
        BY <3>3
      <3> QED BY <1>1, <3>2, <3>4
    <2> QED BY <2>1, <2>2, <2>3
  <1> QED BY <1>1, <1>9 DEF PageFor, CursorOK, PageFields, CursorFields

(* The engine keeps what it knows of the stream whatever it does next. *)
LEMMA FreshEngine ==
  ASSUME NEW e, DOMAIN e = EngineFields, NEW a, NEW h, NEW c, Reached(c, a)
  PROVE  EngineOK(Begin(e, c), a, h)
  BY DEF Begin, EngineOK, EngineFields

LEMMA NothingRead == \A a : Reached(NoCursor, a)
  <1>1. Readable(0) = {}
    BY DEF Readable
  <1> QED BY <1>1 DEF Reached, NoCursor, CursorOK, CursorFields

LEMMA EngineSteps ==
  ASSUME NEW e, NEW a, NEW h, EngineOK(e, a, h), NEW c, Reached(c, a)
  PROVE  /\ EngineOK(Begin(e, c), a, h)
         /\ EngineOK([e EXCEPT !.queued = TRUE], a, h)
         /\ EngineOK([e EXCEPT !.retry = FALSE], a, h)
         /\ EngineOK(handleFailure(e), a, h)
         /\ EngineOK(EndOfSnapshot(e, c), a, h)
         /\ e.pc = "reading" => EngineOK([e EXCEPT !.cur = NoCursor, !.reset = TRUE], a, h)
         /\ EngineOK([IdleEngine EXCEPT !.terminal = TRUE], a, h)
         /\ EngineOK(Begin(IdleEngine, c), a, h)
  <1>1. DOMAIN e = EngineFields /\ Reached(e.cur, a)
    BY DEF EngineOK
  <1>2. EngineOK(Begin(e, c), a, h) /\ EngineOK(Begin(IdleEngine, c), a, h)
    <2>1. DOMAIN IdleEngine = EngineFields
      BY DEF IdleEngine, EngineFields
    <2> QED BY <1>1, <2>1, FreshEngine
  <1>3. EngineOK([e EXCEPT !.queued = TRUE], a, h) /\ EngineOK([e EXCEPT !.retry = FALSE], a, h)
    BY DEF EngineOK, EngineFields
  <1>4. EngineOK(handleFailure(e), a, h)
    BY <1>1, NothingRead DEF EngineOK, EngineFields, handleFailure
  <1>5. EngineOK(EndOfSnapshot(e, c), a, h)
    <2>1. EngineOK([e EXCEPT !.pc = "none", !.page = NoPage, !.cur = NoCursor,
                             !.reset = FALSE], a, h)
      BY <1>1, NothingRead DEF EngineOK, EngineFields
    <2> QED BY <1>2, <2>1 DEF EndOfSnapshot
  <1>6. ASSUME e.pc = "reading"
        PROVE  EngineOK([e EXCEPT !.cur = NoCursor, !.reset = TRUE], a, h)
    BY <1>1, <1>6, NothingRead DEF EngineOK, EngineFields
  <1>7. EngineOK([IdleEngine EXCEPT !.terminal = TRUE], a, h)
    BY NothingRead DEF EngineOK, EngineFields, IdleEngine
  <1> QED BY <1>2, <1>3, <1>4, <1>5, <1>6, <1>7

LEMMA RequestKeeps ==
  ASSUME NEW e, NEW a, NEW h, EngineOK(e, a, h), Reached(cursor, a)
  PROVE  EngineOK(requestSync(e), a, h)
  <1>1. PICK c : c = cursor
    OBVIOUS
  <1>2. Reached(c, a)
    BY <1>1
  <1> QED BY <1>1, <1>2, EngineSteps DEF requestSync

(* A page that has been applied leaves a replica that reaches its cursor. *)
LEMMA PageIsApplied ==
  ASSUME NEW h \in Nat, NEW a, AppliedOK(a, h), NEW e, EngineOK(e, a, h),
         NEW p, PageFor(p, e.cur, h), NEW b, b = a \cup p.deltas
  PROVE  /\ AppliedOK(b, h) /\ Reached(p.next, b) /\ EngineOK(AfterPage(e, p), b, h)
         /\ Readable(p.next.pos) = Readable(e.cur.pos) \cup p.deltas
  <1>1. /\ e.cur.pos \in Nat /\ p.next.pos \in Nat /\ e.cur.pos <= p.next.pos
        /\ p.next.pos <= h /\ CursorOK(p.next)
        /\ p.deltas = (e.cur.pos + 1..p.next.pos) \ Ineligible
        /\ Readable(e.cur.pos) \subseteq a
    BY DEF PageFor, EngineOK, Reached, CursorOK
  <1>2. Readable(p.next.pos) = Readable(e.cur.pos) \cup p.deltas
    BY <1>1 DEF Readable
  <1>3. Reached(p.next, b)
    BY <1>1, <1>2 DEF Reached
  <1>4. AppliedOK(b, h)
    <2>1. b \subseteq Readable(h)
      <3>1. p.deltas \subseteq Readable(h)
        BY <1>1 DEF Readable
      <3> QED BY <3>1 DEF AppliedOK
    <2>2. ASSUME NEW q \in b PROVE Readable(q) \subseteq b
      <3>1. CASE q \in a
        BY <3>1 DEF AppliedOK
      <3>2. CASE q \in p.deltas
        <4>1. q \in Nat /\ q <= p.next.pos
          BY <1>1, <3>2
        <4>2. Readable(q) \subseteq Readable(p.next.pos)
          BY <1>1, <4>1 DEF Readable
        <4> QED BY <1>1, <1>2, <4>2
      <3> QED BY <3>1, <3>2
    <2> QED BY <2>1, <2>2 DEF AppliedOK
  <1>5. EngineOK(AfterPage(e, p), b, h)
    <2>1. PICK c : c = p.next
      OBVIOUS
    <2>2. DOMAIN e = EngineFields /\ Reached(c, b)
      BY <1>3, <2>1 DEF EngineOK
    <2>3. CASE p.more
      <3>1. EngineOK([e EXCEPT !.pc = "reading", !.cur = c, !.page = NoPage], b, h)
        BY <2>2 DEF EngineOK, EngineFields
      <3> QED BY <2>1, <2>3, <3>1 DEF AfterPage
    <2>4. CASE ~p.more
      <3>1. EngineOK(Begin(e, c), b, h)
        BY <2>2, FreshEngine
      <3>2. EngineOK([e EXCEPT !.pc = "none", !.page = NoPage, !.cur = NoCursor,
                               !.reset = FALSE], b, h)
        BY <2>2, NothingRead DEF EngineOK, EngineFields
      <3> QED BY <2>1, <2>4, <3>1, <3>2 DEF AfterPage, EndOfSnapshot
    <2> QED BY <2>3, <2>4
  <1> QED BY <1>2, <1>3, <1>4, <1>5

(* Of what may be read up to h, b holds more than a and leaves nothing out. *)
Delivers(a, b, h) ==
    \/ b = a
    \/ \E k \in 1..Rank(h) :
           /\ k \notin {Rank(q) : q \in a}
           /\ {Rank(q) : q \in a} \subseteq 1..k
           /\ {Rank(q) : q \in b} = 1..k

(* Applying a page is one delivery, or none when all of it was applied. *)
LEMMA PageDelivers ==
  ASSUME NEW h \in Nat, NEW a, AppliedOK(a, h), NEW e, EngineOK(e, a, h),
         NEW p, PageFor(p, e.cur, h), NEW b, b = a \cup p.deltas
  PROVE  Delivers(a, b, h)
  <1>1. /\ e.cur.pos \in Nat /\ p.next.pos \in Nat /\ e.cur.pos <= p.next.pos
        /\ p.next.pos <= h
        /\ p.deltas = (e.cur.pos + 1..p.next.pos) \ Ineligible
        /\ Readable(e.cur.pos) \subseteq a
    BY DEF PageFor, EngineOK, Reached, CursorOK
  <1>2. PICK n \in Nat : n = p.next.pos
    BY <1>1
  <1>3. Readable(n) = Readable(e.cur.pos) \cup p.deltas
    BY <1>2, PageIsApplied
  <1>4. SUFFICES ASSUME NEW d \in p.deltas, d \notin a
                 PROVE  \E k \in 1..Rank(h) :
                            /\ k \notin {Rank(q) : q \in a}
                            /\ {Rank(q) : q \in a} \subseteq 1..k
                            /\ {Rank(q) : q \in b} = 1..k
    BY DEF Delivers
  <1>5. d \in Nat /\ 1 <= d /\ d <= n /\ d \notin Ineligible
    BY <1>1, <1>2
  <1>6. \A x \in a : x \in Nat /\ x < d /\ Readable(x) \subseteq a
    <2> SUFFICES ASSUME NEW x \in a PROVE x \in Nat /\ x < d /\ Readable(x) \subseteq a
      OBVIOUS
    <2>1. x \in Nat /\ Readable(x) \subseteq a
      BY DEF AppliedOK, Readable
    <2>2. d \notin Readable(x)
      BY <1>4, <2>1
    <2> QED BY <1>5, <2>1, <2>2 DEF Readable
  <1>7. b = Readable(n)
    <2>1. a \subseteq Readable(n)
      <3> SUFFICES ASSUME NEW x \in a PROVE x \in Readable(n)
        OBVIOUS
      <3>1. x \in Readable(h)
        BY DEF AppliedOK
      <3> QED BY <1>5, <1>6, <3>1 DEF Readable
    <2> QED BY <1>1, <1>3, <2>1
  <1>8. PICK k : k = Rank(n)
    OBVIOUS
  <1>9. {Rank(q) : q \in b} = 1..k
    BY <1>7, <1>8, RankCovers
  <1>10. {Rank(q) : q \in a} \subseteq 1..k
    BY <1>9
  <1>11. k \in Nat /\ Rank(d) \in Nat /\ Rank(h) \in Nat
    BY <1>5, <1>8, ReadableFinite
  <1>12. Rank(d) <= k /\ k <= Rank(h) /\ 0 < Rank(d)
    <2>1. Rank(d) <= k
      BY <1>5, <1>8, RankGrows
    <2>2. k <= Rank(h)
      BY <1>1, <1>2, <1>8, RankGrows
    <2>3. Rank(0) < Rank(d)
      BY <1>5, RankApart
    <2> QED BY <2>1, <2>2, <2>3, RankStart
  <1>13. \A x \in a : Rank(x) # k
    <2> SUFFICES ASSUME NEW x \in a PROVE Rank(x) # k
      OBVIOUS
    <2>1. Rank(x) < Rank(d) /\ Rank(x) \in Nat
      BY <1>5, <1>6, RankApart, ReadableFinite
    <2> QED BY <1>11, <1>12, <2>1
  <1> QED BY <1>9, <1>10, <1>11, <1>12, <1>13

-----------------------------------------------------------------------------
(* The steps of the tab, by what they do to the stream.                    *)

(* Neither the stream nor the replica moves. *)
Still == UNCHANGED <<head, applied, tab>>

LogStep == [Log!LogNext]_(Log!logVars)

LEMMA StillIsStutter ==
  Still /\ (UNCHANGED authorized \/ RevokeAccess) => LogStep
  <1> SUFFICES ASSUME Still, UNCHANGED authorized \/ RevokeAccess PROVE LogStep
    OBVIOUS
  <1>1. Rank(head)' = Rank(head) /\ {Rank(p) : p \in applied}' = {Rank(p) : p \in applied}
    BY DEF Still, Rank
  <1>2. CASE UNCHANGED authorized
    <2>1. (tab /\ authorized)' = (tab /\ authorized)
      BY <1>2, Zenon DEF Still
    <2> QED BY <1>1, <2>1 DEF LogStep, Log!logVars
  <1>3. CASE RevokeAccess
    <2>1. (tab /\ authorized)' = FALSE
      BY <1>3, Zenon DEF RevokeAccess
    <2> QED BY <1>1, <2>1 DEF LogStep, Log!LogNext, Log!LogRevoke
  <1> QED BY <1>2, <1>3

LEMMA AppendSteps ==
  ASSUME StreamInv, AppendEvent, UNCHANGED clientVars, UNCHANGED tab
  PROVE  StreamInv' /\ LogStep
  <1>1. /\ head' = head + 1 /\ head \in Nat /\ applied' = applied /\ cursor' = cursor
        /\ engine' = engine
    BY DEF AppendEvent, clientVars, StreamInv
  <1>2. PICK h \in Nat : h = head
    BY <1>1
  <1>3. AppliedOK(applied, h + 1)
    <2>1. Readable(h) \subseteq Readable(h + 1)
      BY DEF Readable
    <2> QED BY <1>2, <2>1 DEF StreamInv, AppliedOK
  <1>4. EngineOK(engine, applied, h + 1)
    BY <1>2 DEF StreamInv, EngineOK, PageFor, Reached, CursorOK
  <1>5. StreamInv'
    BY <1>1, <1>2, <1>3, <1>4 DEF StreamInv
  <1>6. /\ {Rank(p) : p \in applied}' = {Rank(p) : p \in applied}
        /\ Rank(head)' = Rank(h + 1) /\ Rank(head) = Rank(h)
    BY <1>1, <1>2 DEF Rank
  <1>7. (tab /\ authorized)' = (tab /\ authorized)
    BY Zenon DEF clientVars
  <1>8. Rank(h + 1) = Rank(h) \/ Rank(h + 1) = Rank(h) + 1
    BY RankStep
  <1> QED BY <1>5, <1>6, <1>7, <1>8 DEF LogStep, Log!LogNext, Log!LogAppend, Log!logVars

(* Steps that read nothing: the engine goes on as before. *)
LEMMA QuietSteps ==
  ASSUME StreamInv, UNCHANGED <<head, applied>>, cursor' \in {cursor, NoCursor},
         \/ engine' = engine
         \/ engine' = requestSync(engine)
         \/ engine' = requestSync([engine EXCEPT !.retry = FALSE])
         \/ engine' = handleFailure(engine)
         \/ engine.pc = "reading" /\ engine' = [engine EXCEPT !.cur = NoCursor, !.reset = TRUE]
         \/ engine' = [IdleEngine EXCEPT !.terminal = TRUE]
         \/ engine' = Begin(IdleEngine, cursor')
  PROVE  StreamInv'
  <1>1. PICK a : a = applied
    OBVIOUS
  <1>2. PICK h : h = head
    OBVIOUS
  <1>3. PICK e : e = engine
    OBVIOUS
  <1>4. PICK c : c = cursor'
    OBVIOUS
  <1>5. EngineOK(e, a, h) /\ Reached(cursor, a) /\ Reached(c, a)
    BY <1>1, <1>2, <1>3, <1>4, NothingRead DEF StreamInv
  <1>6. /\ EngineOK([e EXCEPT !.retry = FALSE], a, h)
        /\ EngineOK(handleFailure(e), a, h)
        /\ e.pc = "reading" => EngineOK([e EXCEPT !.cur = NoCursor, !.reset = TRUE], a, h)
        /\ EngineOK([IdleEngine EXCEPT !.terminal = TRUE], a, h)
        /\ EngineOK(Begin(IdleEngine, c), a, h)
    BY <1>5, EngineSteps
  <1>7. PICK f : f = [e EXCEPT !.retry = FALSE]
    OBVIOUS
  <1>8. EngineOK(requestSync(e), a, h) /\ EngineOK(requestSync(f), a, h)
    BY <1>5, <1>6, <1>7, RequestKeeps
  <1>9. PICK g : g = engine'
    OBVIOUS
  <1>10. EngineOK(g, a, h)
    BY <1>3, <1>4, <1>5, <1>6, <1>7, <1>8, <1>9
  <1> QED BY <1>1, <1>2, <1>4, <1>5, <1>9, <1>10 DEF StreamInv

(* A page is applied, in the step that reads it if nothing of it may be read. *)
LEMMA PageSteps ==
  ASSUME StreamInv, UNCHANGED <<head, authorized, tab>>,
         NEW p, PageFor(p, engine.cur, head),
         Client(p.next, applied \cup p.deltas, AfterPage(engine, p))
  PROVE  StreamInv' /\ LogStep
  <1>1. PICK h \in Nat : h = head /\ h = head'
    BY DEF StreamInv
  <1>2. PICK a : a = applied
    OBVIOUS
  <1>3. PICK e : e = engine
    OBVIOUS
  <1>4. PICK b : b = a \cup p.deltas
    OBVIOUS
  <1>5. AppliedOK(a, h) /\ EngineOK(e, a, h) /\ PageFor(p, e.cur, h)
    BY <1>1, <1>2, <1>3 DEF StreamInv
  <1>6. applied' = b /\ cursor' = p.next /\ engine' = AfterPage(e, p)
    BY <1>2, <1>3, <1>4 DEF Client
  <1>7. AppliedOK(b, h) /\ Reached(p.next, b) /\ EngineOK(AfterPage(e, p), b, h)
    BY <1>4, <1>5, PageIsApplied
  <1>8. PICK g : g = AfterPage(e, p)
    OBVIOUS
  <1>9. PICK c : c = p.next
    OBVIOUS
  <1>10. StreamInv'
    BY <1>1, <1>6, <1>7, <1>8, <1>9 DEF StreamInv
  <1>11. Delivers(a, b, h)
    BY <1>4, <1>5, PageDelivers
  <1>12. CASE b = a
    <2>1. Still
      BY <1>2, <1>6, <1>12 DEF Still
    <2>2. UNCHANGED authorized
      OBVIOUS
    <2> QED BY <1>10, <2>1, <2>2, StillIsStutter, Zenon
  <1>13. CASE b # a
    <2>1. PICK k \in 1..Rank(h) :
              /\ k \notin {Rank(q) : q \in a}
              /\ {Rank(q) : q \in a} \subseteq 1..k
              /\ {Rank(q) : q \in b} = 1..k
      BY <1>11, <1>13 DEF Delivers
    <2>2. Rank(head) = Rank(h) /\ Rank(head)' = Rank(h)
      BY <1>1 DEF Rank
    <2>3. /\ {Rank(q) : q \in applied} = {Rank(q) : q \in a}
          /\ {Rank(q) : q \in applied}' = {Rank(q) : q \in b}
      BY <1>2, <1>6 DEF Rank
    <2>4. (tab /\ authorized)' = (tab /\ authorized)
      BY Zenon
    <2>5. Log!LogDeliver
      BY <2>1, <2>2, <2>3, <2>4 DEF Log!LogDeliver
    <2> QED BY <1>10, <2>5 DEF LogStep, Log!LogNext
  <1> QED BY <1>12, <1>13

LEMMA ReadSteps ==
  ASSUME StreamInv, UNCHANGED tab, ReadPage
  PROVE  StreamInv' /\ LogStep
  <1>1. UNCHANGED <<head, authorized, tab>>
    BY DEF ReadPage, RestUnchanged
  <1>2. PICK p : p = SyncPage(engine.cur)
    OBVIOUS
  <1>3. CursorOK(engine.cur) /\ Reached(engine.cur, applied) /\ head \in Nat
    BY DEF StreamInv, EngineOK, Reached
  <1>4. engine.cur.pos <= head /\ engine.cur.snap <= head
    <2>1. CASE engine.cur = NoCursor
      BY <1>3, <2>1 DEF NoCursor
    <2>2. CASE engine.cur # NoCursor
      BY <1>3, <2>2 DEF ReadPage, CursorRefused, CursorOK
    <2> QED BY <2>1, <2>2
  <1>5. PageFor(p, engine.cur, head)
    <2>1. PICK c : c = engine.cur
      OBVIOUS
    <2>2. PICK snap : snap = SnapshotHead(engine.cur)
      OBVIOUS
    <2>3. PICK h : h = head
      OBVIOUS
    <2>4. snap \in Nat /\ snap <= h /\ h \in Nat /\ c.pos <= h /\ CursorOK(c)
      BY <1>3, <1>4, <2>1, <2>2, <2>3 DEF SnapshotHead, CursorOK
    <2>5. PageFor(PageOf(c, snap), c, h)
      BY <2>4, PageIsNext
    <2> QED BY <1>2, <2>1, <2>2, <2>3, <2>5 DEF SyncPage
  <1>6. CASE p.deltas = {}
    <2>1. Client(p.next, applied, AfterPage(engine, p))
      BY <1>2, <1>6 DEF ReadPage
    <2>2. applied \cup p.deltas = applied
      BY <1>6
    <2>3. Client(p.next, applied \cup p.deltas, AfterPage(engine, p))
      BY <2>1, <2>2 DEF Client
    <2> QED BY <1>1, <1>5, <2>3, PageSteps
  <1>7. CASE p.deltas # {}
    <2>1. Client(cursor, applied, [engine EXCEPT !.pc = "applying", !.page = p])
      BY <1>2, <1>7 DEF ReadPage
    <2>2. StreamInv'
      <3>1. PICK h : h = head
        OBVIOUS
      <3>2. PICK a : a = applied
        OBVIOUS
      <3>3. PICK e : e = engine
        OBVIOUS
      <3>4. EngineOK(e, a, h) /\ PageFor(p, e.cur, h)
        BY <1>5, <3>1, <3>2, <3>3 DEF StreamInv
      <3>5. EngineOK([e EXCEPT !.pc = "applying", !.page = p], a, h)
        BY <3>4 DEF EngineOK, EngineFields
      <3>6. PICK g : g = [e EXCEPT !.pc = "applying", !.page = p]
        OBVIOUS
      <3> QED BY <1>1, <2>1, <3>1, <3>2, <3>3, <3>5, <3>6 DEF StreamInv, Client
    <2>3. Still
      BY <1>1, <2>1 DEF Still, Client
    <2>4. UNCHANGED authorized
      BY <1>1
    <2> QED BY <2>2, <2>3, <2>4, StillIsStutter, Zenon
  <1> QED BY <1>6, <1>7

LEMMA TabSteps ==
  ASSUME StreamInv, UNCHANGED tab, TabStep
  PROVE  StreamInv' /\ LogStep
  <1>1. CASE ReadPage
    BY <1>1, ReadSteps
  <1>2. CASE ApplyDeltas
    <2>1. PICK p : p = engine.page
      OBVIOUS
    <2>2. PageFor(p, engine.cur, head)
      BY <1>2, <2>1 DEF ApplyDeltas, StreamInv, EngineOK
    <2>3. /\ Client(p.next, applied \cup p.deltas, AfterPage(engine, p))
          /\ UNCHANGED <<head, authorized, tab>>
      BY <1>2, <2>1 DEF ApplyDeltas, RestUnchanged
    <2> QED BY <2>2, <2>3, PageSteps
  <1>3. CASE ReadStale \/ ReadUnauthorized \/ SyncFails \/ RetryFires \/ Remount
               \/ WokenByBrowser \/ HintArrives \/ connect \/ ClientFrame
    <2>1. Still /\ UNCHANGED authorized /\ cursor' \in {cursor, NoCursor}
      BY <1>3 DEF ReadStale, ReadUnauthorized, SyncFails, RetryFires, Remount, WokenByBrowser,
                  HintArrives, connect, ClientFrame, SocketStep, SocketFrame, Client,
                  RestUnchanged, Still
    <2>2. \/ engine' = requestSync(engine)
          \/ engine' = requestSync([engine EXCEPT !.retry = FALSE])
          \/ engine' = handleFailure(engine)
          \/ engine.pc = "reading" /\ engine' = [engine EXCEPT !.cur = NoCursor, !.reset = TRUE]
          \/ engine' = [IdleEngine EXCEPT !.terminal = TRUE]
          \/ engine' = Begin(IdleEngine, cursor')
      BY <1>3 DEF ReadStale, ReadUnauthorized, SyncFails, RetryFires, Remount, WokenByBrowser,
                  HintArrives, connect, ClientFrame, SocketStep, Client
    <2>3. StreamInv'
      BY <2>1, <2>2, QuietSteps DEF Still
    <2> QED BY <2>1, <2>3, StillIsStutter, Zenon
  <1>4. CASE UpgradeAborted \/ ConnectRefused \/ ConnectionBreaks \/ ReapConnection
               \/ GatewayCloses \/ heartbeat \/ Revalidated \/ handleClientMessage \/ ChangeSecret
    <2>1. Still /\ UNCHANGED authorized /\ UNCHANGED <<cursor, engine>>
      BY <1>4 DEF UpgradeAborted, ConnectRefused, ConnectionBreaks, ReapConnection,
                  GatewayCloses, heartbeat, Revalidated, handleClientMessage, ChangeSecret,
                  SocketStep, SocketFrame, Still
    <2>2. StreamInv'
      BY <2>1, QuietSteps DEF Still
    <2> QED BY <2>1, <2>2, StillIsStutter, Zenon
  <1>5. CASE RevokeAccess
    <2>1. Still /\ UNCHANGED <<cursor, engine>>
      BY <1>5 DEF RevokeAccess, Still
    <2>2. StreamInv'
      BY <2>1, QuietSteps DEF Still
    <2> QED BY <1>5, <2>1, <2>2, StillIsStutter, Zenon
  <1> QED BY <1>1, <1>2, <1>3, <1>4, <1>5 DEF TabStep

LEMMA DispatchKeepsHead == DispatchStep => head' = head
  BY DEF DispatchStep, DispatcherStep, claim, renewLease, publish, markPublished, scheduleRetry,
         PublishFails, DispatcherDies, compactPublished, BackoffElapses, OrphanExpires,
         LeaseOverrun

LEMMA StreamNext == StreamInv /\ [SyncNext]_syncVars => StreamInv' /\ LogStep
  <1> SUFFICES ASSUME StreamInv, [SyncNext]_syncVars PROVE StreamInv' /\ LogStep
    OBVIOUS
  <1>1. CASE UNCHANGED syncVars \/ (DispatchStep /\ UNCHANGED clientVars /\ UNCHANGED tab)
    <2>1. head' = head
      BY <1>1, DispatchKeepsHead DEF syncVars
    <2>2. Still /\ UNCHANGED authorized /\ UNCHANGED <<cursor, engine>>
      BY <1>1, <2>1 DEF syncVars, clientVars, Still
    <2>3. StreamInv'
      BY <2>2, QuietSteps DEF Still
    <2> QED BY <2>2, <2>3, StillIsStutter, Zenon
  <1>2. CASE AppendEvent /\ UNCHANGED clientVars /\ UNCHANGED tab
    BY <1>2, AppendSteps
  <1>3. CASE TabStep /\ UNCHANGED tab
    BY <1>3, TabSteps
  <1>4. \/ UNCHANGED syncVars
        \/ DispatchStep /\ UNCHANGED clientVars /\ UNCHANGED tab
        \/ AppendEvent /\ UNCHANGED clientVars /\ UNCHANGED tab
        \/ TabStep /\ UNCHANGED tab
    BY Zenon DEF SyncNext
  <1> QED BY <1>1, <1>2, <1>3, <1>4, Zenon

(* The replica of a tab is a prefix of what its user may read, and a step  *)
(* of the tab or of the server makes it a longer one or leaves it: no hint *)
(* that is lost, no page that is cut, no cursor that is refused and no     *)
(* request that fails lets an event be skipped. *)
THEOREM ReplicaIsPrefix == SyncSpec => Log!LogInit /\ [][Log!LogNext]_(Log!logVars)
  <1>1. SyncInit => StreamInv /\ Log!LogInit
    <2> SUFFICES ASSUME SyncInit PROVE StreamInv /\ Log!LogInit
      OBVIOUS
    <2>1. /\ head = 0 /\ applied = {} /\ cursor = NoCursor /\ tab \in BOOLEAN
          /\ authorized = TRUE /\ engine = Begin(IdleEngine, NoCursor)
      BY DEF SyncInit, OutboxInit, ClientInit
    <2>2. EngineOK(Begin(IdleEngine, NoCursor), {}, 0)
      <3>1. DOMAIN IdleEngine = EngineFields
        BY DEF IdleEngine, EngineFields
      <3> QED BY <3>1, NothingRead, FreshEngine
    <2>3. StreamInv
      BY <2>1, <2>2, NothingRead DEF StreamInv, AppliedOK
    <2>4. Rank(head) = 0 /\ {Rank(p) : p \in applied} = {}
      BY <2>1, RankStart
    <2>5. (tab /\ authorized) \in BOOLEAN
      OBVIOUS
    <2> QED BY <2>3, <2>4, <2>5 DEF Log!LogInit
  <1> QED BY <1>1, StreamNext, PTL DEF SyncSpec, LogStep
===============================================================================
