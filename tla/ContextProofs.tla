---------------------------- MODULE ContextProofs ---------------------------
(***************************************************************************)
(* Proofs about what a model is told, for any number of workers and any    *)
(* length of a history: what a user wrote into the memory stands, all      *)
(* attempts of an invocation are handed one and the same context, and a    *)
(* compacted conversation leaves no message out.                           *)
(*                                                                         *)
(* The memory needs that no current row is the parent of another, so that  *)
(* a deletion blanks what only the deleted row descends from.  The context *)
(* needs that the snapshot of a plan that has begun never changes, what a  *)
(* worker that resolves it has decided so far, and the rules of the packer *)
(* as facts about its loops.  The summaries need what each says of itself  *)
(* and of the one before it; the rest follows by their order.              *)
(***************************************************************************)
EXTENDS Memory, ContextBundle, Compaction,
        FiniteSetTheorems, SequenceTheorems, WellFoundedInduction, TLAPS

-----------------------------------------------------------------------------
(* The user's memory.  First the rows a row descends from: the recursion   *)
(* of Lineage, over any rows whose parents are older than they are.        *)

(* A list of items, each with an older parent, or none. *)
ItemList(rows) ==
    /\ Len(rows) \in Nat
    /\ rows = [j \in 1..Len(rows) |-> rows[j]]
    /\ \A j \in 1..Len(rows) : rows[j].parent \in 0..(j - 1)

(* f takes every item up to n to itself and what its parent is taken to. *)
GoesUp(f, rows, n) ==
    f = [j \in 0..n |-> IF j = 0 THEN {} ELSE {j} \cup f[rows[j].parent]]

Ups(rows) == CHOOSE f : GoesUp(f, rows, Len(rows))

LEMMA LineageIsUps ==
  /\ \A i : Lineage(i) = Ups(item)[i]
  /\ \A i : Lineage(i)' = Ups(item')[i]
  BY DEF Lineage, Ups, GoesUp

(* Of some positive numbers one is the least. *)
LEMMA LeastRow ==
  ASSUME NEW S \in SUBSET Nat, S # {}
  PROVE  \E m \in S : \A x \in S : m <= x
<1>1. PICK less : less = {p \in Nat \X Nat : p[1] < p[2]}
  OBVIOUS
<1>2. IsWellFoundedOn(less, Nat)
  BY <1>1, NatLessThanWellFounded DEF OpToRel
<1>3. PICK m \in S : \A x \in S : <<x, m>> \notin less
  BY <1>2, WFMin
<1>4. ASSUME NEW x \in S PROVE m <= x
  <2>1. m \in Nat /\ x \in Nat /\ <<x, m>> \in Nat \X Nat
    OBVIOUS
  <2>2. ~(<<x, m>>[1] < <<x, m>>[2])
    BY <1>1, <1>3, <2>1
  <2> QED
    BY <2>1, <2>2
<1> QED
  BY <1>4

(* S holds, with each of its items, the item's parent. *)
HoldsParents(S, rows) ==
    \A m \in S : rows[m].parent # 0 => rows[m].parent \in S

(* The smallest set that holds an item and, with each, its parent. *)
Upward(rows, n, j) ==
    {k \in 1..n : \A S \in SUBSET (1..n) : j \in S /\ HoldsParents(S, rows) => k \in S}

(* There is such an f: the smallest such sets are one. *)
LEMMA UpsExist ==
  ASSUME NEW rows, ItemList(rows)
  PROVE  GoesUp(Ups(rows), rows, Len(rows))
<1> DEFINE n == Len(rows)
<1> DEFINE up == [j \in 0..n |-> IF j = 0 THEN {} ELSE Upward(rows, n, j)]
<1>1. n \in Nat /\ \A j \in 1..n : rows[j].parent \in 0..n
  BY DEF ItemList
<1>2. ASSUME NEW j \in 1..n
      PROVE  up[j] = {j} \cup up[rows[j].parent]
  <2> DEFINE p == rows[j].parent
  <2>1. p \in 0..n /\ up[j] = Upward(rows, n, j)
        /\ up[p] = IF p = 0 THEN {} ELSE Upward(rows, n, p)
    BY <1>1
  <2>2. Upward(rows, n, j) \in SUBSET (1..n) /\ up[p] \in SUBSET (1..n)
    BY <2>1 DEF Upward
  <2>3. j \in Upward(rows, n, j)
    BY <1>2 DEF Upward
  <2>4. ASSUME p # 0, NEW k \in Upward(rows, n, p) PROVE k \in Upward(rows, n, j)
    <3>1. ASSUME NEW S \in SUBSET (1..n), j \in S, HoldsParents(S, rows) PROVE k \in S
      <4>1. p \in S
        BY <2>4, <3>1 DEF HoldsParents
      <4> QED
        BY <2>4, <3>1, <4>1 DEF Upward
    <3> QED
      BY <2>4, <3>1 DEF Upward
  <2>5. HoldsParents({j} \cup up[p], rows)
    <3>1. ASSUME NEW m \in {j} \cup up[p], rows[m].parent # 0
          PROVE  rows[m].parent \in {j} \cup up[p]
      <4>1. CASE m = j
        <5>1. p # 0 /\ up[p] = Upward(rows, n, p) /\ p \in 1..n
          BY <1>1, <2>1, <3>1, <4>1
        <5>2. p \in Upward(rows, n, p)
          BY <5>1 DEF Upward
        <5> QED
          BY <4>1, <5>1, <5>2
      <4>2. CASE m # j
        <5>1. m \in up[p]
          BY <3>1, <4>2
        <5>2. p # 0 /\ up[p] = Upward(rows, n, p) /\ m \in Upward(rows, n, p)
          BY <2>1, <5>1
        <5>3. m \in 1..n /\ rows[m].parent \in 1..n
          BY <1>1, <3>1, <5>2 DEF Upward
        <5>4. ASSUME NEW S \in SUBSET (1..n), p \in S, HoldsParents(S, rows)
              PROVE  rows[m].parent \in S
          BY <3>1, <5>2, <5>4 DEF Upward, HoldsParents
        <5> QED
          BY <5>2, <5>3, <5>4 DEF Upward
      <4> QED
        BY <4>1, <4>2
    <3> HIDE DEF up, p
    <3> QED
      BY <3>1 DEF HoldsParents
  <2>6. ASSUME NEW k \in Upward(rows, n, j) PROVE k \in {j} \cup up[p]
    <3>1. {j} \cup up[p] \in SUBSET (1..n) /\ j \in {j} \cup up[p]
      BY <1>2, <2>2
    <3> HIDE DEF up, p
    <3> QED
      BY <2>5, <2>6, <3>1 DEF Upward
  <2>7. {j} \cup up[p] \subseteq Upward(rows, n, j)
    BY <2>1, <2>3, <2>4
  <2> QED
    BY <2>1, <2>6, <2>7
<1>3. GoesUp(up, rows, n)
  <2>1. up = [j \in 0..n |-> up[j]] /\ up[0] = {}
    BY <1>1
  <2>2. ASSUME NEW j \in 0..n
        PROVE  up[j] = IF j = 0 THEN {} ELSE {j} \cup up[rows[j].parent]
    <3> HIDE DEF up
    <3>1. CASE j = 0
      BY <2>1, <3>1
    <3>2. CASE j # 0
      <4>1. j \in 1..n
        BY <1>1, <2>2, <3>2
      <4> QED
        BY <1>2, <3>2, <4>1
    <3> QED
      BY <3>1, <3>2
  <2> HIDE DEF up
  <2> QED
    BY <2>1, <2>2 DEF GoesUp
<1> HIDE DEF up
<1> QED
  BY <1>3 DEF Ups

(* What Lineage is of an item: the item and what its parent's is. *)
LEMMA UpsOf ==
  ASSUME NEW rows, ItemList(rows)
  PROVE  /\ Ups(rows)[0] = {}
         /\ \A j \in 1..Len(rows) : Ups(rows)[j] = {j} \cup Ups(rows)[rows[j].parent]
<1>1. PICK f : f = Ups(rows)
  OBVIOUS
<1>2. f = [j \in 0..Len(rows) |-> IF j = 0 THEN {} ELSE {j} \cup f[rows[j].parent]]
  BY <1>1, UpsExist DEF GoesUp
<1>3. Len(rows) \in Nat
  BY DEF ItemList
<1>4. f[0] = {}
  <2>1. 0 \in 0..Len(rows)
    BY <1>3
  <2> QED
    BY <1>2, <2>1
<1>5. ASSUME NEW j \in 1..Len(rows) PROVE f[j] = {j} \cup f[rows[j].parent]
  <2>1. j \in 0..Len(rows) /\ j # 0
    BY <1>3
  <2> QED
    BY <1>2, <2>1
<1> QED
  BY <1>1, <1>4, <1>5

(* Every row of a lineage but the first is the parent of another row.      *)
LEMMA UpsAreParents ==
  ASSUME NEW rows, ItemList(rows), NEW i \in 1..Len(rows)
  PROVE  /\ Ups(rows)[i] \subseteq 1..Len(rows)
         /\ \A k \in Ups(rows)[i] \ {i} : \E m \in 1..Len(rows) : rows[m].parent = k
<1> DEFINE Good(j) == /\ Ups(rows)[j] \subseteq 1..Len(rows)
                      /\ \A k \in Ups(rows)[j] \ {j} :
                           \E m \in 1..Len(rows) : rows[m].parent = k
<1> DEFINE Bad == {j \in 1..Len(rows) : ~Good(j)}
<1>1. Len(rows) \in Nat /\ \A j \in 1..Len(rows) : rows[j].parent \in 0..(j - 1)
  BY DEF ItemList
<1>2. Bad = {}
  <2>1. SUFFICES ASSUME Bad # {} PROVE FALSE
    OBVIOUS
  <2>2. Bad \in SUBSET Nat
    BY <1>1
  <2>3. PICK j \in Bad : \A x \in Bad : j <= x
    <3> HIDE DEF Bad
    <3> QED
      BY <2>1, <2>2, LeastRow
  <2>4. PICK p : p = rows[j].parent
    OBVIOUS
  <2>5. j \in 1..Len(rows) /\ p \in 0..(j - 1) /\ ~Good(j)
    BY <1>1, <2>3, <2>4
  <2>6. Ups(rows)[j] = {j} \cup Ups(rows)[p] /\ Ups(rows)[0] = {}
    BY <2>4, <2>5, UpsOf
  <2>7. CASE p = 0
    BY <2>5, <2>6, <2>7
  <2>8. CASE p # 0
    <3>1. p \in 1..Len(rows) /\ p \notin Bad
      <4> HIDE DEF Bad
      <4> QED
        BY <1>1, <2>3, <2>5, <2>8
    <3>2. Good(p)
      BY <3>1
    <3>3. \A k \in Ups(rows)[j] \ {j} : \E m \in 1..Len(rows) : rows[m].parent = k
      BY <2>4, <2>5, <2>6, <3>2
    <3>4. Ups(rows)[j] \subseteq 1..Len(rows)
      BY <2>5, <2>6, <3>2
    <3> QED
      BY <2>5, <3>3, <3>4
  <2> QED
    BY <2>7, <2>8
<1> QED
  BY <1>2

(* Rows that are added or changed leave the lineages of the others alone,  *)
(* as long as no row changes its parent.                                   *)
LEMMA UpsStay ==
  ASSUME NEW rows, NEW new, ItemList(rows), ItemList(new), Len(rows) <= Len(new),
         \A j \in 1..Len(rows) : new[j].parent = rows[j].parent
  PROVE  \A i \in 0..Len(rows) : Ups(new)[i] = Ups(rows)[i]
<1> DEFINE Bad == {j \in 0..Len(rows) : Ups(new)[j] # Ups(rows)[j]}
<1>1. /\ Len(rows) \in Nat /\ Len(new) \in Nat
      /\ \A j \in 1..Len(rows) : rows[j].parent \in 0..(j - 1)
  BY DEF ItemList
<1>2. Bad = {}
  <2>1. SUFFICES ASSUME Bad # {} PROVE FALSE
    OBVIOUS
  <2>2. Bad \in SUBSET Nat
    BY <1>1
  <2>3. PICK j \in Bad : \A x \in Bad : j <= x
    <3> HIDE DEF Bad
    <3> QED
      BY <2>1, <2>2, LeastRow
  <2>4. j \in 0..Len(rows) /\ Ups(new)[j] # Ups(rows)[j]
    BY <2>3
  <2>5. j # 0
    BY <2>4, UpsOf
  <2>6. j \in 1..Len(rows) /\ j \in 1..Len(new)
    BY <1>1, <2>4, <2>5
  <2>7. PICK p : p = rows[j].parent /\ p = new[j].parent
    BY <2>6
  <2>8. p \in 0..Len(rows) /\ p < j /\ p \in Int /\ j \in Int
    BY <1>1, <2>6, <2>7
  <2>9. p \notin Bad
    <3> HIDE DEF Bad
    <3> QED
      BY <2>3, <2>8
  <2>10. Ups(new)[p] = Ups(rows)[p]
    BY <2>8, <2>9
  <2>11. Ups(rows)[j] = {j} \cup Ups(rows)[p] /\ Ups(new)[j] = {j} \cup Ups(new)[p]
    BY <2>6, <2>7, UpsOf
  <2> QED
    BY <2>4, <2>10, <2>11
<1> QED
  BY <1>2

RowFields == {"slot", "fact", "origin", "refs", "state", "parent", "expired", "deleted"}

IsDeleted(row) == row.deleted

IsExpired(row) == row.expired

(* A list is what its numbered places are. *)
ListOf(rows, n) == rows = [j \in 1..n |-> rows[j]]

LEMMA LenOfList ==
  ASSUME NEW rows, NEW n \in Nat, ListOf(rows, n)
  PROVE  /\ rows \in Seq({rows[j] : j \in 1..n})
         /\ Len(rows) = n /\ DOMAIN rows = 1..n
<1>1. PICK S : S = {rows[j] : j \in 1..n}
  OBVIOUS
<1>2. DOMAIN rows = 1..n
  BY DEF ListOf
<1>3. rows \in [1..n -> S]
  BY <1>1 DEF ListOf
<1>4. rows \in Seq(S)
  BY <1>3
<1>5. Len(rows) \in Nat /\ 1..Len(rows) = 1..n
  BY <1>2, <1>4, LenProperties
<1>6. Len(rows) = n
  BY <1>5
<1> QED
  BY <1>1, <1>2, <1>4, <1>6

LEMMA Appended ==
  ASSUME NEW rows, NEW n \in Nat, ListOf(rows, n), NEW row
  PROVE  /\ ListOf(Append(rows, row), n + 1)
         /\ Len(Append(rows, row)) = n + 1
         /\ \A j \in 1..n : Append(rows, row)[j] = rows[j]
         /\ Append(rows, row)[n + 1] = row
<1>1. PICK S : S = {rows[j] : j \in 1..n} \cup {row}
  OBVIOUS
<1>2. rows \in [1..n -> S]
  BY <1>1 DEF ListOf
<1>3. rows \in Seq(S) /\ row \in S /\ Len(rows) = n
  BY <1>1, <1>2, LenOfList
<1>4. PICK new : new = Append(rows, row)
  OBVIOUS
<1>5. /\ new \in Seq(S) /\ Len(new) = n + 1 /\ new[n + 1] = row
      /\ \A j \in 1..n : new[j] = rows[j]
  BY <1>3, <1>4, AppendProperties
<1>6. new \in [1..(n + 1) -> S]
  BY <1>5, LenProperties
<1>7. ListOf(new, n + 1)
  BY <1>6 DEF ListOf
<1> QED
  BY <1>4, <1>5, <1>7

(* Parents are older; what was deleted is nowhere above it, what is        *)
(* current is above nothing that was deleted and below nothing, and has    *)
(* its slot alone.                                                         *)
ItemsOK ==
    /\ ItemList(item)
    /\ \A i \in 1..Len(item) : DOMAIN item[i] = RowFields

DeletedOK ==
    /\ \A i \in 1..Len(item) : IsDeleted(item[i]) => \A j \in Ups(item)[i] : item[j].fact = ""
    /\ \A i \in 1..Len(item) :
         item[i].state = "ACTIVE" => \A j \in Ups(item)[i] : ~IsDeleted(item[j])

CurrentOK ==
    /\ \A i, j \in 1..Len(item) :
         i # j /\ item[i].state = "ACTIVE" /\ item[j].state = "ACTIVE" => item[i].slot # item[j].slot
    /\ \A i, j \in 1..Len(item) : item[i].parent = j => item[j].state # "ACTIVE"

MemoryInv == ItemsOK /\ DeletedOK /\ CurrentOK

(* What a step may do to a row: it never comes back, never gets its text   *)
(* back, and keeps its origin and its parent.                              *)
RowMoves(old, new) ==
    /\ DOMAIN new = RowFields
    /\ new.parent = old.parent /\ new.origin = old.origin
    /\ old.fact = "" => new.fact = ""
    /\ new.state = "ACTIVE" => old.state = "ACTIVE" /\ new.slot = old.slot

RowLives(old, new) == RowMoves(old, new) /\ (IsDeleted(new) <=> IsDeleted(old))

(* A row that is new: of a slot of its own, below the row it replaces.     *)
FreshRow(row) ==
    /\ DOMAIN row = RowFields /\ row.state = "ACTIVE" /\ ~IsDeleted(row)
    /\ row.parent \in 0..Len(item)
    /\ row.parent # 0 => item[row.parent].state = "ACTIVE" /\ item'[row.parent].state # "ACTIVE"
    /\ \A j \in 1..Len(item) : item'[j].state = "ACTIVE" => item'[j].slot # row.slot

LEMMA MemoryInitInv == MemoryInit => MemoryInv
<1> SUFFICES ASSUME MemoryInit PROVE MemoryInv
  OBVIOUS
<1>1. item = <<>> /\ Len(item) = 0 /\ 1..0 = {}
  BY DEF MemoryInit
<1>2. item = [j \in 1..Len(item) |-> item[j]]
  BY <1>1
<1> QED
  BY <1>1, <1>2 DEF MemoryInv, ItemsOK, ItemList, DeletedOK, CurrentOK

(* The rows of a transaction that writes no new one. *)
LEMMA RowsMove ==
  ASSUME MemoryInv, ListOf(item', Len(item)),
         \A j \in 1..Len(item) : RowLives(item[j], item'[j])
  PROVE  MemoryInv'
<1>1. /\ Len(item) \in Nat
      /\ \A j \in 1..Len(item) : item[j].parent \in 0..(j - 1)
  BY DEF MemoryInv, ItemsOK, ItemList
<1>2. Len(item') = Len(item)
  BY <1>1, LenOfList
<1>3. \A j \in 1..Len(item) : /\ item'[j].parent = item[j].parent
                              /\ DOMAIN item'[j] = RowFields
  BY DEF RowLives, RowMoves
<1>4. ItemList(item') /\ ItemsOK'
  BY <1>1, <1>2, <1>3 DEF ItemsOK, ItemList, ListOf
<1>5. \A i \in 1..Len(item) : Ups(item')[i] = Ups(item)[i]
  BY <1>1, <1>2, <1>3, <1>4, UpsStay DEF MemoryInv, ItemsOK
<1>6. \A i \in 1..Len(item) : Ups(item)[i] \subseteq 1..Len(item)
  BY UpsAreParents DEF MemoryInv, ItemsOK
<1>7. ASSUME NEW i \in 1..Len(item), IsDeleted(item'[i]), NEW j \in Ups(item)[i]
      PROVE  item'[j].fact = ""
  <2>1. IsDeleted(item[i]) /\ j \in 1..Len(item)
    BY <1>6, <1>7 DEF RowLives
  <2>2. item[j].fact = ""
    BY <1>7, <2>1 DEF MemoryInv, DeletedOK
  <2> QED
    BY <2>1, <2>2 DEF RowLives, RowMoves
<1>8. ASSUME NEW i \in 1..Len(item), item'[i].state = "ACTIVE", NEW j \in Ups(item)[i]
      PROVE  ~IsDeleted(item'[j])
  <2>1. item[i].state = "ACTIVE" /\ j \in 1..Len(item)
    BY <1>6, <1>8 DEF RowLives, RowMoves
  <2>2. ~IsDeleted(item[j])
    BY <1>8, <2>1 DEF MemoryInv, DeletedOK
  <2> QED
    BY <2>1, <2>2 DEF RowLives
<1>9. DeletedOK'
  BY <1>2, <1>5, <1>7, <1>8 DEF DeletedOK
<1>10. ASSUME NEW i \in 1..Len(item), item'[i].state = "ACTIVE"
       PROVE  item[i].state = "ACTIVE" /\ item'[i].slot = item[i].slot
  BY <1>10 DEF RowLives, RowMoves
<1>11. CurrentOK'
  BY <1>2, <1>3, <1>10 DEF MemoryInv, CurrentOK
<1> QED
  BY <1>4, <1>9, <1>11 DEF MemoryInv

(* And of one that does. *)
LEMMA RowAdded ==
  ASSUME MemoryInv, ListOf(item', Len(item) + 1),
         \A j \in 1..Len(item) : RowLives(item[j], item'[j]),
         FreshRow(item'[Len(item) + 1])
  PROVE  MemoryInv'
<1>1. /\ Len(item) \in Nat
      /\ \A j \in 1..Len(item) : item[j].parent \in 0..(j - 1)
  BY DEF MemoryInv, ItemsOK, ItemList
<1> DEFINE new == Len(item) + 1
<1>2. new \in Nat /\ Len(item') = new /\ 1..new = (1..Len(item)) \cup {new} /\ new \notin 1..Len(item)
  <2>1. new \in Nat
    BY <1>1
  <2>2. Len(item') = new
    BY <2>1, LenOfList
  <2>3. 1..new = (1..Len(item)) \cup {new} /\ new \notin 1..Len(item)
    BY <1>1
  <2> QED
    BY <2>1, <2>2, <2>3
<1>3. \A j \in 1..Len(item) : /\ item'[j].parent = item[j].parent
                              /\ DOMAIN item'[j] = RowFields
  BY DEF RowLives, RowMoves
<1>4. ItemList(item') /\ ItemsOK'
  <2>1. item'[new].parent \in 0..(new - 1) /\ DOMAIN item'[new] = RowFields
    BY <1>1 DEF FreshRow
  <2>2. \A j \in 1..new : item'[j].parent \in 0..(j - 1) /\ DOMAIN item'[j] = RowFields
    <3> HIDE DEF new
    <3> QED
      BY <1>1, <1>2, <1>3, <2>1
  <2> HIDE DEF new
  <2> QED
    BY <1>2, <2>2 DEF ItemsOK, ItemList, ListOf, new
<1>5. \A i \in 0..Len(item) : Ups(item')[i] = Ups(item)[i]
  <2>1. ItemList(item) /\ ItemList(item') /\ Len(item) <= Len(item')
    BY <1>1, <1>2, <1>4 DEF MemoryInv, ItemsOK
  <2>2. \A j \in 1..Len(item) : item'[j].parent = item[j].parent
    BY <1>3
  <2>3. PICK old, rows : old = item /\ rows = item'
    OBVIOUS
  <2>4. \A i \in 0..Len(old) : Ups(rows)[i] = Ups(old)[i]
    BY <2>1, <2>2, <2>3, UpsStay
  <2> QED
    BY <2>3, <2>4
<1>6. \A i \in 1..Len(item) : Ups(item)[i] \subseteq 1..Len(item)
  BY UpsAreParents DEF MemoryInv, ItemsOK
<1>7. PICK p : p = item'[new].parent
  OBVIOUS
<1>8. /\ p \in 0..Len(item) /\ item'[new].state = "ACTIVE" /\ ~IsDeleted(item'[new])
      /\ p # 0 => item[p].state = "ACTIVE" /\ item'[p].state # "ACTIVE"
      /\ \A j \in 1..Len(item) : item'[j].state = "ACTIVE" => item'[j].slot # item'[new].slot
  BY <1>7 DEF FreshRow
<1>9. Ups(item')[new] = {new} \cup Ups(item)[p] /\ Ups(item)[0] = {}
  <2>1. new \in 1..Len(item')
    BY <1>1, <1>2
  <2>2. Ups(item')[new] = {new} \cup Ups(item')[p]
    BY <1>4, <1>7, <2>1, UpsOf
  <2>3. Ups(item)[0] = {}
    BY UpsOf DEF MemoryInv, ItemsOK
  <2> QED
    BY <1>5, <1>8, <2>2, <2>3
<1> HIDE DEF new
<1>10. ASSUME NEW i \in 1..Len(item), IsDeleted(item'[i]), NEW j \in Ups(item)[i]
       PROVE  item'[j].fact = ""
  <2>1. IsDeleted(item[i]) /\ j \in 1..Len(item)
    BY <1>6, <1>10 DEF RowLives
  <2>2. item[j].fact = ""
    BY <1>10, <2>1 DEF MemoryInv, DeletedOK
  <2> QED
    BY <2>1, <2>2 DEF RowLives, RowMoves
<1>11. ASSUME NEW i \in 1..Len(item), item[i].state = "ACTIVE", NEW j \in Ups(item)[i]
       PROVE  ~IsDeleted(item'[j])
  <2>1. j \in 1..Len(item)
    BY <1>6, <1>11
  <2>2. ~IsDeleted(item[j])
    BY <1>11, <2>1 DEF MemoryInv, DeletedOK
  <2> QED
    BY <2>1, <2>2 DEF RowLives
<1>12. ASSUME NEW i \in 1..Len(item), item'[i].state = "ACTIVE"
       PROVE  item[i].state = "ACTIVE" /\ item'[i].slot = item[i].slot
  BY <1>12 DEF RowLives, RowMoves
<1>13. \A j \in Ups(item')[new] : ~IsDeleted(item'[j])
  <2>1. CASE p = 0
    BY <1>8, <1>9, <2>1
  <2>2. CASE p # 0
    <3>1. p \in 1..Len(item) /\ item[p].state = "ACTIVE"
      BY <1>1, <1>8, <2>2
    <3> QED
      BY <1>8, <1>9, <1>11, <3>1
  <2> QED
    BY <2>1, <2>2
<1>14. DeletedOK'
  <2>1. \A i \in 1..new : IsDeleted(item'[i]) => \A j \in Ups(item')[i] : item'[j].fact = ""
    <3> SUFFICES ASSUME NEW i \in 1..new, IsDeleted(item'[i]), NEW j \in Ups(item')[i]
                 PROVE  item'[j].fact = ""
      OBVIOUS
    <3>1. i \in 1..Len(item)
      BY <1>2, <1>8
    <3>2. j \in Ups(item)[i]
      BY <1>1, <1>5, <3>1
    <3> QED
      BY <1>10, <3>1, <3>2
  <2>2. \A i \in 1..new :
          item'[i].state = "ACTIVE" => \A j \in Ups(item')[i] : ~IsDeleted(item'[j])
    <3> SUFFICES ASSUME NEW i \in 1..new, item'[i].state = "ACTIVE", NEW j \in Ups(item')[i]
                 PROVE  ~IsDeleted(item'[j])
      OBVIOUS
    <3>1. CASE i = new
      BY <1>13, <3>1
    <3>2. CASE i # new
      <4>1. i \in 1..Len(item)
        BY <1>2, <3>2
      <4>2. j \in Ups(item)[i] /\ item[i].state = "ACTIVE"
        BY <1>1, <1>5, <1>12, <4>1
      <4> QED
        BY <1>11, <4>1, <4>2
    <3> QED
      BY <3>1, <3>2
  <2> QED
    BY <1>2, <2>1, <2>2 DEF DeletedOK
<1>15. CurrentOK'
  <2>1. \A i, j \in 1..new : i # j /\ item'[i].state = "ACTIVE" /\ item'[j].state = "ACTIVE" =>
                               item'[i].slot # item'[j].slot
    BY <1>2, <1>8, <1>12 DEF MemoryInv, CurrentOK
  <2>2. \A i, j \in 1..new : item'[i].parent = j => item'[j].state # "ACTIVE"
    <3> SUFFICES ASSUME NEW i \in 1..new, NEW j \in 1..new, item'[i].parent = j
                 PROVE  item'[j].state # "ACTIVE"
      OBVIOUS
    <3>1. CASE i = new
      <4>1. p = j /\ p # 0
        BY <1>2, <1>7, <3>1
      <4> QED
        BY <1>8, <4>1
    <3>2. CASE i # new
      <4>1. i \in 1..Len(item) /\ item[i].parent = j
        BY <1>2, <1>3, <3>2
      <4>2. j \in 1..Len(item)
        BY <1>1, <1>2, <4>1
      <4>3. item[j].state # "ACTIVE"
        BY <4>1, <4>2 DEF MemoryInv, CurrentOK
      <4> QED
        BY <1>12, <4>2, <4>3
    <3> QED
      BY <3>1, <3>2
  <2> QED
    BY <1>2, <2>1, <2>2 DEF CurrentOK
<1> QED
  BY <1>4, <1>14, <1>15 DEF MemoryInv

(* A current row of the user's goes for one of the reasons there are, and  *)
(* a correction is of the row it was made of.                              *)
WordKept ==
    \A i \in DOMAIN item :
        item[i].state = "ACTIVE" /\ item[i].origin \in UserOrigins /\ item'[i].state # "ACTIVE" =>
            \/ item[i].expired
            \/ item'[i].deleted
            \/ ~EvidenceCurrent(item[i])
            \/ \E j \in DOMAIN item' : item'[j].parent = i /\ item'[j].origin \in UserOrigins

CorrectionFits ==
    \A j \in DOMAIN item' \ DOMAIN item :
        item'[j].origin = "USER_CORRECTION" => item'[j].parent = editor

MemoryStep == MemoryInv' /\ WordKept /\ CorrectionFits

LEMMA ItemsAreList ==
  ASSUME MemoryInv
  PROVE  /\ Len(item) \in Nat /\ ListOf(item, Len(item)) /\ DOMAIN item = 1..Len(item)
         /\ \A j \in 1..Len(item) : DOMAIN item[j] = RowFields
<1>1. Len(item) \in Nat /\ ListOf(item, Len(item)) /\ \A j \in 1..Len(item) : DOMAIN item[j] = RowFields
  BY DEF MemoryInv, ItemsOK, ItemList, ListOf
<1> QED
  BY <1>1, LenOfList

LEMMA ItemsStay ==
  ASSUME MemoryInv, item' = item
  PROVE  MemoryStep
<1>1. MemoryInv'
  BY ZenonT(60) DEF MemoryInv, ItemsOK, DeletedOK, CurrentOK
<1> QED
  BY <1>1 DEF MemoryStep, WordKept, CorrectionFits

(* A step that changes rows in their places. *)
LEMMA RowsInPlace ==
  ASSUME MemoryInv, ListOf(item', Len(item)),
         \A j \in 1..Len(item) : RowLives(item[j], item'[j]),
         \A j \in 1..Len(item) : item[j].state = "ACTIVE" /\ item'[j].state # "ACTIVE" =>
             IsExpired(item[j]) \/ ~EvidenceCurrent(item[j])
  PROVE  MemoryStep
<1>1. MemoryInv'
  BY RowsMove
<1>2. DOMAIN item = 1..Len(item) /\ DOMAIN item' = 1..Len(item)
  BY ItemsAreList, LenOfList
<1>3. WordKept
  BY <1>2 DEF WordKept, IsExpired
<1>4. CorrectionFits
  BY <1>2 DEF CorrectionFits
<1> QED
  BY <1>1, <1>3, <1>4 DEF MemoryStep

(* The row a candidate becomes. *)
LEMMA RowIsFresh ==
  ASSUME NEW slot, NEW fact, NEW from, NEW refs, NEW parent,
         NEW row, row = Row(slot, fact, from, refs, parent)
  PROVE  /\ DOMAIN row = RowFields /\ row.state = "ACTIVE" /\ row.slot = slot
         /\ row.origin = from /\ row.parent = parent /\ ~IsDeleted(row)
  BY DEF Row, RowFields, IsDeleted

(* A row that leaves the current state. *)
LEMMA RowLeaves ==
  ASSUME NEW old, DOMAIN old = RowFields, NEW gone, gone # "ACTIVE",
         NEW new, new = [old EXCEPT !.state = gone]
  PROVE  RowLives(old, new) /\ new.state # "ACTIVE"
  BY DEF RowLives, RowMoves, RowFields, IsDeleted

LEMMA RowStays ==
  ASSUME NEW old, DOMAIN old = RowFields
  PROVE  RowLives(old, old)
  BY DEF RowLives, RowMoves

LeavesAt(rows, i, gone) == rows = [item EXCEPT ![i].state = gone]

LEMMA OneRowLeaves ==
  ASSUME MemoryInv, NEW i \in 1..Len(item), NEW gone, gone # "ACTIVE",
         NEW rows, LeavesAt(rows, i, gone)
  PROVE  /\ ListOf(rows, Len(item))
         /\ \A j \in 1..Len(item) : RowLives(item[j], rows[j])
         /\ rows[i].state # "ACTIVE" /\ \A j \in 1..Len(item) : j # i => rows[j] = item[j]
<1>1. PICK row : row = [item[i] EXCEPT !.state = gone]
  OBVIOUS
<1>2. rows = [item EXCEPT ![i] = row]
  BY <1>1 DEF LeavesAt
<1>3. DOMAIN item = 1..Len(item) /\ \A j \in 1..Len(item) : DOMAIN item[j] = RowFields
  BY ItemsAreList
<1>4. RowLives(item[i], row) /\ row.state # "ACTIVE"
  BY <1>1, <1>3, RowLeaves
<1>5. ListOf(rows, Len(item)) /\ rows[i] = row /\ \A j \in 1..Len(item) : j # i => rows[j] = item[j]
  BY <1>2, <1>3 DEF ListOf
<1> QED
  BY <1>3, <1>4, <1>5, RowStays

(* A candidate that becomes a new row, where none holds the slot or in the *)
(* place of the one that does.                                             *)
LEMMA FirstOfSlot ==
  ASSUME MemoryInv, NEW slot, NEW fact, NEW from, NEW refs,
         ActiveIn(slot) = {}, from = "USER_CORRECTION" => ActiveIn(slot) = {editor},
         item' = Append(item, Row(slot, fact, from, refs, 0))
  PROVE  MemoryStep
<1>1. PICK row : row = Row(slot, fact, from, refs, 0)
  OBVIOUS
<1>2. /\ DOMAIN row = RowFields /\ row.state = "ACTIVE" /\ row.slot = slot
      /\ row.origin = from /\ row.parent = 0 /\ ~IsDeleted(row)
  BY <1>1, RowIsFresh
<1>3. /\ Len(item) \in Nat /\ ListOf(item, Len(item)) /\ DOMAIN item = 1..Len(item)
      /\ \A j \in 1..Len(item) : DOMAIN item[j] = RowFields
  BY ItemsAreList
<1>4. /\ ListOf(item', Len(item) + 1) /\ item'[Len(item) + 1] = row
      /\ \A j \in 1..Len(item) : item'[j] = item[j]
  BY <1>1, <1>3, Appended
<1>5. \A j \in 1..Len(item) : RowLives(item[j], item'[j])
  BY <1>3, <1>4, RowStays
<1>6. FreshRow(row)
  BY <1>2, <1>3, <1>4 DEF FreshRow, ActiveIn
<1>7. MemoryInv'
  BY <1>4, <1>5, <1>6, RowAdded
<1>8. WordKept
  BY <1>3, <1>4 DEF WordKept
<1>9. from # "USER_CORRECTION"
  OBVIOUS
<1>10. DOMAIN item' \ DOMAIN item \subseteq {Len(item) + 1}
  <2>1. Len(item) + 1 \in Nat
    BY <1>3
  <2>2. DOMAIN item' = 1..(Len(item) + 1)
    BY <1>4, <2>1, LenOfList
  <2> QED
    BY <1>3, <2>2
<1>11. CorrectionFits
  BY <1>2, <1>4, <1>9, <1>10 DEF CorrectionFits
<1> QED
  BY <1>7, <1>8, <1>11 DEF MemoryStep

LEMMA RowReplaced ==
  ASSUME MemoryInv, NEW slot, NEW fact, NEW from, NEW refs, NEW old \in ActiveIn(slot),
         from = "USER_CORRECTION" => old = editor,
         IsExpired(item[old]) \/ (item[old].origin \in UserOrigins => from \in UserOrigins),
         item' = Superseding(old, slot, fact, from, refs)
  PROVE  MemoryStep
<1>1. PICK row : row = Row(slot, fact, from, refs, old)
  OBVIOUS
<1>2. /\ DOMAIN row = RowFields /\ row.state = "ACTIVE" /\ row.slot = slot
      /\ row.origin = from /\ row.parent = old /\ ~IsDeleted(row)
  BY <1>1, RowIsFresh
<1>3. /\ Len(item) \in Nat /\ ListOf(item, Len(item)) /\ DOMAIN item = 1..Len(item)
      /\ \A j \in 1..Len(item) : DOMAIN item[j] = RowFields
  BY ItemsAreList
<1>4. old \in 1..Len(item) /\ item[old].state = "ACTIVE" /\ item[old].slot = slot
  BY <1>3 DEF ActiveIn
<1>7. PICK rows, gone : /\ gone # "ACTIVE" /\ LeavesAt(rows, old, gone)
                         /\ item' = Append(rows, row)
  <2>1. CASE item[old].expired
    <3>1. item' = Append([item EXCEPT ![old].state = "INVALIDATED"], row)
      BY <1>1, <2>1 DEF Superseding
    <3>2. PICK rows, gone : /\ gone = "INVALIDATED"
                             /\ rows = [item EXCEPT ![old].state = "INVALIDATED"]
      OBVIOUS
    <3>3. LeavesAt(rows, old, gone)
      BY <3>2 DEF LeavesAt
    <3> QED
      BY <3>1, <3>2, <3>3
  <2>2. CASE ~item[old].expired
    <3>1. item' = Append([item EXCEPT ![old].state = "SUPERSEDED"], row)
      BY <1>1, <2>2 DEF Superseding
    <3>2. PICK rows, gone : /\ gone = "SUPERSEDED"
                             /\ rows = [item EXCEPT ![old].state = "SUPERSEDED"]
      OBVIOUS
    <3>3. LeavesAt(rows, old, gone)
      BY <3>2 DEF LeavesAt
    <3> QED
      BY <3>1, <3>2, <3>3
  <2> QED
    BY <2>1, <2>2
<1>8. /\ ListOf(rows, Len(item)) /\ \A j \in 1..Len(item) : RowLives(item[j], rows[j])
      /\ rows[old].state # "ACTIVE" /\ \A j \in 1..Len(item) : j # old => rows[j] = item[j]
  BY <1>4, <1>7, OneRowLeaves
<1>9. item' = Append(rows, row)
  BY <1>7
<1>10. /\ ListOf(item', Len(item) + 1) /\ item'[Len(item) + 1] = row
       /\ \A j \in 1..Len(item) : item'[j] = rows[j]
  BY <1>3, <1>8, <1>9, Appended
<1>11. ASSUME NEW j \in 1..Len(item), item'[j].state = "ACTIVE" PROVE item'[j].slot # slot
  <2>1. j # old /\ item[j].state = "ACTIVE" /\ item'[j].slot = item[j].slot
    BY <1>8, <1>10, <1>11
  <2> QED
    BY <1>4, <2>1 DEF MemoryInv, CurrentOK
<1>12. FreshRow(row)
  <2>1. old \in 0..Len(item)
    BY <1>3, <1>4
  <2> QED
    BY <1>2, <1>4, <1>8, <1>10, <1>11, <2>1 DEF FreshRow
<1>13. MemoryInv'
  BY <1>8, <1>10, <1>12, RowAdded
<1>14. DOMAIN item' = 1..(Len(item) + 1)
  <2>1. Len(item) + 1 \in Nat
    BY <1>3
  <2> QED
    BY <1>10, <2>1, LenOfList
<1>15. Len(item) + 1 \in DOMAIN item'
  BY <1>3, <1>14
<1>16. WordKept
  <2> SUFFICES ASSUME NEW i \in 1..Len(item), item[i].state = "ACTIVE",
                      item[i].origin \in UserOrigins, item'[i].state # "ACTIVE"
               PROVE  \/ item[i].expired
                      \/ \E j \in DOMAIN item' : item'[j].parent = i /\ item'[j].origin \in UserOrigins
    BY <1>3 DEF WordKept
  <2>1. i = old
    BY <1>8, <1>10
  <2>2. CASE IsExpired(item[old])
    BY <2>1, <2>2 DEF IsExpired
  <2>3. CASE from \in UserOrigins
    BY <1>2, <1>10, <1>15, <2>1, <2>3
  <2> QED
    BY <2>1, <2>2, <2>3
<1>17. DOMAIN item' \ DOMAIN item \subseteq {Len(item) + 1}
  BY <1>3, <1>14
<1>18. CorrectionFits
  BY <1>2, <1>10, <1>17 DEF CorrectionFits
<1> QED
  BY <1>13, <1>16, <1>18 DEF MemoryStep

(* The transaction of a candidate, of whatever origin. *)
LEMMA Ingested ==
  ASSUME MemoryInv, NEW slot, NEW fact, NEW refs,
         NEW from \in UserOrigins \cup {"AUTO_EXTRACTION"},
         from = "USER_CORRECTION" => ExpectedIsCurrent(slot),
         ingestCandidate(slot, fact, from, refs)
  PROVE  MemoryStep
<1>1. from = "USER_CORRECTION" => ActiveIn(slot) = {editor} /\ ~IsExpired(item[editor])
  BY DEF ExpectedIsCurrent, IsExpired
<1>2. CASE ActiveIn(slot) = {} /\ item' = Append(item, Row(slot, fact, from, refs, 0))
  BY <1>1, <1>2, FirstOfSlot
<1>3. ASSUME NEW old \in ActiveIn(slot), IsExpired(item[old]),
             item' = Superseding(old, slot, fact, from, refs)
      PROVE  MemoryStep
  <2>1. from # "USER_CORRECTION"
    BY <1>1, <1>3
  <2> QED
    BY <1>3, <2>1, RowReplaced
<1>4. ASSUME NEW old \in ActiveIn(slot), ~KeptAgainst(item[old], from, fact),
             item' = Superseding(old, slot, fact, from, refs)
      PROVE  MemoryStep
  <2>1. from = "USER_CORRECTION" => old = editor
    BY <1>1, <1>4
  <2>2. item[old].origin \in UserOrigins => from \in UserOrigins
    BY <1>4 DEF KeptAgainst
  <2> QED
    BY <1>4, <2>1, <2>2, RowReplaced
<1>5. ASSUME NEW old \in ActiveIn(slot),
             item' = [item EXCEPT ![old].refs =
                        {ref \in @ : ref[1] \notin {new[1] : new \in refs}} \cup refs]
      PROVE  MemoryStep
  <2>1. PICK found : found = {ref \in item[old].refs : ref[1] \notin {new[1] : new \in refs}} \cup refs
    OBVIOUS
  <2>2. PICK row : row = [item[old] EXCEPT !.refs = found]
    OBVIOUS
  <2>3. item' = [item EXCEPT ![old] = row]
    BY <1>5, <2>1, <2>2
  <2>4. /\ Len(item) \in Nat /\ DOMAIN item = 1..Len(item)
        /\ \A j \in 1..Len(item) : DOMAIN item[j] = RowFields
    BY ItemsAreList
  <2>5. old \in 1..Len(item)
    BY <2>4 DEF ActiveIn
  <2>6. RowLives(item[old], row) /\ row.state = item[old].state
    BY <2>2, <2>4, <2>5 DEF RowLives, RowMoves, RowFields, IsDeleted
  <2>7. ListOf(item', Len(item)) /\ item'[old] = row /\ \A j \in 1..Len(item) : j # old => item'[j] = item[j]
    BY <2>3, <2>4, <2>5 DEF ListOf
  <2>8. \A j \in 1..Len(item) : RowLives(item[j], item'[j]) /\ item'[j].state = item[j].state
    BY <2>4, <2>6, <2>7, RowStays
  <2> QED
    BY <2>7, <2>8, RowsInPlace
<1>6. CASE item' = item
  BY <1>6, ItemsStay
<1> QED
  BY <1>2, <1>3, <1>4, <1>5, <1>6 DEF ingestCandidate, IsExpired

(* One row is closed, because its evidence or its time is gone. *)
LEMMA StaleCloses ==
  ASSUME MemoryInv, NEW i \in 1..Len(item), item[i].state = "ACTIVE",
         ~ensureMemoryCurrent(item[i]), item' = invalidateIfActive(i)
  PROVE  MemoryStep
<1>1. IsExpired(item[i]) \/ ~EvidenceCurrent(item[i])
  BY DEF ensureMemoryCurrent, IsExpired
<1>2. item' = [item EXCEPT ![i].state = "INVALIDATED"]
  BY DEF invalidateIfActive
<1>3. /\ ListOf(item', Len(item))
      /\ \A j \in 1..Len(item) : RowLives(item[j], item'[j])
      /\ \A j \in 1..Len(item) : j # i => item'[j] = item[j]
  <2>1. PICK rows, gone : rows = item' /\ gone = "INVALIDATED"
    OBVIOUS
  <2>2. gone # "ACTIVE" /\ LeavesAt(rows, i, gone)
    BY <1>2, <2>1 DEF LeavesAt
  <2>3. /\ ListOf(rows, Len(item))
        /\ \A j \in 1..Len(item) : RowLives(item[j], rows[j])
        /\ \A j \in 1..Len(item) : j # i => rows[j] = item[j]
    BY <2>2, OneRowLeaves
  <2> QED
    BY <2>1, <2>3
<1> QED
  BY <1>1, <1>3, RowsInPlace

LEMMA CorrectionStep ==
  ASSUME MemoryInv, NEW slot, NEW fact, CorrectionCommits(slot, fact)
  PROVE  MemoryStep
<1>1. CASE ExpectedIsCurrent(slot)
  <2>1. ingestCandidate(slot, fact, "USER_CORRECTION", {})
    BY <1>1 DEF CorrectionCommits
  <2>2. "USER_CORRECTION" \in UserOrigins
    BY DEF UserOrigins
  <2>3. PICK from \in UserOrigins : from = "USER_CORRECTION"
    BY <2>2
  <2> QED
    BY <1>1, <2>1, <2>3, Ingested
<1>2. CASE ~ExpectedIsCurrent(slot)
  BY <1>2, ItemsStay DEF CorrectionCommits
<1> QED
  BY <1>1, <1>2

LEMMA CandidateStep ==
  ASSUME MemoryInv, NEW slot, NEW fact,
         \/ rememberPersonal(slot, fact) \/ rememberProject(slot, fact)
         \/ \E m \in Disclosed : promoteE2eeDisclosure(slot, fact, m)
         \/ \E m \in Messages : extractMessage(slot, fact, m)
  PROVE  MemoryStep
<1>1. ASSUME NEW refs, NEW by \in {"USER_EXPLICIT", "E2EE_USER_DISCLOSURE", "AUTO_EXTRACTION"},
             ingestCandidate(slot, fact, by, refs)
      PROVE  MemoryStep
  <2>1. by \in UserOrigins \cup {"AUTO_EXTRACTION"} /\ by # "USER_CORRECTION"
    BY DEF UserOrigins
  <2> QED
    BY <1>1, <2>1, Ingested
<1>2. CASE rememberPersonal(slot, fact) \/ rememberProject(slot, fact)
  BY <1>1, <1>2 DEF rememberPersonal, rememberProject
<1>3. ASSUME NEW m \in Disclosed, promoteE2eeDisclosure(slot, fact, m) PROVE MemoryStep
  <2>1. ingestCandidate(slot, fact, "E2EE_USER_DISCLOSURE", {<<m, source[m].ver>>})
    BY <1>3 DEF promoteE2eeDisclosure
  <2>2. PICK refs : refs = {<<m, source[m].ver>>}
    OBVIOUS
  <2> QED
    BY <1>1, <2>1, <2>2
<1>4. ASSUME NEW m \in Messages, extractMessage(slot, fact, m) PROVE MemoryStep
  <2>1. ingestCandidate(slot, fact, "AUTO_EXTRACTION", {<<m, source[m].ver>>})
    BY <1>4 DEF extractMessage
  <2>2. PICK refs : refs = {<<m, source[m].ver>>}
    OBVIOUS
  <2> QED
    BY <1>1, <2>1, <2>2
<1> QED
  BY <1>2, <1>3, <1>4

(* What a user deletes is blanked with all it descends from. *)
LEMMA DeletionStep ==
  ASSUME MemoryInv, NEW i \in 1..Len(item), invalidatePersonal(i)
  PROVE  MemoryStep
<1>1. /\ Len(item) \in Nat /\ ListOf(item, Len(item)) /\ DOMAIN item = 1..Len(item)
      /\ \A j \in 1..Len(item) : DOMAIN item[j] = RowFields
  BY ItemsAreList
<1>2. PICK above : above = Ups(item)[i]
  OBVIOUS
<1>3. /\ item[i].state = "ACTIVE"
      /\ item' = [j \in 1..Len(item) |->
                    IF j \notin above THEN item[j]
                    ELSE [item[j] EXCEPT !.fact = "", !.slot = "deleted",
                                         !.state = IF j = i THEN "INVALIDATED" ELSE @,
                                         !.deleted = j = i]]
  <2>1. BlankedWith(i) = above
    BY <1>2, LineageIsUps DEF BlankedWith
  <2> QED
    BY <1>1, <2>1 DEF invalidatePersonal
<1>4. /\ i \in above /\ above \subseteq 1..Len(item)
      /\ \A k \in above \ {i} : item[k].state # "ACTIVE"
  <2>1. ItemList(item)
    BY DEF MemoryInv, ItemsOK
  <2>2. i \in above
    BY <1>2, <2>1, UpsOf
  <2>3. above \subseteq 1..Len(item) /\ \A k \in above \ {i} : \E m \in 1..Len(item) : item[m].parent = k
    BY <1>2, <2>1, UpsAreParents
  <2>4. \A k \in above \ {i} : item[k].state # "ACTIVE"
    BY <2>3 DEF MemoryInv, CurrentOK
  <2> QED
    BY <2>2, <2>3, <2>4
<1>5. ListOf(item', Len(item)) /\ Len(item') = Len(item) /\ DOMAIN item' = 1..Len(item)
  <2>1. ListOf(item', Len(item))
    BY <1>1, <1>3 DEF ListOf
  <2> QED
    BY <1>1, <2>1, LenOfList
<1>6. \A j \in 1..Len(item) \ above : item'[j] = item[j]
  BY <1>1, <1>3
<1>7. ASSUME NEW j \in above \ {i}
      PROVE  /\ RowMoves(item[j], item'[j]) /\ ~IsDeleted(item'[j]) /\ item'[j].fact = ""
             /\ item'[j].state = item[j].state
  <2>1. j \in 1..Len(item) /\ DOMAIN item[j] = RowFields /\ item[j].state # "ACTIVE"
    BY <1>1, <1>4
  <2>2. item'[j] = [item[j] EXCEPT !.fact = "", !.slot = "deleted", !.deleted = FALSE]
    BY <1>3, <1>7, <2>1 DEF RowFields
  <2> QED
    BY <2>1, <2>2 DEF RowMoves, RowFields, IsDeleted
<1>8. /\ RowMoves(item[i], item'[i]) /\ IsDeleted(item'[i]) /\ item'[i].fact = ""
      /\ item'[i].state # "ACTIVE"
  <2>1. item'[i] = [item[i] EXCEPT !.fact = "", !.slot = "deleted", !.state = "INVALIDATED",
                                   !.deleted = TRUE]
    BY <1>3, <1>4
  <2> QED
    BY <1>1, <2>1 DEF RowMoves, RowFields, IsDeleted
<1>9. \A j \in 1..Len(item) : RowMoves(item[j], item'[j])
  BY <1>1, <1>6, <1>7, <1>8, RowStays DEF RowLives
<1>10. ItemList(item') /\ ItemsOK'
  <2>1. \A j \in 1..Len(item) : item'[j].parent = item[j].parent /\ DOMAIN item'[j] = RowFields
    BY <1>9 DEF RowMoves
  <2> QED
    BY <1>1, <1>5, <2>1 DEF MemoryInv, ItemsOK, ItemList, ListOf
<1>11. \A j \in 1..Len(item) : Ups(item')[j] = Ups(item)[j] /\ Ups(item)[j] \subseteq 1..Len(item)
  <2>1. ItemList(item) /\ \A j \in 1..Len(item) : item'[j].parent = item[j].parent
    BY <1>9 DEF MemoryInv, ItemsOK, RowMoves
  <2>2. \A j \in 0..Len(item) : Ups(item')[j] = Ups(item)[j]
    BY <1>1, <1>5, <1>10, <2>1, UpsStay
  <2> QED
    BY <1>1, <2>1, <2>2, UpsAreParents
<1>12. ASSUME NEW d \in 1..Len(item), IsDeleted(item'[d]), NEW j \in Ups(item)[d]
       PROVE  item'[j].fact = ""
  <2>1. CASE d = i
    BY <1>2, <1>7, <1>8, <1>12, <2>1
  <2>2. CASE d # i
    <3>1. IsDeleted(item[d]) /\ j \in 1..Len(item)
      BY <1>6, <1>7, <1>11, <1>12, <2>2
    <3>2. item[j].fact = ""
      BY <1>12, <3>1 DEF MemoryInv, DeletedOK
    <3> QED
      BY <1>9, <3>1, <3>2 DEF RowMoves
  <2> QED
    BY <2>1, <2>2
<1>13. ASSUME NEW k \in 1..Len(item), item'[k].state = "ACTIVE", NEW j \in Ups(item)[k]
       PROVE  ~IsDeleted(item'[j])
  <2>1. k # i /\ item[k].state = "ACTIVE" /\ j \in 1..Len(item)
    BY <1>8, <1>9, <1>11, <1>13 DEF RowMoves
  <2>2. ~IsDeleted(item[j])
    BY <1>13, <2>1 DEF MemoryInv, DeletedOK
  <2>3. j # i
    <3>1. ASSUME j = i PROVE FALSE
      <4>1. j \in Ups(item)[k] \ {k}
        BY <1>13, <2>1, <3>1
      <4>2. PICK m \in 1..Len(item) : item[m].parent = j
        BY <4>1, UpsAreParents DEF MemoryInv, ItemsOK
      <4> QED
        BY <1>3, <3>1, <4>2 DEF MemoryInv, CurrentOK
    <3> QED
      BY <3>1
  <2> QED
    BY <1>6, <1>7, <2>1, <2>2, <2>3
<1>14. DeletedOK'
  BY <1>5, <1>11, <1>12, <1>13 DEF DeletedOK
<1>15. CurrentOK'
  <2>1. \A j \in 1..Len(item) : /\ item'[j].parent = item[j].parent
                                /\ item'[j].state = "ACTIVE" =>
                                     item[j].state = "ACTIVE" /\ item'[j].slot = item[j].slot
    BY <1>9 DEF RowMoves
  <2> QED
    BY <1>5, <2>1 DEF MemoryInv, CurrentOK
<1>16. WordKept
  <2> SUFFICES ASSUME NEW j \in 1..Len(item), item[j].state = "ACTIVE", item'[j].state # "ACTIVE"
               PROVE  item'[j].deleted
    BY <1>1 DEF WordKept
  <2>1. j = i
    BY <1>6, <1>7
  <2> QED
    BY <1>8, <2>1 DEF IsDeleted
<1>17. CorrectionFits
  BY <1>1, <1>5 DEF CorrectionFits
<1> QED
  BY <1>10, <1>14, <1>15, <1>16, <1>17 DEF MemoryStep, MemoryInv

(* A page of rows is read: those whose evidence is gone are closed. *)
LEMMA PageStep ==
  ASSUME MemoryInv, NEW page \in SUBSET DOMAIN item, listPersonal(page)
  PROVE  MemoryStep
<1>1. PICK stale : stale = {i \in page : item[i].state = "ACTIVE" /\ ~ensureMemoryCurrent(item[i])}
  OBVIOUS
<1>2. item' = [i \in DOMAIN item |->
                 IF i \in stale THEN [item[i] EXCEPT !.state = "INVALIDATED"] ELSE item[i]]
  BY <1>1 DEF listPersonal
<1>3. /\ Len(item) \in Nat /\ DOMAIN item = 1..Len(item)
      /\ \A j \in 1..Len(item) : DOMAIN item[j] = RowFields
  BY ItemsAreList
<1>4. ListOf(item', Len(item))
  BY <1>2, <1>3 DEF ListOf
<1>5. ASSUME NEW j \in 1..Len(item)
      PROVE  /\ RowLives(item[j], item'[j])
             /\ j \notin stale => item'[j] = item[j]
  <2>1. CASE j \in stale
    <3>1. PICK row : row = [item[j] EXCEPT !.state = "INVALIDATED"]
      OBVIOUS
    <3>2. item'[j] = row
      BY <1>2, <1>3, <2>1, <3>1
    <3> QED
      BY <1>3, <2>1, <3>1, <3>2, RowLeaves
  <2>2. CASE j \notin stale
    BY <1>2, <1>3, <2>2, RowStays
  <2> QED
    BY <2>1, <2>2
<1>6. ASSUME NEW j \in 1..Len(item), item[j].state = "ACTIVE", item'[j].state # "ACTIVE"
      PROVE  IsExpired(item[j]) \/ ~EvidenceCurrent(item[j])
  <2>1. j \in stale
    BY <1>5, <1>6
  <2> QED
    BY <1>1, <1>6, <2>1 DEF ensureMemoryCurrent, IsExpired
<1> QED
  BY <1>4, <1>5, <1>6, RowsInPlace

(* Housekeeping closes what has expired and blanks what is old. *)
LEMMA RedactionStep ==
  ASSUME MemoryInv, NEW past \in SUBSET DOMAIN item, redactExpiredDerivedAuditContent(past)
  PROVE  MemoryStep
<1>1. /\ past \subseteq {i \in DOMAIN item : item[i].state # "ACTIVE" /\ item[i].slot \in Slots}
      /\ item' = [i \in DOMAIN item |->
                  IF i \in past THEN [item[i] EXCEPT !.fact = "", !.slot = "redacted"]
                  ELSE IF item[i].state = "ACTIVE" /\ IsExpired(item[i])
                       THEN [item[i] EXCEPT !.state = "INVALIDATED"]
                  ELSE item[i]]
  BY DEF redactExpiredDerivedAuditContent, IsExpired
<1>2. /\ Len(item) \in Nat /\ DOMAIN item = 1..Len(item)
      /\ \A j \in 1..Len(item) : DOMAIN item[j] = RowFields
  BY ItemsAreList
<1>3. ListOf(item', Len(item))
  BY <1>1, <1>2 DEF ListOf
<1>4. ASSUME NEW j \in 1..Len(item)
      PROVE  /\ RowLives(item[j], item'[j])
             /\ item[j].state = "ACTIVE" /\ item'[j].state # "ACTIVE" => IsExpired(item[j])
  <2>1. CASE j \in past
    <3>1. item'[j] = [item[j] EXCEPT !.fact = "", !.slot = "redacted"] /\ item[j].state # "ACTIVE"
      BY <1>1, <1>2, <2>1
    <3> QED
      BY <1>2, <3>1 DEF RowLives, RowMoves, RowFields, IsDeleted
  <2>2. CASE j \notin past /\ item[j].state = "ACTIVE" /\ IsExpired(item[j])
    <3>1. PICK row : row = [item[j] EXCEPT !.state = "INVALIDATED"]
      OBVIOUS
    <3>2. item'[j] = row
      BY <1>1, <1>2, <2>2, <3>1
    <3> QED
      BY <1>2, <2>2, <3>1, <3>2, RowLeaves
  <2>3. CASE j \notin past /\ ~(item[j].state = "ACTIVE" /\ IsExpired(item[j]))
    <3>1. item'[j] = item[j]
      BY <1>1, <1>2, <2>3
    <3> QED
      BY <1>2, <3>1, RowStays
  <2> QED
    BY <2>1, <2>2, <2>3
<1> QED
  BY <1>3, <1>4, RowsInPlace

LEMMA ItemExpiryStep ==
  ASSUME MemoryInv, NEW i \in 1..Len(item), ExpiryPasses(i)
  PROVE  MemoryStep
<1>1. PICK row : row = [item[i] EXCEPT !.expired = TRUE]
  OBVIOUS
<1>2. item' = [item EXCEPT ![i] = row]
  BY <1>1 DEF ExpiryPasses
<1>3. /\ Len(item) \in Nat /\ DOMAIN item = 1..Len(item)
      /\ \A j \in 1..Len(item) : DOMAIN item[j] = RowFields
  BY ItemsAreList
<1>4. RowLives(item[i], row) /\ row.state = item[i].state
  BY <1>1, <1>3 DEF RowLives, RowMoves, RowFields, IsDeleted
<1>5. ListOf(item', Len(item)) /\ item'[i] = row /\ \A j \in 1..Len(item) : j # i => item'[j] = item[j]
  BY <1>2, <1>3 DEF ListOf
<1>6. \A j \in 1..Len(item) : RowLives(item[j], item'[j]) /\ item'[j].state = item[j].state
  BY <1>3, <1>4, <1>5, RowStays
<1> QED
  BY <1>5, <1>6, RowsInPlace

LEMMA MemoryNextInv ==
  MemoryInv /\ [MemoryNext]_memoryVars =>
    MemoryInv' /\ [WordKept /\ CorrectionFits]_memoryVars
<1> SUFFICES ASSUME MemoryInv, [MemoryNext]_memoryVars PROVE MemoryStep
  BY DEF MemoryStep
<1>1. DOMAIN item = 1..Len(item)
  BY ItemsAreList
<1>2. CASE item' = item
  BY <1>2, ItemsStay
<1>3. ASSUME NEW slot \in Slots, NEW fact \in Facts,
             \/ rememberPersonal(slot, fact) \/ rememberProject(slot, fact)
             \/ \E m \in Disclosed : promoteE2eeDisclosure(slot, fact, m)
             \/ \E m \in Messages : extractMessage(slot, fact, m)
      PROVE  MemoryStep
  BY <1>3, CandidateStep
<1>4. ASSUME NEW slot \in Slots, NEW fact \in Facts, CorrectionCommits(slot, fact)
      PROVE  MemoryStep
  BY <1>4, CorrectionStep
<1>5. ASSUME NEW i \in DOMAIN item, invalidatePersonal(i) PROVE MemoryStep
  BY <1>1, <1>5, DeletionStep
<1>6. ASSUME NEW i \in DOMAIN item, correctPersonal(i) PROVE MemoryStep
  <2>1. CASE ensureMemoryCurrent(item[i])
    BY <1>2, <1>6, <2>1 DEF correctPersonal
  <2>2. CASE ~ensureMemoryCurrent(item[i])
    BY <1>1, <1>6, <2>2, StaleCloses DEF correctPersonal
  <2> QED
    BY <2>1, <2>2
<1>7. ASSUME NEW i \in DOMAIN item, getPersonal(i) \/ retrieveMemory(i) PROVE MemoryStep
  BY <1>1, <1>7, StaleCloses DEF getPersonal, retrieveMemory, canReadMemoryItem
<1>8. ASSUME NEW i \in DOMAIN item, ExpiryPasses(i) PROVE MemoryStep
  BY <1>1, <1>8, ItemExpiryStep
<1>9. ASSUME NEW past \in SUBSET DOMAIN item,
             redactExpiredDerivedAuditContent(past) \/ listPersonal(past)
      PROVE  MemoryStep
  BY <1>9, RedactionStep, PageStep
<1>10. CASE CorrectionConflicts \/ MembershipEnds \/ \E m \in Messages : EditMessage(m)
  BY <1>2, <1>10 DEF CorrectionConflicts, MembershipEnds, EditMessage
<1>11. CASE \E m \in Messages \cup Disclosed : RemoveMessage(m)
  BY <1>2, <1>11 DEF RemoveMessage
<1>12. CASE UNCHANGED memoryVars
  BY <1>2, <1>12 DEF memoryVars
<1> QED
  BY <1>3, <1>4, <1>5, <1>6, <1>7, <1>8, <1>9, <1>10, <1>11, <1>12 DEF MemoryNext

(* Whatever workers find, however late, and however corrections, deletions *)
(* and expiries meet: what a user wrote leaves the current state only by   *)
(* the user's act, its expiry or the loss of its source; a correction is   *)
(* of the row its author had read; what was deleted is in no row it        *)
(* descends from and above no current one.                                 *)
THEOREM UserWordAlwaysStands ==
    MemoryInit /\ [][MemoryNext]_memoryVars => UserWordStands
<1> DEFINE Stands ==
      \A i \in DOMAIN item :
        /\ item[i].deleted => \A j \in Lineage(i) : item[j].fact = ""
        /\ item[i].state = "ACTIVE" => \A j \in Lineage(i) : ~item[j].deleted
        /\ \A j \in DOMAIN item :
              i # j /\ item[i].state = "ACTIVE" /\ item[j].state = "ACTIVE"
                => item[i].slot # item[j].slot
<1>1. ASSUME MemoryInv PROVE Stands
  <2>1. DOMAIN item = 1..Len(item)
    BY <1>1, ItemsAreList
  <2>2. \A i : Lineage(i) = Ups(item)[i]
    BY LineageIsUps
  <2>3. ASSUME NEW i \in 1..Len(item)
        PROVE  /\ item[i].deleted => \A j \in Ups(item)[i] : item[j].fact = ""
               /\ item[i].state = "ACTIVE" => \A j \in Ups(item)[i] : ~item[j].deleted
    BY <1>1 DEF MemoryInv, DeletedOK, IsDeleted
  <2>4. \A i, j \in 1..Len(item) :
          i # j /\ item[i].state = "ACTIVE" /\ item[j].state = "ACTIVE" => item[i].slot # item[j].slot
    BY <1>1 DEF MemoryInv, CurrentOK
  <2> QED
    BY <2>1, <2>2, <2>3, <2>4
<1>2. MemoryInit /\ [][MemoryNext]_memoryVars =>
        []Stands /\ [][WordKept /\ CorrectionFits]_memoryVars
  <2> HIDE DEF Stands
  <2> QED
    BY <1>1, MemoryInitInv, MemoryNextInv, PTL
<1> QED
  BY <1>2, PTL DEF UserWordStands, WordKept, CorrectionFits

-----------------------------------------------------------------------------
(* The context of an invocation.  First the loops of the packer, which run *)
(* over the ranks of the candidates.                                       *)

LastRank == Len(Candidates)

LEMMA RanksAre == LastRank \in Nat /\ Ranks = 1..LastRank
  BY ContextAssumption DEF LastRank, Ranks

(* What holds of no rank yet, and of each if of the one before, holds of all. *)
LEMMA RankByRank ==
  ASSUME NEW N \in Nat, NEW good, 0 \in good, \A n \in 1..N : n - 1 \in good => n \in good
  PROVE  0..N \subseteq good
<1> DEFINE bad == (0..N) \ good
<1>0. bad \in SUBSET Nat
  OBVIOUS
<1>1. bad # {} => \E m \in bad : \A x \in bad : m <= x
  <2> HIDE DEF bad
  <2> QED
    BY <1>0, LeastRow
<1>2. ASSUME NEW m \in bad, \A x \in bad : m <= x PROVE FALSE
  <2>1. m \in 1..N /\ m - 1 \in 0..N /\ ~(m <= m - 1)
    BY <1>2
  <2>2. m - 1 \in good
    BY <1>2, <2>1
  <2> QED
    BY <1>2, <2>1, <2>2
<1> QED
  BY <1>1, <1>2

(* A loop that takes a value of V through the ranks.                       *)
Loop(f, N, V, base, step) ==
    /\ f \in [0..N -> V] /\ f[0] = base
    /\ \A n \in 1..N : f[n] = step[n][f[n - 1]]

LEMMA LoopExists ==
  ASSUME NEW N \in Nat, NEW V, NEW base \in V, NEW step \in [1..N -> [V -> V]]
  PROVE  \E f : Loop(f, N, V, base, step)
<1> DEFINE good == {m \in 0..N : \E f : Loop(f, m, V, base, step)}
<1>1. 0 \in good
  <2>1. PICK f : f = [i \in 0..0 |-> base]
    OBVIOUS
  <2>2. Loop(f, 0, V, base, step)
    BY <2>1 DEF Loop
  <2> QED
    BY <2>2
<1>2. ASSUME NEW n \in 1..N, n - 1 \in good PROVE n \in good
  <2>1. PICK f : Loop(f, n - 1, V, base, step)
    BY <1>2
  <2>2. PICK g : g = [i \in 0..n |-> IF i = n THEN step[n][f[n - 1]] ELSE f[i]]
    OBVIOUS
  <2>3. f[n - 1] \in V /\ step[n] \in [V -> V]
    BY <2>1 DEF Loop
  <2>4. g \in [0..n -> V] /\ g[0] = base
    BY <2>1, <2>2, <2>3 DEF Loop
  <2>5. ASSUME NEW i \in 1..n PROVE g[i] = step[i][g[i - 1]]
    <3>1. CASE i = n
      BY <2>2, <3>1
    <3>2. CASE i # n
      <4>1. i \in 1..(n - 1) /\ i - 1 \in 0..n /\ i - 1 # n
        BY <3>2
      <4> QED
        BY <2>1, <2>2, <3>2, <4>1 DEF Loop
    <3> QED
      BY <3>1, <3>2
  <2>6. Loop(g, n, V, base, step)
    BY <2>4, <2>5 DEF Loop
  <2> QED
    BY <2>6
<1> HIDE DEF good
<1>3. 0..N \subseteq good
  BY <1>1, <1>2, RankByRank
<1>4. N \in good
  BY <1>3
<1> QED
  BY <1>4 DEF good

(* The tokens of the items up to each rank.                                *)
Sums(f, S) ==
    f = [n \in 0..Len(Candidates) |->
           IF n = 0 THEN 0
           ELSE IF n \in S THEN f[n - 1] + Candidates[n].tokens ELSE f[n - 1]]

LEMMA SumsAt ==
  ASSUME NEW h, NEW U, Sums(h, U)
  PROVE  /\ h[0] = 0
         /\ \A n \in 1..LastRank :
              h[n] = IF n \in U THEN h[n - 1] + Candidates[n].tokens ELSE h[n - 1]
<1>1. LastRank \in Nat
  BY RanksAre
<1>2. 0 \in 0..LastRank /\ \A n \in 1..LastRank : n \in 0..LastRank /\ n # 0
  BY <1>1
<1> QED
  BY <1>2 DEF Sums, LastRank

Counts(f, S) ==
    /\ f \in [0..LastRank -> Nat] /\ f[0] = 0
    /\ \A n \in 1..LastRank :
          f[n] = IF n \in S THEN f[n - 1] + Candidates[n].tokens ELSE f[n - 1]

LEMMA TokensOf ==
  ASSUME NEW S
  PROVE  \E f : Counts(f, S) /\ Tokens(S) = f[LastRank]
<1>0. LastRank \in Nat /\ \A n \in 1..LastRank : Candidates[n].tokens \in Nat
  BY ContextAssumption, RanksAre DEF Ranks
<1>1. PICK step : step = [n \in 1..LastRank |->
                            [v \in Nat |-> IF n \in S THEN v + Candidates[n].tokens ELSE v]]
  OBVIOUS
<1>2. step \in [1..LastRank -> [Nat -> Nat]]
  <2>1. ASSUME NEW n \in 1..LastRank
        PROVE  [v \in Nat |-> IF n \in S THEN v + Candidates[n].tokens ELSE v] \in [Nat -> Nat]
    BY <1>0
  <2> QED
    BY <1>1, <2>1
<1>3. PICK g : Loop(g, LastRank, Nat, 0, step)
  BY <1>0, <1>2, LoopExists
<1>4. Sums(g, S)
  <2>1. ASSUME NEW n \in 0..LastRank
        PROVE  g[n] = IF n = 0 THEN 0
                      ELSE IF n \in S THEN g[n - 1] + Candidates[n].tokens ELSE g[n - 1]
    <3>1. CASE n = 0
      BY <1>3, <3>1 DEF Loop
    <3>2. CASE n # 0
      <4>1. n \in 1..LastRank /\ n - 1 \in 0..LastRank
        BY <1>0, <3>2
      <4>2. g[n - 1] \in Nat /\ g[n] = step[n][g[n - 1]]
        BY <1>3, <4>1 DEF Loop
      <4> QED
        BY <1>1, <3>2, <4>1, <4>2
    <3> QED
      BY <3>1, <3>2
  <2> QED
    BY <1>3, <2>1 DEF Sums, LastRank, Loop
<1>5. PICK f : f = CHOOSE h : Sums(h, S)
  OBVIOUS
<1>6. Sums(f, S) /\ Tokens(S) = f[LastRank]
  BY <1>4, <1>5 DEF Tokens, Sums, LastRank
<1>7. f \in [0..LastRank -> Nat]
  <2>1. 0 \in {n \in 0..LastRank : f[n] \in Nat}
    BY <1>0, <1>6 DEF Sums, LastRank
  <2>2. ASSUME NEW n \in 1..LastRank, n - 1 \in {m \in 0..LastRank : f[m] \in Nat}
        PROVE  n \in {m \in 0..LastRank : f[m] \in Nat}
    <3>1. f[n] = IF n \in S THEN f[n - 1] + Candidates[n].tokens ELSE f[n - 1]
      BY <1>0, <1>6, <2>2 DEF Sums, LastRank
    <3> QED
      BY <1>0, <2>2, <3>1
  <2>3. 0..LastRank \subseteq {m \in 0..LastRank : f[m] \in Nat}
    BY <1>0, <2>1, <2>2, RankByRank
  <2> QED
    BY <1>6, <2>3 DEF Sums, LastRank
<1> QED
  BY <1>6, <1>7, SumsAt DEF Counts

(* More items have no fewer tokens, and none has no tokens.                *)
LEMMA TokensGrow ==
  ASSUME NEW S, NEW T, S \subseteq T
  PROVE  Tokens(S) \in Nat /\ Tokens(T) \in Nat /\ Tokens(S) <= Tokens(T)
<1>0. LastRank \in Nat /\ \A n \in 1..LastRank : Candidates[n].tokens \in Nat
  BY ContextAssumption, RanksAre DEF Ranks
<1>1. PICK f : Counts(f, S) /\ Tokens(S) = f[LastRank]
  BY TokensOf
<1>2. PICK g : Counts(g, T) /\ Tokens(T) = g[LastRank]
  BY TokensOf
<1> DEFINE good == {n \in 0..LastRank : f[n] <= g[n]}
<1>3. 0 \in good
  BY <1>0, <1>1, <1>2 DEF Counts
<1>4. ASSUME NEW n \in 1..LastRank, n - 1 \in good PROVE n \in good
  <2>1. f[n] = IF n \in S THEN f[n - 1] + Candidates[n].tokens ELSE f[n - 1]
    BY <1>0, <1>1 DEF Counts
  <2>5. g[n] = IF n \in T THEN g[n - 1] + Candidates[n].tokens ELSE g[n - 1]
    BY <1>0, <1>2 DEF Counts
  <2>2. f[n - 1] \in Nat /\ g[n - 1] \in Nat /\ f[n - 1] <= g[n - 1]
    BY <1>1, <1>2, <1>4 DEF Counts
  <2>3. Candidates[n].tokens \in Nat
    BY <1>0
  <2>4. f[n] <= g[n]
    BY <2>1, <2>2, <2>3, <2>5
  <2> QED
    BY <2>4
<1> HIDE DEF good
<1>5. LastRank \in good
  BY <1>0, <1>3, <1>4, RankByRank
<1> QED
  BY <1>0, <1>1, <1>2, <1>5 DEF good, Counts

LEMMA NoTokens == Tokens({}) = 0
<1>0. LastRank \in Nat
  BY RanksAre
<1>1. PICK f : Counts(f, {}) /\ Tokens({}) = f[LastRank]
  BY TokensOf
<1>5. \A n \in 1..LastRank : f[n] = IF n \in {} THEN f[n - 1] + Candidates[n].tokens ELSE f[n - 1]
  BY <1>0, <1>1 DEF Counts
<1> DEFINE good == {n \in 0..LastRank : f[n] = 0}
<1>2. 0 \in good
  BY <1>0, <1>1 DEF Counts
<1>3. ASSUME NEW n \in 1..LastRank, n - 1 \in good PROVE n \in good
  <2>1. f[n] = f[n - 1]
    BY <1>5
  <2> QED
    BY <1>0, <1>3, <2>1
<1> HIDE DEF good
<1>4. 0..LastRank \subseteq good
  BY <1>0, <1>2, <1>3, RankByRank
<1> QED
  BY <1>0, <1>1, <1>4 DEF good

(* The items selected up to each rank.                                     *)
Selected(f, S, sel, capped) ==
    /\ f \in [0..LastRank -> SUBSET Ranks] /\ f[0] = sel
    /\ \A n \in 1..LastRank :
          f[n] = IF n \in S THEN trySelect(f[n - 1], n, capped) ELSE f[n - 1]

LEMMA SelectAllOf ==
  ASSUME NEW S, NEW sel \in SUBSET Ranks, NEW capped
  PROVE  \E f : Selected(f, S, sel, capped) /\ SelectAll(S, sel, capped) = f[LastRank]
<1>0. LastRank \in Nat /\ Ranks = 1..LastRank
  BY RanksAre
<1>1. PICK step : step = [n \in 1..LastRank |->
           [v \in SUBSET Ranks |-> IF n \in S THEN trySelect(v, n, capped) ELSE v]]
  OBVIOUS
<1>2. step \in [1..LastRank -> [SUBSET Ranks -> SUBSET Ranks]]
  <2>1. ASSUME NEW n \in 1..LastRank, NEW v \in SUBSET Ranks
        PROVE  (IF n \in S THEN trySelect(v, n, capped) ELSE v) \in SUBSET Ranks
    BY <1>0 DEF trySelect
  <2>2. ASSUME NEW n \in 1..LastRank
        PROVE  [v \in SUBSET Ranks |-> IF n \in S THEN trySelect(v, n, capped) ELSE v]
                  \in [SUBSET Ranks -> SUBSET Ranks]
    BY <2>1
  <2> QED
    BY <1>1, <2>2
<1>3. PICK g : Loop(g, LastRank, SUBSET Ranks, sel, step)
  BY <1>0, <1>2, LoopExists
<1> DEFINE Walk(h) ==
      h = [n \in 0..Len(Candidates) |->
             IF n = 0 THEN sel
             ELSE IF n \in S THEN trySelect(h[n - 1], n, capped) ELSE h[n - 1]]
<1>4. Walk(g)
  <2>1. ASSUME NEW n \in 0..LastRank
        PROVE  g[n] = IF n = 0 THEN sel
                      ELSE IF n \in S THEN trySelect(g[n - 1], n, capped) ELSE g[n - 1]
    <3>1. CASE n = 0
      BY <1>3, <3>1 DEF Loop
    <3>2. CASE n # 0
      <4>1. n \in 1..LastRank /\ n - 1 \in 0..LastRank
        BY <1>0, <3>2
      <4>2. g[n - 1] \in SUBSET Ranks /\ g[n] = step[n][g[n - 1]]
        BY <1>3, <4>1 DEF Loop
      <4>3. step[n][g[n - 1]] = IF n \in S THEN trySelect(g[n - 1], n, capped) ELSE g[n - 1]
        BY <1>1, <4>1, <4>2
      <4> QED
        BY <3>2, <4>2, <4>3
    <3> QED
      BY <3>1, <3>2
  <2> QED
    BY <1>3, <2>1 DEF LastRank, Loop
<1>5. PICK f : f = CHOOSE h : Walk(h)
  OBVIOUS
<1>6. Walk(f)
  BY <1>4, <1>5
<1>7. SelectAll(S, sel, capped) = f[LastRank]
  BY <1>5 DEF SelectAll, LastRank
<1>8. f[0] = sel /\ \A n \in 1..LastRank :
        f[n] = IF n \in S THEN trySelect(f[n - 1], n, capped) ELSE f[n - 1]
  <2>1. 0 \in 0..LastRank /\ \A n \in 1..LastRank : n \in 0..LastRank /\ n # 0
    BY <1>0
  <2> QED
    BY <1>6, <2>1 DEF LastRank
<1>9. f \in [0..LastRank -> SUBSET Ranks]
  <2>5. f = [n \in 0..LastRank |-> f[n]]
    BY <1>6 DEF LastRank
  <2> HIDE DEF Walk
  <2>4. f[0] \in SUBSET Ranks /\ 0 \in 0..LastRank
    BY <1>0, <1>8
  <2>1. 0 \in {n \in 0..LastRank : f[n] \in SUBSET Ranks}
    BY <2>4
  <2>2. ASSUME NEW n \in 1..LastRank, n - 1 \in {m \in 0..LastRank : f[m] \in SUBSET Ranks}
        PROVE  n \in {m \in 0..LastRank : f[m] \in SUBSET Ranks}
    <3>1. f[n - 1] \in SUBSET Ranks /\ n \in Ranks /\ n \in 0..LastRank
      BY <1>0, <2>2
    <3>2. trySelect(f[n - 1], n, capped) \in SUBSET Ranks
      BY <3>1 DEF trySelect
    <3>3. f[n] \in SUBSET Ranks
      BY <1>8, <3>1, <3>2
    <3> QED
      BY <3>1, <3>3
  <2>3. 0..LastRank \subseteq {m \in 0..LastRank : f[m] \in SUBSET Ranks}
    BY <1>0, <2>1, <2>2, RankByRank
  <2> QED
    BY <2>3, <2>5
<1> QED
  BY <1>7, <1>8, <1>9 DEF Selected

(* A selection keeps what was selected before, takes only what it is       *)
(* offered, and fits the budget.                                           *)
LEMMA SelectionFits ==
  ASSUME NEW S \in SUBSET Ranks, NEW sel \in SUBSET Ranks, NEW capped,
         Tokens(sel) <= Budget
  PROVE  /\ sel \subseteq SelectAll(S, sel, capped)
         /\ SelectAll(S, sel, capped) \subseteq sel \cup S
         /\ Tokens(SelectAll(S, sel, capped)) <= Budget
<1>0. LastRank \in Nat /\ Ranks = 1..LastRank
  BY RanksAre
<1>1. PICK f : Selected(f, S, sel, capped) /\ SelectAll(S, sel, capped) = f[LastRank]
  BY SelectAllOf
<1> DEFINE good == {n \in 0..LastRank : /\ sel \subseteq f[n] /\ f[n] \subseteq sel \cup S
                                    /\ Tokens(f[n]) <= Budget}
<1>2. 0 \in good
  BY <1>0, <1>1 DEF Selected
<1>3. ASSUME NEW n \in 1..LastRank, n - 1 \in good PROVE n \in good
  <2>1. f[n] = f[n - 1] \/ (n \in S /\ f[n] = f[n - 1] \cup {n} /\ Tokens(f[n]) <= Budget)
    BY <1>1 DEF Selected, trySelect
  <2>2. sel \subseteq f[n - 1] /\ f[n - 1] \subseteq sel \cup S /\ Tokens(f[n - 1]) <= Budget
    BY <1>3
  <2>3. sel \subseteq f[n] /\ f[n] \subseteq sel \cup S /\ Tokens(f[n]) <= Budget
    BY <2>1, <2>2
  <2> QED
    BY <1>0, <2>3
<1> HIDE DEF good
<1>4. LastRank \in good
  BY <1>0, <1>2, <1>3, RankByRank
<1> QED
  BY <1>1, <1>4 DEF good

(* An item that is offered without a cap of its kind is taken, unless the  *)
(* items up to it are more than the budget.                                *)
LEMMA TakenUnlessFull ==
  ASSUME NEW S \in SUBSET Ranks, NEW r \in S
  PROVE  \/ r \in SelectAll(S, {}, FALSE)
         \/ Tokens({q \in S : q <= r}) > Budget
<1>0. LastRank \in Nat /\ Ranks = 1..LastRank /\ r \in 1..LastRank /\ Budget \in Nat
  BY RanksAre, ContextAssumption
<1>1. PICK f : Selected(f, S, {}, FALSE) /\ SelectAll(S, {}, FALSE) = f[LastRank]
  <2>1. {} \in SUBSET Ranks
    OBVIOUS
  <2> QED
    BY <2>1, SelectAllOf, Zenon
<1> DEFINE below == {n \in 0..LastRank : f[n] \subseteq {q \in S : q <= n}}
           kept == {n \in 0..LastRank : n >= r => f[r] \subseteq f[n]}
<1>2. 0..LastRank \subseteq below
  <2>1. 0 \in below
    BY <1>0, <1>1 DEF Selected
  <2>2. ASSUME NEW n \in 1..LastRank, n - 1 \in below PROVE n \in below
    <3>1. f[n] = f[n - 1] \/ (n \in S /\ f[n] = f[n - 1] \cup {n})
      BY <1>1 DEF Selected, trySelect
    <3>2. f[n - 1] \subseteq {q \in S : q <= n - 1}
      BY <2>2
    <3>3. \A q \in S : q <= n - 1 => q <= n
      BY <1>0
    <3>4. f[n] \subseteq {q \in S : q <= n}
      <4>1. f[n - 1] \subseteq {q \in S : q <= n}
        BY <3>2, <3>3
      <4>2. n \in S => n \in {q \in S : q <= n}
        BY <1>0
      <4> QED
        BY <3>1, <4>1, <4>2
    <3> QED
      BY <1>0, <3>4
  <2> HIDE DEF below
  <2> QED
    BY <1>0, <2>1, <2>2, RankByRank
<1>3. 0..LastRank \subseteq kept
  <2>1. 0 \in kept
    BY <1>0
  <2>2. ASSUME NEW n \in 1..LastRank, n - 1 \in kept PROVE n \in kept
    <3>1. f[n - 1] \subseteq f[n]
      BY <1>1 DEF Selected, trySelect
    <3>2. n >= r => n = r \/ n - 1 >= r
      BY <1>0
    <3> QED
      BY <1>0, <2>2, <3>1, <3>2
  <2> HIDE DEF kept
  <2> QED
    BY <1>0, <2>1, <2>2, RankByRank
<1>4. f[r] \subseteq f[LastRank]
  BY <1>0, <1>3
<1>5. f[r] = trySelect(f[r - 1], r, FALSE)
  BY <1>0, <1>1 DEF Selected
<1>6. f[r - 1] \cup {r} \subseteq {q \in S : q <= r}
  <2>1. r - 1 \in 0..LastRank /\ \A q \in S : q <= r - 1 => q <= r
    BY <1>0
  <2>2. r - 1 \in below
    BY <1>2, <2>1
  <2>3. f[r - 1] \subseteq {q \in S : q <= r - 1}
    BY <2>2
  <2>4. r \in {q \in S : q <= r}
    BY <1>0
  <2> QED
    BY <2>1, <2>3, <2>4
<1>7. CASE Tokens(f[r - 1] \cup {r}) <= Budget
  BY <1>1, <1>4, <1>5, <1>7 DEF trySelect
<1>8. CASE ~(Tokens(f[r - 1] \cup {r}) <= Budget)
  <2>1. /\ Tokens(f[r - 1] \cup {r}) \in Nat /\ Tokens({q \in S : q <= r}) \in Nat
        /\ Tokens(f[r - 1] \cup {r}) <= Tokens({q \in S : q <= r})
    BY <1>6, TokensGrow
  <2>2. \A a, b \in Nat : ~(a <= Budget) /\ a <= b => b > Budget
    BY <1>0
  <2> QED
    BY <1>8, <2>1, <2>2
<1> QED
  BY <1>7, <1>8

(* What is packed comes from what the policy let through, fits the budget, *)
(* has nothing superseded and no secret but in the message, and of the     *)
(* rest misses nothing mandatory without need.                             *)
MayBePacked(r) ==
    ~Candidates[r].superseded /\ (Candidates[r].sensitive => Candidates[r].message)

LEMMA PackKeepsRules ==
  ASSUME NEW S \in SUBSET Ranks
  PROVE  /\ packContextItems(S) \subseteq S
         /\ Tokens(packContextItems(S)) <= Budget
         /\ \A r \in packContextItems(S) : MayBePacked(r)
         /\ \A r \in S : isMandatoryContextItem(r) /\ MayBePacked(r) =>
              \/ \E q \in packContextItems(S) :
                   q <= r /\ Candidates[q].text = Candidates[r].text
              \/ Tokens({q \in S : q <= r}) > Budget
<1>0. /\ LastRank \in Nat /\ Ranks = 1..LastRank /\ Budget \in Nat
      /\ \A r \in Ranks : Candidates[r].group = "IMMEDIATE" =>
            \A q \in 1..r : Candidates[q].group = "IMMEDIATE"
  BY RanksAre, ContextAssumption DEF Ranks
<1>1. PICK E : E = Eligible(S)
  OBVIOUS
<1>2. PICK usable : usable =
        {r \in S : /\ ~Candidates[r].superseded
                   /\ Candidates[r].group = "L2_COMPACTED" => rawHistoryTokens(S) >= RawTrigger
                   /\ containsSensitiveData(r) => isImmediateUserMessage(r)}
  OBVIOUS
<1>3. E = {r \in usable : \A q \in usable : q < r => Candidates[q].text # Candidates[r].text}
  BY <1>1, <1>2 DEF Eligible
<1>4. usable \in SUBSET S /\ E \in SUBSET S /\ E \in SUBSET Ranks
  BY <1>2, <1>3
<1>5. \A r \in E : MayBePacked(r)
  BY <1>2, <1>3 DEF containsSensitiveData, isImmediateUserMessage, MayBePacked
<1>6. PICK must : must = {r \in E : isMandatoryContextItem(r)}
  OBVIOUS
<1>7. PICK one : one = SelectAll(must, {}, FALSE)
  BY Zenon
<1>8. PICK two : two = SelectAll(bestPerGroup(E \ must), one, TRUE)
  OBVIOUS
<1>9. packContextItems(S) = SelectAll((E \ must) \ two, two, TRUE)
  BY <1>1, <1>6, <1>7, <1>8 DEF packContextItems
<1>10. one \subseteq must /\ Tokens(one) <= Budget
  <2>1. {} \in SUBSET Ranks /\ must \in SUBSET Ranks /\ Tokens({}) <= Budget
    <3>1. Tokens({}) <= Budget
      BY <1>0, NoTokens
    <3> QED
      BY <1>4, <1>6, <3>1
  <2>2. SelectAll(must, {}, FALSE) \subseteq {} \cup must /\ Tokens(SelectAll(must, {}, FALSE)) <= Budget
    BY <2>1, SelectionFits, Zenon
  <2> QED
    BY <1>7, <2>2
<1>11. one \subseteq two /\ two \subseteq E /\ Tokens(two) <= Budget
  <2>1. one \in SUBSET Ranks /\ bestPerGroup(E \ must) \in SUBSET Ranks
    BY <1>4, <1>6, <1>10 DEF bestPerGroup
  <2>2. /\ one \subseteq SelectAll(bestPerGroup(E \ must), one, TRUE)
        /\ SelectAll(bestPerGroup(E \ must), one, TRUE) \subseteq one \cup bestPerGroup(E \ must)
        /\ Tokens(SelectAll(bestPerGroup(E \ must), one, TRUE)) <= Budget
    BY <1>10, <2>1, SelectionFits, Zenon
  <2>3. one \cup bestPerGroup(E \ must) \subseteq E
    BY <1>6, <1>10 DEF bestPerGroup
  <2> QED
    BY <1>8, <2>2, <2>3
<1>12. PICK P : P = packContextItems(S)
  OBVIOUS
<1>13. two \subseteq P /\ P \subseteq E /\ Tokens(P) <= Budget
  <2>1. two \in SUBSET Ranks /\ (E \ must) \ two \in SUBSET Ranks
    BY <1>4, <1>11
  <2>2. /\ two \subseteq SelectAll((E \ must) \ two, two, TRUE)
        /\ SelectAll((E \ must) \ two, two, TRUE) \subseteq two \cup ((E \ must) \ two)
        /\ Tokens(SelectAll((E \ must) \ two, two, TRUE)) <= Budget
    BY <1>11, <2>1, SelectionFits, Zenon
  <2>3. two \cup ((E \ must) \ two) \subseteq E
    BY <1>11
  <2> QED
    BY <1>9, <1>12, <2>2, <2>3
<1>14. ASSUME NEW r \in S, isMandatoryContextItem(r), MayBePacked(r)
       PROVE  \/ \E q \in P : q <= r /\ Candidates[q].text = Candidates[r].text
              \/ Tokens({q \in S : q <= r}) > Budget
  <2> DEFINE same == {q \in usable : Candidates[q].text = Candidates[r].text}
  <2>1. r \in same
    BY <1>2, <1>14 DEF isMandatoryContextItem, MayBePacked, containsSensitiveData, isImmediateUserMessage
  <2>2. same \in SUBSET Nat
    <3>1. same \subseteq Ranks
      BY <1>4
    <3> QED
      BY <1>0, <3>1
  <2>3. PICK m \in same : \A x \in same : m <= x
    <3> HIDE DEF same
    <3> QED
      BY <2>1, <2>2, LeastRow
  <2>4. m \in Ranks /\ r \in Ranks /\ m \in 1..r /\ m <= r
    BY <1>0, <1>4, <2>1, <2>2, <2>3
  <2>5. isMandatoryContextItem(m)
    BY <1>0, <1>14, <2>4 DEF isMandatoryContextItem
  <2>6. m \in E
    <3>1. ASSUME NEW q \in usable, q < m PROVE Candidates[q].text # Candidates[m].text
      <4>1. q \in Nat /\ m \in Nat /\ ~(m <= q)
        BY <1>0, <1>4, <2>4, <3>1
      <4>2. q \notin same
        BY <2>3, <4>1
      <4> QED
        BY <2>3, <4>2
    <3> QED
      BY <1>3, <2>3, <3>1
  <2>7. m \in must /\ must \in SUBSET Ranks
    BY <1>4, <1>6, <2>5, <2>6
  <2>8. m \in one \/ Tokens({q \in must : q <= m}) > Budget
    BY <1>7, <2>7, TakenUnlessFull, Zenon
  <2>9. CASE m \in one
    BY <1>11, <1>13, <2>3, <2>4, <2>9
  <2>10. CASE Tokens({q \in must : q <= m}) > Budget
    <3>1. \A q \in must : q \in S /\ (q <= m => q <= r)
      <4>1. \A q \in must : q \in S /\ q \in Ranks
        BY <1>4, <1>6
      <4>2. \A q \in Ranks : q <= m => q <= r
        BY <1>0, <2>4
      <4> QED
        BY <4>1, <4>2
    <3>2. {q \in must : q <= m} \subseteq {q \in S : q <= r}
      BY <3>1
    <3>3. /\ Tokens({q \in must : q <= m}) \in Nat /\ Tokens({q \in S : q <= r}) \in Nat
          /\ Tokens({q \in must : q <= m}) <= Tokens({q \in S : q <= r})
      BY <3>2, TokensGrow
    <3>4. \A a, b \in Nat : a > Budget /\ a <= b => b > Budget
      BY <1>0
    <3> QED
      BY <2>10, <3>3, <3>4
  <2> QED
    BY <2>8, <2>9, <2>10
<1> QED
  BY <1>4, <1>5, <1>12, <1>13, <1>14

-----------------------------------------------------------------------------
(* What a worker knows while it resolves the context: what it has let      *)
(* through is of the plan's snapshot or a dependency and may go to the     *)
(* model, and, unless it refuses, it works for the snapshot's audience and *)
(* has passed over nothing else.                                           *)
ForTarget(r) == isInvocationTargetClassificationAllowed(r)

Admits(r) == isReadScopeEligible(r) /\ ForTarget(r)

WorkSources == snapshot \cup Dependencies

ResolverFields == {"pc", "left", "allowed", "blocked", "audience"}

Refused(k) == k.blocked

ResolverOK(k) ==
    /\ DOMAIN k = ResolverFields
    /\ k.left \subseteq WorkSources /\ k.allowed \subseteq WorkSources
    /\ \A r \in k.allowed : ForTarget(r)
    /\ ~Refused(k) =>
          /\ k.audience = claimed
          /\ \A r \in WorkSources :
                r \in k.left \/ r \in k.allowed \/ (r \notin Dependencies /\ ~Admits(r))

ResolversOK ==
    /\ runner = [w \in Runners |-> runner[w]]
    /\ \A w \in Runners :
          runner[w] = AwayFromBundle \/ (started /\ runner[w].pc = "items" /\ ResolverOK(runner[w]))

TakerOK(k) == k.pc \in {"check", "write"} => DOMAIN k = {"pc", "audience", "items"} /\ k.items \in SUBSET Ranks

SourcesOK ==
    /\ taker = [t \in Takers |-> taker[t]] /\ \A t \in Takers : TakerOK(taker[t])
    /\ snapshot = None \/ snapshot \in SUBSET Ranks
    /\ started => snapshot # None

(* What the executor may be handed, of the plan's snapshot, and for whom.  *)
ContextOK(g, all, users) ==
    /\ g \subseteq snapshot /\ Dependencies \subseteq all /\ users = claimed
    /\ \A r \in g : ForTarget(r) /\ MayBePacked(r)
    /\ Tokens(g) <= Budget
    /\ \A r \in snapshot :
          isMandatoryContextItem(r) /\ Admits(r) /\ MayBePacked(r) =>
             \/ \E q \in g : q <= r /\ Candidates[q].text = Candidates[r].text
             \/ Tokens({q \in snapshot : q <= r}) > Budget

BundleOK(g) == ContextOK(g, bundle.admitted, bundle.audience)

HandedOK ==
    /\ bundle = NoBundle => handed = {}
    /\ handed \subseteq {bundle.items}
    /\ \A g \in handed : started /\ BundleOK(g)

ContextInv == SourcesOK /\ ResolversOK /\ HandedOK

LEMMA ContextStart == ContextInit => ContextInv
<1> SUFFICES ASSUME ContextInit PROVE ContextInv
  OBVIOUS
<1>1. SourcesOK
  BY DEF ContextInit, SourcesOK, TakerOK, AwayFromRetrieval
<1>2. ResolversOK
  BY DEF ContextInit, ResolversOK
<1>3. HandedOK
  BY DEF ContextInit, HandedOK
<1> QED
  BY <1>1, <1>2, <1>3 DEF ContextInv

(* The snapshot of a plan that has begun stands, and with it all that was  *)
(* decided on it.                                                          *)
LEMMA SnapshotStands ==
  ASSUME ContextInv, SourcesOK', UNCHANGED <<snapshot, claimed>> \/ ~started, started => started',
         UNCHANGED <<runner, bundle, handed>>
  PROVE  ContextInv'
<1>1. CASE started
  <2>1. snapshot' = snapshot /\ claimed' = claimed /\ started'
    BY <1>1
  <2>2. WorkSources' = WorkSources
    BY <2>1 DEF WorkSources, Dependencies
  <2>3. ASSUME NEW w \in Runners
        PROVE  (ResolverOK(runner[w]) => ResolverOK(runner[w])')
    BY <2>1, <2>2 DEF ResolverOK, Refused, ForTarget, Admits, Dependencies
  <2>4. ResolversOK'
    BY <2>1, <2>3 DEF ContextInv, ResolversOK
  <2>5. ASSUME NEW g \in handed PROVE BundleOK(g)'
    BY <2>1, <2>5 DEF ContextInv, HandedOK, ContextOK, BundleOK, Dependencies, Admits, ForTarget
  <2>6. HandedOK'
    BY <2>1, <2>5 DEF ContextInv, HandedOK
  <2> QED
    BY <2>4, <2>6 DEF ContextInv
<1>2. CASE ~started
  <2>1. runner' = runner /\ \A w \in Runners : runner'[w] = AwayFromBundle
    BY <1>2 DEF ContextInv, ResolversOK
  <2>2. ResolversOK'
    BY <2>1 DEF ContextInv, ResolversOK
  <2>3. handed' = {}
    BY <1>2 DEF ContextInv, HandedOK
  <2>4. HandedOK'
    BY <2>3 DEF HandedOK
  <2> QED
    BY <2>2, <2>4 DEF ContextInv
<1> QED
  BY <1>1, <1>2

LEMMA NormalizedIsPart == ASSUME NEW S PROVE normalizeCandidates(S) \subseteq S
<1>1. \A T, n : BestOf(T, n) \subseteq T
  BY DEF BestOf
<1> QED
  BY <1>1 DEF normalizeCandidates

LEMMA AccessSteps ==
  ASSUME ContextInv,
         \/ \E u \in Audience : MembershipChanges(u) \/ \E r \in Ranks : AccessChanges(u, r)
         \/ \E users \in SUBSET Audience : SurfaceChanges(users)
         \/ PlanStarts
  PROVE  ContextInv'
<1>1. /\ UNCHANGED <<taker, snapshot, claimed, runner, bundle, handed>>
      /\ started' = started \/ (PlanStarts /\ started')
  BY DEF MembershipChanges, AccessChanges, SurfaceChanges, PlanStarts
<1>2. SourcesOK'
  BY <1>1 DEF PlanStarts, ContextInv, SourcesOK
<1> QED
  BY <1>1, <1>2, SnapshotStands

(* A step of one process that takes the snapshot.                          *)
SnapshotWritten ==
    (snapshot' = snapshot /\ claimed' = claimed) \/ (~started /\ snapshot' \in SUBSET Ranks)

LEMMA TakerSteps ==
  ASSUME ContextInv, NEW t \in Takers, NEW k, TakerOK(k), taker' = [taker EXCEPT ![t] = k],
         SnapshotWritten,
         UNCHANGED <<started, runner, bundle, handed>>
  PROVE  ContextInv'
<1>1. /\ taker' = [s \in Takers |-> taker'[s]] /\ taker'[t] = k
      /\ \A s \in Takers : s # t => taker'[s] = taker[s]
  BY DEF ContextInv, SourcesOK
<1>2. \A s \in Takers : TakerOK(taker'[s])
  BY <1>1 DEF ContextInv, SourcesOK
<1>3. \A s \in Takers : TakerOK(taker[s])'
  BY <1>2 DEF TakerOK
<1>4. SourcesOK'
  BY <1>1, <1>3 DEF ContextInv, SourcesOK, SnapshotWritten
<1> QED
  BY <1>4, SnapshotStands DEF SnapshotWritten

LEMMA SnapshotSteps ==
  ASSUME ContextInv, NEW t \in Takers,
         \/ BeginRetrieval(t) \/ retrieveForExecutionPlan(t)
         \/ collectExecutionPlanItems(t) \/ persistSnapshot(t)
  PROVE  ContextInv'
<1>1. CASE BeginRetrieval(t)
  <2>1. PICK k : k = [pc |-> "read", audience |-> surface]
    OBVIOUS
  <2>2. TakerOK(k) /\ taker' = [taker EXCEPT ![t] = k]
    BY <1>1, <2>1 DEF BeginRetrieval, TakerOK
  <2>3. SnapshotWritten /\ UNCHANGED <<started, runner, bundle, handed>>
    BY <1>1 DEF BeginRetrieval, SnapshotWritten
  <2> QED
    BY <2>2, <2>3, TakerSteps
<1>2. CASE retrieveForExecutionPlan(t)
  <2>1. PICK S : S = {r \in Ranks : hasBuiltInAccess(Actor, r)}
    OBVIOUS
  <2>2. PICK T : T = immediateCandidates(S) \cup recentMessages(S) \cup messageCandidates(S)
                       \cup objectCandidates(S) \cup normalizeDerivedProviderCandidate(S)
    OBVIOUS
  <2>3. \A U, n : BestOf(U, n) \subseteq U
    BY DEF BestOf
  <2>4. T \subseteq S
    BY <2>2, <2>3 DEF immediateCandidates, recentMessages, messageCandidates, objectCandidates,
       normalizeDerivedProviderCandidate, rankRelevantMessages, rankStructured, OfKind
  <2>5. PICK k : k = [pc |-> "check", audience |-> taker[t].audience, items |-> T]
    OBVIOUS
  <2>6. TakerOK(k)
    BY <2>1, <2>4, <2>5 DEF TakerOK
  <2>7. taker' = [taker EXCEPT ![t] = k]
    BY <1>2, <2>1, <2>2, <2>5 DEF retrieveForExecutionPlan
  <2>8. SnapshotWritten /\ UNCHANGED <<started, runner, bundle, handed>>
    BY <1>2 DEF retrieveForExecutionPlan, SnapshotWritten
  <2> QED
    BY <2>6, <2>7, <2>8, TakerSteps
<1>3. CASE collectExecutionPlanItems(t)
  <2>1. PICK k : k = [taker[t] EXCEPT !.pc = "write", !.items = normalizeCandidates(@)]
    OBVIOUS
  <2>2. TakerOK(taker[t]) /\ taker[t].pc = "check"
    BY <1>3 DEF ContextInv, SourcesOK, collectExecutionPlanItems
  <2>3. DOMAIN taker[t] = {"pc", "audience", "items"} /\ taker[t].items \in SUBSET Ranks
    BY <2>2 DEF TakerOK
  <2>4. DOMAIN k = {"pc", "audience", "items"} /\ k.items = normalizeCandidates(taker[t].items)
    BY <2>1, <2>3
  <2>5. TakerOK(k) /\ TakerOK(AwayFromRetrieval)
    BY <2>3, <2>4, NormalizedIsPart DEF TakerOK, AwayFromRetrieval
  <2>6. taker' = [taker EXCEPT ![t] = k] \/ taker' = [taker EXCEPT ![t] = AwayFromRetrieval]
    BY <1>3, <2>1 DEF collectExecutionPlanItems
  <2>7. SnapshotWritten /\ UNCHANGED <<started, runner, bundle, handed>>
    BY <1>3 DEF collectExecutionPlanItems, SnapshotWritten
  <2> QED
    BY <2>5, <2>6, <2>7, TakerSteps
<1>4. CASE persistSnapshot(t)
  <2>1. TakerOK(taker[t]) /\ taker[t].pc = "write"
    BY <1>4 DEF ContextInv, SourcesOK, persistSnapshot
  <2>2. taker[t].items \in SUBSET Ranks /\ TakerOK(AwayFromRetrieval)
    BY <2>1 DEF TakerOK, AwayFromRetrieval
  <2>3. SnapshotWritten
    BY <1>4, <2>2 DEF persistSnapshot, SnapshotWritten
  <2>4. /\ UNCHANGED <<started, runner, bundle, handed>>
        /\ taker' = [taker EXCEPT ![t] = AwayFromRetrieval]
    BY <1>4 DEF persistSnapshot
  <2> QED
    BY <2>2, <2>3, <2>4, TakerSteps
<1> QED
  BY <1>1, <1>2, <1>3, <1>4

(* A step of one worker that leaves the bundle alone.                      *)
LEMMA ResolverSteps ==
  ASSUME ContextInv, NEW w \in Runners, NEW k,
         runner' = [runner EXCEPT ![w] = k],
         k = AwayFromBundle \/ (started /\ k.pc = "items" /\ ResolverOK(k)),
         UNCHANGED <<taker, started, snapshot, claimed>>
  PROVE  SourcesOK' /\ ResolversOK'
<1>1. SourcesOK'
  BY DEF ContextInv, SourcesOK, TakerOK
<1>2. WorkSources' = WorkSources
  BY DEF WorkSources, Dependencies
<1>3. /\ runner' = [v \in Runners |-> runner'[v]] /\ runner'[w] = k
      /\ \A v \in Runners : v # w => runner'[v] = runner[v]
  BY DEF ContextInv, ResolversOK
<1>4. ASSUME NEW v \in Runners, NEW j, runner'[v] = j, started, j.pc = "items", ResolverOK(j)
      PROVE  started' /\ runner'[v].pc = "items" /\ ResolverOK(runner[v])'
  BY <1>2, <1>4 DEF ResolverOK, Refused, ForTarget, Admits, Dependencies
<1>5. ASSUME NEW v \in Runners
      PROVE  runner'[v] = AwayFromBundle \/ (started /\ runner[v].pc = "items" /\ ResolverOK(runner[v]))'
  <2>1. CASE v = w
    BY <1>3, <1>4, <2>1
  <2>2. CASE v # w
    <3>1. runner'[v] = runner[v]
      BY <1>3, <2>2
    <3>2. runner[v] = AwayFromBundle \/ (started /\ runner[v].pc = "items" /\ ResolverOK(runner[v]))
      BY DEF ContextInv, ResolversOK
    <3> QED
      BY <1>4, <3>1, <3>2
  <2> QED
    BY <2>1, <2>2
<1>6. ResolversOK'
  BY <1>3, <1>5 DEF ResolversOK, AwayFromBundle
<1> QED
  BY <1>1, <1>6

LEMMA HandedStands ==
  ASSUME ContextInv, UNCHANGED <<started, snapshot, claimed, bundle, handed>>
  PROVE  HandedOK'
<1>1. ASSUME NEW g \in handed PROVE BundleOK(g)'
  BY <1>1 DEF ContextInv, HandedOK, ContextOK, BundleOK, Dependencies, Admits, ForTarget
<1> QED
  BY <1>1 DEF ContextInv, HandedOK

(* One item or dependency is decided, by what may go to the model and what *)
(* the audience may read.                                                  *)
Decides(w, r, took, lost) ==
    /\ runner[w].pc = "items" /\ r \in runner[w].left
    /\ runner' = [runner EXCEPT ![w].left = @ \ {r},
                                ![w].allowed = IF took THEN @ \cup {r} ELSE @,
                                ![w].blocked = @ \/ lost]
    /\ UNCHANGED <<taker, started, snapshot, claimed, bundle, handed>>

LEMMA ItemDecided ==
  ASSUME ContextInv, NEW w \in Runners, NEW r \in Ranks, NEW took, NEW lost,
         Decides(w, r, took, lost),
         took => ForTarget(r),
         ~lost => (took \/ (r \notin Dependencies /\ ~Admits(r)))
  PROVE  ContextInv'
<1>1. started /\ ResolverOK(runner[w]) /\ r \in runner[w].left
  BY DEF ContextInv, ResolversOK, AwayFromBundle, Decides
<1>2. PICK k : k = [runner[w] EXCEPT !.left = @ \ {r},
                                     !.allowed = IF took THEN @ \cup {r} ELSE @,
                                     !.blocked = @ \/ lost]
  OBVIOUS
<1>3. runner' = [runner EXCEPT ![w] = k]
  BY <1>2 DEF ContextInv, ResolversOK, Decides
<1>4. /\ DOMAIN k = ResolverFields /\ k.pc = "items" /\ k.left = runner[w].left \ {r}
      /\ k.allowed = (IF took THEN runner[w].allowed \cup {r} ELSE runner[w].allowed)
      /\ k.audience = runner[w].audience
  <2>1. DOMAIN runner[w] = ResolverFields /\ runner[w].pc = "items"
    BY <1>1 DEF ResolverOK, ContextInv, ResolversOK, Decides
  <2>2. DOMAIN k = ResolverFields /\ k.pc = "items" /\ k.audience = runner[w].audience
    BY <1>2, <2>1 DEF ResolverFields
  <2>3. k.left = runner[w].left \ {r}
    BY <1>2, <2>1 DEF ResolverFields
  <2>4. k.allowed = (IF took THEN runner[w].allowed \cup {r} ELSE runner[w].allowed)
    BY <1>2, <2>1 DEF ResolverFields
  <2> QED
    BY <2>2, <2>3, <2>4
<1>5. ~Refused(k) => ~Refused(runner[w]) /\ ~lost
  <2>1. "blocked" \in DOMAIN runner[w]
    BY <1>1 DEF ResolverOK, ResolverFields
  <2>2. k.blocked = (runner[w].blocked \/ lost)
    BY <1>2, <2>1
  <2> QED
    BY <2>2 DEF Refused
<1>6. r \in WorkSources
  BY <1>1 DEF ResolverOK
<1>7. k.left \subseteq WorkSources /\ k.allowed \subseteq WorkSources /\ \A q \in k.allowed : ForTarget(q)
  BY <1>1, <1>4, <1>6 DEF ResolverOK
<1>8. ASSUME ~Refused(k), NEW q \in WorkSources
      PROVE  q \in k.left \/ q \in k.allowed \/ (q \notin Dependencies /\ ~Admits(q))
  <2>1. ~Refused(runner[w]) /\ ~lost
    BY <1>5, <1>8
  <2>2. q \in runner[w].left \/ q \in runner[w].allowed \/ (q \notin Dependencies /\ ~Admits(q))
    BY <1>1, <2>1 DEF ResolverOK
  <2>3. CASE q = r
    BY <1>4, <2>1, <2>3
  <2>4. CASE q # r
    BY <1>4, <2>2, <2>4
  <2> QED
    BY <2>3, <2>4
<1>9. ResolverOK(k)
  <2>1. ~Refused(k) => k.audience = claimed
    BY <1>1, <1>4, <1>5 DEF ResolverOK
  <2> QED
    BY <1>4, <1>7, <1>8, <2>1 DEF ResolverOK
<1>10. SourcesOK' /\ ResolversOK'
  BY <1>1, <1>3, <1>4, <1>9, ResolverSteps DEF Decides
<1> QED
  BY <1>10, HandedStands DEF ContextInv, Decides

LEMMA ItemSteps ==
  ASSUME ContextInv, NEW w \in Runners, NEW r \in Ranks,
         evaluateContextPolicy(w, r) \/ resolveDependencyArtifact(w, r)
  PROVE  ContextInv'
<1>1. CASE evaluateContextPolicy(w, r)
  <2>1. PICK fits, reads :
          /\ fits = (isReadScopeEligible(r) /\ isInvocationTargetClassificationAllowed(r))
          /\ reads = (hasBuiltInAccess(Actor, r)
                         /\ everyAudienceMemberCanReadSource(runner[w].audience, r))
    OBVIOUS
  <2>2. PICK took, lost : took = (fits /\ reads) /\ lost = (fits /\ ~reads)
    OBVIOUS
  <2>3. r \notin Dependencies /\ Decides(w, r, took, lost)
    BY <1>1, <2>1, <2>2 DEF evaluateContextPolicy, Decides
  <2>4. fits = Admits(r) /\ (fits => ForTarget(r))
    BY <2>1 DEF Admits, ForTarget
  <2>5. /\ took => ForTarget(r)
        /\ ~lost => (took \/ (r \notin Dependencies /\ ~Admits(r)))
    BY <2>2, <2>3, <2>4
  <2> QED
    BY <2>3, <2>5, ItemDecided, Zenon
<1>2. CASE resolveDependencyArtifact(w, r)
  <2>1. PICK ok, lost :
          /\ ok = (isInvocationTargetClassificationAllowed(r)
                     /\ canUsersReadVersion({Actor} \cup runner[w].audience, r))
          /\ lost = ~ok
    OBVIOUS
  <2>2. Decides(w, r, ok, lost)
    BY <1>2, <2>1 DEF resolveDependencyArtifact, Decides
  <2>3. ok => ForTarget(r)
    BY <2>1 DEF ForTarget
  <2>4. ~lost => ok
    BY <2>1
  <2> QED
    BY <2>2, <2>3, <2>4, ItemDecided, Zenon
<1> QED
  BY <1>1, <1>2

LEMMA BeginSteps ==
  ASSUME ContextInv, NEW w \in Runners, BeginResolve(w)
  PROVE  ContextInv'
<1>1. PICK same : same = (surface # {} /\ surface = claimed)
  OBVIOUS
<1>2. PICK k : k = [pc |-> "items", left |-> IF same THEN snapshot \cup Dependencies ELSE {},
                    allowed |-> {}, blocked |-> ~same, audience |-> surface]
  OBVIOUS
<1>3. /\ started /\ runner' = [runner EXCEPT ![w] = k]
      /\ UNCHANGED <<taker, started, snapshot, claimed, bundle, handed>>
  BY <1>1, <1>2 DEF BeginResolve
<1>4. DOMAIN k = ResolverFields /\ k.pc = "items" /\ k.allowed = {} /\ k.blocked = ~same
      /\ k.audience = surface /\ k.left \subseteq WorkSources /\ (same => k.left = WorkSources)
  BY <1>2 DEF ResolverFields, WorkSources
<1>5. ResolverOK(k)
  BY <1>1, <1>4 DEF ResolverOK, Refused
<1>6. SourcesOK' /\ ResolversOK'
  BY <1>3, <1>4, <1>5, ResolverSteps
<1> QED
  BY <1>3, <1>6, HandedStands DEF ContextInv

(* A manifest is what the invocation may be given.                         *)
LEMMA ManifestFits ==
  ASSUME ContextInv, NEW w \in Runners, runner[w].pc = "items", runner[w].left = {}
  PROVE  /\ Manifest(w) # NoBundle /\ started
         /\ ~runner[w].blocked =>
               ContextOK(Manifest(w).items, Manifest(w).admitted, Manifest(w).audience)
<1>1. started /\ ResolverOK(runner[w])
  BY DEF ContextInv, ResolversOK, AwayFromBundle
<1>2. snapshot \in SUBSET Ranks /\ Dependencies \in SUBSET Ranks
  BY <1>1 DEF ContextInv, SourcesOK, Dependencies, OfKind
<1>3. PICK A : A = runner[w].allowed
  OBVIOUS
<1>4. A \subseteq WorkSources /\ \A r \in A : ForTarget(r)
  BY <1>1, <1>3 DEF ResolverOK
<1>5. A \ Dependencies \in SUBSET Ranks /\ A \ Dependencies \subseteq snapshot
  BY <1>2, <1>4 DEF WorkSources
<1>6. PICK g : g = packContextItems(A \ Dependencies)
  OBVIOUS
<1>7. Manifest(w).items = g /\ Manifest(w).admitted = A /\ Manifest(w).audience = runner[w].audience
  BY <1>3, <1>6 DEF Manifest
<1>8. /\ g \subseteq A \ Dependencies /\ Tokens(g) <= Budget
      /\ \A r \in g : MayBePacked(r)
      /\ \A r \in A \ Dependencies : isMandatoryContextItem(r) /\ MayBePacked(r) =>
           \/ \E q \in g : q <= r /\ Candidates[q].text = Candidates[r].text
           \/ Tokens({q \in A \ Dependencies : q <= r}) > Budget
  BY <1>5, <1>6, PackKeepsRules
<1>9. Manifest(w) # NoBundle
  <2>1. 0 \notin g
    BY <1>5, <1>8, RanksAre
  <2>2. NoBundle.items = {0}
    BY DEF NoBundle, None
  <2> QED
    BY <1>7, <2>1, <2>2
<1>10. ASSUME ~runner[w].blocked PROVE ContextOK(g, A, runner[w].audience)
  <2>1. \A r \in WorkSources : r \in A \/ (r \notin Dependencies /\ ~Admits(r))
    BY <1>1, <1>3, <1>10 DEF ResolverOK, Refused
  <2>2. g \subseteq snapshot /\ Dependencies \subseteq A
    BY <1>5, <1>8, <2>1 DEF WorkSources
  <2>3. runner[w].audience = claimed /\ \A r \in g : ForTarget(r) /\ MayBePacked(r)
    BY <1>1, <1>4, <1>8, <1>10 DEF ResolverOK, Refused
  <2>4. ASSUME NEW r \in snapshot, isMandatoryContextItem(r), Admits(r), MayBePacked(r)
        PROVE  \/ \E q \in g : q <= r /\ Candidates[q].text = Candidates[r].text
               \/ Tokens({q \in snapshot : q <= r}) > Budget
    <3>1. r \notin Dependencies
      BY <2>4 DEF Dependencies, OfKind, isMandatoryContextItem
    <3>2. r \in A \ Dependencies
      BY <2>1, <2>4, <3>1 DEF WorkSources
    <3>3. ASSUME Tokens({q \in A \ Dependencies : q <= r}) > Budget
          PROVE  Tokens({q \in snapshot : q <= r}) > Budget
      <4>1. {q \in A \ Dependencies : q <= r} \subseteq {q \in snapshot : q <= r}
        BY <1>5
      <4>2. /\ Tokens({q \in A \ Dependencies : q <= r}) \in Nat
            /\ Tokens({q \in snapshot : q <= r}) \in Nat
            /\ Tokens({q \in A \ Dependencies : q <= r}) <= Tokens({q \in snapshot : q <= r})
        BY <4>1, TokensGrow
      <4>3. \A a, b \in Nat : a > Budget /\ a <= b => b > Budget
        BY ContextAssumption
      <4> QED
        BY <3>3, <4>2, <4>3
    <3> QED
      BY <1>8, <2>4, <3>2, <3>3
  <2> QED
    BY <1>8, <2>2, <2>3, <2>4 DEF ContextOK
<1> QED
  BY <1>1, <1>7, <1>9, <1>10

LEMMA BundleSteps ==
  ASSUME ContextInv, NEW w \in Runners, persistBundle(w)
  PROVE  ContextInv'
<1>1. /\ runner[w].pc = "items" /\ runner[w].left = {}
      /\ runner' = [runner EXCEPT ![w] = AwayFromBundle]
      /\ UNCHANGED <<taker, started, snapshot, claimed>>
  BY DEF persistBundle
<1>2. SourcesOK' /\ ResolversOK'
  BY <1>1, ResolverSteps
<1>3. /\ Manifest(w) # NoBundle /\ started
      /\ ~runner[w].blocked =>
            ContextOK(Manifest(w).items, Manifest(w).admitted, Manifest(w).audience)
  BY <1>1, ManifestFits
<1>4. CASE assertFrozenBundle(w)
  <2>1. PICK M : M = Manifest(w)
    OBVIOUS
  <2>2. /\ bundle' = M
        /\ handed' = handed \/ (~runner[w].blocked /\ handed' = handed \cup {M.items})
    BY <1>4, <2>1 DEF persistBundle, execute
  <2>3. handed = {} \/ bundle = M
    BY <1>4, <2>1 DEF assertFrozenBundle, ContextInv, HandedOK
  <2>4. handed' \subseteq {M.items}
    BY <2>2, <2>3 DEF ContextInv, HandedOK
  <2>5. ASSUME NEW g \in handed' PROVE ContextOK(g, M.admitted, M.audience)
    <3>1. CASE g \in handed
      BY <2>3, <3>1 DEF ContextInv, HandedOK, BundleOK
    <3>2. CASE g \notin handed
      BY <1>3, <2>1, <2>2, <2>5, <3>2
    <3> QED
      BY <3>1, <3>2
  <2>6. ASSUME NEW g \in handed' PROVE BundleOK(g)'
    BY <1>1, <2>2, <2>5, <2>6 DEF ContextOK, BundleOK, Dependencies, Admits, ForTarget
  <2>7. HandedOK'
    BY <1>1, <1>3, <2>1, <2>2, <2>4, <2>6 DEF HandedOK
  <2> QED
    BY <1>2, <2>7 DEF ContextInv
<1>5. CASE ~assertFrozenBundle(w)
  <2>1. UNCHANGED <<bundle, handed>>
    BY <1>5 DEF persistBundle
  <2> QED
    BY <1>1, <1>2, <2>1, HandedStands DEF ContextInv
<1> QED
  BY <1>4, <1>5

LEMMA ContextStep == ContextInv /\ [ContextNext]_contextVars => ContextInv'
<1> SUFFICES ASSUME ContextInv, [ContextNext]_contextVars PROVE ContextInv'
  OBVIOUS
<1>1. CASE UNCHANGED contextVars
  <2>1. SourcesOK' /\ UNCHANGED <<snapshot, claimed>> /\ (started => started')
    BY <1>1 DEF contextVars, ContextInv, SourcesOK, TakerOK
  <2> QED
    BY <1>1, <2>1, SnapshotStands DEF contextVars
<1>2. CASE ContextNext
  BY <1>2, AccessSteps, SnapshotSteps, BeginSteps, BundleSteps, ItemSteps DEF ContextNext
<1> QED
  BY <1>1, <1>2

(* All attempts of an invocation hand over one context, that of the frozen *)
(* bundle, to the snapshot's audience, however access, membership and the  *)
(* surface change between and within the attempts.  No secret is in it but *)
(* in the user's message, nothing that is superseded or not for the model, *)
(* and nothing mandatory is missing but for such a reason or the budget:   *)
(* for any candidates, audience, budget, caps and number of workers.       *)
THEOREM ContextStaysFrozen == ContextInit /\ [][ContextNext]_contextVars => []ContextIsFrozen
<1>1. ContextInv => ContextIsFrozen
  <2> SUFFICES ASSUME ContextInv PROVE ContextIsFrozen
    OBVIOUS
  <2>1. handed \subseteq {bundle.items}
    BY DEF ContextInv, HandedOK
  <2>2. IsFiniteSet({bundle.items}) /\ Cardinality({bundle.items}) = 1
    BY FS_Singleton
  <2>3. Cardinality(handed) <= Cardinality({bundle.items})
    BY <2>1, <2>2, FS_Subset
  <2>4. Cardinality(handed) <= 1
    BY <2>2, <2>3
  <2> QED
    BY <2>1, <2>4 DEF ContextInv, HandedOK, BundleOK, ContextOK, ContextIsFrozen, MayBePacked,
       Admits, ForTarget, isInvocationTargetClassificationAllowed
<1> QED
  BY <1>1, ContextStart, ContextStep, PTL

-----------------------------------------------------------------------------
(* The compacted state.  Of what Ancestors builds, only what each state    *)
(* says of itself and its predecessor is kept by the steps; that a state   *)
(* leaves no message out then follows from one state to the next.          *)
MessageFields == {"status", "ver", "overtaken"}

IsOvertaken(m) == m.overtaken

LogOK ==
    /\ log = [k \in Positions |-> log[k]]
    /\ \A k \in Positions : DOMAIN log[k] = MessageFields /\ log[k].ver \in 1..2

(* What a worker reads, or a state has summarised, after the state p: none *)
(* of the messages up to the last one is missing, unless it was overtaken. *)
SegmentOK(p, raw) ==
    /\ \A ref \in raw : /\ ref \in Positions \X (1..2)
                        /\ ref[1] \in Complete /\ ref[1] > CoveredTo(p)
    /\ \A ref \in raw, k \in Complete :
          CoveredTo(p) < k /\ k <= ref[1] /\ ~IsOvertaken(log[k]) => \E v \in 1..2 : <<k, v>> \in raw

StateFields == {"previous", "raw", "valid", "to"}

SummaryOK(i) ==
    /\ DOMAIN state[i] = StateFields
    /\ state[i].previous \in 0..(i - 1)
    /\ SegmentOK(state[i].previous, state[i].raw)
    /\ \E ref \in state[i].raw : state[i].to = ref[1]
    /\ \A ref \in state[i].raw : ref[1] <= state[i].to

StatesOK ==
    /\ Len(state) \in Nat
    /\ state = [i \in 1..Len(state) |-> state[i]]
    /\ \A i \in 1..Len(state) : SummaryOK(i)
    /\ \A i, j \in Valid : i = j

(* The tail a worker has read: what follows it has overtaken it.           *)
TailOK(tail) ==
    /\ tail \subseteq Complete
    /\ \A k \in tail, j \in Complete : j > k /\ j \notin tail => IsOvertaken(log[k])

CompactorOK(c) ==
    \/ c.pc \in {"idle", "previous"}
    \/ c.pc = "tail" /\ c.previous \in 0..Len(state)
    \/ c.pc = "segment" /\ c.previous \in 0..Len(state) /\ TailOK(c.tail)
    \/ /\ c.pc \in {"model", "sources", "commit"} /\ c.previous \in 0..Len(state)
       /\ c.raw # {} /\ SegmentOK(c.previous, c.raw)
       /\ c.pc = "sources" => DOMAIN c = {"pc", "previous", "raw", "left"}

CompactorsOK ==
    /\ compactor = [w \in Compactors |-> compactor[w]]
    /\ \A w \in Compactors : CompactorOK(compactor[w])

(* What a context is built on: a message of the lineage is still to be     *)
(* looked up, or is as it was summarised, or was edited since the check    *)
(* began.                                                                  *)
BasisFields == {"pc", "state", "at", "left", "edited"}

Checked(ref, c) == ref \in c.left \/ MessageCurrent(ref) \/ ref[1] \in c.edited

BasisOK(c) ==
    \/ c.pc = "none"
    \/ c.pc = "stale" /\ DOMAIN c = {"pc", "state", "edited"}
    \/ /\ c.pc \in {"lineage", "messages", "built"} /\ DOMAIN c = BasisFields
       /\ c.state \in 1..Len(state)
       /\ c.pc = "lineage" => /\ c.at \in 1..Len(state)
                              /\ Summarised(c.state) \subseteq c.left \cup Summarised(c.at)
       /\ c.pc # "lineage" => \A ref \in Summarised(c.state) : Checked(ref, c)
       /\ c.pc = "built" => c.left = {}

BasesOK ==
    /\ basis = [b \in Builders |-> basis[b]]
    /\ \A b \in Builders : BasisOK(basis[b])

CompactionInv == LogOK /\ StatesOK /\ CompactorsOK /\ BasesOK

(* The recursion of Ancestors, over any states.                            *)
Climbs(f, rows) ==
    f = [j \in 0..Len(rows) |-> IF j = 0 THEN {} ELSE {j} \cup f[rows[j].previous]]

Climb(rows) == CHOOSE f : Climbs(f, rows)

LEMMA AncestorsAre ==
  /\ \A i : Ancestors(i) = Climb(state)[i]
  /\ \A i : Ancestors(i)' = Climb(state')[i]
  BY DEF Ancestors, Climb, Climbs

LEMMA ClimbOf ==
  ASSUME NEW rows, NEW n \in Nat, n = Len(rows), \A j \in 1..n : rows[j].previous \in 0..(j - 1)
  PROVE  /\ Climb(rows)[0] = {}
         /\ \A j \in 1..n : Climb(rows)[j] = {j} \cup Climb(rows)[rows[j].previous]
<1>2. \A j \in 1..n : rows[j].previous \in 0..(j - 1) /\ rows[j].previous \in 0..n
  OBVIOUS
<1>3. PICK tree : tree = [j \in 1..n |-> [parent |-> rows[j].previous]]
  OBVIOUS
<1>4. Len(tree) = n
  <2>1. ListOf(tree, n)
    BY <1>3 DEF ListOf
  <2> QED
    BY <2>1, LenOfList
<1>5. ItemList(tree)
  BY <1>2, <1>3, <1>4 DEF ItemList
<1>6. PICK g : g = Ups(tree)
  OBVIOUS
<1>7. g = [j \in 0..n |-> IF j = 0 THEN {} ELSE {j} \cup g[tree[j].parent]]
  BY <1>4, <1>5, <1>6, UpsExist DEF GoesUp
<1>8. Climbs(g, rows)
  <2>1. ASSUME NEW j \in 0..n, j # 0 PROVE tree[j].parent = rows[j].previous
    BY <1>3, <2>1
  <2>2. g = [j \in 0..n |-> g[j]]
    BY <1>7
  <2>3. ASSUME NEW j \in 0..n
        PROVE  g[j] = IF j = 0 THEN {} ELSE {j} \cup g[rows[j].previous]
    BY <1>7, <2>1
  <2> QED
    BY <2>2, <2>3 DEF Climbs
<1>9. PICK f : f = Climb(rows)
  OBVIOUS
<1>10. Climbs(f, rows)
  BY <1>8, <1>9 DEF Climb
<1>12. f[0] = {}
  <2>1. 0 \in 0..n
    OBVIOUS
  <2> QED
    BY <1>10, <2>1 DEF Climbs
<1>13. ASSUME NEW j \in 1..n PROVE f[j] = {j} \cup f[rows[j].previous]
  <2>1. j \in 0..n /\ j # 0
    BY <1>13
  <2> QED
    BY <1>10, <2>1 DEF Climbs
<1> QED
  BY <1>9, <1>12, <1>13

LEMMA AncestorsOf ==
  ASSUME StatesOK
  PROVE  /\ Ancestors(0) = {}
         /\ \A j \in 1..Len(state) :
              Ancestors(j) = {j} \cup Ancestors(state[j].previous)
<1>1. PICK n \in Nat : n = Len(state)
  BY DEF StatesOK
<1>2. \A j \in 1..n : state[j].previous \in 0..(j - 1)
  BY <1>1 DEF StatesOK, SummaryOK
<1>3. PICK rows : rows = state
  OBVIOUS
<1>6. n = Len(rows) /\ \A j \in 1..n : rows[j].previous \in 0..(j - 1)
  BY <1>1, <1>2, <1>3
<1>4. /\ Climb(rows)[0] = {}
      /\ \A j \in 1..n : Climb(rows)[j] = {j} \cup Climb(rows)[rows[j].previous]
  BY <1>6, ClimbOf
<1>5. \A i : Ancestors(i) = Climb(rows)[i]
  BY <1>3, AncestorsAre
<1> QED
  BY <1>1, <1>3, <1>4, <1>5

(* What holds of a state if it holds of the previous one holds of each.    *)
LEMMA StateByState ==
  ASSUME StatesOK, NEW good,
         \A i \in 1..Len(state) :
            (state[i].previous # 0 => state[i].previous \in good) => i \in good
  PROVE  1..Len(state) \subseteq good
<1> DEFINE bad == (1..Len(state)) \ good
<1>1. Len(state) \in Nat /\ \A i \in 1..Len(state) : state[i].previous \in 0..(i - 1)
  BY DEF StatesOK, SummaryOK
<1>2. bad \in SUBSET Nat
  BY <1>1
<1>3. bad # {} => \E m \in bad : \A x \in bad : m <= x
  <2> HIDE DEF bad
  <2> QED
    BY <1>2, LeastRow
<1>4. ASSUME NEW m \in bad, \A x \in bad : m <= x PROVE FALSE
  <2>1. PICK p : p = state[m].previous
    OBVIOUS
  <2>2. p \in 0..(m - 1) /\ m \in 1..Len(state) /\ m \notin good
    BY <1>1, <2>1
  <2>3. p # 0 => p \in 1..Len(state) /\ ~(m <= p)
    BY <1>1, <2>2
  <2>4. p # 0 => p \in good
    BY <1>4, <2>3
  <2> QED
    BY <2>1, <2>2, <2>4
<1> QED
  BY <1>3, <1>4

(* Each state is above the one before it ...                               *)
LEMMA SummariesGrow ==
  ASSUME StatesOK, NEW i \in 1..Len(state)
  PROVE  /\ Ancestors(i) \subseteq 1..Len(state)
         /\ \A a \in Ancestors(i) : \A ref \in state[a].raw : ref[1] <= state[i].to
<1> DEFINE good == {j \in 1..Len(state) :
                      /\ Ancestors(j) \subseteq 1..Len(state)
                      /\ \A a \in Ancestors(j) : \A ref \in state[a].raw : ref[1] <= state[j].to}
<1>1. ASSUME NEW j \in 1..Len(state), state[j].previous # 0 => state[j].previous \in good
      PROVE  j \in good
  <2>1. PICK p : p = state[j].previous
    OBVIOUS
  <2>2. SummaryOK(j) /\ Ancestors(j) = {j} \cup Ancestors(p) /\ Ancestors(0) = {}
    BY <2>1, AncestorsOf DEF StatesOK
  <2>3. \A ref \in state[j].raw : ref[1] <= state[j].to
    BY <2>2 DEF SummaryOK
  <2>4. CASE p = 0
    BY <2>2, <2>3, <2>4
  <2>5. CASE p # 0
    <3>1. p \in good
      BY <1>1, <2>1, <2>5
    <3>2. /\ p \in 1..Len(state) /\ Ancestors(p) \subseteq 1..Len(state)
          /\ \A a \in Ancestors(p) : \A ref \in state[a].raw : ref[1] <= state[p].to
      BY <3>1
    <3>3. PICK top \in state[j].raw : state[j].to = top[1]
      BY <2>2 DEF SummaryOK
    <3>4. state[p].to < state[j].to
      BY <2>1, <2>2, <2>5, <3>3 DEF SummaryOK, SegmentOK, CoveredTo
    <3>5. SummaryOK(p)
      BY <3>2 DEF StatesOK
    <3>6. \A a \in 1..Len(state) : \A ref \in state[a].raw : ref[1] \in Nat
      BY DEF StatesOK, SummaryOK, SegmentOK, Positions
    <3>7. state[p].to \in Nat /\ state[j].to \in Nat
      BY <2>2, <3>2, <3>5, <3>6 DEF SummaryOK
    <3>8. ASSUME NEW a \in Ancestors(p), NEW ref \in state[a].raw PROVE ref[1] <= state[j].to
      <4>1. ref[1] \in Nat /\ ref[1] <= state[p].to
        BY <3>2, <3>6
      <4>2. PICK x, y, z : x = ref[1] /\ y = state[p].to /\ z = state[j].to
        OBVIOUS
      <4>3. x \in Nat /\ y \in Nat /\ z \in Nat /\ x <= y /\ y < z
        BY <3>4, <3>7, <4>1, <4>2
      <4>4. x <= z
        BY <4>3
      <4> QED
        BY <4>2, <4>4
    <3> QED
      BY <2>2, <2>3, <3>2, <3>8
  <2> QED
    BY <2>4, <2>5
<1> HIDE DEF good
<1>2. 1..Len(state) \subseteq good
  BY <1>1, StateByState
<1> QED
  BY <1>2 DEF good

(* ... so no message is summarised twice ...                               *)
LEMMA SummariesApart ==
  ASSUME StatesOK, NEW i \in 1..Len(state)
  PROVE  \A a, b \in Ancestors(i) :
            a # b => {r[1] : r \in state[a].raw} \cap {r[1] : r \in state[b].raw} = {}
<1> DEFINE Apart(a, b) == \A r \in state[a].raw, s \in state[b].raw : r[1] # s[1]
           good == {j \in 1..Len(state) : \A a, b \in Ancestors(j) : a # b => Apart(a, b)}
<1>1. ASSUME NEW j \in 1..Len(state), state[j].previous # 0 => state[j].previous \in good
      PROVE  j \in good
  <2>1. PICK p : p = state[j].previous
    OBVIOUS
  <2>2. SummaryOK(j) /\ Ancestors(j) = {j} \cup Ancestors(p) /\ Ancestors(0) = {}
    BY <2>1, AncestorsOf DEF StatesOK
  <2>3. CASE p = 0
    BY <2>2, <2>3
  <2>4. CASE p # 0
    <3>1. p \in good /\ p \in 1..Len(state)
      BY <1>1, <2>1, <2>4
    <3>2. \A a, b \in Ancestors(p) : a # b => Apart(a, b)
      BY <3>1
    <3>3. Ancestors(p) \subseteq 1..Len(state)
      BY <3>1, SummariesGrow
    <3>4. \A a \in 1..Len(state) : \A ref \in state[a].raw : ref[1] \in Nat
      BY DEF StatesOK, SummaryOK, SegmentOK, Positions
    <3>5. ASSUME NEW a \in Ancestors(p), NEW r \in state[a].raw, NEW s \in state[j].raw
          PROVE  r[1] # s[1]
      <4>1. r[1] \in Nat /\ s[1] \in Nat /\ r[1] <= state[p].to
        BY <3>1, <3>3, <3>4, SummariesGrow
      <4>2. s[1] > state[p].to
        BY <2>1, <2>2, <2>4 DEF SummaryOK, SegmentOK, CoveredTo
      <4>3. state[p].to \in Nat
        BY <3>1, <3>4 DEF StatesOK, SummaryOK
      <4> QED
        BY <4>1, <4>2, <4>3
    <3> QED
      BY <2>2, <3>2, <3>5
  <2> QED
    BY <2>3, <2>4
<1> HIDE DEF good
<1>2. 1..Len(state) \subseteq good
  BY <1>1, StateByState
<1> QED
  BY <1>2 DEF good

(* ... and none that was in time is left out.                              *)
LEMMA SummariesCover ==
  ASSUME StatesOK, NEW i \in 1..Len(state)
  PROVE  \A k \in Complete : k <= state[i].to /\ ~IsOvertaken(log[k])
            => \E v \in 1..2 : <<k, v>> \in Summarised(i)
<1> DEFINE good == {j \in 1..Len(state) :
                      \A k \in Complete : k <= state[j].to /\ ~IsOvertaken(log[k])
                         => \E v \in 1..2 : <<k, v>> \in Summarised(j)}
<1>1. ASSUME NEW j \in 1..Len(state), state[j].previous # 0 => state[j].previous \in good
      PROVE  j \in good
  <2>1. PICK p : p = state[j].previous
    OBVIOUS
  <2>2. SummaryOK(j) /\ Ancestors(j) = {j} \cup Ancestors(p) /\ Ancestors(0) = {}
    BY <2>1, AncestorsOf DEF StatesOK
  <2>3. state[j].raw \subseteq Summarised(j) /\ Summarised(p) \subseteq Summarised(j)
    BY <2>2 DEF Summarised
  <2>4. ASSUME NEW k \in Complete, k <= state[j].to, ~IsOvertaken(log[k])
        PROVE  \E v \in 1..2 : <<k, v>> \in Summarised(j)
    <3>1. k \in Nat \ {0}
      BY DEF Complete, Positions
    <3>2. CASE p # 0 /\ k <= state[p].to
      <4>1. p \in good
        BY <1>1, <2>1, <3>2
      <4>2. \E v \in 1..2 : <<k, v>> \in Summarised(p)
        BY <2>4, <3>2, <4>1
      <4> QED
        BY <2>3, <4>2
    <3>3. CASE p = 0 \/ ~(k <= state[p].to)
      <4>1. CoveredTo(p) \in Nat
        <5>1. p \in 0..(j - 1)
          BY <2>1, <2>2 DEF SummaryOK
        <5>2. p # 0 => SummaryOK(p) /\ p \in 1..Len(state)
          BY <5>1 DEF StatesOK
        <5>3. p # 0 => state[p].to \in Nat
          BY <5>2 DEF SummaryOK, SegmentOK, Positions
        <5> QED
          BY <5>3 DEF CoveredTo
      <4>2. CoveredTo(p) < k
        BY <3>1, <3>3, <4>1 DEF CoveredTo
      <4>3. PICK top \in state[j].raw : state[j].to = top[1]
        BY <2>2 DEF SummaryOK
      <4>4. \E v \in 1..2 : <<k, v>> \in state[j].raw
        BY <2>1, <2>2, <2>4, <4>2, <4>3 DEF SummaryOK, SegmentOK
      <4> QED
        BY <2>3, <4>4
    <3> QED
      BY <3>2, <3>3
  <2> QED
    BY <2>4
<1> HIDE DEF good
<1>2. 1..Len(state) \subseteq good
  BY <1>1, StateByState
<1> QED
  BY <1>2 DEF good

(* What a state summarises: its own messages and those of the previous one. *)
LEMMA SummarisedOf ==
  ASSUME StatesOK, NEW i \in 1..Len(state)
  PROVE  /\ state[i].previous \in 0..Len(state)
         /\ state[i].raw # {} /\ state[i].raw \subseteq Summarised(i)
         /\ state[i].previous = 0 => Summarised(i) = state[i].raw
         /\ state[i].previous # 0 =>
               Summarised(i) = state[i].raw \cup Summarised(state[i].previous)
         /\ \A ref \in Summarised(i) : ref \in Positions \X (1..2)
<1>1. PICK p : p = state[i].previous
  OBVIOUS
<1>2. SummaryOK(i) /\ Ancestors(i) = {i} \cup Ancestors(p) /\ Ancestors(0) = {}
  BY <1>1, AncestorsOf DEF StatesOK
<1>3. state[i].previous \in 0..Len(state) /\ state[i].raw # {}
  BY <1>2 DEF SummaryOK, StatesOK
<1>4. Summarised(i) = state[i].raw \cup UNION {state[j].raw : j \in Ancestors(p)}
  BY <1>2 DEF Summarised
<1>5. p = 0 => Summarised(i) = state[i].raw
  BY <1>2, <1>4
<1>6. Summarised(i) = state[i].raw \cup Summarised(p)
  BY <1>4 DEF Summarised
<1>7. ASSUME NEW ref \in Summarised(i) PROVE ref \in Positions \X (1..2)
  <2>1. PICK a \in Ancestors(i) : ref \in state[a].raw
    BY DEF Summarised
  <2>2. a \in 1..Len(state)
    BY <2>1, SummariesGrow
  <2> QED
    BY <2>1, <2>2 DEF StatesOK, SummaryOK, SegmentOK
<1> QED
  BY <1>1, <1>3, <1>4, <1>5, <1>6, <1>7

(* It stays the same when states are added or marked.                      *)
LEMMA SummarisedStays ==
  ASSUME StatesOK, Len(state') \in Nat, Len(state) <= Len(state'),
         \A j \in 1..Len(state') : state'[j].previous \in 0..(j - 1),
         \A j \in 1..Len(state) :
            state'[j].previous = state[j].previous /\ state'[j].raw = state[j].raw
  PROVE  \A i \in 1..Len(state) : Summarised(i)' = Summarised(i)
<1>1. PICK n \in Nat, m \in Nat : n = Len(state) /\ m = Len(state') /\ n <= m
  BY DEF StatesOK
<1>2. PICK rows : rows = state'
  OBVIOUS
<1>8. m = Len(rows) /\ \A j \in 1..m : rows[j].previous \in 0..(j - 1)
  BY <1>1, <1>2
<1>3. /\ Climb(rows)[0] = {}
      /\ \A j \in 1..m : Climb(rows)[j] = {j} \cup Climb(rows)[rows[j].previous]
  BY <1>8, ClimbOf
<1>4. \A i : Ancestors(i)' = Climb(rows)[i]
  BY <1>2, AncestorsAre
<1> DEFINE good == {j \in 1..Len(state) : Climb(rows)[j] = Ancestors(j)}
<1>5. ASSUME NEW j \in 1..Len(state), state[j].previous # 0 => state[j].previous \in good
      PROVE  j \in good
  <2>1. PICK p : p = state[j].previous
    OBVIOUS
  <2>2. j \in 1..m /\ rows[j].previous = p
    BY <1>1, <1>2, <2>1
  <2>3. Climb(rows)[p] = Ancestors(p)
    BY <1>3, <1>5, <2>1, AncestorsOf
  <2>4. Climb(rows)[j] = {j} \cup Climb(rows)[p]
    BY <1>3, <2>2
  <2>5. Ancestors(j) = {j} \cup Ancestors(p)
    BY <2>1, AncestorsOf
  <2> QED
    BY <2>3, <2>4, <2>5
<1> HIDE DEF good
<1>6. 1..Len(state) \subseteq good
  BY <1>5, StateByState
<1>7. ASSUME NEW i \in 1..Len(state) PROVE Summarised(i)' = Summarised(i)
  <2>1. Ancestors(i)' = Ancestors(i)
    BY <1>4, <1>6 DEF good
  <2>2. \A j \in Ancestors(i) : state'[j].raw = state[j].raw
    BY SummariesGrow
  <2> QED
    BY <2>1, <2>2 DEF Summarised
<1> QED
  BY <1>7

(* So a check goes on where it was.                                        *)
LEMMA BasisKept ==
  ASSUME NEW b, NEW c, BasisOK(c), basis'[b] = c, log' = log,
         Len(state) \in Nat, Len(state') \in Nat, Len(state) <= Len(state'),
         \A i \in 1..Len(state) : Summarised(i)' = Summarised(i)
  PROVE  BasisOK(basis[b])'
<1>1. CASE c.pc \in {"none", "stale"}
  BY <1>1 DEF BasisOK
<1>2. CASE ~(c.pc \in {"none", "stale"})
  <2>1. /\ c.pc \in {"lineage", "messages", "built"} /\ DOMAIN c = BasisFields
        /\ c.state \in 1..Len(state)
        /\ c.pc = "lineage" => /\ c.at \in 1..Len(state)
                               /\ Summarised(c.state) \subseteq c.left \cup Summarised(c.at)
        /\ c.pc # "lineage" => \A ref \in Summarised(c.state) : Checked(ref, c)
        /\ c.pc = "built" => c.left = {}
    BY <1>2 DEF BasisOK
  <2>2. PICK i, at, S, T : /\ i = c.state /\ at = c.at /\ S = Summarised(i) /\ T = Summarised(at)
    OBVIOUS
  <2>3. Summarised(i)' = S /\ (c.pc = "lineage" => Summarised(at)' = T)
    BY <2>1, <2>2
  <2>4. 1..Len(state) \subseteq 1..Len(state')
    OBVIOUS
  <2>5. c.pc # "lineage" => \A ref \in S : Checked(ref, c)'
    BY <2>1, <2>2 DEF Checked, MessageCurrent
  <2>6. Summarised(basis[b].state)' = S /\ (c.pc = "lineage" => Summarised(basis[b].at)' = T)
    BY <2>2, <2>3 DEF Summarised
  <2>7. c.pc # "lineage" => \A ref \in S : Checked(ref, basis[b])'
    BY <2>5 DEF Checked, MessageCurrent
  <2> QED
    BY <2>1, <2>2, <2>4, <2>6, <2>7 DEF BasisOK
<1> QED
  BY <1>1, <1>2

LEMMA CompactionStart == CompactionInit => CompactionInv
<1> SUFFICES ASSUME CompactionInit PROVE CompactionInv
  OBVIOUS
<1>1. LogOK
  BY DEF CompactionInit, LogOK, MessageFields
<1>2. state = <<>> /\ Len(state) = 0 /\ 1..0 = {} /\ DOMAIN state = {}
  BY DEF CompactionInit
<1>3. StatesOK
  BY <1>2 DEF StatesOK, Valid
<1>4. CompactorsOK
  BY DEF CompactionInit, CompactorsOK, CompactorOK
<1>5. BasesOK
  BY DEF CompactionInit, BasesOK, BasisOK
<1> QED
  BY <1>1, <1>3, <1>4, <1>5 DEF CompactionInv

(* A worker that stays where it is.                                        *)
LEMMA CompactorKept ==
  ASSUME NEW w, NEW c, CompactorOK(c), compactor'[w] = c,
         Len(state) \in Nat, Len(state') \in Nat, Len(state) <= Len(state'),
         \A p \in 0..Len(state) : \A raw : SegmentOK(p, raw) => SegmentOK(p, raw)',
         c.pc = "segment" /\ TailOK(c.tail) => TailOK(c.tail)'
  PROVE  CompactorOK(compactor[w])'
<1>1. CASE c.pc \in {"idle", "previous"}
  BY <1>1 DEF CompactorOK
<1>2. CASE c.pc = "tail"
  <2>1. c.previous \in 0..Len(state')
    BY <1>2 DEF CompactorOK
  <2> QED
    BY <1>2, <2>1 DEF CompactorOK
<1>3. CASE c.pc = "segment"
  <2>1. c.previous \in 0..Len(state') /\ TailOK(c.tail)'
    BY <1>3 DEF CompactorOK
  <2>2. TailOK(compactor[w].tail)'
    BY <2>1 DEF TailOK
  <2> QED
    BY <1>3, <2>1, <2>2 DEF CompactorOK
<1>4. CASE c.pc \in {"model", "sources", "commit"}
  <2>1. PICK p, raw : p = c.previous /\ raw = c.raw
    OBVIOUS
  <2>2. p \in 0..Len(state) /\ raw # {} /\ SegmentOK(p, raw)
    BY <1>4, <2>1 DEF CompactorOK
  <2>3. SegmentOK(p, raw)' /\ p \in 0..Len(state')
    BY <2>2
  <2>4. SegmentOK(compactor[w].previous, compactor[w].raw)'
    BY <2>1, <2>3 DEF SegmentOK, CoveredTo
  <2> QED
    BY <1>4, <2>1, <2>2, <2>3, <2>4 DEF CompactorOK
<1> QED
  BY <1>1, <1>2, <1>3, <1>4 DEF CompactorOK

(* A message that completes is overtaken if a later one has completed, so  *)
(* no segment misses it; and one that overtakes a tail marks it.           *)
LEMMA LogMoves ==
  ASSUME CompactionInv, LogOK', UNCHANGED <<state, compactor>>, BasesOK',
         Complete \subseteq Complete',
         \A k \in Complete : IsOvertaken(log[k]) => IsOvertaken(log'[k]),
         \A k \in Complete', j \in Complete : k \notin Complete /\ j > k => IsOvertaken(log'[k]),
         \A k \in Complete, j \in Complete' : j \notin Complete /\ j > k /\ InTail(k)
            => IsOvertaken(log'[k])
  PROVE  CompactionInv'
<1>1. ASSUME NEW p, NEW raw, SegmentOK(p, raw) PROVE SegmentOK(p, raw)'
  <2>1. CoveredTo(p)' = CoveredTo(p)
    BY DEF CoveredTo
  <2>2. \A ref \in raw : /\ ref \in Positions \X (1..2)
                         /\ ref[1] \in Complete /\ ref[1] > CoveredTo(p)
    BY <1>1 DEF SegmentOK
  <2>3. ASSUME NEW ref \in raw, NEW k \in Complete', CoveredTo(p) < k, k <= ref[1], ~IsOvertaken(log'[k])
        PROVE  \E v \in 1..2 : <<k, v>> \in raw
    <3>1. CASE k \in Complete
      <4>1. ~IsOvertaken(log[k])
        BY <2>3, <3>1
      <4> QED
        BY <1>1, <2>3, <3>1, <4>1 DEF SegmentOK
    <3>2. CASE k \notin Complete
      <4>1. ref[1] \in Complete /\ ref[1] # k
        BY <2>2, <3>2
      <4>2. ref[1] \in Nat /\ k \in Nat
        BY <2>2, <2>3 DEF Positions, Complete
      <4>3. ref[1] > k
        BY <2>3, <4>1, <4>2
      <4> QED
        BY <2>3, <3>2, <4>1, <4>3
    <3> QED
      BY <3>1, <3>2
  <2> QED
    BY <2>1, <2>2, <2>3 DEF SegmentOK, Positions
<1>2. ASSUME NEW i \in 1..Len(state) PROVE SummaryOK(i)'
  <2>1. SummaryOK(i)
    BY DEF CompactionInv, StatesOK
  <2>2. PICK p, raw : p = state[i].previous /\ raw = state[i].raw
    OBVIOUS
  <2>3. SegmentOK(p, raw)'
    BY <1>1, <2>1, <2>2 DEF SummaryOK
  <2>4. SegmentOK(state[i].previous, state[i].raw)'
    BY <2>2, <2>3 DEF SegmentOK, CoveredTo
  <2> QED
    BY <2>1, <2>4 DEF SummaryOK
<1>3. Valid' = Valid
  BY DEF Valid
<1>4. StatesOK'
  BY <1>2, <1>3 DEF CompactionInv, StatesOK
<1>5. ASSUME NEW w \in Compactors PROVE CompactorOK(compactor[w])'
  <2>1. PICK c : c = compactor[w]
    OBVIOUS
  <2>2. CompactorOK(c) /\ compactor'[w] = c
    BY <2>1 DEF CompactionInv, CompactorsOK
  <2>3. ASSUME c.pc = "segment", TailOK(c.tail) PROVE TailOK(c.tail)'
    <3>1. \A k \in c.tail : InTail(k)
      BY <2>1, <2>3 DEF InTail
    <3>2. c.tail \subseteq Complete'
      BY <2>3 DEF TailOK
    <3>3. ASSUME NEW k \in c.tail, NEW j \in Complete', j > k, j \notin c.tail
          PROVE  IsOvertaken(log'[k])
      <4>1. k \in Complete
        BY <2>3 DEF TailOK
      <4>2. CASE j \in Complete
        BY <2>3, <3>3, <4>1, <4>2 DEF TailOK
      <4>3. CASE j \notin Complete
        BY <3>1, <3>3, <4>1, <4>3
      <4> QED
        BY <4>2, <4>3
    <3> QED
      BY <3>2, <3>3 DEF TailOK, IsOvertaken
  <2>4. Len(state) \in Nat /\ Len(state') = Len(state)
    BY DEF CompactionInv, StatesOK
  <2> QED
    BY <1>1, <2>2, <2>3, <2>4, CompactorKept
<1>6. CompactorsOK'
  BY <1>5 DEF CompactionInv, CompactorsOK
<1> QED
  BY <1>4, <1>6 DEF CompactionInv

(* A check goes on too, and remembers what was edited.                     *)
GoesOn(c, d, edits) ==
    /\ d.pc = c.pc
    /\ c.pc = "stale" => DOMAIN d = {"pc", "state", "edited"}
    /\ ~(c.pc \in {"none", "stale"}) =>
          /\ DOMAIN d = BasisFields /\ d.state = c.state /\ d.at = c.at /\ d.left = c.left
          /\ c.edited \cup edits \subseteq d.edited

LEMMA BasesMove ==
  ASSUME CompactionInv, UNCHANGED state, NEW edits,
         \A k \in Complete : log'[k].status = "COMPLETE" /\ (log'[k].ver = log[k].ver \/ k \in edits),
         basis' = [b \in Builders |-> basis'[b]],
         \A b \in Builders : GoesOn(basis[b], basis'[b], edits)
  PROVE  BasesOK'
<1>1. \A i : Summarised(i)' = Summarised(i)
  <2>1. \A i : Ancestors(i)' = Ancestors(i)
    BY AncestorsAre
  <2> QED
    BY <2>1 DEF Summarised
<1>2. ASSUME NEW b \in Builders PROVE BasisOK(basis[b])'
  <2>1. PICK c, d : c = basis[b] /\ d = basis'[b]
    OBVIOUS
  <2>2. BasisOK(c) /\ GoesOn(c, d, edits)
    BY <2>1 DEF CompactionInv, BasesOK
  <2>3. CASE c.pc \in {"none", "stale"}
    BY <2>1, <2>2, <2>3 DEF BasisOK, GoesOn
  <2>4. CASE ~(c.pc \in {"none", "stale"})
    <3>1. /\ c.pc \in {"lineage", "messages", "built"}
          /\ c.state \in 1..Len(state)
          /\ c.pc = "lineage" => /\ c.at \in 1..Len(state)
                                 /\ Summarised(c.state) \subseteq c.left \cup Summarised(c.at)
          /\ c.pc # "lineage" => \A ref \in Summarised(c.state) : Checked(ref, c)
          /\ c.pc = "built" => c.left = {}
      BY <2>2, <2>4 DEF BasisOK
    <3>2. /\ d.pc = c.pc /\ DOMAIN d = BasisFields /\ d.state = c.state /\ d.at = c.at
          /\ d.left = c.left /\ c.edited \cup edits \subseteq d.edited
      BY <2>2, <2>4 DEF GoesOn
    <3>3. PICK S, T : S = Summarised(c.state) /\ T = Summarised(c.at)
      OBVIOUS
    <3>4. Summarised(basis[b].state)' = S /\ Summarised(basis[b].at)' = T
      <4>1. PICK i, j : i = c.state /\ j = c.at
        OBVIOUS
      <4>2. Summarised(i)' = S /\ Summarised(j)' = T
        BY <1>1, <3>3, <4>1
      <4> QED
        BY <2>1, <3>2, <4>1, <4>2 DEF Summarised
    <3>5. ASSUME c.pc # "lineage", NEW ref \in S PROVE Checked(ref, basis[b])'
      <4>1. Checked(ref, c) /\ ref \in Positions \X (1..2)
        BY <3>1, <3>3, <3>5, SummarisedOf DEF CompactionInv
      <4>2. CASE ref \in c.left \/ ref[1] \in c.edited
        BY <2>1, <3>2, <4>2 DEF Checked
      <4>3. CASE MessageCurrent(ref)
        <5>1. ref[1] \in Complete
          BY <4>1, <4>3 DEF MessageCurrent, Complete
        <5>2. MessageCurrent(ref)' \/ ref[1] \in edits
          BY <4>3, <5>1 DEF MessageCurrent
        <5> QED
          BY <2>1, <3>2, <5>2 DEF Checked
      <4> QED
        BY <4>1, <4>2, <4>3 DEF Checked
    <3> QED
      BY <2>1, <3>1, <3>2, <3>3, <3>4, <3>5 DEF BasisOK
  <2> QED
    BY <2>3, <2>4
<1> QED
  BY <1>2 DEF BasesOK

LEMMA LogSteps ==
  ASSUME CompactionInv, NEW k \in Positions,
         MessageStarts(k) \/ MessageCompletes(k) \/ MessageEdited(k)
  PROVE  CompactionInv'
<1>1. /\ log = [j \in Positions |-> log[j]]
      /\ \A j \in Positions : DOMAIN log[j] = MessageFields /\ log[j].ver \in 1..2
      /\ basis = [b \in Builders |-> basis[b]]
  BY DEF CompactionInv, LogOK, BasesOK
<1>2. UNCHANGED <<state, compactor>>
  BY DEF MessageStarts, MessageCompletes, MessageEdited
<1>3. ASSUME NEW c, BasisOK(c), NEW edits, edits = {} PROVE GoesOn(c, c, edits)
  BY <1>3 DEF GoesOn, BasisOK
<1>4. CASE MessageStarts(k)
  <2>1. PICK m : m = [log[k] EXCEPT !.status = "STREAMING"]
    OBVIOUS
  <2>2. log' = [log EXCEPT ![k] = m] /\ k \notin Complete /\ basis' = basis
    BY <1>1, <1>4, <2>1 DEF MessageStarts, Complete
  <2>3. DOMAIN m = MessageFields /\ m.ver = log[k].ver /\ m.status = "STREAMING"
    BY <1>1, <2>1 DEF MessageFields
  <2>4. /\ log' = [j \in Positions |-> log'[j]] /\ log'[k] = m
        /\ \A j \in Positions : j # k => log'[j] = log[j]
    BY <1>1, <2>2
  <2>5. LogOK'
    BY <1>1, <2>3, <2>4 DEF LogOK, Positions
  <2>6. Complete' = Complete /\ \A j \in Complete : log'[j] = log[j]
    BY <2>2, <2>3, <2>4 DEF Complete, Positions
  <2>7. PICK edits : edits = {}
    OBVIOUS
  <2>8. \A b \in Builders : GoesOn(basis[b], basis'[b], edits)
    BY <1>3, <2>2, <2>7 DEF CompactionInv, BasesOK
  <2>9. \A j \in Complete : log'[j].status = "COMPLETE" /\ (log'[j].ver = log[j].ver \/ j \in edits)
    BY <2>6 DEF Complete
  <2>10. BasesOK'
    BY <1>1, <1>2, <2>2, <2>8, <2>9, BasesMove
  <2> QED
    BY <1>2, <2>5, <2>6, <2>10, LogMoves
<1>5. CASE MessageCompletes(k)
  <2>1. /\ k \notin Complete /\ basis' = basis /\ log' = [j \in Positions |-> log'[j]]
        /\ \A j \in Positions :
              log'[j] = [status |-> IF j = k THEN "COMPLETE" ELSE log[j].status, ver |-> log[j].ver,
                         overtaken |-> log[j].overtaken \/ (j = k /\ \E i \in Complete : i > k)
                                                        \/ (j < k /\ InTail(j))]
    BY <1>5 DEF MessageCompletes, Complete
  <2>2. \A j \in Positions :
          /\ DOMAIN log'[j] = MessageFields /\ log'[j].ver = log[j].ver
          /\ log'[j].status = IF j = k THEN "COMPLETE" ELSE log[j].status
          /\ log[j].overtaken \/ (j = k /\ \E i \in Complete : i > k) \/ (j < k /\ InTail(j))
                => log'[j].overtaken
    <3>1. ASSUME NEW j \in Positions
          PROVE  /\ DOMAIN log'[j] = MessageFields /\ log'[j].ver = log[j].ver
                 /\ log'[j].status = IF j = k THEN "COMPLETE" ELSE log[j].status
      BY <2>1 DEF MessageFields
    <3>2. ASSUME NEW j \in Positions
          PROVE  log'[j].overtaken = (log[j].overtaken \/ (j = k /\ \E i \in Complete : i > k)
                                                      \/ (j < k /\ InTail(j)))
      BY <2>1
    <3> QED
      BY <3>1, <3>2
  <2>3. LogOK'
    BY <1>1, <2>1, <2>2 DEF LogOK, Positions
  <2>4. Complete' = Complete \cup {k}
    BY <2>2 DEF Complete, Positions
  <2>5. Complete \subseteq Positions
    BY DEF Complete
  <2>6. /\ \A j \in Complete : IsOvertaken(log[j]) => IsOvertaken(log'[j])
        /\ \A i \in Complete', j \in Complete : i \notin Complete /\ j > i => IsOvertaken(log'[i])
        /\ \A i \in Complete, j \in Complete' : j \notin Complete /\ j > i /\ InTail(i)
              => IsOvertaken(log'[i])
    <3>1. \A i, j \in Positions : j > i => i < j
      BY CompactionAssumption DEF Positions
    <3>2. ASSUME NEW j \in Complete, IsOvertaken(log[j]) PROVE IsOvertaken(log'[j])
      BY <2>2, <2>5, <3>2 DEF IsOvertaken
    <3>3. ASSUME NEW i \in Complete', NEW j \in Complete, i \notin Complete, j > i
          PROVE  IsOvertaken(log'[i])
      BY <2>2, <2>4, <3>3 DEF IsOvertaken
    <3>4. ASSUME NEW i \in Complete, NEW j \in Complete', j \notin Complete, j > i, InTail(i)
          PROVE  IsOvertaken(log'[i])
      BY <2>2, <2>4, <2>5, <3>1, <3>4 DEF IsOvertaken
    <3> QED
      BY <3>2, <3>3, <3>4
  <2>7. PICK edits : edits = {}
    OBVIOUS
  <2>8. \A b \in Builders : GoesOn(basis[b], basis'[b], edits)
    BY <1>3, <2>1, <2>7 DEF CompactionInv, BasesOK
  <2>9. \A j \in Complete : log'[j].status = "COMPLETE" /\ (log'[j].ver = log[j].ver \/ j \in edits)
    BY <2>2 DEF Complete
  <2>10. BasesOK'
    BY <1>1, <1>2, <2>1, <2>8, <2>9, BasesMove
  <2> QED
    BY <1>2, <2>3, <2>4, <2>6, <2>10, LogMoves
<1>6. CASE MessageEdited(k)
  <2>1. PICK m : m = [log[k] EXCEPT !.ver = 2]
    OBVIOUS
  <2>2. log' = [log EXCEPT ![k] = m] /\ k \in Complete
    BY <1>1, <1>6, <2>1 DEF MessageEdited, Complete
  <2>3. /\ DOMAIN m = MessageFields /\ m.ver = 2 /\ m.overtaken = log[k].overtaken
        /\ m.status = log[k].status
    BY <1>1, <2>1 DEF MessageFields
  <2>4. /\ log' = [j \in Positions |-> log'[j]] /\ log'[k] = m
        /\ \A j \in Positions : j # k => log'[j] = log[j]
    BY <1>1, <2>2
  <2>5. LogOK'
    <3>1. m.ver \in 1..2
      BY <2>3
    <3> QED
      BY <1>1, <2>3, <2>4, <3>1 DEF LogOK, Positions
  <2>6. Complete' = Complete /\ \A j \in Complete : IsOvertaken(log[j]) => IsOvertaken(log'[j])
    BY <2>2, <2>3, <2>4 DEF Complete, Positions, IsOvertaken
  <2>7. PICK edits : edits = {k}
    OBVIOUS
  <2>8. /\ basis' = [b \in Builders |-> basis'[b]]
        /\ \A b \in Builders :
             basis'[b] = IF basis[b].pc = "none" THEN basis[b]
                         ELSE [basis[b] EXCEPT !.edited = @ \cup {k}]
    BY <1>6 DEF MessageEdited
  <2>9. ASSUME NEW b \in Builders PROVE GoesOn(basis[b], basis'[b], edits)
    <3>1. PICK c, d : c = basis[b] /\ d = basis'[b]
      OBVIOUS
    <3>2. BasisOK(c) /\ d = IF c.pc = "none" THEN c ELSE [c EXCEPT !.edited = @ \cup {k}]
      BY <2>8, <3>1 DEF CompactionInv, BasesOK
    <3>3. CASE c.pc = "none"
      BY <3>1, <3>2, <3>3 DEF GoesOn
    <3>4. CASE c.pc = "stale"
      <4>1. DOMAIN c = {"pc", "state", "edited"} /\ d = [c EXCEPT !.edited = @ \cup {k}]
        BY <3>2, <3>4 DEF BasisOK
      <4>2. DOMAIN d = DOMAIN c /\ d.pc = c.pc
        BY <4>1
      <4> QED
        BY <3>1, <3>4, <4>1, <4>2 DEF GoesOn
    <3>5. CASE ~(c.pc \in {"none", "stale"})
      <4>1. DOMAIN c = BasisFields /\ d = [c EXCEPT !.edited = @ \cup {k}]
        BY <3>2, <3>5 DEF BasisOK
      <4>2. /\ DOMAIN d = DOMAIN c /\ d.pc = c.pc /\ d.state = c.state /\ d.at = c.at
            /\ d.left = c.left /\ d.edited = c.edited \cup {k}
        BY <4>1 DEF BasisFields
      <4> QED
        BY <2>7, <3>1, <3>5, <4>1, <4>2 DEF GoesOn
    <3> QED
      BY <3>3, <3>4, <3>5
  <2>10. \A j \in Complete : log'[j].status = "COMPLETE" /\ (log'[j].ver = log[j].ver \/ j \in edits)
    BY <2>3, <2>4, <2>7 DEF Complete
  <2>11. BasesOK'
    BY <1>2, <2>8, <2>9, <2>10, BasesMove
  <2> QED
    BY <1>2, <2>5, <2>6, <2>11, LogMoves
<1> QED
  BY <1>4, <1>5, <1>6

(* What completed is finitely many positions.                              *)
LEMMA CompleteIsFinite ==
  /\ Complete \subseteq Positions /\ Positions \subseteq Nat
  /\ \A S \in SUBSET Complete :
        /\ IsFiniteSet(S) /\ Cardinality(S) \in Nat
        /\ \A T \in SUBSET S : Cardinality(T) <= Cardinality(S) /\ Cardinality(T) \in Nat
<1>1. IsFiniteSet(1..History)
  BY CompactionAssumption, FS_Interval
<1>2. Complete \in SUBSET Positions
  BY DEF Complete
<1>3. Complete \in SUBSET (1..History)
  BY <1>2 DEF Positions
<1>4. IsFiniteSet(Complete)
  BY <1>1, <1>3, FS_Subset
<1>5. \A S \in SUBSET Complete : IsFiniteSet(S)
  BY <1>4, FS_Subset
<1>6. \A S \in SUBSET Complete :
        /\ IsFiniteSet(S) /\ Cardinality(S) \in Nat
        /\ \A T \in SUBSET S : Cardinality(T) <= Cardinality(S) /\ Cardinality(T) \in Nat
  BY <1>5, FS_Subset, FS_CardinalityType
<1>7. Positions \subseteq Nat
  BY CompactionAssumption DEF Positions
<1> QED
  BY <1>2, <1>6, <1>7

(* The newest messages: whatever follows one of them is one of them.       *)
LEMMA TailRead == TailOK(recentTailIds)
<1>1. ASSUME NEW k \in recentTailIds, NEW m \in Complete, m > k PROVE m \in recentTailIds
  <2>1. k \in Complete /\ k \in Nat /\ m \in Nat
    BY CompleteIsFinite DEF recentTailIds
  <2>2. PICK S, T : S = {j \in Complete : j >= k} /\ T = {j \in Complete : j >= m}
    OBVIOUS
  <2>3. S \in SUBSET Complete /\ T \in SUBSET S
    <3>1. \A j \in Complete : j \in Nat
      BY CompleteIsFinite
    <3>2. \A j \in Complete : j >= m => j >= k
      BY <1>1, <2>1, <3>1
    <3> QED
      BY <2>2, <3>2
  <2>4. Cardinality(T) <= Cardinality(S) /\ Cardinality(T) \in Nat /\ Cardinality(S) \in Nat
    BY <2>3, CompleteIsFinite
  <2>5. Cardinality(S) <= RecentTail
    BY <2>2 DEF recentTailIds
  <2>6. Cardinality(T) <= RecentTail
    BY <2>4, <2>5, CompactionAssumption
  <2> QED
    BY <2>2, <2>6 DEF recentTailIds
<1>2. recentTailIds \subseteq Complete
  BY DEF recentTailIds
<1> QED
  BY <1>1, <1>2 DEF TailOK

(* Reading: the oldest messages after a state that were not in the tail,   *)
(* so none before the last of them is left out unless it was overtaken.    *)
LEMMA SegmentRead ==
  ASSUME CompactionInv, NEW p, NEW tail, TailOK(tail)
  PROVE  SegmentOK(p, {<<k, log[k].ver>> : k \in nextCompactionSegment(p, tail)})
<1> DEFINE seg == nextCompactionSegment(p, tail)
           raw == {<<k, log[k].ver>> : k \in seg}
           rest == {k \in Complete \ tail : k > CoveredTo(p)}
<1>1. Complete \subseteq Positions /\ Positions \subseteq Nat
  BY CompleteIsFinite
<1>2. seg \subseteq rest /\ rest \subseteq Complete
  BY DEF nextCompactionSegment, OldestFirst
<1>3. \A k \in Positions : log[k].ver \in 1..2
  BY DEF CompactionInv, LogOK
<1>4. ASSUME NEW ref \in raw
      PROVE  ref \in Positions \X (1..2) /\ ref[1] \in seg /\ ref[1] > CoveredTo(p)
  <2>1. PICK k \in seg : ref = <<k, log[k].ver>>
    OBVIOUS
  <2> HIDE DEF seg, raw
  <2>2. k \in rest /\ k \in Positions
    BY <1>1, <1>2
  <2>3. k > CoveredTo(p)
    BY <2>2
  <2> QED
    BY <1>3, <2>1, <2>2, <2>3
<1>5. ASSUME NEW m \in seg, NEW k \in Complete, CoveredTo(p) < k, k <= m, ~IsOvertaken(log[k])
      PROVE  k \in seg
  <2>1. m \in Nat /\ k \in Nat /\ m \in rest /\ m \notin tail /\ m \in Complete
    BY <1>1, <1>2
  <2>2. k \notin tail
    <3>1. SUFFICES ASSUME k \in tail PROVE FALSE
      OBVIOUS
    <3>2. m > k
      BY <1>5, <2>1, <3>1
    <3> QED
      BY <1>5, <2>1, <3>1, <3>2 DEF TailOK
  <2>3. k \in rest
    BY <1>1, <1>5, <2>1, <2>2
  <2>4. PICK S, T : S = {j \in rest : j <= m} /\ T = {j \in rest : j <= k}
    OBVIOUS
  <2>5. rest \subseteq Nat
    BY <1>1, <1>2
  <2>6. S \in SUBSET Complete /\ T \in SUBSET S
    <3> HIDE DEF rest
    <3> QED
      <4>1. \A j \in rest : j \in Nat
        BY <2>5
      <4>2. \A j \in rest : j <= k => j <= m
        BY <1>5, <2>1, <4>1
      <4> QED
        BY <1>2, <2>4, <4>2
  <2>7. Cardinality(T) <= Cardinality(S) /\ Cardinality(T) \in Nat /\ Cardinality(S) \in Nat
    BY <2>6, CompleteIsFinite
  <2>8. Cardinality(S) <= Segment
    BY <2>4 DEF nextCompactionSegment, OldestFirst
  <2>9. Cardinality(T) <= Segment
    BY <2>7, <2>8, CompactionAssumption
  <2> QED
    BY <2>3, <2>4, <2>9 DEF nextCompactionSegment, OldestFirst
<1>6. ASSUME NEW ref \in raw, NEW k \in Complete, CoveredTo(p) < k, k <= ref[1],
             ~IsOvertaken(log[k])
      PROVE  \E v \in 1..2 : <<k, v>> \in raw
  <2>1. ref[1] \in seg
    BY <1>4
  <2>2. k \in seg
    <3> HIDE DEF seg, raw
    <3> QED
      BY <1>5, <1>6, <2>1
  <2>3. <<k, log[k].ver>> \in raw /\ log[k].ver \in 1..2
    BY <1>1, <1>3, <2>2
  <2> QED
    BY <2>3
<1>7. \A ref \in raw : ref[1] \in Complete
  BY <1>2, <1>4
<1> HIDE DEF raw, seg
<1>8. SegmentOK(p, raw)
  BY <1>4, <1>6, <1>7 DEF SegmentOK
<1> QED
  BY <1>8 DEF raw, seg

(* The greatest of some positions. *)
LEMMA GreatestOf ==
  ASSUME NEW S \in SUBSET Nat, S # {}, NEW N \in Nat, \A x \in S : x <= N
  PROVE  Max(S) \in S /\ \A x \in S : x <= Max(S)
<1>1. PICK T : T = {b \in Nat : \A x \in S : x <= b}
  OBVIOUS
<1>2. PICK m \in T : \A b \in T : m <= b
  BY <1>1, LeastRow
<1>3. m \in S
  <2>1. SUFFICES ASSUME m \notin S PROVE FALSE
    OBVIOUS
  <2>2. PICK y \in S : TRUE
    OBVIOUS
  <2>3. m \in Nat /\ y <= m /\ y # m /\ y \in Nat
    BY <1>1, <2>1
  <2>4. m - 1 \in Nat /\ ~(m <= m - 1)
    BY <2>3
  <2>5. \A x \in S : x \in Nat /\ x <= m /\ x # m
    BY <1>1, <2>1
  <2>6. \A x \in S : x <= m - 1
    BY <2>3, <2>5
  <2> QED
    BY <1>1, <1>2, <2>4, <2>6
<1>4. \A y \in S : m >= y
  BY <1>1
<1>5. Max(S) \in S /\ \A y \in S : Max(S) >= y
  BY <1>3, <1>4 DEF Max
<1> QED
  BY <1>5

LEMMA ValidStates ==
  ASSUME StatesOK
  PROVE  /\ Valid \subseteq 1..Len(state) /\ DOMAIN state = 1..Len(state)
         /\ Latest \in 0..Len(state)
<1>1. DOMAIN state = 1..Len(state) /\ Len(state) \in Nat
  BY DEF StatesOK
<1>2. Valid \subseteq 1..Len(state)
  BY <1>1 DEF Valid
<1>3. Latest \in 0..Len(state)
  <2>1. CASE Valid = {}
    BY <1>1, <2>1 DEF Latest
  <2>2. CASE Valid # {}
    <3>1. Valid \in SUBSET Nat /\ \A x \in Valid : x <= Len(state)
      BY <1>1, <1>2
    <3>2. Max(Valid) \in Valid
      BY <1>1, <2>2, <3>1, GreatestOf
    <3> QED
      <4>1. Latest = Max(Valid) /\ Max(Valid) \in 1..Len(state)
        BY <1>2, <2>2, <3>2 DEF Latest
      <4> QED
        BY <1>1, <4>1
  <2> QED
    BY <2>1, <2>2
<1> QED
  BY <1>1, <1>2, <1>3

(* The states and the log are left alone.                                  *)
LEMMA StatesStay ==
  ASSUME CompactionInv, UNCHANGED <<log, state>>
  PROVE  /\ LogOK' /\ StatesOK' /\ Len(state) \in Nat /\ Len(state') = Len(state)
         /\ \A p \in 0..Len(state) : \A raw : SegmentOK(p, raw) => SegmentOK(p, raw)'
         /\ \A tail : TailOK(tail) => TailOK(tail)'
         /\ \A i \in 1..Len(state) : Summarised(i)' = Summarised(i)
<1>1. LogOK' /\ Valid' = Valid /\ Complete' = Complete
  BY DEF CompactionInv, LogOK, Valid, Complete, Positions
<1>2. \A i : SummaryOK(i) => SummaryOK(i)'
  BY <1>1 DEF SummaryOK, SegmentOK, CoveredTo, Positions
<1>3. StatesOK'
  BY <1>1, <1>2 DEF CompactionInv, StatesOK
<1>4. \A p \in 0..Len(state) : \A raw : SegmentOK(p, raw) => SegmentOK(p, raw)'
  BY <1>1 DEF SegmentOK, CoveredTo, Positions
<1>5. \A tail : TailOK(tail) => TailOK(tail)'
  BY <1>1 DEF TailOK
<1>6. \A i : Summarised(i)' = Summarised(i)
  <2>1. \A i : Ancestors(i)' = Ancestors(i)
    BY AncestorsAre
  <2> QED
    BY <2>1 DEF Summarised
<1> QED
  BY <1>1, <1>3, <1>4, <1>5, <1>6 DEF CompactionInv, StatesOK

LEMMA WorkerMoves ==
  ASSUME CompactionInv, NEW w \in Compactors, NEW c, CompactorOK(c),
         compactor' = [compactor EXCEPT ![w] = c], UNCHANGED <<log, state, basis>>
  PROVE  CompactionInv'
<1>1. /\ LogOK' /\ StatesOK' /\ Len(state) \in Nat /\ Len(state') = Len(state)
      /\ \A p \in 0..Len(state) : \A raw : SegmentOK(p, raw) => SegmentOK(p, raw)'
      /\ \A tail : TailOK(tail) => TailOK(tail)'
      /\ \A i \in 1..Len(state) : Summarised(i)' = Summarised(i)
  BY StatesStay
<1>2. /\ compactor' = [v \in Compactors |-> compactor'[v]] /\ compactor'[w] = c
      /\ \A v \in Compactors : v # w => compactor'[v] = compactor[v]
  BY DEF CompactionInv, CompactorsOK
<1>3. ASSUME NEW v \in Compactors PROVE CompactorOK(compactor[v])'
  <2>1. PICK d : d = compactor'[v]
    OBVIOUS
  <2>2. CompactorOK(d)
    BY <1>2, <2>1 DEF CompactionInv, CompactorsOK
  <2> QED
    BY <1>1, <2>1, <2>2, CompactorKept
<1>4. ASSUME NEW b \in Builders PROVE BasisOK(basis[b])'
  <2>1. PICK d : d = basis'[b]
    OBVIOUS
  <2>2. BasisOK(d)
    BY <2>1 DEF CompactionInv, BasesOK
  <2> QED
    BY <1>1, <2>1, <2>2, BasisKept
<1>5. CompactorsOK'
  BY <1>2, <1>3 DEF CompactorsOK
<1>6. BasesOK'
  BY <1>4 DEF CompactionInv, BasesOK
<1> QED
  BY <1>1, <1>5, <1>6 DEF CompactionInv

LEMMA BuilderMoves ==
  ASSUME CompactionInv, NEW b \in Builders, NEW c, BasisOK(c),
         basis' = [basis EXCEPT ![b] = c], UNCHANGED <<log, state, compactor>>
  PROVE  CompactionInv'
<1>1. /\ LogOK' /\ StatesOK' /\ Len(state) \in Nat /\ Len(state') = Len(state)
      /\ \A p \in 0..Len(state) : \A raw : SegmentOK(p, raw) => SegmentOK(p, raw)'
      /\ \A tail : TailOK(tail) => TailOK(tail)'
      /\ \A i \in 1..Len(state) : Summarised(i)' = Summarised(i)
  BY StatesStay
<1>2. /\ basis' = [v \in Builders |-> basis'[v]] /\ basis'[b] = c
      /\ \A v \in Builders : v # b => basis'[v] = basis[v]
  BY DEF CompactionInv, BasesOK
<1>3. ASSUME NEW v \in Compactors PROVE CompactorOK(compactor[v])'
  <2>1. PICK d : d = compactor'[v]
    OBVIOUS
  <2>2. CompactorOK(d)
    BY <2>1 DEF CompactionInv, CompactorsOK
  <2> QED
    BY <1>1, <2>1, <2>2, CompactorKept
<1>4. ASSUME NEW v \in Builders PROVE BasisOK(basis[v])'
  <2>1. PICK d : d = basis'[v]
    OBVIOUS
  <2>2. BasisOK(d)
    BY <1>2, <2>1 DEF CompactionInv, BasesOK
  <2> QED
    BY <1>1, <2>1, <2>2, BasisKept
<1>5. CompactorsOK'
  BY <1>3 DEF CompactionInv, CompactorsOK
<1>6. BasesOK'
  BY <1>2, <1>4 DEF BasesOK
<1> QED
  BY <1>1, <1>5, <1>6 DEF CompactionInv

(* States are added or marked, and none forgets what it is made of.        *)
LEMMA StatesMove ==
  ASSUME CompactionInv, log' = log, NEW n \in Nat, n = Len(state),
         Len(state') \in Nat, n <= Len(state'), ListOf(state', Len(state')),
         \A j \in 1..n : /\ DOMAIN state'[j] = StateFields /\ state'[j].raw = state[j].raw
                         /\ state'[j].previous = state[j].previous /\ state'[j].to = state[j].to
  PROVE  /\ LogOK'
         /\ \A p \in 0..n : \A raw : SegmentOK(p, raw) => SegmentOK(p, raw)'
         /\ \A j \in 1..n : SummaryOK(j)'
<1>1. LogOK' /\ Complete' = Complete
  BY DEF CompactionInv, LogOK, Complete, Positions
<1>2. ASSUME NEW p \in 0..n, NEW raw, SegmentOK(p, raw) PROVE SegmentOK(p, raw)'
  <2>1. CoveredTo(p)' = CoveredTo(p)
    <3>1. p # 0 => p \in 1..n
      OBVIOUS
    <3> QED
      BY <3>1 DEF CoveredTo
  <2> QED
    BY <1>1, <1>2, <2>1 DEF SegmentOK, Positions
<1>3. ASSUME NEW j \in 1..n PROVE SummaryOK(j)'
  <2>1. SummaryOK(j)
    BY DEF CompactionInv, StatesOK
  <2>2. PICK p, raw : p = state[j].previous /\ raw = state[j].raw
    OBVIOUS
  <2>3. p \in 0..n /\ SegmentOK(p, raw)
    BY <2>1, <2>2 DEF SummaryOK
  <2>4. SegmentOK(p, raw)'
    BY <1>2, <2>3
  <2>5. SegmentOK(state[j].previous, state[j].raw)'
    BY <2>2, <2>4 DEF SegmentOK, CoveredTo
  <2> QED
    BY <2>1, <2>5 DEF SummaryOK
<1> QED
  BY <1>1, <1>2, <1>3

(* Whoever else works or builds goes on.                                   *)
LEMMA OthersStand ==
  ASSUME CompactionInv, log' = log, NEW n \in Nat, n = Len(state),
         Len(state') \in Nat, n <= Len(state'), \A i \in 1..Len(state') : SummaryOK(i)',
         \A p \in 0..n : \A raw : SegmentOK(p, raw) => SegmentOK(p, raw)',
         \A j \in 1..n : state'[j].raw = state[j].raw /\ state'[j].previous = state[j].previous,
         compactor' = [v \in Compactors |-> compactor'[v]],
         \A v \in Compactors : compactor'[v] = compactor[v] \/ compactor'[v].pc = "idle",
         basis' = [b \in Builders |-> basis'[b]],
         \A b \in Builders : basis'[b] = basis[b] \/ basis'[b].pc = "none"
  PROVE  CompactorsOK' /\ BasesOK'
<1>1. \A tail : TailOK(tail) => TailOK(tail)'
  <2>1. Complete' = Complete
    BY DEF Complete
  <2> QED
    BY <2>1 DEF TailOK
<1>2. \A i \in 1..Len(state) : Summarised(i)' = Summarised(i)
  <2>1. \A j \in 1..Len(state') : state'[j].previous \in 0..(j - 1)
    BY DEF SummaryOK
  <2> QED
    BY <2>1, SummarisedStays DEF CompactionInv
<1>3. ASSUME NEW v \in Compactors PROVE CompactorOK(compactor[v])'
  <2>1. PICK d : d = compactor'[v]
    OBVIOUS
  <2>2. CompactorOK(d)
    BY <2>1 DEF CompactionInv, CompactorsOK, CompactorOK
  <2> QED
    BY <1>1, <2>1, <2>2, CompactorKept
<1>4. ASSUME NEW b \in Builders PROVE BasisOK(basis[b])'
  <2>1. PICK d : d = basis'[b]
    OBVIOUS
  <2>2. BasisOK(d)
    BY <2>1 DEF CompactionInv, BasesOK, BasisOK
  <2> QED
    BY <1>2, <2>1, <2>2, BasisKept
<1> QED
  BY <1>3, <1>4 DEF CompactorsOK, BasesOK

(* A new state is above the previous one, and the only valid one.          *)
LEMMA NewSummary ==
  ASSUME CompactionInv, NEW n \in Nat, n = Len(state), NEW p \in 0..n, NEW raw,
         raw # {}, SegmentOK(p, raw)
  PROVE  /\ \E ref \in raw : NewState(p, raw).to = ref[1]
         /\ \A ref \in raw : ref[1] <= NewState(p, raw).to
<1>1. PICK S : S = {ref[1] : ref \in raw} \cup {CoveredTo(p)}
  OBVIOUS
<1>2. NewState(p, raw).to = Max(S)
  BY <1>1 DEF NewState
<1>3. \A ref \in raw : ref[1] \in 1..History /\ ref[1] > CoveredTo(p)
  BY DEF SegmentOK, Positions
<1>4. CoveredTo(p) \in 0..History
  <2>1. CASE p = 0
    BY <2>1, CompactionAssumption DEF CoveredTo
  <2>2. CASE p # 0
    <3>1. SummaryOK(p)
      BY <2>2 DEF CompactionInv, StatesOK
    <3> QED
      BY <2>2, <3>1 DEF SummaryOK, SegmentOK, Positions, CoveredTo
  <2> QED
    BY <2>1, <2>2
<1>5. S \in SUBSET (0..History) /\ S # {}
  BY <1>1, <1>3, <1>4, CompactionAssumption
<1>6. Max(S) \in S /\ \A x \in S : x <= Max(S)
  <2>1. S \in SUBSET Nat /\ \A x \in S : x <= History
    BY <1>5
  <2> QED
    BY <1>5, <2>1, GreatestOf, CompactionAssumption
<1>7. \A ref \in raw : ref[1] <= Max(S)
  BY <1>1, <1>6
<1>8. \E ref \in raw : Max(S) = ref[1]
  <2>1. PICK ref \in raw : TRUE
    OBVIOUS
  <2>2. ref[1] > CoveredTo(p) /\ ref[1] <= Max(S) /\ ref[1] \in Nat
    BY <1>3, <1>7, <2>1
  <2>3. Max(S) # CoveredTo(p)
    BY <1>4, <2>2
  <2> QED
    BY <1>1, <1>6, <2>3
<1> QED
  BY <1>2, <1>7, <1>8

LEMMA RefreshSteps ==
  ASSUME CompactionInv, NEW w \in Compactors, refresh(w)
  PROVE  CompactionInv'
<1>1. PICK c : c = compactor[w]
  OBVIOUS
<1>2. /\ compactor' = [compactor EXCEPT ![w] = [pc |-> "idle"]] /\ log' = log /\ basis' = basis
      /\ c.pc = "commit"
  BY <1>1 DEF refresh, Works
<1>3. CASE state' = state
  <2>1. CompactorOK([pc |-> "idle"])
    BY DEF CompactorOK
  <2> QED
    BY <1>2, <1>3, <2>1, WorkerMoves
<1>4. CASE state' # state
  <2>1. PICK n \in Nat : n = Len(state)
    BY DEF CompactionInv, StatesOK
  <2>2. DOMAIN state = 1..n /\ Valid \subseteq 1..n
    BY <2>1, ValidStates DEF CompactionInv
  <2>3. PICK olds : olds = [i \in 1..n |-> IF i \in Valid THEN [state[i] EXCEPT !.valid = "SUPERSEDED"]
                                           ELSE state[i]]
    OBVIOUS
  <2>4. PICK row : row = NewState(c.previous, c.raw)
    OBVIOUS
  <2>5. state' = Append(olds, row)
    BY <1>1, <1>4, <2>2, <2>3, <2>4 DEF refresh
  <2>6. ListOf(olds, n)
    BY <2>3 DEF ListOf
  <2>7. /\ ListOf(state', n + 1) /\ Len(state') = n + 1
        /\ \A j \in 1..n : state'[j] = olds[j]
        /\ state'[n + 1] = row
    BY <2>5, <2>6, Appended
  <2>8. ASSUME NEW j \in 1..n
        PROVE  /\ DOMAIN state'[j] = StateFields /\ state'[j].raw = state[j].raw
               /\ state'[j].previous = state[j].previous /\ state'[j].to = state[j].to
               /\ state'[j].valid # "yes"
    <3>1. DOMAIN state[j] = StateFields
      BY <2>1 DEF CompactionInv, StatesOK, SummaryOK
    <3>2. j \notin Valid => state[j].valid # "yes"
      BY <2>2 DEF Valid
    <3>3. state'[j] = IF j \in Valid THEN [state[j] EXCEPT !.valid = "SUPERSEDED"] ELSE state[j]
      BY <2>3, <2>7
    <3> QED
      BY <3>1, <3>2, <3>3 DEF StateFields
  <2>9. /\ LogOK'
        /\ \A p \in 0..n : \A raw : SegmentOK(p, raw) => SegmentOK(p, raw)'
        /\ \A j \in 1..n : SummaryOK(j)'
    <3>1. Len(state') \in Nat /\ n <= Len(state') /\ ListOf(state', Len(state'))
      BY <2>7
    <3> QED
      BY <1>2, <2>1, <2>8, <3>1, StatesMove
  <2>10. PICK p, raw : p = c.previous /\ raw = c.raw
    OBVIOUS
  <2>11. p \in 0..n /\ raw # {} /\ SegmentOK(p, raw)
    BY <1>1, <1>2, <2>1, <2>10 DEF CompactionInv, CompactorsOK, CompactorOK
  <2>12. /\ DOMAIN row = StateFields /\ row.previous = p /\ row.raw = raw /\ row.valid = "yes"
         /\ \E ref \in raw : row.to = ref[1]
         /\ \A ref \in raw : ref[1] <= row.to
    <3>1. DOMAIN row = StateFields /\ row.previous = p /\ row.raw = raw /\ row.valid = "yes"
      BY <2>4, <2>10 DEF NewState, StateFields
    <3> QED
      BY <2>1, <2>4, <2>10, <2>11, <3>1, NewSummary
  <2>13. SummaryOK(n + 1)'
    <3>1. SegmentOK(p, raw)'
      BY <2>9, <2>11
    <3>2. SegmentOK(state[n + 1].previous, state[n + 1].raw)'
      BY <2>7, <2>12, <3>1 DEF SegmentOK, CoveredTo
    <3>3. p \in 0..((n + 1) - 1)
      BY <2>11
    <3> QED
      BY <2>7, <2>12, <3>2, <3>3 DEF SummaryOK
  <2>14. DOMAIN state' = 1..(n + 1)
    BY <2>7 DEF ListOf
  <2>15. Valid' \subseteq {n + 1}
    <3>1. \A i \in 1..(n + 1) : i \in 1..n \/ i = n + 1
      OBVIOUS
    <3> QED
      BY <2>8, <2>14, <3>1 DEF Valid
  <2>16. StatesOK'
    <3>1. \A i \in 1..(n + 1) : i \in 1..n \/ i = n + 1
      OBVIOUS
    <3>2. \A i \in 1..(n + 1) : SummaryOK(i)'
      BY <2>9, <2>13, <3>1
    <3>3. state' = [i \in 1..(n + 1) |-> state'[i]]
      BY <2>7 DEF ListOf
    <3> QED
      BY <2>7, <2>15, <3>2, <3>3 DEF StatesOK
  <2>17. CompactorsOK' /\ BasesOK'
    <3>1. /\ compactor' = [v \in Compactors |-> compactor'[v]]
          /\ \A v \in Compactors : compactor'[v] = compactor[v] \/ compactor'[v].pc = "idle"
      BY <1>2 DEF CompactionInv, CompactorsOK
    <3>2. basis' = [b \in Builders |-> basis'[b]] /\ \A b \in Builders : basis'[b] = basis[b]
      BY <1>2 DEF CompactionInv, BasesOK
    <3>3. Len(state') \in Nat /\ n <= Len(state') /\ \A i \in 1..Len(state') : SummaryOK(i)'
      BY <2>7, <2>16 DEF StatesOK
    <3>4. \A j \in 1..n : state'[j].raw = state[j].raw /\ state'[j].previous = state[j].previous
      BY <2>8
    <3> QED
      BY <1>2, <2>1, <2>9, <3>1, <3>2, <3>3, <3>4, OthersStand
  <2> QED
    BY <2>9, <2>16, <2>17 DEF CompactionInv
<1> QED
  BY <1>3, <1>4

LEMMA WorkerSteps ==
  ASSUME CompactionInv, NEW w \in Compactors,
         \/ compactConversation(w) \/ ReadPrevious(w) \/ ReadTail(w) \/ ReadSegment(w)
         \/ LockScope(w) \/ resolveCompactionSources(w) \/ CompactionFails(w)
  PROVE  CompactionInv'
<1>1. PICK c : c = compactor[w]
  OBVIOUS
<1>2. CompactorOK(c) /\ CompactorOK([pc |-> "idle"])
  BY <1>1 DEF CompactionInv, CompactorsOK, CompactorOK
<1>3. UNCHANGED <<log, state, basis>>
  BY DEF compactConversation, ReadPrevious, ReadTail, ReadSegment, LockScope,
         resolveCompactionSources, CompactionFails, Works
<1>4. SUFFICES ASSUME TRUE
               PROVE  \E d : CompactorOK(d) /\ compactor' = [compactor EXCEPT ![w] = d]
  BY <1>3, WorkerMoves
<1>5. CASE compactConversation(w)
  <2>1. CompactorOK([pc |-> "previous"])
    BY DEF CompactorOK
  <2> QED
    BY <1>5, <2>1 DEF compactConversation, Works
<1>6. CASE ReadPrevious(w)
  <2>1. PICK d : d = [pc |-> "tail", previous |-> Latest]
    OBVIOUS
  <2>2. CompactorOK(d)
    BY <2>1, ValidStates DEF CompactionInv, CompactorOK
  <2> QED
    BY <1>6, <2>1, <2>2 DEF ReadPrevious, Works
<1>7. CASE ReadTail(w)
  <2>1. PICK d : d = [pc |-> "segment", previous |-> c.previous, tail |-> recentTailIds]
    OBVIOUS
  <2>2. c.pc = "tail" /\ compactor' = [compactor EXCEPT ![w] = d]
    BY <1>1, <1>7, <2>1 DEF ReadTail, Works
  <2>3. c.previous \in 0..Len(state)
    BY <1>2, <2>2 DEF CompactorOK
  <2>4. CompactorOK(d)
    BY <2>1, <2>3, TailRead DEF CompactorOK
  <2> QED
    BY <2>2, <2>4
<1>8. CASE ReadSegment(w)
  <2>1. PICK p, tail : p = c.previous /\ tail = c.tail
    OBVIOUS
  <2>2. c.pc = "segment"
    BY <1>1, <1>8 DEF ReadSegment
  <2>3. p \in 0..Len(state) /\ TailOK(tail)
    BY <1>2, <2>1, <2>2 DEF CompactorOK
  <2>4. PICK raw : raw = {<<k, log[k].ver>> : k \in nextCompactionSegment(p, tail)}
    OBVIOUS
  <2>5. SegmentOK(p, raw)
    BY <2>3, <2>4, SegmentRead
  <2>6. PICK d : d = [pc |-> "model", previous |-> p, raw |-> raw]
    OBVIOUS
  <2>7. CASE nextCompactionSegment(p, tail) = {}
    BY <1>1, <1>2, <1>8, <2>1, <2>7 DEF ReadSegment, Works
  <2>8. CASE nextCompactionSegment(p, tail) # {}
    <3>1. compactor' = [compactor EXCEPT ![w] = d]
      BY <1>1, <1>8, <2>1, <2>4, <2>6, <2>8 DEF ReadSegment, Works
    <3>2. raw # {}
      BY <2>4, <2>8
    <3>3. CompactorOK(d)
      BY <2>3, <2>5, <2>6, <3>2 DEF CompactorOK
    <3> QED
      BY <3>1, <3>3
  <2> QED
    BY <2>7, <2>8
<1>9. CASE LockScope(w)
  <2>1. PICK d : d = [pc |-> "sources", previous |-> c.previous, raw |-> c.raw, left |-> c.raw]
    OBVIOUS
  <2>2. c.pc = "model" /\ (\/ compactor' = [compactor EXCEPT ![w] = d]
                          \/ compactor' = [compactor EXCEPT ![w] = [pc |-> "idle"]])
    BY <1>1, <1>9, <2>1 DEF LockScope, Works
  <2>3. c.previous \in 0..Len(state) /\ c.raw # {} /\ SegmentOK(c.previous, c.raw)
    BY <1>2, <2>2 DEF CompactorOK
  <2>4. CompactorOK(d)
    BY <2>1, <2>3 DEF CompactorOK
  <2> QED
    BY <1>2, <2>2, <2>4
<1>10. CASE resolveCompactionSources(w)
  <2>1. c.pc = "sources"
    BY <1>1, <1>10 DEF resolveCompactionSources
  <2>2. c.previous \in 0..Len(state) /\ c.raw # {} /\ SegmentOK(c.previous, c.raw)
    BY <1>2, <2>1 DEF CompactorOK
  <2>3. PICK d : d = [pc |-> "commit", previous |-> c.previous, raw |-> c.raw]
    OBVIOUS
  <2>4. CompactorOK(d)
    BY <2>2, <2>3 DEF CompactorOK
  <2>5. PICK left : \/ compactor' = [compactor EXCEPT ![w] = d]
                    \/ compactor' = [compactor EXCEPT ![w] = [pc |-> "idle"]]
                    \/ compactor' = [compactor EXCEPT ![w] = [c EXCEPT !.left = left]]
    BY <1>1, <1>10, <2>3 DEF resolveCompactionSources, Works
  <2>6. CompactorOK([c EXCEPT !.left = left])
    <3>1. PICK e : e = [c EXCEPT !.left = left]
      OBVIOUS
    <3>2. DOMAIN c = {"pc", "previous", "raw", "left"}
      BY <1>2, <2>1 DEF CompactorOK
    <3>3. e.pc = c.pc /\ e.previous = c.previous /\ e.raw = c.raw
      BY <3>1, <3>2
    <3>4. DOMAIN e = DOMAIN c
      BY <3>1
    <3> QED
      BY <2>1, <2>2, <3>1, <3>2, <3>3, <3>4 DEF CompactorOK
  <2> QED
    BY <1>2, <2>4, <2>5, <2>6
<1>11. CASE CompactionFails(w)
  BY <1>2, <1>11 DEF CompactionFails, Works
<1> QED
  BY <1>5, <1>6, <1>7, <1>8, <1>9, <1>10, <1>11

(* Building: what was looked up is as it was summarised.                   *)
LEMMA BuilderSteps ==
  ASSUME CompactionInv, NEW b \in Builders,
         \/ \E i \in DOMAIN state : retrieve(b, i)
         \/ compactedStateLineageCurrent(b) \/ compactedSourcesCurrent(b)
  PROVE  CompactionInv'
<1>1. PICK c : c = basis[b]
  OBVIOUS
<1>2. BasisOK(c) /\ StatesOK
  BY <1>1 DEF CompactionInv, BasesOK
<1>3. UNCHANGED <<log, state, compactor>>
  BY DEF retrieve, compactedStateLineageCurrent, compactedSourcesCurrent, Builds
<1>4. SUFFICES ASSUME TRUE
               PROVE  \E d : BasisOK(d) /\ basis' = [basis EXCEPT ![b] = d]
  BY <1>3, BuilderMoves
<1>5. CASE \E i \in DOMAIN state : retrieve(b, i)
  <2>1. PICK i \in DOMAIN state : retrieve(b, i)
    BY <1>5
  <2>2. PICK d : d = [pc |-> "lineage", state |-> i, at |-> i, left |-> {}, edited |-> {}]
    OBVIOUS
  <2>3. i \in 1..Len(state)
    BY <1>2, <2>1, ValidStates
  <2>4. DOMAIN d = BasisFields /\ d.pc = "lineage" /\ d.state = i /\ d.at = i /\ d.left = {}
    BY <2>2 DEF BasisFields
  <2>5. BasisOK(d)
    BY <2>3, <2>4 DEF BasisOK
  <2> QED
    BY <2>1, <2>2, <2>5 DEF retrieve, Builds
<1>6. CASE compactedStateLineageCurrent(b)
  <2>1. PICK at, p, left : at = c.at /\ p = state[at].previous /\ left = c.left \cup state[at].raw
    OBVIOUS
  <2>2. c.pc = "lineage"
    BY <1>1, <1>6 DEF compactedStateLineageCurrent
  <2>3. /\ DOMAIN c = BasisFields /\ c.state \in 1..Len(state) /\ at \in 1..Len(state)
        /\ Summarised(c.state) \subseteq c.left \cup Summarised(at)
    BY <1>2, <2>1, <2>2 DEF BasisOK
  <2>4. /\ p \in 0..Len(state)
        /\ p = 0 => Summarised(at) = state[at].raw
        /\ p # 0 => Summarised(at) = state[at].raw \cup Summarised(p)
    BY <1>2, <2>1, <2>3, SummarisedOf
  <2>5. CASE p = 0
    <3>1. PICK d : d = [c EXCEPT !.left = left, !.pc = "messages"]
      OBVIOUS
    <3>2. basis' = [basis EXCEPT ![b] = d]
      BY <1>1, <1>6, <2>1, <2>5, <3>1 DEF compactedStateLineageCurrent, Builds
    <3>3. DOMAIN d = BasisFields /\ d.pc = "messages" /\ d.state = c.state /\ d.left = left
      BY <2>3, <3>1 DEF BasisFields
    <3>4. \A ref \in Summarised(c.state) : ref \in left
      BY <2>1, <2>3, <2>4, <2>5
    <3>5. BasisOK(d)
      BY <2>3, <3>3, <3>4 DEF BasisOK, Checked
    <3> QED
      BY <3>2, <3>5
  <2>6. CASE p # 0 /\ state[p].valid = "STALE"
    <3>1. PICK d : d = [pc |-> "stale", state |-> c.state, edited |-> c.edited]
      OBVIOUS
    <3>2. basis' = [basis EXCEPT ![b] = d]
      BY <1>1, <1>6, <2>1, <2>6, <3>1 DEF compactedStateLineageCurrent, Builds
    <3>3. BasisOK(d)
      BY <3>1 DEF BasisOK
    <3> QED
      BY <3>2, <3>3
  <2>7. CASE p # 0 /\ state[p].valid # "STALE"
    <3>1. PICK d : d = [c EXCEPT !.left = left, !.at = p]
      OBVIOUS
    <3>2. basis' = [basis EXCEPT ![b] = d]
      BY <1>1, <1>6, <2>1, <2>7, <3>1 DEF compactedStateLineageCurrent, Builds
    <3>3. /\ DOMAIN d = BasisFields /\ d.pc = "lineage" /\ d.state = c.state /\ d.at = p
          /\ d.left = left
      BY <2>2, <2>3, <3>1 DEF BasisFields
    <3>4. Summarised(c.state) \subseteq left \cup Summarised(p)
      BY <2>1, <2>3, <2>4, <2>7
    <3>5. p \in 1..Len(state)
      BY <2>4, <2>7
    <3>6. BasisOK(d)
      BY <2>3, <3>3, <3>4, <3>5 DEF BasisOK
    <3> QED
      BY <3>2, <3>6
  <2> QED
    BY <2>5, <2>6, <2>7
<1>7. CASE compactedSourcesCurrent(b)
  <2>1. c.pc = "messages"
    BY <1>1, <1>7 DEF compactedSourcesCurrent
  <2>2. /\ DOMAIN c = BasisFields /\ c.state \in 1..Len(state)
        /\ \A ref \in Summarised(c.state) : Checked(ref, c)
    BY <1>2, <2>1 DEF BasisOK
  <2>3. PICK ref \in c.left :
          basis' = [basis EXCEPT ![b] =
             IF ~MessageCurrent(ref) THEN [pc |-> "stale", state |-> c.state, edited |-> c.edited]
             ELSE IF c.left = {ref} THEN [c EXCEPT !.left = {}, !.pc = "built"]
             ELSE [c EXCEPT !.left = @ \ {ref}]]
    BY <1>1, <1>7 DEF compactedSourcesCurrent, Builds
  <2>4. CASE ~MessageCurrent(ref)
    <3>1. PICK d : d = [pc |-> "stale", state |-> c.state, edited |-> c.edited]
      OBVIOUS
    <3>2. BasisOK(d)
      BY <3>1 DEF BasisOK
    <3> QED
      BY <2>3, <2>4, <3>1, <3>2
  <2>5. CASE MessageCurrent(ref) /\ c.left = {ref}
    <3>1. PICK d : d = [c EXCEPT !.left = {}, !.pc = "built"]
      OBVIOUS
    <3>2. /\ DOMAIN d = BasisFields /\ d.pc = "built" /\ d.state = c.state /\ d.left = {}
          /\ d.edited = c.edited
      BY <2>2, <3>1 DEF BasisFields
    <3>3. \A r \in Summarised(c.state) : Checked(r, d)
      BY <2>2, <2>5, <3>2 DEF Checked
    <3>4. BasisOK(d)
      BY <2>2, <3>2, <3>3 DEF BasisOK
    <3> QED
      BY <2>3, <2>5, <3>1, <3>4
  <2>6. CASE MessageCurrent(ref) /\ c.left # {ref}
    <3>1. PICK d : d = [c EXCEPT !.left = @ \ {ref}]
      OBVIOUS
    <3>2. /\ DOMAIN d = BasisFields /\ d.pc = "messages" /\ d.state = c.state
          /\ d.left = c.left \ {ref} /\ d.edited = c.edited
      BY <2>1, <2>2, <3>1 DEF BasisFields
    <3>3. \A r \in Summarised(c.state) : Checked(r, d)
      BY <2>2, <2>6, <3>2 DEF Checked
    <3>4. BasisOK(d)
      BY <2>2, <3>2, <3>3 DEF BasisOK
    <3> QED
      BY <2>3, <2>6, <3>1, <3>4
  <2> QED
    BY <2>4, <2>5, <2>6
<1> QED
  BY <1>5, <1>6, <1>7

(* What is stale is invalidated.                                           *)
LEMMA InvalidateSteps ==
  ASSUME CompactionInv, NEW b \in Builders, canReadCompactedState(b)
  PROVE  CompactionInv'
<1>1. PICK n \in Nat : n = Len(state)
  BY DEF CompactionInv, StatesOK
<1>2. PICK i, d : i = basis[b].state /\ d = [pc |-> "none"]
  OBVIOUS
<1>3. /\ log' = log /\ compactor' = compactor /\ basis' = [basis EXCEPT ![b] = d]
      /\ state' = IF i \in Valid THEN [state EXCEPT ![i].valid = "STALE"] ELSE state
  BY <1>2 DEF canReadCompactedState, Builds
<1>4. CASE i \notin Valid
  <2>1. BasisOK(d)
    BY <1>2 DEF BasisOK
  <2> QED
    BY <1>3, <1>4, <2>1, BuilderMoves
<1>5. CASE i \in Valid
  <2>1. i \in 1..n /\ state' = [state EXCEPT ![i].valid = "STALE"]
    BY <1>1, <1>3, <1>5, ValidStates DEF CompactionInv
  <2>2. state = [j \in 1..n |-> state[j]] /\ \A j \in 1..n : DOMAIN state[j] = StateFields
    BY <1>1 DEF CompactionInv, StatesOK, SummaryOK
  <2>3. PICK row : row = [state[i] EXCEPT !.valid = "STALE"]
    OBVIOUS
  <2>4. state' = [state EXCEPT ![i] = row]
    BY <2>1, <2>2, <2>3
  <2>5. /\ state' = [j \in 1..n |-> state'[j]] /\ state'[i] = row
        /\ \A j \in 1..n : j # i => state'[j] = state[j]
    BY <2>1, <2>2, <2>4
  <2>6. /\ DOMAIN row = StateFields /\ row.raw = state[i].raw /\ row.to = state[i].to
        /\ row.previous = state[i].previous /\ row.valid = "STALE"
    BY <2>1, <2>2, <2>3 DEF StateFields
  <2>7. ListOf(state', n) /\ Len(state') = n /\ DOMAIN state' = 1..n
    BY <2>5, LenOfList DEF ListOf
  <2>8. \A j \in 1..n : /\ DOMAIN state'[j] = StateFields /\ state'[j].raw = state[j].raw
                        /\ state'[j].previous = state[j].previous /\ state'[j].to = state[j].to
    BY <2>2, <2>5, <2>6
  <2>9. /\ LogOK'
        /\ \A p \in 0..n : \A raw : SegmentOK(p, raw) => SegmentOK(p, raw)'
        /\ \A j \in 1..n : SummaryOK(j)'
    <3>1. n <= Len(state') /\ Len(state') \in Nat /\ ListOf(state', Len(state'))
      BY <2>7
    <3> QED
      BY <1>1, <1>3, <2>8, <3>1, StatesMove
  <2>10. Valid' \subseteq Valid
    BY <2>1, <2>5, <2>6, <2>7 DEF Valid
  <2>11. StatesOK'
    BY <2>5, <2>7, <2>9, <2>10 DEF CompactionInv, StatesOK
  <2>12. CompactorsOK' /\ BasesOK'
    <3>1. /\ compactor' = [v \in Compactors |-> compactor'[v]]
          /\ \A v \in Compactors : compactor'[v] = compactor[v]
      BY <1>3 DEF CompactionInv, CompactorsOK
    <3>2. /\ basis' = [v \in Builders |-> basis'[v]]
          /\ \A v \in Builders : basis'[v] = basis[v] \/ basis'[v].pc = "none"
      BY <1>2, <1>3 DEF CompactionInv, BasesOK
    <3>3. Len(state') \in Nat /\ n <= Len(state') /\ \A j \in 1..Len(state') : SummaryOK(j)'
      BY <2>7, <2>9
    <3>4. \A j \in 1..n : state'[j].raw = state[j].raw /\ state'[j].previous = state[j].previous
      BY <2>8
    <3> QED
      BY <1>1, <1>3, <2>9, <3>1, <3>2, <3>3, <3>4, OthersStand
  <2> QED
    BY <2>9, <2>11, <2>12 DEF CompactionInv
<1> QED
  BY <1>4, <1>5

LEMMA CompactionStep == CompactionInv /\ [CompactionNext]_compactionVars => CompactionInv'
<1> SUFFICES ASSUME CompactionInv, [CompactionNext]_compactionVars PROVE CompactionInv'
  OBVIOUS
<1>1. CASE UNCHANGED compactionVars
  <2>1. UNCHANGED <<log, state, compactor, basis>>
    BY <1>1 DEF compactionVars
  <2>2. /\ LogOK' /\ StatesOK' /\ Len(state) \in Nat /\ Len(state') = Len(state)
        /\ \A p \in 0..Len(state) : \A raw : SegmentOK(p, raw) => SegmentOK(p, raw)'
    BY <2>1, StatesStay
  <2>3. \A j \in 1..Len(state') : SummaryOK(j)'
    BY <2>2 DEF StatesOK
  <2>4. CompactorsOK' /\ BasesOK'
    <3>1. PICK n \in Nat : n = Len(state)
      BY <2>2
    <3>2. /\ compactor' = [v \in Compactors |-> compactor'[v]]
          /\ basis' = [v \in Builders |-> basis'[v]]
      BY <2>1 DEF CompactionInv, CompactorsOK, BasesOK
    <3> QED
      BY <2>1, <2>2, <2>3, <3>1, <3>2, OthersStand
  <2> QED
    BY <2>2, <2>4 DEF CompactionInv
<1>2. CASE CompactionNext
  BY <1>2, LogSteps, WorkerSteps, RefreshSteps, BuilderSteps, InvalidateSteps DEF CompactionNext
<1> QED
  BY <1>1, <1>2

(* Whoever summarises, and whatever is edited or completes between the     *)
(* reads, one compacted state is valid; it leaves out only what a later    *)
(* message has overtaken and has nothing twice; and what a context is      *)
(* built on rests on no message that was edited before its check began:    *)
(* for any length of the history, trigger, tail, segment and number of     *)
(* workers and contexts.                                                   *)
THEOREM SummaryStaysWhole ==
    CompactionInit /\ [][CompactionNext]_compactionVars => []SummaryIsWhole
<1>1. CompactionInv => SummaryIsWhole
  <2> SUFFICES ASSUME CompactionInv PROVE SummaryIsWhole
    OBVIOUS
  <2>1. StatesOK /\ BasesOK /\ Valid \subseteq 1..Len(state)
    BY ValidStates DEF CompactionInv
  <2>2. Cardinality(Valid) <= 1
    <3>1. CASE Valid = {}
      BY <3>1, FS_EmptySet
    <3>2. CASE Valid # {}
      <4>1. PICK i \in Valid : TRUE
        BY <3>2
      <4>2. Valid = {i}
        BY <2>1, <4>1 DEF StatesOK
      <4> QED
        BY <4>2, FS_Singleton
    <3> QED
      BY <3>1, <3>2
  <2>3. ASSUME NEW i \in Valid, NEW k \in Complete, k <= state[i].to, ~log[k].overtaken
        PROVE  \E v \in 1..2 : <<k, v>> \in Summarised(i)
    BY <2>1, <2>3, SummariesCover DEF IsOvertaken
  <2>4. ASSUME NEW i \in Valid, NEW a \in Ancestors(i), NEW b \in Ancestors(i), a # b
        PROVE  {r[1] : r \in state[a].raw} \cap {r[1] : r \in state[b].raw} = {}
    BY <2>1, <2>4, SummariesApart
  <2>5. ASSUME NEW b \in Builders, basis[b].pc = "built",
               NEW ref \in Summarised(basis[b].state)
        PROVE  MessageCurrent(ref) \/ ref[1] \in basis[b].edited
    <3>1. BasisOK(basis[b])
      BY <2>1 DEF BasesOK
    <3>2. Checked(ref, basis[b]) /\ basis[b].left = {}
      BY <2>5, <3>1 DEF BasisOK
    <3> QED
      BY <3>2 DEF Checked
  <2> QED
    BY <2>2, <2>3, <2>4, <2>5 DEF SummaryIsWhole
<1> QED
  BY <1>1, CompactionStart, CompactionStep, PTL
=============================================================================
