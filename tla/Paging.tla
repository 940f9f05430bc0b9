------------------------------- MODULE Paging -------------------------------
(***************************************************************************)
(* The listings the services page through with keyset cursors: tasks in    *)
(* two groups, reminders, lists, notes, the inbox with its search, blocked *)
(* users, notifications and the messages of a direct chat.                 *)
(*                                                                         *)
(* A behaviour walks one listing from its first page to its last while     *)
(* rows are edited, created activity in, or hidden between two pages.  The *)
(* order of a listing and the filter its cursor stands for are written     *)
(* separately in the code and are separate here; a cursor is a copy of the *)
(* sort fields of the last row of a page.                                  *)
(***************************************************************************)
EXTENDS Integers, Sequences, FiniteSets

CONSTANTS
    RowIds,        \* the rows of the listing, numbered as their ids compare
    Listings,      \* the listings walked
    PageSizes,     \* values of limit
    RowsOf(_),     \* the rows a listing may hold
    Newest,        \* a time later than any a row starts with
    MaxTouches     \* bound: rows edited during the walk

NoDue == 0         \* dueAt is null, pinnedAt is null

Listeds == {"TASKS", "REMINDERS", "LISTS", "NOTES", "INBOX", "NOTICES", "BLOCKED", "MESSAGES"}
Statuses == {"TODO", "IN_PROGRESS", "DONE", "CANCELED"}

\* A row, as far as orders and cursors go
Rows(of) ==
    [id : RowIds, time : Int, created : Int, due : 0..Newest, listed : BOOLEAN,
     group : CASE of = "TASKS" -> Statuses [] of = "INBOX" -> {"AI_THREAD", "DIRECT"}
               [] OTHER -> {"ROW"}]

ASSUME PagingAssumption ==
    /\ IsFiniteSet(RowIds) /\ RowIds \subseteq Int /\ Newest \in Nat
    /\ PageSizes \subseteq Nat \ {0}
    /\ Listings \subseteq [of : Listeds, status : Statuses \cup {"ANY"}]
    /\ \A l \in Listings : \A t \in RowsOf(l.of) :
         /\ t \in [RowIds -> Rows(l.of)]
         /\ \A i \in RowIds : t[i].id = i

VARIABLES
    listing,       \* the listing, and its status filter for tasks
    shelf,         \* the rows
    pageSize,      \* limit
    cursorAt,      \* the cursor the client sends next
    shown,         \* the ids shown so far, in order
    walk,          \* "OPEN" until a page comes without a cursor
    touched        \* rows that changed during the walk

pagingVars == <<listing, shelf, pageSize, cursorAt, shown, walk, touched>>

NoCursor == [at |-> "none"]
GroupStart(g) == [at |-> "start", group |-> g]
CursorOf(row) == [at |-> "row", row |-> row]

\* isTaskListGroupStart, or no cursor at all: nothing to filter by
FromStart(c) == c.at # "row"

Listed == {shelf[i] : i \in {j \in RowIds : shelf[j].listed}}

-----------------------------------------------------------------------------
(* Orders, and the filters of their cursors                                *)

\* orderBy updatedAt (lastActivityAt, createdAt) desc, id desc
NewestFirstOrder(r, s) == r.time > s.time \/ (r.time = s.time /\ r.id > s.id)
NewestPast(c, r) == r.time < c.row.time \/ (r.time = c.row.time /\ r.id < c.row.id)

\* orderBy scheduledAt asc, id asc
SoonestOrder(r, s) == r.time < s.time \/ (r.time = s.time /\ r.id < s.id)
SoonestPast(c, r) == r.time > c.row.time \/ (r.time = c.row.time /\ r.id > c.row.id)

\* orderBy pinnedAt desc nulls last, updatedAt desc, id desc
PinnedOrder(r, s) ==
    \/ r.due > s.due
    \/ r.due = s.due /\ NewestFirstOrder(r, s)

\* activeOrderBy: dueAt asc nulls last, updatedAt desc, createdAt asc, id asc
ActiveOrder(r, s) ==
    LET due(x) == IF x.due = NoDue THEN Newest + 1 ELSE x.due
    IN  \/ due(r) < due(s)
        \/ /\ due(r) = due(s)
           /\ \/ r.time > s.time
              \/ r.time = s.time /\ r.created < s.created
              \/ r.time = s.time /\ r.created = s.created /\ r.id < s.id

\* finishedOrderBy: updatedAt desc, createdAt desc, id desc
FinishedOrder(r, s) ==
    \/ r.time > s.time
    \/ r.time = s.time /\ r.created > s.created
    \/ r.time = s.time /\ r.created = s.created /\ r.id > s.id

\* remainingAfterCursor, "active" and "finished"
RemainingActive(c, r) ==
    \/ r.time < c.row.time
    \/ r.time = c.row.time /\ r.created > c.row.created
    \/ r.time = c.row.time /\ r.created = c.row.created /\ r.id > c.row.id

RemainingFinished(c, r) ==
    \/ r.time < c.row.time
    \/ r.time = c.row.time /\ r.created < c.row.created
    \/ r.time = c.row.time /\ r.created = c.row.created /\ r.id < c.row.id

\* Fault: undated tasks are left out once a dated one was the last of a page.
AfterDatedOnly(c, r) ==
    IF c.row.due = NoDue
    THEN r.due = NoDue /\ RemainingActive(c, r)
    ELSE \/ r.due > c.row.due
         \/ r.due = c.row.due /\ RemainingActive(c, r)

\* groupAfterCursor for the active group
ActiveAfterCursor(c, r) ==
    IF c.row.due = NoDue
    THEN r.due = NoDue /\ RemainingActive(c, r)
    ELSE \/ r.due > c.row.due
         \/ r.due = c.row.due /\ RemainingActive(c, r)
         \/ r.due = NoDue

-----------------------------------------------------------------------------
(* Pages                                                                   *)

\* r before s in an orderBy
SortsBefore(by, r, s) ==
    CASE by = "newest" -> NewestFirstOrder(r, s)
      [] by = "soonest" -> SoonestOrder(r, s)
      [] by = "pinned" -> PinnedOrder(r, s)
      [] by = "active" -> ActiveOrder(r, s)
      [] by = "finished" -> FinishedOrder(r, s)

\* findMany: where, orderBy, take.  Each row comes after as many as are before it.
Fetch(S, by, n) ==
    [k \in 1..(IF n < Cardinality(S) THEN n ELSE Cardinality(S)) |->
        CHOOSE r \in S : Cardinality({s \in S : SortsBefore(by, s, r)}) = k - 1]

LastOf(items) == items[Len(items)]

PageOf(items, next) == [items |-> items, next |-> next]

\* One row more than the page is fetched; the cursor is that of the last row
\* kept, if there was one more.
Paged(S, by, n) ==
    PageOf(Fetch(S, by, n),
           IF Len(Fetch(S, by, n + 1)) > n THEN CursorOf(LastOf(Fetch(S, by, n))) ELSE NoCursor)

AfterNewest(c) == {r \in Listed : FromStart(c) \/ NewestPast(c, r)}
AfterSoonest(c) == {r \in Listed : FromStart(c) \/ SoonestPast(c, r)}

\* ListService.list
ListsPage(c, n) == Paged(AfterNewest(c), "newest", n)

\* ReminderService.list
RemindersPage(c, n) == Paged(AfterSoonest(c), "soonest", n)

\* NoteService.list: the cursor carries no pinnedAt.
NotesPage(c, n) == Paged(AfterNewest(c), "pinned", n)

\* NotificationInboxService.list
NoticesPage(c, n) == Paged(AfterNewest(c), "newest", n)

\* TrustService.listBlockedUsers
BlockedPage(c, n) == Paged(AfterNewest(c), "newest", n)

\* DirectChatService.listMessages
MessagesPage(c, n) == Paged(AfterNewest(c), "newest", n)

\* findMatchingDirectSurfaceIds: at most one more than a page
DirectMatches(S, n) == Fetch(S, "newest", n + 1)

\* authorityBranches: the threads whose title matches, or the direct surfaces
\* whose peer was found
authorityBranches(past, n) ==
    LET direct == DirectMatches({r \in past : r.group = "DIRECT"}, n)
    IN  {r \in past : r.group = "AI_THREAD"} \cup {direct[k] : k \in 1..Len(direct)}

\* InboxService.list with a search: the direct surfaces are looked up by peer
\* first, with the same cursor.
InboxPage(c, n) == Paged(authorityBranches(AfterNewest(c), n), "newest", n)

\* The statuses of a group, or the one the query names
InGroup(g, status) ==
    {r \in Listed : IF status = "ANY" THEN (IF g = "a" THEN r.group \in {"TODO", "IN_PROGRESS"}
                                                      ELSE r.group \in {"DONE", "CANCELED"})
                                      ELSE r.group = status}

\* fetchGroup
fetchGroup(g, status, c, n) ==
    IF g = "a"
    THEN Fetch({r \in InGroup(g, status) : FromStart(c) \/ ActiveAfterCursor(c, r)}, "active", n)
    ELSE Fetch({r \in InGroup(g, status) : FromStart(c) \/ RemainingFinished(c, r)}, "finished", n)

\* cursorFromRow: the group is the cursor's own.
TaskCursor(g, row) == [at |-> "row", group |-> g, row |-> row]

\* pageGroup
pageGroup(g, status, c, n) ==
    LET kept == fetchGroup(g, status, c, n)
    IN  PageOf(kept, IF Len(fetchGroup(g, status, c, n + 1)) > n
                     THEN TaskCursor(g, LastOf(kept)) ELSE NoCursor)

InA(c) == c = NoCursor \/ c.group = "a"

\* TaskService.list for a status: a cursor of the other group is ignored.
FilteredTasks(status, c, n) ==
    LET g == IF status \in {"TODO", "IN_PROGRESS"} THEN "a" ELSE "f"
    IN  pageGroup(g, status, IF c # NoCursor /\ c.group = g THEN c ELSE NoCursor, n)

\* TaskService.list: the active group first, the rest of its last page filled
\* from the finished one; when the active group ends with the page, the next
\* cursor is the start of the finished group.
TasksPage(c, n) ==
    IF ~InA(c) THEN pageGroup("f", "ANY", c, n)
    ELSE LET active == fetchGroup("a", "ANY", c, n + 1)
             left == n - Len(active)
             finished == fetchGroup("f", "ANY", NoCursor, left)
         IN  CASE left < 0 ->
                    LET kept == SubSeq(active, 1, n)
                    IN  PageOf(kept, TaskCursor("a", LastOf(kept)))
               [] left = 0 ->
                    PageOf(active, IF fetchGroup("f", "ANY", NoCursor, 1) # <<>>
                                   THEN GroupStart("f") ELSE NoCursor)
               [] left > 0 ->
                    PageOf(active \o finished,
                           IF Len(fetchGroup("f", "ANY", NoCursor, left + 1)) > left
                           THEN TaskCursor("f", LastOf(active \o finished)) ELSE NoCursor)

\* What a listing answers to a cursor
Answered(c, n) ==
    CASE listing.of = "TASKS" /\ listing.status = "ANY" -> TasksPage(c, n)
      [] listing.of = "TASKS" /\ listing.status # "ANY" -> FilteredTasks(listing.status, c, n)
      [] listing.of = "REMINDERS" -> RemindersPage(c, n)
      [] listing.of = "LISTS" -> ListsPage(c, n)
      [] listing.of = "NOTES" -> NotesPage(c, n)
      [] listing.of = "INBOX" -> InboxPage(c, n)
      [] listing.of = "NOTICES" -> NoticesPage(c, n)
      [] listing.of = "BLOCKED" -> BlockedPage(c, n)
      [] listing.of = "MESSAGES" -> MessagesPage(c, n)

-----------------------------------------------------------------------------
\* The client asks for the next page.
NextPage ==
    /\ walk = "OPEN"
    /\ LET page == Answered(cursorAt, pageSize)
       IN  /\ shown' = shown \o [k \in 1..Len(page.items) |-> page.items[k].id]
           /\ cursorAt' = page.next
           /\ walk' = IF page.next = NoCursor THEN "DONE" ELSE "OPEN"
    /\ UNCHANGED <<listing, shelf, pageSize, touched>>

Touches(i) ==
    /\ walk = "OPEN" /\ shown # <<>>
    /\ Cardinality(touched) < MaxTouches /\ i \notin touched
    /\ touched' = touched \cup {i}
    /\ UNCHANGED <<listing, pageSize, cursorAt, shown, walk>>

\* TaskService.update: the status or the due date may change.
UpdateTask(i, group, due) ==
    /\ listing.of = "TASKS" /\ Touches(i)
    /\ shelf' = [shelf EXCEPT ![i].group = group, ![i].due = due, ![i].time = Newest]

\* ReminderService.update moves a reminder to another instant.
MoveReminder(i, time) ==
    /\ listing.of = "REMINDERS" /\ Touches(i)
    /\ shelf' = [shelf EXCEPT ![i].time = time]

\* A list or a note is edited, a conversation has activity: it becomes the
\* newest.
TouchRow(i) ==
    /\ listing.of \in {"LISTS", "NOTES", "INBOX"} /\ Touches(i)
    /\ shelf' = [shelf EXCEPT ![i].time = Newest]

\* A row is deleted, archived, unblocked or no longer shown to this user.
HideRow(i) ==
    /\ Touches(i) /\ shelf[i].listed
    /\ shelf' = [shelf EXCEPT ![i].listed = FALSE]

PagingInit ==
    /\ listing \in Listings
    /\ shelf \in RowsOf(listing.of)
    /\ pageSize \in PageSizes
    /\ cursorAt = NoCursor
    /\ shown = <<>>
    /\ walk = "OPEN"
    /\ touched = {}

PagingNext ==
    \/ NextPage
    \/ \E i \in RowIds, g \in {shelf[j].group : j \in RowIds},
          d \in {shelf[j].due : j \in RowIds} : UpdateTask(i, g, d)
    \/ \E i \in RowIds, t \in {shelf[j].time : j \in RowIds} \cup {Newest} : MoveReminder(i, t)
    \/ \E i \in RowIds : TouchRow(i)
    \/ \E i \in RowIds : HideRow(i)

PagingSpec == PagingInit /\ [][PagingNext]_pagingVars

-----------------------------------------------------------------------------
\* What a listing is of: the rows its filter names
Belongs(r) == r.listed /\ (listing.of = "TASKS" /\ listing.status # "ANY" => r.group = listing.status)

\* The order a listing promises
Precedes(r, s) ==
    CASE listing.of = "REMINDERS" -> SoonestOrder(r, s)
      [] listing.of = "NOTES" -> PinnedOrder(r, s)
      [] listing.of = "TASKS" ->
           LET active(x) == x.group \in {"TODO", "IN_PROGRESS"}
           IN  IF active(r) # active(s) THEN active(r)
               ELSE IF active(r) THEN ActiveOrder(r, s) ELSE FinishedOrder(r, s)
      [] OTHER -> NewestFirstOrder(r, s)

\* Whoever pages a listing to its end has been shown every row that did not
\* change meanwhile exactly once, and those in the promised order, whatever
\* happened to the other rows between two pages: no row is lost where two
\* pages, the two groups of tasks or the two halves of the inbox search meet.
ListingComplete ==
    walk = "DONE" =>
      LET still == {i \in RowIds \ touched : Belongs(shelf[i])}
          where(i) == {k \in 1..Len(shown) : shown[k] = i}
      IN  /\ \A i \in still : Cardinality(where(i)) = 1
          /\ \A i, j \in still : Precedes(shelf[i], shelf[j]) =>
                \A k \in where(i), l \in where(j) : k < l
=============================================================================
