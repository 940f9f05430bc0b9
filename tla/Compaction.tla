----------------------------- MODULE Compaction -----------------------------
(***************************************************************************)
(* The compacted state of a conversation: CompactedStateService            *)
(* (packages/context/src/compaction.ts) and compactConversation of the     *)
(* memory maintenance, which calls it.                                     *)
(*                                                                         *)
(* A worker reads the latest state, the newest messages and the oldest     *)
(* ones after the state, asks the model for a summary, and commits a new   *)
(* state whose sources are the previous state and those messages, each     *)
(* looked up once more.  A context is built on a state when every source   *)
(* of its lineage is found unchanged.  Each read is a step of its own:     *)
(* between two of them messages are edited and complete, and other workers *)
(* and contexts go on.                                                     *)
(***************************************************************************)
EXTENDS Naturals, Sequences, FiniteSets, FiniteSetsExt

CONSTANTS
    Compactors,     \* workers
    Builders,       \* contexts being built
    History,        \* bound: messages of the conversation, oldest first
    Editable,       \* bound: messages that are edited, once
    Trigger,        \* messages at which the history is too long (compactedStateTriggerTokens)
    RecentTail,     \* newest messages never compacted (recentTailIds)
    Segment,        \* messages taken at most (nextCompactionSegment)
    MaxStates       \* bound: states ever written

ASSUME CompactionAssumption ==
    /\ History \in Nat /\ Trigger \in Nat \ {0} /\ RecentTail \in Nat /\ Segment \in Nat \ {0}

VARIABLES
    log,        \* the messages by age: status, version, and, for the properties,
                \* whether it was overtaken (below)
    state,      \* CompactedContextState, by version
    compactor,  \* what a worker has read
    basis       \* the state a context is built on, and how far it is checked

compactionVars == <<log, state, compactor, basis>>

Positions == 1..History

CompactionInit ==
    /\ log = [k \in Positions |-> [status |-> "none", ver |-> 1, overtaken |-> FALSE]]
    /\ state = <<>>
    /\ compactor = [w \in Compactors |-> [pc |-> "idle"]]
    /\ basis = [b \in Builders |-> [pc |-> "none"]]

-----------------------------------------------------------------------------
(* The conversation.                                                       *)

Complete == {k \in Positions : log[k].status = "COMPLETE"}

MessageStarts(k) ==
    /\ log[k].status = "none"
    /\ \A j \in 1..(k - 1) : log[j].status # "none"
    /\ log' = [log EXCEPT ![k].status = "STREAMING"]
    /\ UNCHANGED <<state, compactor, basis>>

(* A worker has read the newest messages and not yet the oldest.           *)
InTail(k) == \E w \in Compactors : compactor[w].pc = "segment" /\ k \in compactor[w].tail

(* A message is overtaken when it completes after a later one has, or when *)
(* a later one completes while it is in the tail that a worker has read.   *)
MessageCompletes(k) ==
    /\ log[k].status = "STREAMING"
    /\ log' = [j \in Positions |->
         [status |-> IF j = k THEN "COMPLETE" ELSE log[j].status, ver |-> log[j].ver,
          overtaken |-> log[j].overtaken \/ (j = k /\ \E i \in Complete : i > k)
                                         \/ (j < k /\ InTail(j))]]
    /\ UNCHANGED <<state, compactor, basis>>

MessageEdited(k) ==
    /\ k \in Editable /\ log[k].status = "COMPLETE" /\ log[k].ver = 1
    /\ log' = [log EXCEPT ![k].ver = 2]
    /\ basis' = [b \in Builders |->
         IF basis[b].pc = "none" THEN basis[b]
         ELSE [basis[b] EXCEPT !.edited = @ \cup {k}]]
    /\ UNCHANGED <<state, compactor>>

-----------------------------------------------------------------------------
(* Reading: what a worker bases its summary on.                            *)

Valid == {i \in DOMAIN state : state[i].valid = "yes"}

conversationPressure == Cardinality(Complete)

(* The same, as the commit computes it again.                              *)
resolveCompactionPressureTokens == Cardinality(Complete)

shouldUseCompactedState(tokens) == tokens >= Trigger

Latest == IF Valid = {} THEN 0 ELSE Max(Valid)

CoveredTo(i) == IF i = 0 THEN 0 ELSE state[i].to

recentTailIds == {k \in Complete : Cardinality({j \in Complete : j >= k}) <= RecentTail}

OldestFirst(left) == {k \in left : Cardinality({j \in left : j <= k}) <= Segment}

nextCompactionSegment(previous, tail) ==
    OldestFirst({k \in Complete \ tail : k > CoveredTo(previous)})

Works(w, c) == compactor' = [compactor EXCEPT ![w] = c] /\ UNCHANGED <<log, basis>>

(* The four reads of compactConversation, in its order.                    *)
compactConversation(w) ==
    /\ compactor[w].pc = "idle"
    /\ shouldUseCompactedState(conversationPressure)
    /\ Works(w, [pc |-> "previous"])
    /\ UNCHANGED state

ReadPrevious(w) ==
    /\ compactor[w].pc = "previous"
    /\ Works(w, [pc |-> "tail", previous |-> Latest])
    /\ UNCHANGED state

ReadTail(w) ==
    /\ compactor[w].pc = "tail"
    /\ Works(w, [pc |-> "segment", previous |-> compactor[w].previous, tail |-> recentTailIds])
    /\ UNCHANGED state

ReadSegment(w) ==
    /\ compactor[w].pc = "segment"
    /\ LET previous == compactor[w].previous
           segment == nextCompactionSegment(previous, compactor[w].tail)
       IN  Works(w, IF segment = {} THEN [pc |-> "idle"]
                    ELSE [pc |-> "model", previous |-> previous,
                          raw |-> {<<k, log[k].ver>> : k \in segment}])
    /\ UNCHANGED state

(* The model fails, or the worker stops; a transaction ends with it.       *)
CompactionFails(w) ==
    /\ compactor[w].pc # "idle"
    /\ Works(w, [pc |-> "idle"])
    /\ UNCHANGED state

-----------------------------------------------------------------------------
(* Committing, under the scope's advisory lock.  The transaction sees what *)
(* others have committed when each of its queries runs.                    *)

MessageCurrent(ref) == log[ref[1]].status = "COMPLETE" /\ log[ref[1]].ver = ref[2]

OldestOf(refs, ref) == ref \in refs /\ \A other \in refs : ref[1] <= other[1]

ScopeLocked == \E w \in Compactors : compactor[w].pc \in {"sources", "commit"}

(* The previous state must not be invalidated, not even superseded.        *)
LockScope(w) ==
    /\ compactor[w].pc = "model"
    /\ ~ScopeLocked
    /\ LET c == compactor[w] IN
       Works(w, IF c.previous = 0 \/ c.previous \in Valid
                THEN [pc |-> "sources", previous |-> c.previous, raw |-> c.raw, left |-> c.raw]
                ELSE [pc |-> "idle"])
    /\ UNCHANGED state

(* The messages must be at the versions the worker has read, each by a     *)
(* query of its own.                                                       *)
resolveCompactionSources(w) ==
    /\ compactor[w].pc = "sources"
    /\ LET c == compactor[w] IN
       \E ref \in c.left :
          /\ OldestOf(c.left, ref)
          /\ Works(w, IF ~MessageCurrent(ref) THEN [pc |-> "idle"]
                      ELSE IF c.left = {ref}
                      THEN [pc |-> "commit", previous |-> c.previous, raw |-> c.raw]
                      ELSE [c EXCEPT !.left = @ \ {ref}])
    /\ UNCHANGED state

NewState(previous, raw) ==
    [previous |-> previous, raw |-> raw, valid |-> "yes",
     to |-> Max({ref[1] : ref \in raw} \cup {CoveredTo(previous)})]

SameSources(i, c) == state[i].previous = c.previous /\ state[i].raw = c.raw

(* A summary of the same sources in the same words is kept as it is.       *)
refresh(w) ==
    /\ compactor[w].pc = "commit"
    /\ LET c == compactor[w] IN
       IF shouldUseCompactedState(resolveCompactionPressureTokens)
       THEN \/ /\ Latest # 0 /\ Latest = Len(state) /\ SameSources(Latest, c)
               /\ state' = state
            \/ /\ Len(state) < MaxStates
               /\ state' = Append([i \in DOMAIN state |->
                                     IF i \in Valid THEN [state[i] EXCEPT !.valid = "SUPERSEDED"]
                                     ELSE state[i]],
                                  NewState(c.previous, c.raw))
       ELSE state' = state
    /\ Works(w, [pc |-> "idle"])

-----------------------------------------------------------------------------
(* Building a context on a state: canReadCompactedState.                   *)

Builds(b, c) == basis' = [basis EXCEPT ![b] = c] /\ UNCHANGED <<log, compactor>>

(* The retrieval takes a state that is not invalidated, and checks it.     *)
retrieve(b, i) ==
    /\ basis[b].pc \in {"none", "built"}
    /\ i \in Valid
    /\ Builds(b, [pc |-> "lineage", state |-> i, at |-> i, left |-> {}, edited |-> {}])
    /\ UNCHANGED state

(* Fault: only the newest messages are looked at. *)
OwnMessagesCurrent(b) ==
    /\ basis[b].pc = "lineage"
    /\ Builds(b, [basis[b] EXCEPT !.left = state[basis[b].at].raw, !.pc = "messages"])
    /\ UNCHANGED state

(* First down the lineage: each state that a state is built from must not  *)
(* be invalidated for anything but being superseded.                       *)
compactedStateLineageCurrent(b) ==
    /\ basis[b].pc = "lineage"
    /\ LET c == basis[b]
           previous == state[c.at].previous
           left == c.left \cup state[c.at].raw
       IN  Builds(b, IF previous = 0 THEN [c EXCEPT !.left = left, !.pc = "messages"]
                     ELSE IF state[previous].valid = "STALE" THEN [pc |-> "stale", state |-> c.state, edited |-> c.edited]
                     ELSE [c EXCEPT !.left = left, !.at = previous])
    /\ UNCHANGED state

(* Then up again, the messages of every state in it, one query each.       *)
compactedSourcesCurrent(b) ==
    /\ basis[b].pc = "messages"
    /\ LET c == basis[b] IN
       \E ref \in c.left :
          /\ OldestOf(c.left, ref)
          /\ Builds(b, IF ~MessageCurrent(ref) THEN [pc |-> "stale", state |-> c.state, edited |-> c.edited]
                       ELSE IF c.left = {ref} THEN [c EXCEPT !.left = {}, !.pc = "built"]
                       ELSE [c EXCEPT !.left = @ \ {ref}])
    /\ UNCHANGED state

(* What is not current is not read, and is invalidated unless it is by now. *)
canReadCompactedState(b) ==
    /\ basis[b].pc = "stale"
    /\ LET i == basis[b].state IN
       state' = IF i \in Valid THEN [state EXCEPT ![i].valid = "STALE"] ELSE state
    /\ Builds(b, [pc |-> "none"])

CompactionNext ==
    \/ \E k \in Positions : MessageStarts(k) \/ MessageCompletes(k) \/ MessageEdited(k)
    \/ \E w \in Compactors :
          \/ compactConversation(w) \/ ReadPrevious(w) \/ ReadTail(w) \/ ReadSegment(w)
          \/ LockScope(w) \/ resolveCompactionSources(w) \/ refresh(w) \/ CompactionFails(w)
    \/ \E b \in Builders :
          \/ \E i \in DOMAIN state : retrieve(b, i)
          \/ compactedStateLineageCurrent(b) \/ compactedSourcesCurrent(b)
          \/ canReadCompactedState(b)

-----------------------------------------------------------------------------
(* The states a state is built from, itself included, and their messages.  *)
Ancestors(i) ==
    LET up[j \in 0..Len(state)] == IF j = 0 THEN {} ELSE {j} \cup up[state[j].previous] IN up[i]

Summarised(i) == UNION {state[j].raw : j \in Ancestors(i)}

(* There is one valid state.  Each message up to the end of its range is   *)
(* in it exactly once; it is left out only if it was overtaken by a later  *)
(* one.  What a context is built on rests on no message that was edited    *)
(* before its check began, however many summaries lie in between.          *)
SummaryIsWhole ==
    /\ Cardinality(Valid) <= 1
    /\ \A i \in Valid :
          /\ \A k \in Complete : k <= state[i].to /\ ~log[k].overtaken
                => \E v \in 1..2 : <<k, v>> \in Summarised(i)
          /\ \A a, b \in Ancestors(i) :
                a # b => {r[1] : r \in state[a].raw} \cap {r[1] : r \in state[b].raw} = {}
    /\ \A b \in Builders : basis[b].pc = "built" =>
          \A ref \in Summarised(basis[b].state) :
             MessageCurrent(ref) \/ ref[1] \in basis[b].edited
=============================================================================
