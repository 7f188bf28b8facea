------------------------------- MODULE Events -------------------------------
(***************************************************************************)
(* How the events recorded about one object become the ones the rules see: *)
(* eventsFor asks for one page, drops what belongs to another object,      *)
(* brings the three shapes of an event into one and sorts; Dedup, which    *)
(* every caller applies to the result, merges repetitions.  The analyses   *)
(* start from what this leaves.                                            *)
(***************************************************************************)
EXTENDS Integers, Sequences, FiniteSets, Sorting, SequencesExt, FiniteSetsExt

CONSTANTS
  Recorded,     \* the event lists that the API server may hold, in its order
  EventLimit    \* eventLimit

\* Times are numbers, and 0 is the zero time.
NoTime == 0

\* An event as the API server holds it: whether it names the object's kind and
\* name, the UID it is recorded for (that of the object, another or none), what it
\* says, and the timestamps of its shape, with a series or without (<<>>).
ASSUME EventsAssumption ==
  /\ EventLimit \in Nat \ {0}
  /\ \A list \in Recorded : list \in Seq(ToSet(list)) /\ \A i \in DOMAIN list :
       LET e == list[i]
       IN  /\ e.named \in BOOLEAN /\ e.uid \in {"same", "other", "none"}
           /\ {e.count, e.first, e.last, e.time} \subseteq Nat
           /\ e.series = <<>> \/ {e.series.count, e.series.last} \subseteq Nat

\* The core API records the first and the last time, events.k8s.io the time, and the
\* series of it the last time as well.
ASSUME ShapesAssumption ==
  \A list \in Recorded : \A i \in DOMAIN list :
    LET e == list[i]
    IN  \/ e.time = NoTime /\ e.series = <<>> /\ e.first # NoTime /\ e.first <= e.last
        \/ /\ e.time # NoTime /\ e.first = NoTime /\ e.last = NoTime
           /\ e.series # <<>> => e.time <= e.series.last

VARIABLES
  stored,      \* the events that the API server holds in the namespace
  selective,   \* whether it honours the field selector
  hasUID,      \* whether the object's UID is known
  step,        \* where the run is
  page,        \* list.Items
  place,       \* the place in the loop over page, then in the one over events
  listed,      \* out of eventsFor
  told         \* out of Dedup

eventsVars == <<stored, selective, hasUID, step, page, place, listed, told>>

EventsInit ==
  /\ stored \in Recorded /\ selective \in BOOLEAN /\ hasUID \in BOOLEAN
  /\ step = "list" /\ page = <<>> /\ place = 1 /\ listed = <<>> /\ told = <<>>

-----------------------------------------------------------------------------
(* eventsFor *)

\* What the server returns for the field selector, if it honours it.
Selected(e) == selective => e.named /\ (hasUID => e.uid = "same")

Matched ==
  LET places == Ascending({i \in DOMAIN stored : Selected(stored[i])})
  IN  [k \in DOMAIN places |-> stored[places[k]]]

\* The first of them in the server's order, which is not that of their times.
FirstPage == SubSeq(Matched, 1, Min({EventLimit, Len(Matched)}))

ListEvents ==
  /\ step = "list"
  /\ \/ page' = FirstPage /\ step' = "filter"
     \/ step' = "failed" /\ UNCHANGED page
  /\ UNCHANGED <<stored, selective, hasUID, place, listed, told>>

matchesObject(e) == IF hasUID /\ e.uid # "none" THEN e.uid = "same" ELSE e.named

\* strings.TrimSpace, of the messages there are.
TrimSpace(message) == IF message = "failed " THEN "failed" ELSE message

\* Mutant: only the timestamps of the core API are read.
normalizeEventCore(e) ==
  [reason |-> e.reason, message |-> TrimSpace(e.message), field |-> e.field,
   count |-> IF e.count = 0 THEN 1 ELSE e.count, first |-> e.first, last |-> e.last]

\* One shape for an event of the core API, which has first and last, for one of
\* events.k8s.io, which has a time, and for a series of those.
normalizeEvent(e) ==
  LET first == IF e.first = NoTime THEN e.time ELSE e.first
      last == IF e.series # <<>> THEN e.series.last ELSE e.last
  IN  [reason |-> e.reason, message |-> TrimSpace(e.message), field |-> e.field,
       count |-> IF e.series # <<>> THEN e.series.count ELSE IF e.count = 0 THEN 1 ELSE e.count,
       first |-> first, last |-> IF last = NoTime THEN first ELSE last]

FilterEvent ==
  /\ step = "filter" /\ place <= Len(page)
  /\ LET e == page[place]
     IN  listed' = IF matchesObject(e) THEN Append(listed, normalizeEvent(e)) ELSE listed
  /\ place' = place + 1
  /\ UNCHANGED <<stored, selective, hasUID, step, page, told>>

\* Which of two places of a list comes first: the more recent event, and of two of one
\* time the first.
Recency(evs) ==
  {p \in (DOMAIN evs) \X (DOMAIN evs) :
     evs[p[1]].last > evs[p[2]].last \/ (evs[p[1]].last = evs[p[2]].last /\ p[1] < p[2])}

\* Most recent first, and stable.
Sort(evs) ==
  LET order == InOrder(DOMAIN evs, Recency(evs))
  IN  [k \in DOMAIN evs |-> evs[order[k]]]

ReturnEvents ==
  /\ step = "filter" /\ place > Len(page)
  /\ listed' = Sort(listed)
  /\ step' = "dedup" /\ place' = 1
  /\ UNCHANGED <<stored, selective, hasUID, page, told>>

-----------------------------------------------------------------------------
(* Dedup, which begins by sorting what is sorted *)

EventKey(e) == <<e.reason, e.message, e.field>>

\* Mutant: a repetition recorded without a count adds none.
MergeEventUncounted(e, j) ==
  [told EXCEPT ![j].count = @ + e.count, ![j].first = Min({@, e.first})]

\* Event e repeats told[j], which is at least as recent.
MergeEvent(e, j) ==
  [told EXCEPT ![j].count = @ + Max({e.count, 1}), ![j].first = Min({@, e.first})]

Dedup ==
  /\ step = "dedup" /\ place <= Len(listed)
  /\ LET e == Sort(listed)[place]
         seen == {j \in DOMAIN told : EventKey(told[j]) = EventKey(e)}
     IN  told' = IF seen = {} THEN Append(told, [e EXCEPT !.count = Max({@, 1})])
                 ELSE MergeEvent(e, CHOOSE j \in seen : TRUE)
  /\ place' = place + 1
  /\ UNCHANGED <<stored, selective, hasUID, step, page, listed>>

FinishDedup ==
  /\ step = "dedup" /\ place > Len(listed)
  /\ step' = "done"
  /\ UNCHANGED <<stored, selective, hasUID, page, place, listed, told>>

EventsTold == step \in {"done", "failed"} /\ UNCHANGED eventsVars

EventsNext == ListEvents \/ FilterEvent \/ ReturnEvents \/ Dedup \/ FinishDedup \/ EventsTold

EventsSpec == EventsInit /\ [][EventsNext]_eventsVars

-----------------------------------------------------------------------------
(* Properties *)

\* Event e is about the object, as far as one can know.
About(e) == (hasUID /\ e.uid = "same") \/ (~(hasUID /\ e.uid = "other") /\ e.named)

\* When and how often something happened, by any of the shapes of an event.
Times(e) ==
  ({e.first, e.last, e.time} \cup (IF e.series = <<>> THEN {} ELSE {e.series.last})) \ {NoTime}
Happened(e) == IF e.series = <<>> THEN Max({e.count, 1}) ELSE Max({e.series.count, 1})

Says(i) == <<stored[i].reason, TrimSpace(stored[i].message), stored[i].field>>

\* "filtered again client-side so a server that ignores the selector cannot leak
\* unrelated events into a diagnosis" (collect/events.go:24-26), nor can the events
\* of a predecessor with the same name: whatever is told was recorded about the object,
\* by an event that says the same and was last seen then.
NoneForeign ==
  \A k \in DOMAIN told : \E i \in DOMAIN stored :
    /\ About(stored[i]) /\ Says(i) = EventKey(told[k])
    /\ told[k].last \in Times(stored[i]) \cup {NoTime}

\* The recorded events that the request is for, and those of them that told[k] is about.
Known == {i \in DOMAIN stored : Selected(stored[i]) /\ About(stored[i])}
Same(k) == {i \in Known : Says(i) = EventKey(told[k])}

\* "collapses events that repeat the same reason and message, keeping the most recent
\* occurrence" (snapshot/snapshot.go:112-113): unless the list exceeds one page, each
\* thing recorded about the object is told, and told once, as of its latest and since its
\* earliest time, whichever API recorded each repetition.
EachToldOnce ==
  step = "done" /\ Len(Matched) <= EventLimit =>
    /\ {EventKey(told[k]) : k \in DOMAIN told} = {Says(i) : i \in Known}
    /\ \A j, k \in DOMAIN told : EventKey(told[j]) = EventKey(told[k]) => j = k
    /\ \A k \in DOMAIN told :
         LET times == UNION {Times(stored[i]) : i \in Same(k)}
         IN  told[k].last = Max(times) /\ told[k].first = Min(times)

\* "Events is a list of events ordered from most to least recent"
\* (snapshot/snapshot.go:61): the merging keeps the order, which the rules rely on
\* when they take the first event of a reason.
RecentFirst == \A j, k \in DOMAIN told : j < k => told[j].last >= told[k].last

\* What the rules see of the events is what was recorded about the object, each thing once,
\* rightly dated, the most recent first.
ToldAsRecorded == NoneForeign /\ EachToldOnce /\ RecentFirst

\* "and summing their counts" (snapshot/snapshot.go:113): unless the list exceeds one
\* page, what is told happened as often as all its repetitions together, those that an
\* API recorded without a count included.
AllCounted ==
  step = "done" /\ Len(Matched) <= EventLimit =>
    \A k \in DOMAIN told : told[k].count = MapThenSumSet(LAMBDA i : Happened(stored[i]), Same(k))

=============================================================================
