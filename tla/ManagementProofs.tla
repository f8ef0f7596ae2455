-------------------------- MODULE ManagementProofs --------------------------
(***************************************************************************)
(* Proofs about Management, for any number of teams, epics, tickets,       *)
(* mutations and events.                                                   *)
(***************************************************************************)
EXTENDS Management, TLAPS

(***************************************************************************)
(* The query cache                                                         *)
(***************************************************************************)

IsCache(c) == c \in [Keys -> Entries(Data)]

\* What an observer that is mounted, or an invalidation, does to an entry: it
\* stays as it is, or a fetch starts.
LEMMA AskedEntry ==
  ASSUME NEW e \in Entries(Data)
  PROVE  /\ Asked(e) \in Entries(Data)
         /\ Asked(e).data = e.data /\ Asked(e).got = NoData /\ Asked(e).fetch = "asked"
         /\ Asked(e).failed = (e.failed /\ e.data # NoData)
BY DEF Asked, Entries

\* Cache d is cache c after some fetches have started.
Started(c, d) ==
  /\ IsCache(d)
  /\ \A k \in Keys : d[k] = c[k] \/ d[k] = Asked(c[k])

\* Mounting observers and invalidating keys starts fetches.
LEMMA MountStarts ==
  ASSUME NEW c, IsCache(c), NEW ks
  PROVE  Started(c, Mount(c, ks)) /\ Started(c, Refetch(c, ks))
BY AskedEntry DEF IsCache, Started, Mount, Refetch, Refetched

\* What is invalidated is being fetched from then on, anew if it had data.
LEMMA RefetchFetches ==
  ASSUME NEW c, IsCache(c), NEW ks, NEW k \in Keys \cap ks
  PROVE  /\ Fetching(Refetch(c, ks)[k])
         /\ c[k].data # NoData => Refetch(c, ks)[k] = Asked(c[k])
BY AskedEntry DEF IsCache, Refetch, Refetched, Fetching

\* A fetch is answered, ends, or fails.
LEMMA FetchSteps ==
  ASSUME NEW c, IsCache(c), NEW k \in Keys, NEW a \in Data
  PROVE  /\ IsCache(Serve(c, k, a)) /\ IsCache(Arrive(c, k)) /\ IsCache(GiveUp(c, k))
         /\ \A j \in Keys \ {k} :
              Serve(c, k, a)[j] = c[j] /\ Arrive(c, k)[j] = c[j] /\ GiveUp(c, k)[j] = c[j]
         /\ Serve(c, k, a)[k] = [data |-> c[k].data, fetch |-> "answered", got |-> a, failed |-> c[k].failed]
         /\ Arrive(c, k)[k] = [data |-> c[k].got, fetch |-> "none", got |-> NoData, failed |-> FALSE]
         /\ GiveUp(c, k)[k] = [data |-> c[k].data, fetch |-> "none", got |-> NoData, failed |-> TRUE]
BY DEF IsCache, Serve, Arrive, GiveUp, Entries

(***************************************************************************)
(* What a cache says is of the past                                        *)
(***************************************************************************)

\* Fetches that start change nothing that has been fetched.
LEMMA StartedPast ==
  ASSUME NEW c, IsCache(c), NEW d, Started(c, d), PastCache(c)
  PROVE  PastCache(d)
<1>1. ASSUME NEW k \in Keys, d[k] = Asked(c[k])
      PROVE  OfThePast(d[k].data, k) /\ OfThePast(d[k].got, k) /\ InOrder(d[k])
  <2>1. d[k].data = c[k].data /\ d[k].got = NoData /\ d[k].fetch = "asked"
    BY <1>1, AskedEntry DEF IsCache
  <2>. QED
    BY <1>1, <2>1 DEF PastCache, OfThePast, InOrder
<1>. QED
  BY <1>1 DEF Started, PastCache

\* The backend answers with what is there.
LEMMA AnswerType ==
  ASSUME TypeOK, NEW k \in Keys
  PROVE  Answer(k) \in Data /\ OfThePast(Answer(k), k) /\ Answer(k).version = version
<1>1. RowsOf(k) \subseteq RowsIn(k) /\ RowsIn(k) \subseteq Teams \cup Epics \cup Tickets
  BY DEF TypeOK, Keys, TeamsKey, EpicsKeys, EpicsKey, TicketsKey, Key, RowsOf, RowsIn, EpicsOf, TicketsOf
<1>2. version \in Nat
  BY DEF TypeOK
<1>. QED
  BY <1>1, <1>2 DEF Answer, OfThePast, Data

\* One entry may change.
LEMMA OneEntryPast ==
  ASSUME NEW c, PastCache(c), NEW d, NEW k \in Keys, \A j \in Keys \ {k} : d[j] = c[j],
         OfThePast(d[k].data, k), OfThePast(d[k].got, k), InOrder(d[k])
  PROVE  PastCache(d)
BY DEF PastCache

\* Answers keep a cache of the past, and so do failures.
LEMMA FetchPast ==
  ASSUME TypeOK, PastCache(cache), NEW k \in Keys
  PROVE  /\ PastCache(Serve(cache, k, Answer(k)))
         /\ cache[k].fetch = "answered" => PastCache(Arrive(cache, k))
         /\ PastCache(GiveUp(cache, k))
<1>1. IsCache(cache) /\ Answer(k) \in Data /\ OfThePast(Answer(k), k) /\ Answer(k).version = version
  BY AnswerType DEF TypeOK, IsCache
<1>2. OfThePast(cache[k].data, k) /\ OfThePast(cache[k].got, k) /\ OfThePast(NoData, k)
  BY DEF PastCache, OfThePast
<1>3. Answer(k) # NoData /\ (cache[k].data # NoData => cache[k].data.version <= version)
  BY <1>1, <1>2, DataMarker DEF OfThePast
<1>4. PastCache(Serve(cache, k, Answer(k)))
  <2>. DEFINE d == Serve(cache, k, Answer(k))
  <2>1. d[k] = [data |-> cache[k].data, fetch |-> "answered", got |-> Answer(k), failed |-> cache[k].failed]
        /\ \A j \in Keys \ {k} : d[j] = cache[j]
    BY <1>1, FetchSteps
  <2>. HIDE DEF d
  <2>2. InOrder(d[k])
    BY <1>1, <1>3, <2>1 DEF InOrder
  <2>3. OfThePast(d[k].data, k) /\ OfThePast(d[k].got, k)
    BY <1>1, <1>2, <2>1
  <2>4. PastCache(d)
    BY <2>1, <2>2, <2>3, OneEntryPast
  <2>. QED
    BY <2>4 DEF d
<1>5. cache[k].fetch = "answered" => PastCache(Arrive(cache, k))
  <2>. DEFINE d == Arrive(cache, k)
  <2>1. d[k] = [data |-> cache[k].got, fetch |-> "none", got |-> NoData, failed |-> FALSE]
        /\ \A j \in Keys \ {k} : d[j] = cache[j]
    BY <1>1, FetchSteps
  <2>. HIDE DEF d
  <2>2. InOrder(d[k]) /\ OfThePast(d[k].data, k) /\ OfThePast(d[k].got, k)
    BY <1>2, <2>1 DEF InOrder
  <2>3. PastCache(d)
    BY <2>1, <2>2, OneEntryPast
  <2>. QED
    BY <2>3 DEF d
<1>6. PastCache(GiveUp(cache, k))
  <2>. DEFINE d == GiveUp(cache, k)
  <2>1. d[k] = [data |-> cache[k].data, fetch |-> "none", got |-> NoData, failed |-> TRUE]
        /\ \A j \in Keys \ {k} : d[j] = cache[j]
    BY <1>1, FetchSteps
  <2>. HIDE DEF d
  <2>2. InOrder(d[k]) /\ OfThePast(d[k].data, k) /\ OfThePast(d[k].got, k)
    BY <1>2, <2>1 DEF InOrder
  <2>3. PastCache(d)
    BY <2>1, <2>2, OneEntryPast
  <2>. QED
    BY <2>3 DEF d
<1>. QED
  BY <1>4, <1>5, <1>6

\* A cache of the past stays one when nothing changes ...
LEMMA SameDbPast ==
  ASSUME UNCHANGED db, PastCache(cache')
  PROVE  PastCache(cache)'
BY DEF db, PastCache, OfThePast, RowsOf, EpicsOf, TicketsOf, InOrder

\* ... and when something does: then all of it is out of date.
LEMMA NewVersionPast ==
  ASSUME TypeOK, PastCache(cache), UNCHANGED cache, version' = version + 1
  PROVE  PastCache(cache)'
<1>1. ASSUME NEW d \in Data \cup {NoData}, NEW k \in Keys, OfThePast(d, k)
      PROVE  d # NoData => /\ d.rows \subseteq RowsIn(k) /\ d.version <= version'
                           /\ d.version # version'
  BY <1>1 DEF OfThePast, TypeOK, Data
<1>2. \A k \in Keys : cache[k].data \in Data \cup {NoData} /\ cache[k].got \in Data \cup {NoData}
  BY DEF TypeOK, Entries
<1>. QED
  BY <1>1, <1>2 DEF PastCache, OfThePast, InOrder

(***************************************************************************)
(* What mutations wait for                                                 *)
(***************************************************************************)

CallType ==
  [kind : {"none", "create", "edit", "delete"}, on : {"teams", "epics"},
   row : Teams \cup Epics \cup {NoRow},
   phase : {"unused", "sent", "ok", "refused", "unheard", "refetching", "done", "failed"},
   at : Nat, asked : SUBSET Keys, wait : SUBSET Keys]

\* What the types say of the cache and of the calls.
LEMMA Types ==
  ASSUME TypeOK
  PROVE  IsCache(cache) /\ call \in [Calls -> CallType] /\ version \in Nat
BY DEF TypeOK, IsCache, CallType

\* Fetches that start lose nothing that is awaited.
LEMMA StartedSeen ==
  ASSUME NEW c, IsCache(c), NEW d, Started(c, d), NEW k \in Keys
  PROVE  /\ Fetching(c[k]) => Fetching(d[k])
         /\ \A n, w : SeenFrom(n, c[k], w) => SeenFrom(n, d[k], w)
<1>1. CASE d[k] = c[k]
  BY <1>1
<1>2. CASE d[k] = Asked(c[k])
  <2>1. d[k].data = c[k].data /\ d[k].fetch = "asked" /\ d[k].failed = (c[k].failed /\ c[k].data # NoData)
    BY <1>2, AskedEntry DEF IsCache
  <2>2. Fetching(d[k])
    BY <2>1 DEF Fetching
  <2>3. ASSUME NEW n, NEW w, SeenFrom(n, c[k], w) PROVE SeenFrom(n, d[k], w)
    BY <2>1, <2>3 DEF SeenFrom
  <2>. QED
    BY <2>2, <2>3
<1>. QED
  BY <1>1, <1>2 DEF Started

\* A step that only starts fetches keeps a call in order.
LEMMA StartedCall ==
  ASSUME TypeOK, Started(cache, cache'), NEW c \in Calls, CallInOrder(c), call'[c] = call[c],
         version' \in {version, version + 1}
  PROVE  CallInOrder(c)'
<1>1. call[c].wait \subseteq Keys /\ call[c].asked \subseteq Keys /\ call[c].at \in Nat
      /\ IsCache(cache) /\ version \in Nat
  BY Types DEF CallType
<1>2. call[c].at <= version'
  BY <1>1 DEF CallInOrder
<1>3. \A k \in call[c].wait : Fetching(cache'[k])
  BY <1>1, StartedSeen DEF CallInOrder
<1>4. \A k \in call[c].asked : SeenFrom(call[c].at, cache'[k], k \in call[c].wait)
  BY <1>1, StartedSeen DEF CallInOrder
<1>. QED
  BY <1>2, <1>3, <1>4 DEF CallInOrder, Fetching, SeenFrom

\* The end of a fetch, which no call waits for any longer, keeps the calls in
\* order if its entry is all right.
LEMMA EndedCalls ==
  ASSUME TypeOK, WaitsAreServed, UNCHANGED db, NEW k \in Keys, call' = Settled(k),
         NEW d, IsCache(d), Started(d, cache'), \A j \in Keys \ {k} : d[j] = cache[j],
         \A c \in Calls : k \in call[c].asked => SeenFrom(call[c].at, d[k], FALSE)
  PROVE  WaitsAreServed'
<1>1. SUFFICES ASSUME NEW c \in Calls PROVE CallInOrder(c)'
  BY DEF WaitsAreServed
<1>2. call[c] \in CallType /\ CallInOrder(c)
  BY Types DEF WaitsAreServed
<1>3. call'[c] = [call[c] EXCEPT !.wait = @ \ {k}]
  BY DEF Settled
<1>4. /\ call'[c].at = call[c].at /\ call'[c].asked = call[c].asked
      /\ call'[c].phase = call[c].phase /\ call'[c].wait = call[c].wait \ {k}
  BY <1>2, <1>3 DEF CallType
<1>5. call[c].wait \subseteq Keys /\ call[c].asked \subseteq Keys
  BY <1>2 DEF CallType
<1>6. ASSUME NEW j \in call'[c].wait PROVE Fetching(cache'[j])
  BY <1>2, <1>4, <1>5, <1>6, StartedSeen DEF CallInOrder
<1>7. ASSUME NEW j \in call[c].asked PROVE SeenFrom(call[c].at, cache'[j], j \in call'[c].wait)
  <2>1. CASE j = k
    <3>1. SeenFrom(call[c].at, cache'[k], FALSE)
      BY <1>5, <1>7, <2>1, StartedSeen
    <3>2. (j \in call'[c].wait) = FALSE
      BY <1>4, <2>1
    <3>. QED
      BY <2>1, <3>1, <3>2
  <2>2. CASE j # k
    <3>1. SeenFrom(call[c].at, d[j], j \in call[c].wait)
      BY <1>2, <1>5, <2>2 DEF CallInOrder
    <3>2. SeenFrom(call[c].at, cache'[j], j \in call[c].wait)
      BY <1>5, <3>1, StartedSeen
    <3>3. (j \in call[c].wait) = (j \in call'[c].wait)
      BY <1>4, <2>2
    <3>. QED
      BY <3>2, <3>3
  <2>. QED
    BY <2>1, <2>2
<1>8. call[c].at <= version' /\ (call[c].phase \notin {"refetching", "done"} => call[c].asked = {})
      /\ (call[c].phase # "refetching" => call'[c].wait = {})
  BY <1>2, <1>4 DEF CallInOrder, db
<1>. QED
  BY <1>4, <1>6, <1>7, <1>8 DEF CallInOrder, Fetching, SeenFrom

\* A call that is not yet heard has asked for nothing and waits for nothing.
LEMMA EmptyCall ==
  ASSUME TypeOK, NEW c \in Calls, call'[c].asked = {}, call'[c].wait = {}, call'[c].at <= version'
  PROVE  CallInOrder(c)'
BY DEF CallInOrder

(***************************************************************************)
(* The inductive invariant                                                 *)
(***************************************************************************)

\* The rows that the pages draw are what they are called.
LEMMA RowsFit ==
  ASSUME IInv, NEW k \in Keys
  PROVE  CachedRows(cache, k) \subseteq RowsIn(k)
BY DEF IInv, PastCache, OfThePast, CachedRows

LEMMA KeysAreKeys ==
  /\ TeamsKey \in Keys /\ RowsIn(TeamsKey) = Teams
  /\ \A f \in Teams \cup {All} : EpicsKey(f) \in Keys /\ RowsIn(EpicsKey(f)) = Epics
  /\ \A r \in Teams \cup Epics : TicketsKey(r) \in Keys
BY DEF Keys, TeamsKey, EpicsKeys, EpicsKey, TicketsKey, Key, RowsIn

\* An event is counted within its bound.
LEMMA CountType == TypeOK /\ Count => events' \in 0..MaxEvents
BY ManagementBounds DEF TypeOK, Count

\* Some fetches may start, or none.
LEMMA StartedSame == ASSUME IsCache(cache), UNCHANGED cache PROVE Started(cache, cache')
BY DEF Started, IsCache

\* A step that changes neither the database nor the calls, and at most starts
\* fetches, keeps the inductive invariant.
LEMMA PageStep ==
  ASSUME IInv, UNCHANGED <<db, call>>, Started(cache, cache'),
         page' \in {"teams", "epics"}, filter' \in Teams \cup {All},
         dialog' \in [kind : {"none", "create", "edit", "delete"}, row : Teams \cup Epics \cup {NoRow}],
         live' \subseteq Calls, events' \in 0..MaxEvents
  PROVE  IInv'
<1>1. TypeOK /\ IsCache(cache) /\ version \in Nat /\ PastCache(cache) /\ WaitsAreServed
  BY Types DEF IInv
<1>2. TypeOK'
  BY <1>1 DEF TypeOK, db, Started, IsCache
<1>3. PastCache(cache)'
  BY <1>1, StartedPast, SameDbPast
<1>4. WaitsAreServed'
  BY <1>1, StartedCall DEF WaitsAreServed, db
<1>. QED
  BY <1>2, <1>3, <1>4 DEF IInv

\* A page has just been opened: nothing has been fetched, nobody waits.
LEMMA InitIInv == Init => IInv
<1>1. SUFFICES ASSUME Init PROVE IInv
  OBVIOUS
<1>. DEFINE none == [k \in Keys |-> Unused]
<1>2. IsCache(none)
  BY DEF IsCache, Unused, Entries
<1>3. Started(none, cache)
  BY <1>1, <1>2, MountStarts DEF Init
<1>4. PastCache(none)
  BY DEF PastCache, Unused, OfThePast, InOrder
<1>5. PastCache(cache)
  BY <1>2, <1>3, <1>4, StartedPast
<1>6. call \in [Calls -> CallType] /\ \A c \in Calls : call[c] = Idle
  BY <1>1 DEF Init, Idle, CallType
<1>7. TypeOK
  <2>1. teams \subseteq Teams /\ epics \subseteq Epics /\ born \subseteq Teams \cup Epics
    BY <1>1 DEF Init
  <2>2. ticketOf \in [Tickets -> [team : Teams \cup {NoRow}, epic : Epics \cup {NoRow}]]
    BY <1>1, <2>1, RowIds DEF Init, Places
  <2>3. dialog \in [kind : {"none", "create", "edit", "delete"}, row : Teams \cup Epics \cup {NoRow}]
    BY <1>1 DEF Init, Closed
  <2>. QED
    BY <1>1, <1>3, <1>6, <2>1, <2>2, <2>3, ManagementBounds DEF TypeOK, Init, CallType, Started, IsCache
<1>8. WaitsAreServed
  BY <1>1, <1>6 DEF Init, WaitsAreServed, CallInOrder, Idle
<1>. QED
  BY <1>5, <1>7, <1>8 DEF IInv

\* Opening a page or a dialog, choosing a filter and retrying keep the
\* inductive invariant.
LEMMA UserIInv ==
  ASSUME IInv,
         \/ Retry \/ (\E p \in {"teams", "epics"} : Visit(p)) \/ (\E f \in Teams \cup {All} : SetFilter(f))
         \/ OpenCreate \/ CloseDialog
         \/ (\E kind \in {"edit", "delete"}, r \in Teams \cup Epics : OpenRow(kind, r))
  PROVE  IInv'
<1>1. TypeOK /\ IsCache(cache)
  BY Types DEF IInv
<1>2. /\ page \in {"teams", "epics"} /\ filter \in Teams \cup {All} /\ live \subseteq Calls
      /\ dialog \in [kind : {"none", "create", "edit", "delete"}, row : Teams \cup Epics \cup {NoRow}]
      /\ events \in 0..MaxEvents
  BY <1>1 DEF TypeOK
<1>3. CASE Retry
  BY <1>1, <1>2, <1>3, MountStarts, CountType, PageStep DEF Retry, view
<1>4. ASSUME NEW p \in {"teams", "epics"}, Visit(p) PROVE IInv'
  <2>1. Started(cache, cache')
    BY <1>1, <1>4, MountStarts DEF Visit
  <2>2. dialog' \in [kind : {"none", "create", "edit", "delete"}, row : Teams \cup Epics \cup {NoRow}]
    BY <1>4 DEF Visit, Closed
  <2>. QED
    BY <1>1, <1>4, <2>1, <2>2, CountType, PageStep DEF Visit
<1>5. ASSUME NEW f \in Teams \cup {All}, SetFilter(f) PROVE IInv'
  <2>1. Started(cache, cache')
    BY <1>1, <1>5, MountStarts DEF SetFilter, Redrawn
  <2>. QED
    BY <1>1, <1>2, <1>5, <2>1, CountType, PageStep DEF SetFilter
<1>6. CASE OpenCreate
  <2>1. CachedRows(cache, TeamsKey) \cup ({filter} \ {All}) \subseteq Teams
    BY <1>2, RowsFit, KeysAreKeys
  <2>2. dialog' \in [kind : {"none", "create", "edit", "delete"}, row : Teams \cup Epics \cup {NoRow}]
    BY <1>6, <2>1 DEF OpenCreate
  <2>3. Started(cache, cache')
    BY <1>1, <1>6, StartedSame DEF OpenCreate
  <2>. QED
    BY <1>2, <1>6, <2>2, <2>3, PageStep DEF OpenCreate, view
<1>7. CASE CloseDialog
  <2>1. dialog' \in [kind : {"none", "create", "edit", "delete"}, row : Teams \cup Epics \cup {NoRow}]
    BY <1>7 DEF CloseDialog, Closed
  <2>2. Started(cache, cache')
    BY <1>1, <1>7, StartedSame DEF CloseDialog
  <2>. QED
    BY <1>2, <1>7, <2>1, <2>2, PageStep DEF CloseDialog, view
<1>8. ASSUME NEW kind \in {"edit", "delete"}, NEW r \in Teams \cup Epics, OpenRow(kind, r) PROVE IInv'
  <2>1. dialog' \in [kind : {"none", "create", "edit", "delete"}, row : Teams \cup Epics \cup {NoRow}]
    BY <1>8 DEF OpenRow
  <2>2. Started(cache, cache')
    BY <1>1, <1>8, StartedSame DEF OpenRow
  <2>. QED
    BY <1>2, <1>8, <2>1, <2>2, PageStep DEF OpenRow, view
<1>. QED
  BY <1>3, <1>4, <1>5, <1>6, <1>7, <1>8

\* The steps of a fetch keep the inductive invariant.
LEMMA FetchIInv ==
  ASSUME IInv, NEW k \in Keys, ServeFetch(k) \/ EndFetch(k) \/ FetchFails(k)
  PROVE  IInv'
<1>1. TypeOK /\ IsCache(cache) /\ PastCache(cache) /\ WaitsAreServed /\ version \in Nat
      /\ call \in [Calls -> CallType]
  BY Types DEF IInv
<1>2. Answer(k) \in Data /\ Answer(k).version = version
  BY <1>1, AnswerType
<1>3. ASSUME NEW c \in Calls
      PROVE  /\ call[c] \in CallType /\ CallInOrder(c)
             /\ k \in call[c].asked => SeenFrom(call[c].at, cache[k], k \in call[c].wait)
  BY <1>1 DEF WaitsAreServed, CallInOrder
<1>4. OfThePast(cache[k].data, k) /\ InOrder(cache[k]) /\ cache[k] \in Entries(Data)
  BY <1>1 DEF PastCache, IsCache
<1>5. CASE ServeFetch(k)
  <2>1. cache' = Serve(cache, k, Answer(k)) /\ UNCHANGED <<db, view, dialog, call, live, events>>
    BY <1>5 DEF ServeFetch
  <2>2. /\ IsCache(cache') /\ \A j \in Keys \ {k} : cache'[j] = cache[j]
        /\ cache'[k] = [data |-> cache[k].data, fetch |-> "answered", got |-> Answer(k), failed |-> cache[k].failed]
    BY <1>1, <1>2, <2>1, FetchSteps
  <2>3. TypeOK'
    BY <1>1, <2>1, <2>2 DEF TypeOK, db, view, IsCache
  <2>4. PastCache(cache)'
    BY <1>1, <2>1, FetchPast, SameDbPast
  <2>5. ASSUME NEW c \in Calls PROVE CallInOrder(c)'
    <3>1. call'[c] = call[c] /\ call[c].at <= version /\ version' = version
          /\ call[c].wait \subseteq Keys /\ call[c].asked \subseteq Keys
      BY <1>3, <2>1 DEF db, CallType, CallInOrder
    <3>2. ASSUME NEW j \in call[c].wait PROVE Fetching(cache'[j])
      BY <1>3, <2>2, <3>1, <3>2 DEF CallInOrder, Fetching
    <3>3. ASSUME NEW j \in call[c].asked PROVE SeenFrom(call[c].at, cache'[j], j \in call[c].wait)
      <4>1. CASE j = k
        BY <1>2, <1>3, <2>2, <3>1, <3>3, <4>1 DEF SeenFrom
      <4>2. CASE j # k
        BY <1>3, <2>2, <3>1, <3>3, <4>2 DEF CallInOrder
      <4>. QED
        BY <4>1, <4>2
    <3>. QED
      BY <1>3, <3>1, <3>2, <3>3 DEF CallInOrder, Fetching, SeenFrom
  <2>. QED
    BY <2>3, <2>4, <2>5 DEF IInv, WaitsAreServed
<1>6. ASSUME UNCHANGED <<db, view, dialog, live>>, call' = Settled(k), events' \in 0..MaxEvents,
             NEW d, IsCache(d), PastCache(d), Started(d, cache'),
             \A j \in Keys \ {k} : d[j] = cache[j],
             \A c \in Calls : k \in call[c].asked => SeenFrom(call[c].at, d[k], FALSE)
      PROVE  IInv'
  <2>1. call' \in [Calls -> CallType]
    BY <1>1, <1>6 DEF Settled, CallType
  <2>2. TypeOK'
    BY <1>1, <1>6, <2>1 DEF TypeOK, db, view, Started, IsCache, CallType
  <2>3. PastCache(cache)'
    BY <1>6, StartedPast, SameDbPast
  <2>4. WaitsAreServed'
    BY <1>1, <1>6, EndedCalls
  <2>. QED
    BY <2>2, <2>3, <2>4 DEF IInv
<1>7. CASE EndFetch(k)
  <2>. DEFINE d == Arrive(cache, k)
  <2>1. /\ IsCache(d) /\ \A j \in Keys \ {k} : d[j] = cache[j]
        /\ d[k] = [data |-> cache[k].got, fetch |-> "none", got |-> NoData, failed |-> FALSE]
    BY <1>1, <1>2, FetchSteps
  <2>2. PastCache(d)
    BY <1>1, <1>7, FetchPast DEF EndFetch
  <2>3. Started(d, cache')
    BY <1>7, <2>1, MountStarts DEF EndFetch, Redrawn
  <2>4. events' \in 0..MaxEvents
    BY <1>1, <1>7 DEF EndFetch, TypeOK
  <2>5. ASSUME NEW c \in Calls, k \in call[c].asked PROVE SeenFrom(call[c].at, d[k], FALSE)
    <3>1. /\ cache[k].got \in Data
          /\ cache[k].data # NoData => cache[k].data \in Data /\ cache[k].data.version <= cache[k].got.version
      BY <1>3, <1>4, <1>7, <2>5 DEF EndFetch, InOrder, Entries
    <3>2. cache[k].got.version >= call[c].at
      BY <1>3, <1>7, <2>5, <3>1 DEF EndFetch, SeenFrom, CallType, Data
    <3>. QED
      BY <2>1, <3>1, <3>2, DataMarker DEF SeenFrom
  <2>. HIDE DEF d
  <2>. QED
    BY <1>6, <1>7, <2>1, <2>2, <2>3, <2>4, <2>5 DEF EndFetch
<1>8. CASE FetchFails(k)
  <2>. DEFINE d == GiveUp(cache, k)
  <2>1. /\ IsCache(d) /\ \A j \in Keys \ {k} : d[j] = cache[j]
        /\ d[k] = [data |-> cache[k].data, fetch |-> "none", got |-> NoData, failed |-> TRUE]
    BY <1>1, <1>2, FetchSteps
  <2>2. PastCache(d)
    BY <1>1, FetchPast
  <2>3. cache' = d
    BY <1>8 DEF FetchFails
  <2>4. ASSUME NEW c \in Calls, k \in call[c].asked PROVE SeenFrom(call[c].at, d[k], FALSE)
    BY <1>3, <2>1, <2>4 DEF SeenFrom
  <2>. HIDE DEF d
  <2>5. Started(d, cache')
    BY <2>1, <2>3 DEF Started, IsCache
  <2>. QED
    BY <1>1, <1>6, <1>8, <2>1, <2>2, <2>4, <2>5, CountType DEF FetchFails
<1>. QED
  BY <1>5, <1>7, <1>8

\* Sending a mutation, and the end of one, keep the inductive invariant: the
\* calls change one by one.
LEMMA CallStep ==
  ASSUME IInv, NEW c \in Calls, UNCHANGED <<db, cache, view>>,
         NEW x \in CallType, call' = [call EXCEPT ![c] = x],
         (x.asked = {} /\ x.wait = {} /\ x.at <= version) \/ CallInOrder(c)',
         dialog' \in {dialog, Closed}, live' \subseteq Calls, events' \in 0..MaxEvents
  PROVE  IInv'
<1>1. TypeOK /\ IsCache(cache) /\ PastCache(cache) /\ WaitsAreServed /\ version \in Nat
      /\ call \in [Calls -> CallType]
  BY Types DEF IInv
<1>2. call' \in [Calls -> CallType] /\ call'[c] = x /\ \A b \in Calls \ {c} : call'[b] = call[b]
  BY <1>1
<1>3. Closed \in [kind : {"none", "create", "edit", "delete"}, row : Teams \cup Epics \cup {NoRow}]
  BY DEF Closed
<1>4. TypeOK'
  BY <1>1, <1>2, <1>3 DEF TypeOK, db, view, CallType
<1>5. PastCache(cache)'
  BY <1>1, SameDbPast
<1>6. version' = version /\ Started(cache, cache')
  BY <1>1, StartedSame DEF db
<1>7. CallInOrder(c)'
  BY <1>1, <1>2, <1>6, EmptyCall
<1>8. ASSUME NEW b \in Calls PROVE CallInOrder(b)'
  BY <1>1, <1>2, <1>6, <1>7, StartedCall DEF WaitsAreServed
<1>. QED
  BY <1>4, <1>5, <1>8 DEF IInv, WaitsAreServed

\* Submitting keeps the inductive invariant.
LEMMA SubmitIInv ==
  ASSUME IInv, NEW c \in Calls, Submit(c)
  PROVE  IInv'
<1>. DEFINE x == [kind |-> dialog.kind, on |-> page, row |-> dialog.row,
                  phase |-> "sent", at |-> 0, asked |-> {}, wait |-> {}]
<1>1. TypeOK /\ version \in Nat
  BY Types DEF IInv
<1>2. x \in CallType /\ x.asked = {} /\ x.wait = {} /\ x.at <= version
  BY <1>1 DEF TypeOK, CallType
<1>3. call' = [call EXCEPT ![c] = x] /\ UNCHANGED <<db, cache, view, dialog>>
      /\ live' \subseteq Calls /\ events' \in 0..MaxEvents
  BY <1>1, CountType DEF Submit, TypeOK
<1>. HIDE DEF x
<1>. QED
  BY <1>2, <1>3, CallStep

\* What the database holds has its types.
DbOK ==
  /\ teams \subseteq Teams /\ epics \subseteq Epics /\ born \subseteq Teams \cup Epics
  /\ ticketOf \in [Tickets -> [team : Teams \cup {NoRow}, epic : Epics \cup {NoRow}]]

\* Whatever is inserted, removed or moved is a row.
LEMMA DbChanges ==
  ASSUME DbOK
  PROVE  /\ \A r \in Teams \cup Epics : Insert(r) \/ Remove(r) => DbOK'
         /\ \A k \in Tickets, at \in Places :
              ticketOf' = [ticketOf EXCEPT ![k] = at] /\ UNCHANGED <<teams, epics, born>> => DbOK'
         /\ \A c \in Calls : Carry(c) => DbOK'
<1>1. ASSUME NEW r \in Teams \cup Epics, Insert(r) PROVE DbOK'
  BY <1>1 DEF DbOK, Insert
<1>2. ASSUME NEW r, Remove(r) PROVE DbOK'
  BY <1>2 DEF DbOK, Remove
<1>3. \A at \in Places : at \in [team : Teams \cup {NoRow}, epic : Epics \cup {NoRow}]
  BY RowIds DEF DbOK, Places
<1>4. ASSUME NEW k \in Tickets, NEW at \in Places,
             ticketOf' = [ticketOf EXCEPT ![k] = at], UNCHANGED <<teams, epics, born>>
      PROVE  DbOK'
  BY <1>3, <1>4 DEF DbOK
<1>5. ASSUME NEW c \in Calls, Carry(c) PROVE DbOK'
  <2>1. CASE \E r \in Teams \cup Epics : Insert(r)
    BY <1>1, <2>1
  <2>2. CASE UNCHANGED <<teams, epics, ticketOf, born>>
    BY <2>2 DEF DbOK
  <2>3. CASE Remove(call[c].row)
    BY <1>2, <2>3
  <2>. QED
    BY <1>5, <2>1, <2>2, <2>3 DEF Carry
<1>. QED
  BY <1>1, <1>2, <1>4, <1>5

\* A step that changes the database, and calls only as far as it goes, keeps
\* the inductive invariant.
LEMMA DbStep ==
  ASSUME IInv, UNCHANGED <<cache, view, dialog, live>>, DbOK', version' = version + 1,
         call' \in [Calls -> CallType], events' \in 0..MaxEvents,
         \A b \in Calls : call'[b] = call[b] \/ CallInOrder(b)'
  PROVE  IInv'
<1>1. TypeOK /\ IsCache(cache) /\ PastCache(cache) /\ WaitsAreServed /\ version \in Nat
  BY Types DEF IInv
<1>2. TypeOK'
  BY <1>1 DEF TypeOK, DbOK, view, CallType
<1>3. PastCache(cache)'
  BY <1>1, NewVersionPast
<1>4. \A b \in Calls : CallInOrder(b)'
  BY <1>1, StartedSame, StartedCall DEF WaitsAreServed
<1>. QED
  BY <1>2, <1>3, <1>4 DEF IInv, WaitsAreServed

\* The backend's steps keep the inductive invariant.
LEMMA ServeIInv ==
  ASSUME IInv, NEW c \in Calls, ServeCall(c)
  PROVE  IInv'
<1>1. TypeOK /\ version \in Nat /\ call \in [Calls -> CallType] /\ DbOK /\ CallInOrder(c)
  BY Types DEF IInv, WaitsAreServed, TypeOK, DbOK
<1>2. call[c] \in CallType /\ call[c].asked = {} /\ call[c].wait = {} /\ call[c].at <= version
  BY <1>1 DEF ServeCall, CallInOrder
<1>3. UNCHANGED <<cache, view, dialog, live, events>> /\ live \subseteq Calls /\ events \in 0..MaxEvents
  BY <1>1 DEF ServeCall, TypeOK
<1>4. CASE /\ Carry(c) /\ version' = version + 1
           /\ \E p \in {"ok", "unheard"} : call' = [call EXCEPT ![c].phase = p, ![c].at = version']
  <2>1. PICK p \in {"ok", "unheard"} : call' = [call EXCEPT ![c].phase = p, ![c].at = version']
    BY <1>4
  <2>2. call' = [call EXCEPT ![c] = [call[c] EXCEPT !.phase = p, !.at = version']]
    BY <1>1, <2>1
  <2>3. [call[c] EXCEPT !.phase = p, !.at = version'] \in CallType
    BY <1>1, <1>2, <1>4 DEF CallType
  <2>4. call' \in [Calls -> CallType] /\ \A b \in Calls \ {c} : call'[b] = call[b]
    BY <1>1, <2>2, <2>3
  <2>5. call'[c].asked = {} /\ call'[c].wait = {} /\ call'[c].at <= version'
    BY <1>1, <1>2, <1>4, <2>2 DEF CallType
  <2>6. CallInOrder(c)'
    BY <1>1, <2>5, EmptyCall
  <2>7. DbOK'
    BY <1>1, <1>4, DbChanges
  <2>8. \A b \in Calls : call'[b] = call[b] \/ CallInOrder(b)'
    BY <2>4, <2>6
  <2>. QED
    BY <1>3, <1>4, <2>4, <2>7, <2>8, DbStep
<1>5. CASE call' = [call EXCEPT ![c].phase = "refused"] /\ UNCHANGED db
  <2>. DEFINE x == [call[c] EXCEPT !.phase = "refused"]
  <2>1. x \in CallType /\ x.asked = {} /\ x.wait = {} /\ x.at <= version
    BY <1>2 DEF CallType
  <2>2. call' = [call EXCEPT ![c] = x]
    BY <1>1, <1>5
  <2>. HIDE DEF x
  <2>. QED
    BY <1>3, <1>5, <2>1, <2>2, CallStep
<1>. QED
  BY <1>4, <1>5 DEF ServeCall

\* onSuccess of a mutation asks for lists, and waits for those it asks for.
LEMMA HearOkIInv ==
  ASSUME IInv, NEW c \in Calls, HearOk(c)
  PROVE  IInv'
<1>. DEFINE ks == Touched(call[c].on) \cap Active
            asked == {k \in ks : ~TooEarly(cache[k])}
            x == [call[c] EXCEPT !.phase = "refetching", !.wait = ks, !.asked = asked]
<1>1. TypeOK /\ version \in Nat /\ call \in [Calls -> CallType] /\ IsCache(cache)
      /\ PastCache(cache) /\ WaitsAreServed /\ call[c] \in CallType /\ call[c].at <= version
  BY Types DEF IInv, WaitsAreServed, CallInOrder
<1>2. /\ cache' = Refetch(cache, ks) /\ UNCHANGED <<db, view, dialog, live, events>>
      /\ call' = [call EXCEPT ![c].phase = "refetching", ![c].wait = ks, ![c].asked = asked]
  BY DEF HearOk
<1>3. ks \subseteq Keys /\ asked \subseteq ks
  BY DEF Touched, Keys
<1>. HIDE DEF ks
<1>4. x \in CallType /\ x.at = call[c].at /\ x.wait = ks /\ x.asked = asked /\ x.phase = "refetching"
  BY <1>1, <1>3 DEF CallType
<1>5. call' = [call EXCEPT ![c] = x]
  BY <1>1, <1>2
<1>. HIDE DEF x
<1>6. call' \in [Calls -> CallType] /\ call'[c] = x /\ \A b \in Calls \ {c} : call'[b] = call[b]
  BY <1>1, <1>4, <1>5
<1>7. Started(cache, cache') /\ UNCHANGED db
  BY <1>1, <1>2, MountStarts
<1>8. TypeOK'
  BY <1>1, <1>2, <1>6, <1>7 DEF TypeOK, db, view, CallType, Started, IsCache
<1>9. PastCache(cache)'
  BY <1>1, <1>7, StartedPast, SameDbPast
<1>10. CallInOrder(c)'
  <2>1. \A k \in ks : Fetching(cache'[k])
    BY <1>1, <1>2, <1>3, RefetchFetches
  <2>2. ASSUME NEW k \in asked PROVE SeenFrom(x.at, cache'[k], k \in ks)
    <3>1. cache'[k] = Refetched(cache[k]) /\ cache[k] \in Entries(Data)
      BY <1>1, <1>2, <1>3, <2>2 DEF IsCache, Refetch
    <3>2. cache'[k].fetch = "asked"
      BY <2>2, <3>1, AskedEntry DEF Refetched, TooEarly, Fetching, Entries
    <3>. QED
      BY <1>3, <2>2, <3>2 DEF SeenFrom
  <2>3. x.at <= version'
    BY <1>1, <1>4, <1>7 DEF db
  <2>. QED
    BY <1>4, <1>6, <2>1, <2>2, <2>3 DEF CallInOrder, Fetching, SeenFrom
<1>11. ASSUME NEW b \in Calls PROVE CallInOrder(b)'
  BY <1>1, <1>6, <1>7, <1>10, StartedCall DEF WaitsAreServed, db
<1>. QED
  BY <1>8, <1>9, <1>11 DEF IInv, WaitsAreServed

\* The callbacks of mutate keep the inductive invariant.
LEMMA CallbackIInv ==
  ASSUME IInv, NEW c \in Calls, Finish(c) \/ HearError(c)
  PROVE  IInv'
<1>1. TypeOK /\ version \in Nat /\ call \in [Calls -> CallType] /\ CallInOrder(c)
      /\ IsCache(cache) /\ live \subseteq Calls /\ events \in 0..MaxEvents
  BY Types DEF IInv, WaitsAreServed, TypeOK
<1>2. call[c] \in CallType /\ call[c].at <= version /\ UNCHANGED <<db, cache, view, live, events>>
      /\ dialog' \in {dialog, Closed}
  BY <1>1 DEF CallInOrder, Finish, HearError, CloseKind
<1>3. CASE Finish(c)
  <2>. DEFINE x == [call[c] EXCEPT !.phase = "done"]
  <2>1. x \in CallType /\ x.wait = {} /\ x.at = call[c].at /\ x.asked = call[c].asked /\ x.phase = "done"
    BY <1>2, <1>3 DEF CallType, Finish
  <2>2. call' = [call EXCEPT ![c] = x] /\ call'[c] = x
    BY <1>1, <1>3 DEF Finish
  <2>. HIDE DEF x
  <2>3. CallInOrder(c)'
    <3>1. \A k \in call[c].asked : SeenFrom(call[c].at, cache'[k], k \in {})
      BY <1>1, <1>2, <1>3 DEF CallInOrder, Finish
    <3>. QED
      BY <1>2, <2>1, <2>2, <3>1 DEF CallInOrder, SeenFrom, db
  <2>. QED
    BY <1>1, <1>2, <2>1, <2>2, <2>3, CallStep
<1>4. CASE HearError(c)
  <2>. DEFINE x == [call[c] EXCEPT !.phase = "failed"]
  <2>1. x \in CallType /\ x.wait = {} /\ x.asked = {} /\ x.at <= version
    BY <1>1, <1>2, <1>4 DEF CallType, HearError, CallInOrder
  <2>2. call' = [call EXCEPT ![c] = x]
    BY <1>1, <1>4 DEF HearError
  <2>. HIDE DEF x
  <2>. QED
    BY <1>1, <1>2, <2>1, <2>2, CallStep
<1>. QED
  BY <1>3, <1>4

\* Changes made elsewhere keep the inductive invariant.
LEMMA ElsewhereIInv == IInv /\ EditElsewhere => IInv'
<1>1. SUFFICES ASSUME IInv, EditElsewhere PROVE IInv'
  OBVIOUS
<1>2. TypeOK /\ DbOK /\ call \in [Calls -> CallType]
  BY <1>1, Types DEF IInv, TypeOK, DbOK
<1>3. UNCHANGED <<cache, view, dialog, call, live>> /\ version' = version + 1 /\ events' \in 0..MaxEvents
  BY <1>1, <1>2, CountType DEF EditElsewhere
<1>4. DbOK'
  BY <1>1, <1>2, DbChanges DEF EditElsewhere
<1>. QED
  BY <1>1, <1>2, <1>3, <1>4, DbStep

\* Steps that change nothing keep the inductive invariant.
LEMMA StutterIInv == IInv /\ UNCHANGED vars => IInv'
<1>1. SUFFICES ASSUME IInv, UNCHANGED vars PROVE IInv'
  OBVIOUS
<1>2. Started(cache, cache') /\ UNCHANGED <<db, call, page, filter, dialog, live, events>>
  BY <1>1, Types, StartedSame DEF IInv, vars, db, view
<1>. QED
  BY <1>1, <1>2, PageStep DEF IInv, TypeOK

\* Every step keeps the inductive invariant.
LEMMA NextIInv == IInv /\ [Next]_vars => IInv'
<1>1. SUFFICES ASSUME IInv, [Next]_vars PROVE IInv'
  OBVIOUS
<1>2. CASE Work \/ (\E k \in Keys : FetchFails(k))
  BY <1>1, <1>2, FetchIInv, ServeIInv, HearOkIInv, CallbackIInv DEF Work
<1>3. CASE \/ Retry \/ (\E p \in {"teams", "epics"} : Visit(p)) \/ (\E f \in Teams \cup {All} : SetFilter(f))
           \/ OpenCreate \/ CloseDialog
           \/ (\E kind \in {"edit", "delete"}, r \in Teams \cup Epics : OpenRow(kind, r))
  BY <1>1, <1>3, UserIInv
<1>4. CASE \E c \in Calls : Submit(c)
  BY <1>1, <1>4, SubmitIInv
<1>5. CASE EditElsewhere
  BY <1>1, <1>5, ElsewhereIInv
<1>6. CASE AtRest \/ UNCHANGED vars
  BY <1>1, <1>6, StutterIInv DEF AtRest
<1>. QED
  BY <1>1, <1>2, <1>3, <1>4, <1>5, <1>6 DEF Next

(***************************************************************************)
(* Theorems                                                                *)
(***************************************************************************)

\* In every reachable state every variable has its type, what was fetched is
\* of the past, and no mutation waits for a list that nobody fetches
\* (the promise of invalidateQueries that onSuccess returns).
THEOREM ManagementInvariant == Spec => []IInv
<1>. QED
  BY InitIInv, NextIInv, PTL DEF Spec

\* What a success shows: the lists it has asked for are as new as it is,
\* unless they show an error.
LEMMA SuccessSeen == IInv => SuccessIsVisible
<1>1. SUFFICES ASSUME IInv, NEW c \in Calls, call[c].phase = "done", NEW k \in call[c].asked, Present(cache[k])
      PROVE  cache[k].data.version >= call[c].at
  BY DEF SuccessIsVisible
<1>2. CallInOrder(c)
  BY <1>1 DEF IInv, WaitsAreServed
<1>3. SeenFrom(call[c].at, cache[k], k \in call[c].wait) /\ call[c].wait = {}
  BY <1>1, <1>2 DEF CallInOrder
<1>. QED
  BY <1>1, <1>3 DEF SeenFrom, Present

\* After a success has been reported, the lists that the page showed or was
\* loading show it, unless they show an error, for any number of pages,
\* mutations and changes elsewhere (invalidateQueries in teams/api.ts and
\* epics/api.ts).  Exempt is a list whose first fetch had been answered when
\* the success was heard: that answer arrives, and shows what was before.
THEOREM SuccessIsShown == Spec => []SuccessIsVisible
<1>. QED
  BY SuccessSeen, ManagementInvariant, PTL

\* With current data the references that the page counts are those of the
\* database.
LEMMA GuardHolds == IInv => GuardIsRight
<1>1. SUFFICES ASSUME IInv, NEW r \in Listed \cap (teams \cup epics),
                      \A k \in GuardKeys(r) : Present(cache[k]) /\ cache[k].data.version = version
               PROVE  DeleteEnabled(r) <=> ~Referenced(r)
  BY DEF GuardIsRight
<1>2. TypeOK /\ PastCache(cache) /\ page \in {"teams", "epics"} /\ filter \in Teams \cup {All}
      /\ teams \subseteq Teams /\ epics \subseteq Epics
  BY <1>1 DEF IInv, TypeOK
<1>3. ASSUME NEW k \in Keys, k \in GuardKeys(r)
      PROVE  CachedRows(cache, k) = RowsOf(k) /\ ~Loading(cache[k])
  BY <1>1, <1>2, <1>3 DEF PastCache, OfThePast, Present, CachedRows, Loading
<1>4. CASE page = "teams"
  <2>1. r \in Teams
    BY <1>1, <1>4, RowsFit, KeysAreKeys DEF Listed, ListKey
  <2>2. TicketsKey(r) \in Keys /\ EpicsKey(All) \in Keys
        /\ TicketsKey(r) \in GuardKeys(r) /\ EpicsKey(All) \in GuardKeys(r)
    BY <1>4, <2>1, KeysAreKeys DEF GuardKeys
  <2>3. RowsOf(TicketsKey(r)) = TicketsOf(r) /\ RowsOf(EpicsKey(All)) = epics
    BY DEF RowsOf, TicketsKey, EpicsKey, Key, EpicsOf
  <2>4. EpicsOf(r) # {} <=> \E e \in epics : EpicTeam[e] = r
    BY <2>1, RowIds DEF EpicsOf
  <2>. QED
    BY <1>3, <1>4, <2>2, <2>3, <2>4 DEF DeleteEnabled, Cited, RefLoading, Referenced
<1>5. CASE page = "epics"
  <2>1. r \in Epics
    BY <1>1, <1>2, <1>5, RowsFit, KeysAreKeys DEF Listed, ListKey
  <2>2. TicketsKey(r) \in Keys /\ TicketsKey(r) \in GuardKeys(r)
    BY <2>1, KeysAreKeys DEF GuardKeys
  <2>3. RowsOf(TicketsKey(r)) = TicketsOf(r)
    BY DEF RowsOf, TicketsKey, Key
  <2>4. EpicsOf(r) = {}
    BY <1>2, <2>1, RowIds DEF EpicsOf
  <2>. QED
    BY <1>3, <1>5, <2>2, <2>3, <2>4 DEF DeleteEnabled, Cited, RefLoading, Referenced
<1>. QED
  BY <1>2, <1>4, <1>5

\* With the data of the present moment a delete is offered exactly for the rows
\* that the backend would delete (useTeamReferences, useEpicReferences).
THEOREM GuardsAreRight == Spec => []GuardIsRight
<1>. QED
  BY GuardHolds, ManagementInvariant, PTL

\* Some step of Work has its guard: an answer or its arrival is due, or a
\* mutation's answer or callback.
SomethingIsDue ==
  \/ \E k \in Keys : cache[k].fetch \in {"asked", "answered"}
  \/ \E c \in Calls :
       \/ call[c].phase \in {"sent", "ok", "refused", "unheard"}
       \/ call[c].phase = "refetching" /\ call[c].wait = {}

\* As long as a button is disabled or a list is loading there is something that
\* ends it: a mutation never waits for a list that nobody fetches, although the
\* page that has asked for it may be gone (isPending).
THEOREM NobodyWaitsInVain == Spec => [](~Quiet => SomethingIsDue)
<1>1. IInv => (~Quiet => SomethingIsDue)
  <2>1. SUFFICES ASSUME IInv, ~Quiet PROVE SomethingIsDue
    OBVIOUS
  <2>2. \A k \in Keys : Fetching(cache[k]) => cache[k].fetch \in {"asked", "answered"}
    BY <2>1 DEF IInv, TypeOK, Entries, Fetching
  <2>3. ASSUME NEW c \in Calls, Pending(c) PROVE SomethingIsDue
    <3>1. CASE call[c].phase = "refetching" /\ call[c].wait # {}
      <4>1. PICK k \in call[c].wait : Fetching(cache[k])
        BY <2>1, <3>1 DEF IInv, WaitsAreServed, CallInOrder
      <4>2. k \in Keys
        BY <2>1, <4>1, Types DEF IInv, CallType
      <4>. QED
        BY <2>2, <4>1, <4>2 DEF SomethingIsDue
    <3>2. CASE ~(call[c].phase = "refetching" /\ call[c].wait # {})
      BY <2>3, <3>2 DEF Pending, SomethingIsDue
    <3>. QED
      BY <3>1, <3>2
  <2>. QED
    BY <2>1, <2>2, <2>3 DEF Quiet, SomethingIsDue
<1>. QED
  BY <1>1, ManagementInvariant, PTL

=============================================================================
