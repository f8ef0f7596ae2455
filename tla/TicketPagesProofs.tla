------------------------- MODULE TicketPagesProofs --------------------------
(***************************************************************************)
(* Proofs about TicketPages, for any number of tickets, teams, epics,      *)
(* mutations and events.                                                   *)
(***************************************************************************)
EXTENDS TicketPages, TLAPS

(***************************************************************************)
(* The cache                                                               *)
(***************************************************************************)

\* What is cached under a key.
DataOf(k) == IF k[1] = "ticket" THEN Rows ELSE Nat

\* Every key is that of a ticket or of its comments.
LEMMA KeyFacts ==
  /\ \A t \in Tickets : /\ Detail(t) \in Keys /\ Detail(t)[1] = "ticket" /\ Detail(t)[2] = t
                        /\ Comments(t) \in Keys /\ Comments(t)[1] = "comments" /\ Comments(t)[2] = t
  /\ \A t, u : Detail(t) # Comments(u)
  /\ \A t, u : (Detail(t) = Detail(u) <=> t = u) /\ (Comments(t) = Comments(u) <=> t = u)
  /\ \A k \in Keys : /\ k[2] \in Tickets
                     /\ \/ k = Detail(k[2]) /\ k[1] = "ticket"
                        \/ k = Comments(k[2]) /\ k[1] = "comments"
<1>1. \A t \in Tickets : /\ Detail(t) \in Keys /\ Detail(t)[1] = "ticket" /\ Detail(t)[2] = t
                         /\ Comments(t) \in Keys /\ Comments(t)[1] = "comments" /\ Comments(t)[2] = t
  BY DEF Keys, Detail, Comments
<1>2. \A t, u : Detail(t) # Comments(u)
  BY DEF Detail, Comments
<1>3. \A t, u : (Detail(t) = Detail(u) <=> t = u) /\ (Comments(t) = Comments(u) <=> t = u)
  BY DEF Detail, Comments
<1>4. ASSUME NEW k \in Keys
      PROVE  /\ k[2] \in Tickets
             /\ \/ k = Detail(k[2]) /\ k[1] = "ticket"
                \/ k = Comments(k[2]) /\ k[1] = "comments"
  BY DEF Keys, Detail, Comments
<1>. QED
  BY <1>1, <1>2, <1>3, <1>4

\* A cache has an entry of its type for every key.
LEMMA CacheTyped ==
  ASSUME NEW c
  PROVE  CacheOK(c) <=> c = [k \in Keys |-> c[k]] /\ \A k \in Keys : c[k] \in Entries(DataOf(k))
<1>1. \A t \in Tickets : DataOf(Detail(t)) = Rows /\ DataOf(Comments(t)) = Nat
  BY KeyFacts DEF DataOf
<1>2. ASSUME CacheOK(c), NEW k \in Keys PROVE c[k] \in Entries(DataOf(k))
  <2>1. k[2] \in Tickets /\ (k = Detail(k[2]) \/ k = Comments(k[2]))
    BY KeyFacts
  <2>2. c[Detail(k[2])] \in Entries(DataOf(Detail(k[2]))) /\ c[Comments(k[2])] \in Entries(DataOf(Comments(k[2])))
    BY <1>1, <1>2, <2>1 DEF CacheOK
  <2>. QED
    BY Zenon, <2>1, <2>2
<1>3. ASSUME \A k \in Keys : c[k] \in Entries(DataOf(k)), NEW t \in Tickets
      PROVE  c[Detail(t)] \in Entries(Rows) /\ c[Comments(t)] \in Entries(Nat)
  BY <1>1, <1>3, KeyFacts
<1>. QED
  BY <1>2, <1>3 DEF CacheOK

\* What starts a fetch leaves an entry an entry.
LEMMA AskedType ==
  ASSUME NEW D, NEW e \in Entries(D)
  PROVE  Asked(e) \in Entries(D) /\ Refetched(e) \in Entries(D)
BY DEF Asked, Refetched, Entries, Fetching

\* Mounting and refetching leave a cache a cache.
LEMMA CacheAsked ==
  ASSUME NEW c, CacheOK(c), NEW ks
  PROVE  CacheOK(Mount(c, ks)) /\ CacheOK(Refetch(c, ks))
<1>1. DOMAIN c = Keys /\ \A k \in Keys : c[k] \in Entries(DataOf(k))
  BY CacheTyped
<1>2. \A k \in Keys : Asked(c[k]) \in Entries(DataOf(k)) /\ Refetched(c[k]) \in Entries(DataOf(k))
  BY <1>1, AskedType
<1>3. /\ Mount(c, ks) = [k \in Keys |-> Mount(c, ks)[k]]
      /\ \A k \in Keys : Mount(c, ks)[k] \in Entries(DataOf(k))
  BY <1>1, <1>2 DEF Mount
<1>4. /\ Refetch(c, ks) = [k \in Keys |-> Refetch(c, ks)[k]]
      /\ \A k \in Keys : Refetch(c, ks)[k] \in Entries(DataOf(k))
  BY <1>1, <1>2 DEF Refetch
<1>. QED
  BY <1>3, <1>4, CacheTyped

\* An entry of the right type may take the place of another.
LEMMA CacheEntry ==
  ASSUME NEW c, CacheOK(c), NEW k \in Keys, NEW entry \in Entries(DataOf(k))
  PROVE  CacheOK([c EXCEPT ![k] = entry])
<1>1. c = [j \in Keys |-> c[j]] /\ \A j \in Keys : c[j] \in Entries(DataOf(j))
  BY CacheTyped
<1>. DEFINE d == [c EXCEPT ![k] = entry]
<1>2. d = [j \in Keys |-> d[j]] /\ \A j \in Keys : d[j] \in Entries(DataOf(j))
  BY <1>1
<1>. HIDE DEF d
<1>3. CacheOK(d)
  BY <1>2, CacheTyped
<1>. QED
  BY <1>3 DEF d

\* A fetch ends with its answer, or with an error.
LEMMA CacheFetched ==
  ASSUME NEW c, CacheOK(c), NEW k \in Keys
  PROVE  CacheOK(Arrive(c, k)) /\ CacheOK(GiveUp(c, k))
<1>1. c[k] \in Entries(DataOf(k)) /\ k \in DOMAIN c
  BY CacheTyped
<1>2. /\ [data |-> c[k].got, fetch |-> "none", got |-> NoData, failed |-> FALSE] \in Entries(DataOf(k))
      /\ [c[k] EXCEPT !.fetch = "none", !.got = NoData, !.failed = TRUE] \in Entries(DataOf(k))
  BY <1>1 DEF Entries
<1>3. GiveUp(c, k) = [c EXCEPT ![k] = [c[k] EXCEPT !.fetch = "none", !.got = NoData, !.failed = TRUE]]
  BY <1>1 DEF GiveUp
<1>4. /\ CacheOK([c EXCEPT ![k] = [data |-> c[k].got, fetch |-> "none", got |-> NoData, failed |-> FALSE]])
      /\ CacheOK([c EXCEPT ![k] = [c[k] EXCEPT !.fetch = "none", !.got = NoData, !.failed = TRUE]])
  BY <1>2, CacheEntry
<1>. QED
  BY <1>3, <1>4 DEF Arrive

(***************************************************************************)
(* Drawing the page                                                        *)
(***************************************************************************)

\* What the user sees is well formed.
PageOK ==
  /\ CacheOK(cache)
  /\ screen \in Screens /\ at \in Tickets \cup {NoTicket}
  /\ orphan \in Entries(Rows) \cup {NoData}
  /\ form \in FormType \cup {NoForm}
  /\ DrawnOK /\ FormEpicInTeam

\* Mutations are well formed, each by itself.
CallOK(r) ==
  /\ r \in CallType
  /\ r.kind \in {"create", "update"} => r.value \in Values /\ r.value.team # NoTeam
  /\ r.kind \in {"update", "delete", "comment"} => r.on \in Tickets /\ r.key \in Tickets
  /\ r.phase = "read" => r.kind = "update" /\ r.copy \in Rows /\ r.copy.id = r.on
  /\ r.phase = "ok" /\ r.kind \in {"create", "update"} => r.got \in Rows
  /\ r.phase = "ok" /\ r.kind = "update" => r.got.id = r.on
AllCallsOK(calls) == calls = [c \in Calls |-> calls[c]] /\ \A c \in Calls : CallOK(calls[c])

\* The page of t can be drawn on screen s with the orphan o.
CanDraw(o, s, t) ==
  /\ o \in Entries(Rows) \cup {NoData}
  /\ s \in Screens /\ t \in Tickets \cup {NoTicket}
  /\ s \in Existing <=> t # NoTicket
  /\ s = screen /\ t = at /\ o # NoData => s \in Existing

\* What a page is drawn from: the orphan held, and the cache when the ticket
\* itself has been asked for.
Held(o, s, t) == IF s = screen /\ t = at THEN o ELSE NoData
Looked(c, o, s, t) ==
  IF s \in Existing /\ (screen \notin Existing \/ t # at \/ Held(o, s, t) # o) THEN Mount(c, {Detail(t)}) ELSE c
FormStays(c, o, s, t) ==
  s = screen /\ FormShown(cache, orphan, screen, at) /\ FormShown(Looked(c, o, s, t), Held(o, s, t), s, t)
ViewStays(c, o, s, t) ==
  s = screen /\ ViewShown(cache, orphan, screen, at) /\ ViewShown(Looked(c, o, s, t), Held(o, s, t), s, t)
NextId(c, o, s, t) == ShownId(Looked(c, o, s, t), Held(o, s, t), t)

\* Draw, in these terms.
LEMMA DrawParts ==
  ASSUME NEW calls, NEW c, NEW o, NEW s, NEW t, Draw(calls, c, o, s, t)
  PROVE  /\ screen' = s /\ at' = t /\ orphan' = Held(o, s, t)
         /\ cache' = IF ViewShown(Looked(c, o, s, t), Held(o, s, t), s, t)
                        /\ ~(ViewStays(c, o, s, t) /\ NextId(c, o, s, t) = Shown)
                     THEN Mount(Looked(c, o, s, t), {Comments(NextId(c, o, s, t))}) ELSE Looked(c, o, s, t)
         /\ form' = IF FormStays(c, o, s, t) THEN form
                    ELSE IF FormShown(Looked(c, o, s, t), Held(o, s, t), s, t)
                    THEN NewForm(Looked(c, o, s, t), Held(o, s, t), s, t) ELSE NoForm
         /\ live' = {d \in live : /\ calls[d].phase \in UnderWay
                                  /\ IF calls[d].kind \in {"create", "update"}
                                     THEN FormStays(c, o, s, t) ELSE ViewStays(c, o, s, t)}
         /\ call' = [d \in Calls |-> IF d \in live' /\ s \in Existing
                                     THEN [calls[d] EXCEPT !.key = NextId(c, o, s, t)] ELSE calls[d]]
BY Zenon DEF Draw, Held, Looked, FormStays, ViewStays, NextId

\* What the entry of a page that shows it holds is a row.
LEMMA EntryRow ==
  ASSUME NEW c, CacheOK(c), NEW o \in Entries(Rows) \cup {NoData}, NEW t \in Tickets,
         Present(Entry(c, o, t))
  PROVE  Entry(c, o, t).data \in Rows /\ ShownId(c, o, t) \in Tickets
<1>1. Entry(c, o, t) \in Entries(Rows)
  BY DEF CacheOK, Entry
<1>2. Entry(c, o, t).data \in Rows
  BY <1>1 DEF Present, Entries
<1>. QED
  BY <1>2 DEF ShownId, Rows

\* However the page is drawn, it is well formed, and so are the mutations; no
\* callback is gained, and a page of another kind has none of the last one.
LEMMA DrawSafe ==
  ASSUME PageOK, NEW calls, AllCallsOK(calls), live \subseteq Calls,
         NEW c, CacheOK(c), NEW o, NEW s, NEW t, CanDraw(o, s, t), Draw(calls, c, o, s, t)
  PROVE  /\ PageOK' /\ AllCallsOK(call)'
         /\ live' \subseteq live /\ (s # screen => live' = {})
         /\ \A d \in live' : calls[d].phase \in UnderWay
         /\ \A d \in Calls : \E u : call'[d] = calls[d] \/ call'[d] = [calls[d] EXCEPT !.key = u]
<1>. DEFINE c1 == Looked(c, o, s, t)
            held == Held(o, s, t)
            id == NextId(c, o, s, t)
            formStays == FormStays(c, o, s, t)
            viewStays == ViewStays(c, o, s, t)
<1>1. /\ screen' = s /\ at' = t /\ orphan' = held
      /\ cache' = IF ViewShown(c1, held, s, t) /\ ~(viewStays /\ id = Shown) THEN Mount(c1, {Comments(id)}) ELSE c1
      /\ form' = IF formStays THEN form ELSE IF FormShown(c1, held, s, t) THEN NewForm(c1, held, s, t) ELSE NoForm
      /\ live' = {d \in live : /\ calls[d].phase \in UnderWay
                               /\ IF calls[d].kind \in {"create", "update"} THEN formStays ELSE viewStays}
      /\ call' = [d \in Calls |-> IF d \in live' /\ s \in Existing THEN [calls[d] EXCEPT !.key = id] ELSE calls[d]]
  BY DrawParts
<1>2. CacheOK(c1) /\ held \in Entries(Rows) \cup {NoData} /\ (held # NoData => s \in Existing)
  BY CacheAsked DEF Looked, Held, CanDraw
<1>3. /\ formStays => FormShown(cache, orphan, screen, at) /\ FormShown(c1, held, s, t) /\ s = screen
      /\ viewStays => ViewShown(c1, held, s, t) /\ s = screen
      /\ id = ShownId(c1, held, t)
  BY DEF FormStays, ViewStays, NextId
<1>4. s \in Existing => t \in Tickets
  BY DEF CanDraw
<1>. HIDE DEF c1, held, id, formStays, viewStays
<1>5. CacheOK(cache')
  BY <1>1, <1>2, CacheAsked
<1>6. s \in Existing => cache'[Detail(t)] = c1[Detail(t)]
  <2>1. s \in Existing => Detail(t) \in DOMAIN c1 /\ Detail(t) # Comments(id)
    BY <1>2, <1>4, KeyFacts, CacheTyped
  <2>. QED
    BY <1>1, <2>1 DEF Mount
<1>7. s \in Existing => Entry(cache', held, t) = Entry(c1, held, t)
  BY <1>6 DEF Entry
<1>8. FormShown(cache', held, s, t) <=> FormShown(c1, held, s, t)
  BY <1>7 DEF FormShown, Existing
<1>9. FormShown(c1, held, s, t) => NewForm(c1, held, s, t) \in FormType /\ ~NewForm(c1, held, s, t).chosen
  <2>1. CASE s = "new"
    BY <2>1 DEF NewForm, FormType
  <2>2. CASE s # "new" /\ FormShown(c1, held, s, t)
    <3>1. t \in Tickets /\ Present(Entry(c1, held, t))
      BY <1>4, <2>2 DEF FormShown, Existing
    <3>2. Entry(c1, held, t).data \in Rows
      BY <1>2, <3>1, EntryRow
    <3>. QED
      BY <2>2, <3>2 DEF NewForm, FormType, Rows
  <2>. QED
    BY <2>1, <2>2
<1>10. form' \in FormType \cup {NoForm} /\ (form' # NoForm /\ form'.chosen => Fits(form'))
       /\ (form' # NoForm <=> FormShown(c1, held, s, t))
  BY <1>1, <1>3, <1>9, TicketMarkers DEF PageOK, FormEpicInTeam, DrawnOK
<1>11. PageOK'
  <2>1. CacheOK(cache)' <=> CacheOK(cache')
    BY DEF CacheOK
  <2>2. FormShown(cache, orphan, screen, at)' <=> FormShown(cache', held, s, t)
    BY <1>1 DEF FormShown, Entry, Present
  <2>3. DrawnOK'
    BY <1>1, <1>2, <1>8, <1>10, <2>2 DEF DrawnOK, CanDraw
  <2>4. FormEpicInTeam'
    BY <1>10 DEF FormEpicInTeam, Fits
  <2>. QED
    BY <1>1, <1>2, <1>5, <1>10, <2>1, <2>3, <2>4 DEF PageOK, CanDraw
<1>12. live' \subseteq live /\ (s # screen => live' = {}) /\ \A d \in live' : calls[d].phase \in UnderWay
  BY <1>1, <1>3
<1>13. ASSUME NEW d \in live', s \in Existing PROVE id \in Tickets
  <2>1. FormShown(c1, held, s, t) \/ ViewShown(c1, held, s, t)
    BY <1>1, <1>3, <1>13
  <2>2. Present(Entry(c1, held, t))
    BY <1>13, <2>1 DEF FormShown, ViewShown, Existing
  <2>. QED
    BY <1>2, <1>3, <1>4, <1>13, <2>2, EntryRow
<1>14. ASSUME NEW d \in Calls PROVE CallOK(call'[d])
  <2>1. CallOK(calls[d])
    BY DEF AllCallsOK
  <2>2. CASE d \in live' /\ s \in Existing
    <3>1. call'[d] = [calls[d] EXCEPT !.key = id] /\ id \in Tickets
      BY <1>1, <1>13, <2>2
    <3>. QED
      BY <2>1, <3>1 DEF CallOK, CallType
  <2>3. CASE ~(d \in live' /\ s \in Existing)
    BY <1>1, <2>1, <2>3
  <2>. QED
    BY <2>2, <2>3
<1>15. AllCallsOK(call)'
  BY <1>1, <1>14 DEF AllCallsOK, CallOK
<1>16. \A d \in Calls : \E u : call'[d] = calls[d] \/ call'[d] = [calls[d] EXCEPT !.key = u]
  BY <1>1
<1>. QED
  BY <1>11, <1>12, <1>15, <1>16

(***************************************************************************)
(* The inductive invariant                                                 *)
(***************************************************************************)

\* The rest of the state: the database and the counters.
RestOK ==
  /\ ticket \in [Tickets -> Rows \cup {NotYet, Gone}] /\ RowsOK /\ comments \in [Tickets -> Nat]
  /\ events \in 0..MaxEvents /\ moves \in Nat /\ doubt \subseteq Keys

\* Callbacks are those of mutations under way, sent since the user came to
\* this kind of page.
LiveOK == live \subseteq Calls /\ \A c \in live : call[c].phase \in UnderWay /\ call[c].from = moves

\* The inductive invariant is about what the user sees, about the mutations,
\* about the callbacks that connect them, and about the rest.
LEMMA Parts == IInv <=> PageOK /\ AllCallsOK(call) /\ LiveOK /\ RestOK
<1>1. CallsOK /\ call \in [Calls -> CallType] /\ live \subseteq Calls <=> AllCallsOK(call) /\ LiveOK
  BY DEF CallsOK, AllCallsOK, CallOK, LiveOK, Pending, Answered
<1>. QED
  BY <1>1 DEF IInv, TypeOK, PageOK, RestOK

LEMMA PartsNext == IInv' <=> PageOK' /\ AllCallsOK(call)' /\ LiveOK' /\ RestOK'
<1>1. CallsOK' /\ call' \in [Calls -> CallType] /\ live' \subseteq Calls <=> AllCallsOK(call)' /\ LiveOK'
  BY DEF CallsOK, AllCallsOK, CallOK, LiveOK, Pending, Answered
<1>. QED
  BY <1>1 DEF IInv, TypeOK, PageOK, RestOK

\* A row is made of a ticket and of what a form sends.
LEMMA RowType == \A t \in Tickets, v \in Values, n \in Nat : v.team # NoTeam => Row(t, v, n) \in Rows
BY DEF Row, Values, Rows

\* At the start there are rows or none, and nothing has been fetched or sent.
LEMMA InitIInv == Init => IInv
<1>1. SUFFICES ASSUME Init PROVE IInv
  OBVIOUS
<1>2. ticket \in [Tickets -> Rows \cup {NotYet, Gone}] /\ RowsOK
  <2>1. PICK there \in SUBSET Tickets, v \in [Tickets -> {w \in Values : w.team # NoTeam}] :
          ticket = [t \in Tickets |-> IF t \in there THEN Row(t, v[t], 0) ELSE NotYet]
    BY <1>1 DEF Init
  <2>2. \A t \in Tickets : Row(t, v[t], 0) \in Rows /\ Row(t, v[t], 0).id = t
    BY <2>1, RowType DEF Row
  <2>. QED
    BY <2>1, <2>2 DEF RowsOK, Exists
<1>3. CacheOK(cache)
  <2>1. \A k \in Keys : cache[k] \in Entries(DataOf(k))
    BY <1>1 DEF Init, Entries, Unused
  <2>. QED
    BY <1>1, <2>1, CacheTyped DEF Init
<1>4. AllCallsOK(call) /\ LiveOK
  <2>1. CallOK(Idle)
    BY DEF CallOK, CallType, Idle
  <2>. QED
    BY <1>1, <2>1 DEF Init, AllCallsOK, LiveOK
<1>5. PageOK
  BY <1>1, <1>3, TicketPagesBounds DEF Init, PageOK, DrawnOK, FormEpicInTeam, Screens, Existing, FormShown
<1>6. RestOK
  BY <1>1, <1>2, TicketPagesBounds DEF Init, RestOK
<1>. QED
  BY <1>4, <1>5, <1>6, Parts

\* A step that draws the page from a proper cache and from mutations in order
\* keeps the inductive invariant: the moves grow when the kind of page changes.
LEMMA DrawIInv ==
  ASSUME IInv, NEW calls, AllCallsOK(calls), \A d \in Calls : calls[d].from = call[d].from,
         NEW c, CacheOK(c), NEW o, NEW s, NEW t, CanDraw(o, s, t), Draw(calls, c, o, s, t),
         RestOK', moves' = moves \/ s # screen
  PROVE  IInv'
<1>1. PageOK /\ LiveOK
  BY Parts
<1>2. /\ PageOK' /\ AllCallsOK(call)'
      /\ live' \subseteq live /\ (s # screen => live' = {})
      /\ \A d \in live' : calls[d].phase \in UnderWay
      /\ \A d \in Calls : \E u : call'[d] = calls[d] \/ call'[d] = [calls[d] EXCEPT !.key = u]
  BY <1>1, DrawSafe DEF LiveOK
<1>3. \A d \in Calls : call'[d].phase = calls[d].phase /\ call'[d].from = calls[d].from
  BY <1>2 DEF AllCallsOK, CallOK, CallType
<1>4. LiveOK'
  BY <1>1, <1>2, <1>3 DEF LiveOK
<1>. QED
  BY <1>2, <1>4, PartsNext

\* An event is counted within its bound.
LEMMA CountType == RestOK /\ Count => events' \in 0..MaxEvents
BY TicketPagesBounds DEF RestOK, Count

\* The page that is shown can be drawn again, and any other instead.
LEMMA DrawAgain ==
  ASSUME PageOK
  PROVE  /\ CanDraw(orphan, screen, at) /\ CanDraw(NoData, screen, at)
         /\ \A t \in Tickets : CanDraw(orphan, "view", t)
         /\ CanDraw(orphan, "away", NoTicket)
BY TicketPagesBounds DEF PageOK, DrawnOK, CanDraw, Screens, Existing

\* The steps of a fetch keep the inductive invariant.
LEMMA FetchIInv ==
  ASSUME IInv, NEW k \in Keys, ServeFetch(k) \/ EndFetch(k) \/ NotFound(k) \/ FetchFails(k)
  PROVE  IInv'
<1>1. PageOK /\ AllCallsOK(call) /\ LiveOK /\ RestOK /\ CacheOK(cache)
  BY Parts DEF PageOK
<1>2. CacheOK(Arrive(cache, k)) /\ CacheOK(GiveUp(cache, k))
  BY <1>1, CacheFetched
<1>3. CanDraw(orphan, screen, at)
  BY <1>1, DrawAgain
<1>4. CASE ServeFetch(k)
  <2>1. Answer(k) \in DataOf(k)
    BY <1>1, <1>4, KeyFacts DEF ServeFetch, Answer, Exists, RestOK, DataOf
  <2>2. cache[k] \in Entries(DataOf(k)) /\ DOMAIN cache = Keys
    BY <1>1, CacheTyped
  <2>3. cache' = [cache EXCEPT ![k] = [cache[k] EXCEPT !.fetch = "answered", !.got = Answer(k)]]
    BY <1>4, <2>2 DEF ServeFetch, Serve
  <2>4. [cache[k] EXCEPT !.fetch = "answered", !.got = Answer(k)] \in Entries(DataOf(k))
    BY <2>1, <2>2 DEF Entries
  <2>5. CacheOK(cache')
    BY <1>1, <2>3, <2>4, CacheEntry
  <2>6. UNCHANGED <<db, screen, at, orphan, form, live, call, events, moves, doubt>>
    BY <1>4 DEF ServeFetch, place
  <2>7. \A j \in Keys : cache'[j].data = cache[j].data /\ cache'[j].failed = cache[j].failed
    BY <2>2, <2>3 DEF Entries
  <2>8. FormShown(cache, orphan, screen, at)' <=> FormShown(cache, orphan, screen, at)
    <3>1. screen = "edit" => Detail(at) \in Keys
      BY <1>1, KeyFacts DEF PageOK, DrawnOK, Existing
    <3>. QED
      BY <2>6, <2>7, <3>1 DEF FormShown, Entry, Present
  <2>9. DrawnOK' /\ FormEpicInTeam'
    BY <1>1, <2>6, <2>8 DEF PageOK, DrawnOK, FormEpicInTeam, Fits
  <2>10. PageOK'
    BY <1>1, <2>5, <2>6, <2>9 DEF PageOK, CacheOK
  <2>11. AllCallsOK(call)' /\ LiveOK' /\ RestOK'
    BY <1>1, <2>6 DEF AllCallsOK, CallOK, LiveOK, RestOK, RowsOK, Exists, db
  <2>. QED
    BY <2>10, <2>11, PartsNext
<1>5. CASE EndFetch(k)
  <2>1. RestOK' /\ moves' = moves
    BY <1>1, <1>5 DEF EndFetch, RestOK, RowsOK, Exists, db
  <2>. QED
    BY <1>1, <1>2, <1>3, <1>5, <2>1, DrawIInv DEF EndFetch
<1>6. CASE NotFound(k)
  <2>1. RestOK' /\ moves' = moves
    BY <1>1, <1>6 DEF NotFound, RestOK, RowsOK, Exists, db
  <2>. QED
    BY <1>1, <1>2, <1>3, <1>6, <2>1, DrawIInv DEF NotFound
<1>7. CASE FetchFails(k)
  <2>1. RestOK' /\ moves' = moves
    BY <1>1, <1>7, CountType DEF FetchFails, RestOK, RowsOK, Exists, db
  <2>. QED
    BY <1>1, <1>2, <1>3, <1>7, <2>1, DrawIInv DEF FetchFails
<1>. QED
  BY <1>4, <1>5, <1>6, <1>7

\* Navigating and retrying keep the inductive invariant.
LEMMA VisitIInv ==
  ASSUME IInv,
         (\E k \in Keys : Retry(k)) \/ (\E s \in Screens, t \in Tickets \cup {NoTicket} : Go(s, t))
  PROVE  IInv'
<1>1. PageOK /\ AllCallsOK(call) /\ LiveOK /\ RestOK /\ CacheOK(cache)
  BY Parts DEF PageOK
<1>2. ASSUME NEW k \in Keys, Retry(k) PROVE IInv'
  <2>1. CacheOK(Refetch(cache, {k}))
    BY <1>1, CacheAsked
  <2>2. RestOK' /\ moves' = moves
    BY <1>1, <1>2, CountType DEF Retry, RestOK, RowsOK, Exists, db
  <2>3. PICK o \in {orphan, NoData} : Draw(call, Refetch(cache, {k}), o, screen, at)
    BY <1>2 DEF Retry
  <2>4. CanDraw(o, screen, at)
    BY <1>1, <2>3, DrawAgain
  <2>. QED
    BY <1>1, <2>1, <2>2, <2>3, <2>4, DrawIInv
<1>3. ASSUME NEW s \in Screens, NEW t \in Tickets \cup {NoTicket}, Go(s, t) PROVE IInv'
  <2>1. RestOK' /\ (moves' = moves \/ s # screen)
    BY <1>1, <1>3, CountType DEF Go, RestOK, RowsOK, Exists, db
  <2>2. CanDraw(orphan, s, t) /\ Draw(call, cache, orphan, s, t)
    BY <1>1, <1>3, TicketPagesBounds DEF Go, CanDraw, PageOK, DrawnOK
  <2>. QED
    BY <1>1, <2>1, <2>2, DrawIInv
<1>. QED
  BY <1>2, <1>3

\* Choosing in the form keeps the inductive invariant: a team drops the epic,
\* and the epics offered are those of the team.
LEMMA ChooseIInv ==
  ASSUME IInv, (\E t \in Teams \cup {NoTeam} : SetTeam(t)) \/ (\E e \in Epics \cup {NoEpic} : SetEpic(e))
  PROVE  IInv'
<1>1. PageOK /\ AllCallsOK(call) /\ LiveOK /\ RestOK
  BY Parts
<1>2. form # NoForm /\ form' \in FormType /\ Fits(form')
  <2>1. form # NoForm /\ form \in FormType
    BY <1>1 DEF PageOK, SetTeam, SetEpic
  <2>2. ASSUME NEW t \in Teams \cup {NoTeam}, SetTeam(t) PROVE form' \in FormType /\ Fits(form')
    BY <2>1, <2>2 DEF SetTeam, FormType, Fits
  <2>3. ASSUME NEW e \in Epics \cup {NoEpic}, SetEpic(e) PROVE form' \in FormType /\ Fits(form')
    BY <2>1, <2>3 DEF SetEpic, FormType, Fits
  <2>. QED
    BY <2>1, <2>2, <2>3
<1>3. UNCHANGED <<db, cache, screen, at, orphan, live, call, moves, doubt>> /\ Count
  BY DEF SetTeam, SetEpic, place
<1>4. PageOK'
  BY <1>1, <1>2, <1>3, TicketMarkers DEF PageOK, DrawnOK, FormEpicInTeam, FormShown, Entry, Present, CacheOK, Fits
<1>5. AllCallsOK(call)' /\ LiveOK' /\ RestOK'
  BY <1>1, <1>3, CountType DEF AllCallsOK, CallOK, LiveOK, RestOK, RowsOK, Exists, db
<1>. QED
  BY <1>4, <1>5, PartsNext

\* A step that leaves the page alone keeps what the user sees well formed.
LEMMA PageKept == PageOK /\ UNCHANGED <<cache, screen, at, orphan, form>> => PageOK'
BY DEF PageOK, DrawnOK, FormEpicInTeam, FormShown, Entry, Present, CacheOK, Fits

\* Sending a mutation keeps the inductive invariant: a form that saves has a
\* team, and what is shown names its ticket.
LEMMA SendIInv ==
  ASSUME IInv, NEW c \in Calls, Save(c) \/ Delete(c) \/ AddComment(c)
  PROVE  IInv'
<1>1. PageOK /\ AllCallsOK(call) /\ LiveOK /\ RestOK /\ CacheOK(cache)
  BY Parts DEF PageOK
<1>2. PICK kind, t, v :
        /\ Send(c, kind, t, v)
        /\ kind \in {"create", "update", "delete", "comment"}
        /\ t \in Tickets \cup {NoTicket} /\ (kind # "create" => t \in Tickets)
        /\ v \in Values \cup {NoForm}
        /\ kind \in {"create", "update"} => v \in Values /\ v.team # NoTeam
  <2>1. screen \in Existing /\ Present(Entry(cache, orphan, at)) => Shown \in Tickets
    BY <1>1, EntryRow DEF PageOK, DrawnOK, Shown
  <2>2. CASE Save(c)
    <3>. DEFINE v == [team |-> form.team, epic |-> form.epic]
    <3>1. v \in Values /\ v.team # NoTeam
      BY <1>1, <2>2 DEF Save, PageOK, FormType, Values
    <3>2. CASE screen = "new"
      <4>1. Send(c, "create", NoTicket, v)
        BY <2>2, <3>2 DEF Save, SendForm
      <4>. QED
        BY <3>1, <4>1
    <3>3. CASE screen # "new"
      <4>1. Send(c, "update", Shown, v)
        BY <2>2, <3>3 DEF Save, SendForm
      <4>2. Shown \in Tickets
        BY <1>1, <2>1, <2>2, <3>3 DEF Save, PageOK, DrawnOK, FormShown, Existing
      <4>. QED
        BY <3>1, <4>1, <4>2
    <3>. QED
      BY <3>2, <3>3
  <2>3. CASE Delete(c)
    <3>1. Shown \in Tickets /\ Send(c, "delete", Shown, NoForm)
      BY <2>1, <2>3 DEF Delete, ViewShown, Existing
    <3>. QED
      BY <3>1
  <2>4. CASE AddComment(c)
    <3>1. Shown \in Tickets /\ Send(c, "comment", Shown, NoForm)
      BY <2>1, <2>4 DEF AddComment, ViewShown, Existing
    <3>. QED
      BY <3>1
  <2>. QED
    BY <2>2, <2>3, <2>4
<1>. DEFINE r == [kind |-> kind, on |-> t, key |-> t, value |-> v, phase |-> "sent",
                  copy |-> NoData, got |-> NoData, from |-> moves]
<1>3. /\ UNCHANGED <<db, cache, screen, at, orphan, form, moves, doubt>>
      /\ live' = live \cup {c} /\ call' = [call EXCEPT ![c] = r] /\ Count
  BY <1>2 DEF Send, place
<1>4. CallOK(r) /\ r.phase \in UnderWay /\ r.from = moves
  BY <1>1, <1>2 DEF CallOK, CallType, RestOK, UnderWay
<1>. HIDE DEF r
<1>5. /\ call' = [d \in Calls |-> IF d = c THEN r ELSE call[d]]
  BY <1>1, <1>3 DEF AllCallsOK
<1>6. AllCallsOK(call)'
  BY <1>1, <1>4, <1>5 DEF AllCallsOK, CallOK
<1>7. LiveOK'
  BY <1>1, <1>3, <1>4, <1>5 DEF LiveOK
<1>8. PageOK' /\ RestOK'
  BY <1>1, <1>3, PageKept, CountType DEF RestOK, RowsOK, Exists, db
<1>. QED
  BY <1>6, <1>7, <1>8, PartsNext

\* A step that leaves the page alone, changes one mutation that stays in
\* order and under way, and leaves the rest in order, keeps the inductive
\* invariant.
LEMMA AnswerIInv ==
  ASSUME IInv, UNCHANGED <<page, moves>>, RestOK',
         NEW c \in Calls, NEW r, CallOK(r), r.from = call[c].from, r.phase \in UnderWay,
         call' = [call EXCEPT ![c] = r]
  PROVE  IInv'
<1>1. PageOK /\ AllCallsOK(call) /\ LiveOK
  BY Parts
<1>2. call' = [d \in Calls |-> IF d = c THEN r ELSE call[d]]
  BY <1>1 DEF AllCallsOK
<1>3. AllCallsOK(call)'
  BY <1>1, <1>2 DEF AllCallsOK, CallOK
<1>4. LiveOK'
  BY <1>1, <1>2 DEF LiveOK, page
<1>5. PageOK'
  BY <1>1, PageKept DEF page, place
<1>. QED
  BY <1>3, <1>4, <1>5, PartsNext

\* Changing the row of one ticket into one of its own leaves the database in
\* order.
LEMMA RestWritten ==
  ASSUME RestOK, NEW t \in Tickets, NEW row \in Rows \cup {Gone}, row # Gone => row.id = t,
         ticket' = [ticket EXCEPT ![t] = row], comments' = comments,
         events' \in 0..MaxEvents, moves' = moves, doubt' \subseteq doubt \cup {Detail(t)}
  PROVE  RestOK'
BY KeyFacts DEF RestOK, RowsOK, Exists

\* What the backend does keeps the inductive invariant: every column of the
\* row that an update leaves is from the request or from the row.
LEMMA ServeIInv ==
  ASSUME IInv, NEW c \in Calls, ServeCall(c)
  PROVE  IInv'
<1>1. PageOK /\ AllCallsOK(call) /\ LiveOK /\ RestOK /\ CallOK(call[c])
  BY Parts DEF AllCallsOK
<1>2. call = [d \in Calls |-> call[d]] /\ call[c] \in CallType
  BY <1>1 DEF AllCallsOK, CallOK
<1>3. CASE ServeCreate(c)
  <2>1. PICK t \in Tickets, p \in {"ok", "unheard"} :
          /\ ticket' = [ticket EXCEPT ![t] = Row(t, call[c].value, 0)]
          /\ call' = [call EXCEPT ![c].phase = p, ![c].got = ticket'[t]]
          /\ doubt' = doubt \cup {Detail(t)}
    BY <1>3 DEF ServeCreate
  <2>2. /\ Row(t, call[c].value, 0) \in Rows /\ call[c].kind = "create"
        /\ Row(t, call[c].value, 0).id = t
    BY <1>1, <1>3, RowType DEF ServeCreate, CallOK, Row
  <2>3. UNCHANGED <<comments, page, events, moves>>
    BY <1>3 DEF ServeCreate
  <2>4. ticket'[t] \in Rows
    BY <1>1, <2>1, <2>2 DEF RestOK
  <2>5. RestOK'
    BY <1>1, <2>1, <2>2, <2>3, RestWritten DEF RestOK
  <2>. DEFINE got == ticket'[t]
              r == [call[c] EXCEPT !.phase = p, !.got = got]
  <2>6. call' = [call EXCEPT ![c].phase = p, ![c].got = got] /\ got \in Rows
    BY <2>1, <2>4
  <2>. HIDE DEF got
  <2>7. call' = [call EXCEPT ![c] = r]
    BY <1>2, <2>6
  <2>8. CallOK(r) /\ r.from = call[c].from /\ r.phase \in UnderWay
    BY <1>1, <2>2, <2>6 DEF CallOK, CallType, UnderWay
  <2>. HIDE DEF r
  <2>. QED
    BY <2>3, <2>5, <2>7, <2>8, AnswerIInv
<1>4. CASE ReadCopy(c)
  <2>1. /\ call[c].kind = "update" /\ call[c].on \in Tickets
        /\ ticket[call[c].on] \in Rows /\ ticket[call[c].on].id = call[c].on
        /\ UNCHANGED <<db, page, events, moves, doubt>>
    BY <1>1, <1>4 DEF ReadCopy, CallOK, RestOK, RowsOK, Exists
  <2>. DEFINE r == [call[c] EXCEPT !.phase = "read", !.copy = ticket[call[c].on]]
  <2>2. call' = [call EXCEPT ![c] = r]
    BY <1>2, <1>4 DEF ReadCopy
  <2>3. CallOK(r) /\ r.from = call[c].from /\ r.phase \in UnderWay
    BY <1>1, <2>1 DEF CallOK, CallType, UnderWay
  <2>4. RestOK'
    BY <1>1, <2>1 DEF RestOK, RowsOK, Exists, db
  <2>. HIDE DEF r
  <2>. QED
    BY <2>1, <2>2, <2>3, <2>4, AnswerIInv
<1>5. CASE WriteDirty(c)
  <2>. DEFINE t == call[c].on
              row == Merged(ticket[t], call[c].value, call[c].copy)
  <2>1. /\ call[c].kind = "update" /\ t \in Tickets /\ ticket[t] \in Rows /\ ticket[t].id = t
        /\ call[c].value \in Values /\ call[c].value.team # NoTeam
    BY <1>1, <1>5 DEF WriteDirty, CallOK, RestOK, RowsOK, Exists
  <2>2. row \in Rows /\ row.id = t
    BY <2>1 DEF Merged, Row, Rows, Values
  <2>3. ticket' = [ticket EXCEPT ![t] = row]
    BY <1>5 DEF WriteDirty
  <2>4. PICK p \in {"ok", "unheard"} :
          /\ call' = [call EXCEPT ![c].phase = p, ![c].got = ticket'[t]]
          /\ doubt' = IF p = "unheard" THEN doubt \cup {Detail(t)} ELSE doubt
    BY <1>5 DEF WriteDirty, Respond
  <2>5. UNCHANGED <<comments, page, events, moves>>
    BY <1>5 DEF WriteDirty
  <2>. HIDE DEF t, row
  <2>6. RestOK'
    BY <1>1, <2>1, <2>2, <2>3, <2>4, <2>5, RestWritten DEF RestOK
  <2>7. ticket'[t] = row
    BY <1>1, <2>1, <2>3 DEF RestOK
  <2>. DEFINE r == [call[c] EXCEPT !.phase = p, !.got = row]
  <2>8. call' = [call EXCEPT ![c] = r]
    BY <1>2, <2>4, <2>7
  <2>9. CallOK(r) /\ r.from = call[c].from /\ r.phase \in UnderWay
    BY <1>1, <2>1, <2>2 DEF CallOK, CallType, UnderWay, t
  <2>. HIDE DEF r
  <2>. QED
    BY <2>5, <2>6, <2>8, <2>9, AnswerIInv
<1>6. CASE SkipWrite(c)
  <2>1. PICK p \in {"ok", "unheard"} : call' = [call EXCEPT ![c].phase = p, ![c].got = call[c].copy]
    BY <1>6 DEF SkipWrite
  <2>2. call[c].kind = "update" /\ call[c].copy \in Rows /\ call[c].copy.id = call[c].on
        /\ UNCHANGED <<db, page, events, moves, doubt>>
    BY <1>1, <1>6 DEF SkipWrite, CallOK
  <2>. DEFINE r == [call[c] EXCEPT !.phase = p, !.got = call[c].copy]
  <2>3. call' = [call EXCEPT ![c] = r]
    BY <1>2, <2>1
  <2>4. CallOK(r) /\ r.from = call[c].from /\ r.phase \in UnderWay
    BY <1>1, <2>2 DEF CallOK, CallType, UnderWay
  <2>5. RestOK'
    BY <1>1, <2>2 DEF RestOK, RowsOK, Exists, db
  <2>. HIDE DEF r
  <2>. QED
    BY <2>2, <2>3, <2>4, <2>5, AnswerIInv
<1>7. CASE ServeDelete(c) \/ ServeComment(c)
  <2>1. PICK k \in {Detail(call[c].on), Comments(call[c].on)}, p \in {"ok", "unheard"} :
          /\ call' = [call EXCEPT ![c].phase = p, ![c].got = NoData]
          /\ doubt' = IF p = "unheard" THEN doubt \cup {k} ELSE doubt
    BY <1>7 DEF ServeDelete, ServeComment, Respond
  <2>2. /\ call[c].kind \in {"delete", "comment"} /\ call[c].on \in Tickets
        /\ UNCHANGED <<page, events, moves>>
    BY <1>1, <1>7 DEF ServeDelete, ServeComment, CallOK
  <2>3. /\ ticket' = ticket \/ ticket' = [ticket EXCEPT ![call[c].on] = Gone]
        /\ comments' = comments \/ comments' = [comments EXCEPT ![call[c].on] = @ + 1]
    BY <1>7 DEF ServeDelete, ServeComment
  <2>4. RestOK'
    BY <1>1, <2>1, <2>2, <2>3, KeyFacts DEF RestOK, RowsOK, Exists
  <2>. DEFINE r == [call[c] EXCEPT !.phase = p, !.got = NoData]
  <2>5. call' = [call EXCEPT ![c] = r]
    BY <1>2, <2>1
  <2>6. CallOK(r) /\ r.from = call[c].from /\ r.phase \in UnderWay
    BY <1>1, <2>2 DEF CallOK, CallType, UnderWay
  <2>. HIDE DEF r
  <2>. QED
    BY <2>2, <2>4, <2>5, <2>6, AnswerIInv
<1>8. CASE Refuse(c)
  <2>. DEFINE r == [call[c] EXCEPT !.phase = "refused"]
  <2>1. call' = [call EXCEPT ![c] = r] /\ UNCHANGED <<db, page, events, moves, doubt>>
    BY <1>2, <1>8 DEF Refuse
  <2>2. CallOK(r) /\ r.from = call[c].from /\ r.phase \in UnderWay
    BY <1>1 DEF CallOK, CallType, UnderWay
  <2>3. RestOK'
    BY <1>1, <2>1 DEF RestOK, RowsOK, Exists, db
  <2>. HIDE DEF r
  <2>. QED
    BY <2>1, <2>2, <2>3, AnswerIInv
<1>. QED
  BY <1>3, <1>4, <1>5, <1>6, <1>7, <1>8 DEF ServeCall

\* A step that leaves page and mutations alone, and the rest in order, keeps
\* the inductive invariant.
LEMMA KeepIInv ==
  ASSUME IInv, UNCHANGED <<page, call, moves>>, RestOK'
  PROVE  IInv'
<1>1. PageOK' /\ AllCallsOK(call)' /\ LiveOK'
  BY Parts, PageKept DEF page, place, AllCallsOK, CallOK, LiveOK
<1>. QED
  BY <1>1, PartsNext

\* Changes made elsewhere keep the inductive invariant, whatever row they leave.
LEMMA ElsewhereIInv ==
  ASSUME IInv, NEW t \in Tickets, EditElsewhere(t)
  PROVE  IInv'
<1>1. RestOK /\ UNCHANGED <<page, call, moves>> /\ events' \in 0..MaxEvents /\ Exists(t)
  BY Parts, CountType DEF EditElsewhere
<1>2. ASSUME NEW row \in {Gone} \cup {Row(t, v, ticket[t].version + 1) : v \in {v \in Values : v.team # NoTeam}},
             ticket' = [ticket EXCEPT ![t] = row], doubt' = doubt \cup {Detail(t)}, comments' = comments
      PROVE  RestOK'
  <2>1. ticket[t].version + 1 \in Nat
    BY <1>1 DEF RestOK, Exists, Rows
  <2>2. row \in Rows \cup {Gone} /\ (row # Gone => row.id = t)
    BY <1>2, <2>1, RowType DEF Row
  <2>. QED
    BY <1>1, <1>2, <2>2, RestWritten
<1>3. ASSUME comments' = [comments EXCEPT ![t] = @ + 1], doubt' = doubt \cup {Comments(t)}, ticket' = ticket
      PROVE  RestOK'
  BY <1>1, <1>3, KeyFacts DEF RestOK, RowsOK, Exists
<1>4. RestOK'
  BY <1>2, <1>3 DEF EditElsewhere
<1>. QED
  BY <1>1, <1>4, KeepIInv

\* Mutations that have been heard of are in order.
LEMMA DoneOK ==
  ASSUME AllCallsOK(call), NEW c \in Calls, NEW p \in {"done", "failed"}
  PROVE  /\ AllCallsOK(Done(c, p))
         /\ \A d \in Calls : Done(c, p)[d].from = call[d].from
         /\ Done(c, p) = [d \in Calls |-> IF d = c THEN [call[c] EXCEPT !.phase = p] ELSE call[d]]
<1>1. Done(c, p) = [d \in Calls |-> IF d = c THEN [call[c] EXCEPT !.phase = p] ELSE call[d]]
  BY DEF Done, AllCallsOK
<1>2. CallOK([call[c] EXCEPT !.phase = p]) /\ [call[c] EXCEPT !.phase = p].from = call[c].from
  BY DEF AllCallsOK, CallOK, CallType
<1>. QED
  BY <1>1, <1>2 DEF AllCallsOK

\* What is in doubt are keys.
LEMMA DoubtType ==
  ASSUME AllCallsOK(call), doubt \subseteq Keys, NEW c \in Calls
  PROVE  /\ Answered(c, "create") /\ Settle({}, {}) => doubt' \subseteq Keys
         /\ Answered(c, "update") /\ UpdateDoubt(c) => doubt' \subseteq Keys
         /\ Answered(c, "delete") /\ Settle({Detail(call[c].key)}, {Detail(call[c].on)} \ {Detail(call[c].key)})
              => doubt' \subseteq Keys
         /\ Answered(c, "comment") /\ CommentDoubt(c) => doubt' \subseteq Keys
<1>1. call[c].kind \in {"update", "delete", "comment"} =>
        {Detail(call[c].on), Detail(call[c].key), Comments(call[c].on)} \subseteq Keys
  BY KeyFacts DEF AllCallsOK, CallOK
<1>. QED
  BY <1>1 DEF Answered, Settle, UpdateDoubt, CommentDoubt

\* Hearing of a mutation keeps the inductive invariant, whatever page is
\* drawn then and under whichever key the answer is put.
LEMMA HearIInv ==
  ASSUME IInv, NEW c \in Calls,
         HearUpdated(c) \/ HearCreated(c) \/ HearDeleted(c) \/ HearComment(c) \/ HearError(c)
  PROVE  IInv'
<1>1. PageOK /\ AllCallsOK(call) /\ LiveOK /\ RestOK /\ CacheOK(cache) /\ CallOK(call[c])
  BY Parts DEF PageOK, AllCallsOK
<1>2. /\ \A p \in {"done", "failed"} : AllCallsOK(Done(c, p)) /\ \A d \in Calls : Done(c, p)[d].from = call[d].from
      /\ CanDraw(orphan, screen, at) /\ (\A t \in Tickets : CanDraw(orphan, "view", t))
      /\ CanDraw(orphan, "away", NoTicket)
  BY <1>1, DoneOK, DrawAgain
<1>3. CASE HearUpdated(c)
  <2>1. call[c].got \in Rows /\ Detail(call[c].key) \in Keys /\ DataOf(Detail(call[c].key)) = Rows
    BY <1>1, <1>3, KeyFacts DEF HearUpdated, Answered, CallOK, DataOf
  <2>2. CacheOK(Updated(c))
    <3>. DEFINE k == Detail(call[c].key)
    <3>1. cache[k] \in Entries(Rows) /\ k \in DOMAIN cache
      BY <1>1, <2>1, CacheTyped
    <3>2. [cache[k] EXCEPT !.data = call[c].got, !.failed = FALSE] \in Entries(Rows)
      BY <2>1, <3>1 DEF Entries
    <3>3. Updated(c) = [cache EXCEPT ![k] = [cache[k] EXCEPT !.data = call[c].got, !.failed = FALSE]]
      BY <3>1 DEF Updated
    <3>. HIDE DEF k
    <3>4. CacheOK([cache EXCEPT ![k] = [cache[k] EXCEPT !.data = call[c].got, !.failed = FALSE]])
      BY <1>1, <2>1, <3>2, CacheEntry DEF k
    <3>. QED
      BY <3>3, <3>4
  <2>3. RestOK' /\ moves' = moves
    BY <1>1, <1>3, DoubtType DEF HearUpdated, RestOK, RowsOK, Exists, db
  <2>4. call[c].got.id \in Tickets
    BY <2>1 DEF Rows
  <2>5. CASE Draw(Done(c, "done"), Updated(c), orphan, "view", call[c].got.id)
    BY <1>2, <2>2, <2>3, <2>4, <2>5, DrawIInv
  <2>6. CASE Draw(Done(c, "done"), Updated(c), orphan, screen, at)
    BY <1>2, <2>2, <2>3, <2>6, DrawIInv
  <2>. QED
    BY <1>3, <2>5, <2>6 DEF HearUpdated
<1>4. CASE HearCreated(c)
  <2>1. call[c].got.id \in Tickets
    BY <1>1, <1>4 DEF HearCreated, Answered, CallOK, Rows
  <2>2. RestOK' /\ moves' = moves
    BY <1>1, <1>4, DoubtType DEF HearCreated, RestOK, RowsOK, Exists, db
  <2>3. CASE Draw(Done(c, "done"), cache, orphan, "view", call[c].got.id)
    BY <1>1, <1>2, <2>1, <2>2, <2>3, DrawIInv
  <2>4. CASE Draw(Done(c, "done"), cache, orphan, screen, at)
    BY <1>1, <1>2, <2>2, <2>4, DrawIInv
  <2>. QED
    BY <1>4, <2>3, <2>4 DEF HearCreated
<1>5. CASE HearDeleted(c)
  <2>. DEFINE k == Detail(call[c].key)
              gone == [cache EXCEPT ![k] = Unused]
              entry == [cache[k] EXCEPT !.fetch = "none", !.got = NoData]
              left == IF screen \in Existing /\ orphan = NoData /\ k = Detail(at) THEN entry ELSE orphan
  <2>1. k \in Keys /\ DataOf(k) = Rows /\ cache[k] \in Entries(Rows)
    BY <1>1, <1>5, KeyFacts, CacheTyped DEF HearDeleted, Answered, CallOK, DataOf
  <2>2. Unused \in Entries(Rows) /\ entry \in Entries(Rows)
    BY <2>1 DEF Entries, Unused
  <2>3. RestOK' /\ moves' = moves
    BY <1>1, <1>5, DoubtType DEF HearDeleted, RestOK, RowsOK, Exists, db
  <2>4. /\ Draw(Done(c, "done"), gone, orphan, "away", NoTicket)
           \/ Draw(Done(c, "done"), gone, left, screen, at)
    BY <1>5 DEF HearDeleted
  <2>. HIDE DEF k, entry
  <2>5. CacheOK(gone)
    BY <1>1, <2>1, <2>2, CacheEntry
  <2>6. CanDraw(left, screen, at)
    BY <1>1, <1>2, <2>2 DEF CanDraw, PageOK, DrawnOK
  <2>. HIDE DEF gone, left
  <2>7. CASE Draw(Done(c, "done"), gone, orphan, "away", NoTicket)
    BY <1>2, <2>3, <2>5, <2>7, DrawIInv
  <2>8. CASE Draw(Done(c, "done"), gone, left, screen, at)
    BY <1>2, <2>3, <2>5, <2>6, <2>8, DrawIInv
  <2>. QED
    BY <2>4, <2>7, <2>8
<1>6. CASE HearComment(c) \/ HearError(c)
  <2>1. PICK p \in {"done", "failed"} : call' = Done(c, p)
    BY <1>6 DEF HearComment, HearError
  <2>2. /\ live' = live \ {c} /\ UNCHANGED <<db, screen, at, orphan, form, events, moves>>
        /\ cache' = cache \/ cache' = Refetch(cache, {Comments(call[c].key)})
    BY <1>6 DEF HearComment, HearError, place
  <2>3. AllCallsOK(call)' /\ LiveOK'
    <3>1. AllCallsOK(call')
      BY <1>2, <2>1
    <3>2. \A d \in Calls \ {c} : call'[d] = call[d]
      BY <1>1, <2>1, DoneOK
    <3>3. LiveOK'
      BY <1>1, <2>2, <3>2 DEF LiveOK
    <3>. QED
      BY <3>1, <3>3 DEF AllCallsOK, CallOK
  <2>4. doubt' \subseteq Keys
    BY <1>1, <1>6, DoubtType DEF HearComment, HearError, RestOK
  <2>5. RestOK'
    BY <1>1, <2>2, <2>4 DEF RestOK, RowsOK, Exists, db
  <2>6. PageOK'
    <3>1. CacheOK(cache')
      BY <1>1, <2>2, CacheAsked
    <3>2. screen = "edit" => cache'[Detail(at)] = cache[Detail(at)]
      BY <1>1, <2>2, KeyFacts DEF PageOK, DrawnOK, Existing, CacheOK, Refetch
    <3>3. FormShown(cache, orphan, screen, at)' <=> FormShown(cache, orphan, screen, at)
      BY <2>2, <3>2 DEF FormShown, Entry, Present
    <3>4. DrawnOK' /\ FormEpicInTeam'
      BY <1>1, <2>2, <3>3 DEF PageOK, DrawnOK, FormEpicInTeam, Fits
    <3>. QED
      BY <1>1, <2>2, <3>1, <3>4 DEF PageOK, CacheOK
  <2>. QED
    BY <2>3, <2>5, <2>6, PartsNext
<1>. QED
  BY <1>3, <1>4, <1>5, <1>6

\* Steps that change nothing keep the inductive invariant.
LEMMA StutterIInv == IInv /\ UNCHANGED vars => IInv'
<1>1. SUFFICES ASSUME IInv, UNCHANGED vars PROVE IInv'
  OBVIOUS
<1>2. UNCHANGED <<page, call, moves>> /\ RestOK'
  BY <1>1, Parts DEF vars, db, RestOK, RowsOK, Exists
<1>. QED
  BY <1>1, <1>2, KeepIInv

\* Every step keeps the inductive invariant.
LEMMA NextIInv == IInv /\ [Next]_vars => IInv'
<1>1. SUFFICES ASSUME IInv, [Next]_vars PROVE IInv'
  OBVIOUS
<1>2. CASE Work
  BY <1>1, <1>2, FetchIInv, ServeIInv, HearIInv DEF Work
<1>3. CASE \E k \in Keys : FetchFails(k) \/ Retry(k)
  BY <1>1, <1>3, FetchIInv, VisitIInv
<1>4. CASE \E s \in Screens, t \in Tickets \cup {NoTicket} : Go(s, t)
  BY <1>1, <1>4, VisitIInv
<1>5. CASE (\E t \in Teams \cup {NoTeam} : SetTeam(t)) \/ (\E e \in Epics \cup {NoEpic} : SetEpic(e))
  BY <1>1, <1>5, ChooseIInv
<1>6. CASE \E c \in Calls : Save(c) \/ Delete(c) \/ AddComment(c)
  BY <1>1, <1>6, SendIInv
<1>7. CASE \E t \in Tickets : EditElsewhere(t)
  BY <1>1, <1>7, ElsewhereIInv
<1>8. CASE AtRest \/ UNCHANGED vars
  BY <1>1, <1>8, StutterIInv DEF AtRest
<1>. QED
  BY <1>1, <1>2, <1>3, <1>4, <1>5, <1>6, <1>7, <1>8 DEF Next

(***************************************************************************)
(* What is up to date                                                      *)
(***************************************************************************)

\* A cache in which what is loading shows no error.
LoadingOK(c) == \A k \in Keys : Loading(c[k]) => ~c[k].failed

\* What is there under a key, and the mutations that tell of it.
Awaited(k) == IF k[1] = "ticket" THEN TicketAwaited(k[2]) ELSE CommentAwaited(k[2])
Tracked(k) == k \in doubt \/ Awaited(k) \/ Shows(cache[k], Answer(k))

\* Everything is up to date, key by key.
LEMMA ByKey ==
  /\ Currency <=> LoadingOK(cache) /\ (orphan # NoData => ~Fetching(cache[Detail(at)])) /\ \A k \in Keys : Tracked(k)
  /\ Currency' <=> /\ LoadingOK(cache') /\ (orphan' # NoData => ~Fetching(cache'[Detail(at')]))
                   /\ \A k \in Keys : Tracked(k)'
<1>1. (\A t \in Tickets : TicketTracked(t) /\ CommentsTracked(t)) <=> \A k \in Keys : Tracked(k)
  <2>1. \A t \in Tickets : /\ Tracked(Detail(t)) <=> TicketTracked(t)
                           /\ Tracked(Comments(t)) <=> CommentsTracked(t)
    BY KeyFacts DEF Tracked, Awaited, Answer, TicketTracked, CommentsTracked
  <2>. QED
    BY <2>1, KeyFacts
<1>2. (\A t \in Tickets : TicketTracked(t)' /\ CommentsTracked(t)') <=> \A k \in Keys : Tracked(k)'
  <2>1. \A t \in Tickets : /\ Tracked(Detail(t))' <=> TicketTracked(t)'
                           /\ Tracked(Comments(t))' <=> CommentsTracked(t)'
    BY KeyFacts DEF Tracked, Awaited, Answer, TicketTracked, CommentsTracked
  <2>. QED
    BY <2>1, KeyFacts
<1>3. FetchesInOrder <=> LoadingOK(cache) /\ (orphan # NoData => ~Fetching(cache[Detail(at)]))
  BY DEF FetchesInOrder, LoadingOK
<1>4. FetchesInOrder' <=> LoadingOK(cache') /\ (orphan' # NoData => ~Fetching(cache'[Detail(at')]))
  BY DEF FetchesInOrder, LoadingOK, Loading, Fetching, Detail
<1>. QED
  BY <1>1, <1>2, <1>3, <1>4 DEF Currency

\* What is known before a step.
LEMMA Known ==
  ASSUME UpToDate
  PROVE  /\ IInv /\ CacheOK(cache) /\ LoadingOK(cache) /\ PageOK /\ RestOK
         /\ AllCallsOK(call) /\ LiveOK
         /\ orphan # NoData => ~Fetching(cache[Detail(at)])
         /\ \A k \in Keys : Tracked(k)
BY Parts, ByKey DEF UpToDate, PageOK

\* What drawing the page does to the cache: fetches start, but not that of
\* the ticket that is shown already.
LEMMA DrawFetches ==
  ASSUME PageOK, NEW calls, NEW c, CacheOK(c), NEW o, NEW s, NEW t, CanDraw(o, s, t), Draw(calls, c, o, s, t)
  PROVE  /\ \A k \in Keys : cache'[k] = c[k] \/ (~Fetching(c[k]) /\ cache'[k] = Asked(c[k]))
         /\ screen' = s /\ at' = t /\ orphan' = Held(o, s, t)
         /\ orphan' # NoData => cache'[Detail(t)] = c[Detail(t)]
<1>. DEFINE c1 == Looked(c, o, s, t)
            id == NextId(c, o, s, t)
<1>1. /\ screen' = s /\ at' = t /\ orphan' = Held(o, s, t)
      /\ cache' = c1 \/ cache' = Mount(c1, {Comments(id)})
  BY DrawParts
<1>2. DOMAIN c = Keys
  BY DEF CacheOK
<1>3. /\ \A k \in Keys : c1[k] = c[k] \/ (~Fetching(c[k]) /\ c1[k] = Asked(c[k]))
      /\ \A k \in Keys : k # Detail(t) => c1[k] = c[k]
      /\ DOMAIN c1 = Keys
  BY <1>2 DEF Looked, Mount
<1>4. orphan' # NoData => c1 = c /\ t \in Tickets
  BY <1>1 DEF Held, Looked, CanDraw, Existing
<1>. HIDE DEF c1, id
<1>5. /\ \A k \in Keys : cache'[k] = c1[k] \/ (~Fetching(c1[k]) /\ cache'[k] = Asked(c1[k]))
      /\ \A k \in Keys : k # Comments(id) => cache'[k] = c1[k]
  BY <1>1, <1>3 DEF Mount
<1>6. ASSUME NEW k \in Keys PROVE cache'[k] = c[k] \/ (~Fetching(c[k]) /\ cache'[k] = Asked(c[k]))
  <2>1. k # Detail(t) \/ k # Comments(id)
    BY KeyFacts
  <2>. QED
    BY <1>3, <1>5, <2>1
<1>7. orphan' # NoData => cache'[Detail(t)] = c[Detail(t)]
  BY <1>4, <1>5, KeyFacts
<1>. QED
  BY <1>1, <1>6, <1>7

\* An entry that is asked for shows nothing yet.
LEMMA AskedShows ==
  ASSUME NEW D, NEW e \in Entries(D)
  PROVE  /\ Asked(e).fetch = "asked" /\ (\A x : Shows(Asked(e), x))
         /\ Loading(Asked(e)) => ~Asked(e).failed
BY DEF Asked, Entries, Shows, Loading

\* A step that draws the page keeps everything up to date if the cache it
\* draws from is.
LEMMA DrawCurrency ==
  ASSUME PageOK, NEW calls, NEW c, CacheOK(c), LoadingOK(c), NEW o, NEW s, NEW t,
         CanDraw(o, s, t), Draw(calls, c, o, s, t),
         s = screen /\ t = at /\ o # NoData => ~Fetching(c[Detail(t)]),
         \A k \in Keys : k \in doubt' \/ Awaited(k)' \/ Shows(c[k], Answer(k)') \/ cache'[k].fetch = "asked"
  PROVE  Currency'
<1>1. /\ \A k \in Keys : cache'[k] = c[k] \/ (~Fetching(c[k]) /\ cache'[k] = Asked(c[k]))
      /\ screen' = s /\ at' = t /\ orphan' = Held(o, s, t)
      /\ orphan' # NoData => cache'[Detail(t)] = c[Detail(t)]
  BY DrawFetches
<1>2. ASSUME NEW k \in Keys
      PROVE  /\ \A x : Shows(c[k], x) \/ cache'[k].fetch = "asked" => Shows(cache'[k], x)
             /\ Loading(cache'[k]) => ~cache'[k].failed
  <2>1. c[k] \in Entries(DataOf(k))
    BY CacheTyped
  <2>2. CASE cache'[k] = c[k]
    BY <2>2 DEF Shows, LoadingOK
  <2>3. CASE cache'[k] = Asked(c[k])
    BY <2>1, <2>3, AskedShows
  <2>. QED
    BY <1>1, <2>2, <2>3
<1>3. \A k \in Keys : Tracked(k)'
  <2>1. \A k \in Keys : Tracked(k)' <=> k \in doubt' \/ Awaited(k)' \/ Shows(cache'[k], Answer(k)')
    BY DEF Tracked, Shows, Present
  <2>. QED
    BY <1>2, <2>1
<1>4. LoadingOK(cache')
  BY <1>2 DEF LoadingOK
<1>5. orphan' # NoData => ~Fetching(cache'[Detail(at')])
  BY <1>1 DEF Held
<1>. QED
  BY <1>3, <1>4, <1>5, ByKey

\* The database as it was gives the answers that it gave.
LEMMA SameAnswers == UNCHANGED db => \A k : Answer(k)' = Answer(k)
BY DEF db, Answer

\* Mutations to which no answer is taken away still tell of what they told of.
LEMMA StillAwaited ==
  ASSUME NEW k \in Keys,
         \A d \in Calls : call[d].phase = "ok" =>
            /\ call'[d].phase = "ok" /\ call'[d].kind = call[d].kind
            /\ call'[d].on = call[d].on /\ call'[d].got = call[d].got,
         Answer(k)' = Answer(k), Awaited(k)
  PROVE  Awaited(k)'
<1>1. CASE k[1] = "ticket"
  <2>1. ticket'[k[2]] = ticket[k[2]]
    BY <1>1 DEF Answer
  <2>2. PICK d \in Calls : call[d].on = k[2] /\ \/ Answered(d, "update") /\ call[d].got = ticket[k[2]]
                                                \/ Answered(d, "delete") /\ ticket[k[2]] = Gone
    BY <1>1 DEF Awaited, TicketAwaited
  <2>. QED
    BY <1>1, <2>1, <2>2 DEF Awaited, TicketAwaited, Answered
<1>2. CASE k[1] # "ticket"
  <2>1. PICK d \in Calls : Answered(d, "comment") /\ call[d].on = k[2]
    BY <1>2 DEF Awaited, CommentAwaited
  <2>. QED
    BY <1>2, <2>1 DEF Awaited, CommentAwaited, Answered
<1>. QED
  BY <1>1, <1>2

\* What becomes of the mutations when the page is drawn.
LEMMA DrawCalls ==
  ASSUME NEW calls, AllCallsOK(calls), NEW c, NEW o, NEW s, NEW t, Draw(calls, c, o, s, t)
  PROVE  \A d \in Calls : /\ call'[d].phase = calls[d].phase /\ call'[d].kind = calls[d].kind
                          /\ call'[d].on = calls[d].on /\ call'[d].got = calls[d].got
                          /\ call'[d].from = calls[d].from
<1>1. PICK id : call' = [d \in Calls |-> IF d \in live' /\ s \in Existing
                                        THEN [calls[d] EXCEPT !.key = id] ELSE calls[d]]
  BY Zenon DEF Draw
<1>2. \A d \in Calls : call'[d] = calls[d] \/ call'[d] = [calls[d] EXCEPT !.key = id]
  BY <1>1
<1>. QED
  BY <1>2 DEF AllCallsOK, CallOK, CallType

\* A step that draws the page from the mutations as they are, and from a cache
\* in which only the entry k is not what it was.
LEMMA DrawEntry ==
  ASSUME UpToDate, UNCHANGED db, NEW k \in Keys, NEW c, CacheOK(c),
         \A j \in Keys \ {k} : c[j] = cache[j],
         Loading(c[k]) => ~c[k].failed,
         Shows(c[k], Answer(k)) \/ k \in doubt' \/ Awaited(k),
         doubt' \in {doubt, doubt \ Asking, doubt \ {k}},
         NEW o, NEW s, NEW t, CanDraw(o, s, t), Draw(call, c, o, s, t),
         s = screen /\ t = at /\ o # NoData => ~Fetching(c[Detail(t)])
  PROVE  Currency'
<1>1. LoadingOK(c)
  BY Known DEF LoadingOK
<1>2. \A j \in Keys : Answer(j)' = Answer(j)
  BY SameAnswers
<1>3. \A j \in Keys : Awaited(j) => Awaited(j)'
  BY Known, <1>2, DrawCalls, StillAwaited
<1>4. \A j \in Keys : j \in doubt /\ j \notin doubt' => j = k \/ cache'[j].fetch = "asked"
  BY DEF Asking
<1>5. \A j \in Keys : j \in doubt' \/ Awaited(j)' \/ Shows(c[j], Answer(j)') \/ cache'[j].fetch = "asked"
  BY Known, <1>2, <1>3, <1>4 DEF Tracked
<1>. QED
  BY Known, <1>1, <1>5, DrawCurrency

\* The steps of a fetch keep everything up to date: the answer is what is
\* there, and arrives unless the fetch is replaced.
LEMMA FetchCurrency ==
  ASSUME UpToDate, NEW k \in Keys, ServeFetch(k) \/ EndFetch(k) \/ NotFound(k) \/ FetchFails(k)
  PROVE  Currency'
<1>1. /\ DOMAIN cache = Keys /\ cache[k] \in Entries(DataOf(k)) /\ Fetching(cache[k]) /\ UNCHANGED db
      /\ CacheOK(Arrive(cache, k)) /\ CacheOK(GiveUp(cache, k)) /\ CanDraw(orphan, screen, at)
  BY Known, CacheFetched, CacheTyped, DrawAgain DEF ServeFetch, EndFetch, NotFound, FetchFails, Fetching, CacheOK
<1>2. \A j \in Keys : Answer(j)' = Answer(j)
  BY <1>1, SameAnswers
<1>3. orphan # NoData => k # Detail(at) /\ ~Fetching(cache[Detail(at)]) /\ Detail(at) \in Keys
  BY Known, <1>1, KeyFacts DEF PageOK, DrawnOK
<1>4. CASE ServeFetch(k)
  <2>1. /\ cache' = [cache EXCEPT ![k] = [cache[k] EXCEPT !.fetch = "answered", !.got = Answer(k)]]
        /\ UNCHANGED <<call, doubt, orphan, at>>
    BY <1>1, <1>4 DEF ServeFetch, Serve, place
  <2>2. /\ cache'[k].fetch = "answered" /\ cache'[k].got = Answer(k)
        /\ cache'[k].data = cache[k].data /\ cache'[k].failed = cache[k].failed
        /\ \A j \in Keys \ {k} : cache'[j] = cache[j]
    BY <1>1, <2>1 DEF Entries
  <2>3. \A j \in Keys : Awaited(j) => Awaited(j)'
    BY <1>2, <2>1, StillAwaited
  <2>4. ASSUME NEW j \in Keys PROVE Tracked(j)'
    <3>1. Tracked(j)' <=> j \in doubt' \/ Awaited(j)' \/ Shows(cache'[j], Answer(j)')
      BY DEF Tracked, Shows, Present
    <3>2. CASE j = k
      BY <1>2, <2>2, <3>1, <3>2 DEF Shows
    <3>3. CASE j # k
      BY Known, <1>2, <2>1, <2>2, <2>3, <3>1, <3>3 DEF Tracked
    <3>. QED
      BY <3>2, <3>3
  <2>5. LoadingOK(cache')
    <3>1. Loading(cache'[k]) => ~cache'[k].failed
      BY Known, <1>1, <2>2 DEF LoadingOK, Loading
    <3>. QED
      BY Known, <2>2, <3>1 DEF LoadingOK
  <2>6. orphan' # NoData => ~Fetching(cache'[Detail(at')])
    BY <1>3, <2>1, <2>2
  <2>. QED
    BY <2>4, <2>5, <2>6, ByKey
<1>5. CASE EndFetch(k)
  <2>. DEFINE c == Arrive(cache, k)
  <2>1. /\ cache[k].fetch = "answered" /\ Draw(call, c, orphan, screen, at) /\ doubt' = doubt \ Asking
    BY <1>5 DEF EndFetch
  <2>2. /\ c[k] = [data |-> cache[k].got, fetch |-> "none", got |-> NoData, failed |-> FALSE]
        /\ \A j \in Keys \ {k} : c[j] = cache[j]
    BY <1>1 DEF Arrive
  <2>3. ~Fetching(c[k]) /\ \A x : Shows(cache[k], x) => Shows(c[k], x)
    BY <2>1, <2>2 DEF Fetching, Shows
  <2>4. \/ Shows(c[k], Answer(k)) \/ k \in doubt' \/ Awaited(k) \/ k \in Asking
    BY Known, <2>1, <2>3 DEF Tracked
  <2>. HIDE DEF c
  <2>5. k \in Asking => cache[k].fetch = "none"
    BY DEF Asking
  <2>6. Loading(c[k]) => ~c[k].failed
    BY <2>3 DEF Loading
  <2>. QED
    BY <1>1, <1>3, <2>1, <2>2, <2>3, <2>4, <2>5, <2>6, DrawEntry DEF c
<1>6. CASE NotFound(k) \/ FetchFails(k)
  <2>. DEFINE c == GiveUp(cache, k)
  <2>1. Draw(call, c, orphan, screen, at) /\ doubt' = doubt
    BY <1>6 DEF NotFound, FetchFails
  <2>2. /\ c[k] = [cache[k] EXCEPT !.fetch = "none", !.got = NoData, !.failed = TRUE]
        /\ \A j \in Keys \ {k} : c[j] = cache[j]
    BY <1>1 DEF GiveUp
  <2>3. ~Fetching(c[k]) /\ ~Present(c[k])
    BY <1>1, <2>2 DEF Fetching, Present, Entries
  <2>4. Shows(c[k], Answer(k)) /\ ~Loading(c[k])
    BY <2>3 DEF Shows, Fetching, Loading
  <2>. HIDE DEF c
  <2>. QED
    BY <1>1, <1>3, <2>1, <2>2, <2>3, <2>4, DrawEntry DEF c
<1>. QED
  BY <1>4, <1>5, <1>6

\* Navigating and retrying keep everything up to date: what is asked for is
\* no longer in doubt.
LEMMA VisitCurrency ==
  ASSUME UpToDate,
         (\E k \in Keys : Retry(k)) \/ (\E s \in Screens, t \in Tickets \cup {NoTicket} : Go(s, t))
  PROVE  Currency'
<1>1. DOMAIN cache = Keys /\ \A k \in Keys : cache[k] \in Entries(DataOf(k))
  BY Known, CacheTyped
<1>2. ASSUME NEW k \in Keys, Retry(k) PROVE Currency'
  <2>. DEFINE c == Refetch(cache, {k})
              o == IF k = Detail(at) THEN NoData ELSE orphan
  <2>1. Draw(call, c, o, screen, at) /\ doubt' = doubt \ {k} /\ UNCHANGED db
    BY <1>2 DEF Retry
  <2>2. ~Loading(cache[k])
    <3>1. CASE k = Detail(at) /\ orphan # NoData
      BY Known, <3>1 DEF Loading
    <3>2. CASE cache[k].failed
      BY Known, <3>2 DEF LoadingOK
    <3>3. k = Comments(Shown) => k # Detail(at)
      BY KeyFacts
    <3>. QED
      BY <1>2, <3>1, <3>2, <3>3 DEF Retry, Entry
  <2>3. c[k] = Asked(cache[k]) /\ \A j \in Keys \ {k} : c[j] = cache[j]
    BY <1>1, <2>2 DEF Refetch, Refetched, Loading
  <2>4. Shows(c[k], Answer(k)) /\ (Loading(c[k]) => ~c[k].failed)
    BY <1>1, <2>3, AskedShows
  <2>5. CacheOK(c) /\ CanDraw(o, screen, at)
    BY Known, CacheAsked, DrawAgain
  <2>6. o # NoData => ~Fetching(c[Detail(at)])
    <3>1. orphan # NoData => Detail(at) \in Keys
      BY Known, KeyFacts DEF PageOK, DrawnOK
    <3>. QED
      BY Known, <2>3, <3>1
  <2>. HIDE DEF c, o
  <2>. QED
    BY <2>1, <2>3, <2>4, <2>5, <2>6, DrawEntry
<1>3. ASSUME NEW s \in Screens, NEW t \in Tickets \cup {NoTicket}, Go(s, t) PROVE Currency'
  <2>1. /\ CanDraw(orphan, s, t) /\ Draw(call, cache, orphan, s, t)
        /\ doubt' = doubt \ Asking /\ UNCHANGED db
        /\ ~(s = screen /\ t = at)
    BY Known, <1>3, TicketPagesBounds DEF Go, CanDraw, PageOK, DrawnOK
  <2>2. \A k \in Keys : Answer(k)' = Answer(k) /\ (Awaited(k) => Awaited(k)')
    BY Known, <2>1, SameAnswers, DrawCalls, StillAwaited
  <2>3. \A k \in Keys : k \in doubt' \/ Awaited(k)' \/ Shows(cache[k], Answer(k)') \/ cache'[k].fetch = "asked"
    BY Known, <2>1, <2>2 DEF Tracked, Asking
  <2>. QED
    BY Known, <2>1, <2>3, DrawCurrency
<1>. QED
  BY <1>2, <1>3

\* A step that leaves the pages alone keeps everything up to date if what it
\* changes is in doubt, or told of by a mutation.
LEMMA KeepCurrency ==
  ASSUME UpToDate, UNCHANGED <<cache, orphan, at>>,
         \A k \in Keys : \/ k \in doubt' \/ Awaited(k)'
                         \/ Answer(k)' = Answer(k) /\ k \notin doubt /\ ~Awaited(k)
  PROVE  Currency'
<1>1. \A k \in Keys : Tracked(k)'
  <2>1. \A k \in Keys : Tracked(k)' <=> k \in doubt' \/ Awaited(k)' \/ Shows(cache[k], Answer(k)')
    BY DEF Tracked, Shows, Present
  <2>2. \A k \in Keys : k \notin doubt /\ ~Awaited(k) => Shows(cache[k], Answer(k))
    BY Known DEF Tracked
  <2>. QED
    BY <2>1, <2>2
<1>. QED
  BY Known, <1>1, ByKey

\* Choosing in the form changes nothing of it.
LEMMA ChooseCurrency ==
  ASSUME UpToDate, (\E t \in Teams \cup {NoTeam} : SetTeam(t)) \/ (\E e \in Epics \cup {NoEpic} : SetEpic(e))
  PROVE  Currency'
<1>1. UNCHANGED <<db, cache, orphan, at, call, doubt>>
  BY DEF SetTeam, SetEpic, place
<1>2. \A k \in Keys : Answer(k)' = Answer(k) /\ (Awaited(k) => Awaited(k)')
  BY <1>1, SameAnswers, StillAwaited
<1>. QED
  BY <1>1, <1>2, KeepCurrency

\* Sending a mutation keeps everything up to date: an unused one tells of nothing.
LEMMA SendCurrency ==
  ASSUME UpToDate, NEW c \in Calls, Save(c) \/ Delete(c) \/ AddComment(c)
  PROVE  Currency'
<1>1. PICK kind, t, v : Send(c, kind, t, v)
  BY DEF Save, SendForm, Delete, AddComment
<1>2. /\ UNCHANGED <<db, cache, orphan, at, doubt>> /\ call[c].phase = "unused"
      /\ \A d \in Calls \ {c} : call'[d] = call[d]
  BY Known, <1>1 DEF Send, place, AllCallsOK
<1>3. \A k \in Keys : Answer(k)' = Answer(k) /\ (Awaited(k) => Awaited(k)')
  BY <1>2, SameAnswers, StillAwaited
<1>. QED
  BY <1>2, <1>3, KeepCurrency

\* A mutation that has not been answered tells of nothing, so what it changes
\* of one key alone must be in doubt or told of.
LEMMA AnswerCurrency ==
  ASSUME UpToDate, UNCHANGED page, NEW c \in Calls, call[c].phase # "ok",
         \A d \in Calls \ {c} : call'[d] = call[d],
         NEW ks, \A k \in Keys \ ks : Answer(k)' = Answer(k),
         doubt \subseteq doubt', \A k \in Keys \cap ks : k \in doubt' \/ Awaited(k)'
  PROVE  Currency'
<1>1. \A k \in Keys \ ks : Awaited(k) => Awaited(k)'
  BY StillAwaited
<1>. QED
  BY <1>1, KeepCurrency DEF page, place

\* What becomes of a mutation when its response comes back or is lost.
LEMMA Responded ==
  ASSUME AllCallsOK(call), NEW c \in Calls, NEW got, NEW k, Respond(c, got, k)
  PROVE  /\ \A d \in Calls \ {c} : call'[d] = call[d]
         /\ call'[c].kind = call[c].kind /\ call'[c].on = call[c].on /\ call'[c].got = got
         /\ \/ call'[c].phase = "ok" /\ doubt' = doubt
            \/ call'[c].phase = "unheard" /\ doubt' = doubt \cup {k}
<1>1. PICK p \in {"ok", "unheard"} :
        /\ call' = [call EXCEPT ![c].phase = p, ![c].got = got]
        /\ doubt' = IF p = "unheard" THEN doubt \cup {k} ELSE doubt
  BY DEF Respond
<1>2. call = [d \in Calls |-> call[d]] /\ call[c] \in CallType
  BY DEF AllCallsOK, CallOK
<1>3. /\ \A d \in Calls \ {c} : call'[d] = call[d]
      /\ call'[c] = [call[c] EXCEPT !.phase = p, !.got = got]
  BY <1>1, <1>2
<1>4. call'[c].kind = call[c].kind /\ call'[c].on = call[c].on /\ call'[c].got = got /\ call'[c].phase = p
  BY <1>2, <1>3 DEF CallType
<1>. QED
  BY <1>1, <1>3, <1>4

\* The backend keeps everything up to date: who made the last change will
\* tell, or the response was lost and the change is in doubt.
LEMMA ServeCurrency ==
  ASSUME UpToDate, NEW c \in Calls, ServeCall(c)
  PROVE  Currency'
<1>1. call = [d \in Calls |-> call[d]] /\ CallOK(call[c]) /\ RestOK
  BY Known DEF AllCallsOK
<1>2. UNCHANGED page /\ call[c].phase \in {"sent", "read"}
  BY DEF ServeCall, ServeCreate, ReadCopy, WriteDirty, SkipWrite, ServeDelete, ServeComment, Refuse
<1>3. ASSUME ReadCopy(c) \/ SkipWrite(c) \/ Refuse(c) PROVE Currency'
  <2>1. UNCHANGED <<db, doubt>> /\ \A d \in Calls \ {c} : call'[d] = call[d]
    BY <1>1, <1>3 DEF ReadCopy, SkipWrite, Refuse
  <2>. QED
    BY <1>2, <2>1, SameAnswers, AnswerCurrency
<1>4. CASE ServeCreate(c)
  <2>1. PICK t \in Tickets : /\ \A u \in Tickets \ {t} : ticket'[u] = ticket[u]
                             /\ \A d \in Calls \ {c} : call'[d] = call[d]
                             /\ doubt' = doubt \cup {Detail(t)}
                             /\ comments' = comments
    BY <1>1, <1>4 DEF ServeCreate, RestOK
  <2>2. \A k \in Keys \ {Detail(t)} : Answer(k)' = Answer(k)
    BY <2>1, KeyFacts DEF Answer
  <2>. QED
    BY <1>2, <2>1, <2>2, AnswerCurrency
<1>5. CASE WriteDirty(c) \/ ServeDelete(c)
  <2>1. PICK t \in Tickets : t = call[c].on
    BY <1>1, <1>5 DEF WriteDirty, ServeDelete, CallOK
  <2>2. /\ \A d \in Calls \ {c} : call'[d] = call[d]
        /\ call'[c].on = t
        /\ \/ call'[c].kind = "update" /\ call'[c].got = ticket'[t]
           \/ call'[c].kind = "delete" /\ ticket'[t] = Gone
        /\ \/ call'[c].phase = "ok" /\ doubt' = doubt
           \/ call'[c].phase = "unheard" /\ doubt' = doubt \cup {Detail(t)}
    <3>1. CASE WriteDirty(c)
      <4>1. Respond(c, ticket'[t], Detail(t)) /\ call[c].kind = "update"
        BY <1>1, <2>1, <3>1 DEF WriteDirty, CallOK
      <4>. QED
        BY Known, <2>1, <4>1, Responded
    <3>2. CASE ServeDelete(c)
      <4>1. Respond(c, NoData, Detail(t)) /\ call[c].kind = "delete" /\ ticket'[t] = Gone
        BY <1>1, <2>1, <3>2 DEF ServeDelete, RestOK
      <4>. QED
        BY Known, <2>1, <4>1, Responded
    <3>. QED
      BY <1>5, <3>1, <3>2
  <2>3. (\A u \in Tickets \ {t} : ticket'[u] = ticket[u]) /\ comments' = comments
    BY <1>1, <1>5, <2>1 DEF WriteDirty, ServeDelete, RestOK
  <2>4. \A k \in Keys \ {Detail(t)} : Answer(k)' = Answer(k)
    BY <2>3, KeyFacts DEF Answer
  <2>5. Detail(t) \in doubt' \/ TicketAwaited(t)'
    BY <2>2 DEF TicketAwaited, Answered
  <2>6. \A k \in Keys \cap {Detail(t)} : k \in doubt' \/ Awaited(k)'
    <3>1. ASSUME NEW k \in Keys, k = Detail(t) PROVE k[1] = "ticket" /\ k[2] = t
      BY <3>1, KeyFacts
    <3>. QED
      BY <2>5, <3>1 DEF Awaited, TicketAwaited, Answered
  <2>. QED
    BY <1>2, <2>2, <2>4, <2>6, AnswerCurrency
<1>6. CASE ServeComment(c)
  <2>1. PICK t \in Tickets : t = call[c].on
    BY <1>1, <1>6 DEF ServeComment, CallOK
  <2>2. /\ Respond(c, NoData, Comments(t)) /\ call[c].kind = "comment"
        /\ ticket' = ticket /\ (\A u \in Tickets \ {t} : comments'[u] = comments[u])
    BY <1>1, <1>6, <2>1 DEF ServeComment, RestOK
  <2>3. /\ \A d \in Calls \ {c} : call'[d] = call[d]
        /\ call'[c].on = t /\ call'[c].kind = "comment"
        /\ \/ call'[c].phase = "ok" /\ doubt' = doubt
           \/ call'[c].phase = "unheard" /\ doubt' = doubt \cup {Comments(t)}
    BY Known, <2>1, <2>2, Responded
  <2>4. \A k \in Keys \ {Comments(t)} : Answer(k)' = Answer(k)
    BY <2>2, KeyFacts DEF Answer
  <2>5. Comments(t) \in doubt' \/ CommentAwaited(t)'
    BY <2>3 DEF CommentAwaited, Answered
  <2>6. \A k \in Keys \cap {Comments(t)} : k \in doubt' \/ Awaited(k)'
    <3>1. ASSUME NEW k \in Keys, k = Comments(t) PROVE k[1] = "comments" /\ k[2] = t
      BY <3>1, KeyFacts
    <3>. QED
      BY <2>5, <3>1 DEF Awaited, CommentAwaited, Answered
  <2>. QED
    BY <1>2, <2>3, <2>4, <2>6, AnswerCurrency
<1>. QED
  BY <1>3, <1>4, <1>5, <1>6 DEF ServeCall

\* What was changed elsewhere is in doubt.
LEMMA ElsewhereCurrency ==
  ASSUME UpToDate, NEW t \in Tickets, EditElsewhere(t)
  PROVE  Currency'
<1>1. /\ UNCHANGED <<page, call>> /\ RestOK
      /\ \/ (\A u \in Tickets \ {t} : ticket'[u] = ticket[u]) /\ comments' = comments /\ doubt' = doubt \cup {Detail(t)}
         \/ (\A u \in Tickets \ {t} : comments'[u] = comments[u]) /\ ticket' = ticket /\ doubt' = doubt \cup {Comments(t)}
  BY Known DEF EditElsewhere, RestOK
<1>2. \A k \in Keys : k \in doubt' \/ Answer(k)' = Answer(k)
  BY <1>1, KeyFacts DEF Answer
<1>3. \A k \in Keys : Answer(k)' = Answer(k) /\ Awaited(k) => Awaited(k)'
  BY <1>1, StillAwaited
<1>. QED
  BY <1>1, <1>2, <1>3, KeepCurrency DEF page, place

\* A mutation that is heard of told of one key at most; of the others it is
\* known what was known before.
LEMMA DoneAwaited ==
  ASSUME UpToDate, UNCHANGED db, NEW c \in Calls, call[c].phase = "ok" \/ call[c].phase \in {"refused", "unheard"},
         \A d \in Calls \ {c} : /\ call'[d].phase = call[d].phase /\ call'[d].kind = call[d].kind
                                /\ call'[d].on = call[d].on /\ call'[d].got = call[d].got,
         NEW k \in Keys,
         (Answered(c, "update") \/ Answered(c, "delete")) => k # Detail(call[c].on),
         Answered(c, "comment") => k # Comments(call[c].on)
  PROVE  k \in doubt \/ Awaited(k)' \/ Shows(cache[k], Answer(k)')
<1>1. Answer(k)' = Answer(k)
  BY SameAnswers
<1>2. ASSUME Awaited(k) PROVE Awaited(k)'
  <2>1. CASE k[1] = "ticket"
    <3>1. PICK d \in Calls : call[d].on = k[2] /\ \/ Answered(d, "update") /\ call[d].got = ticket[k[2]]
                                                  \/ Answered(d, "delete") /\ ticket[k[2]] = Gone
      BY <1>2, <2>1 DEF Awaited, TicketAwaited
    <3>2. d # c
      BY <2>1, <3>1, KeyFacts
    <3>. QED
      BY <2>1, <3>1, <3>2 DEF Awaited, TicketAwaited, Answered, db
  <2>2. CASE k[1] # "ticket"
    <3>1. PICK d \in Calls : Answered(d, "comment") /\ call[d].on = k[2]
      BY <1>2, <2>2 DEF Awaited, CommentAwaited
    <3>2. d # c
      BY <2>2, <3>1, KeyFacts
    <3>. QED
      BY <2>2, <3>1, <3>2 DEF Awaited, CommentAwaited, Answered
  <2>. QED
    BY <2>1, <2>2
<1>. QED
  BY Known, <1>1, <1>2 DEF Tracked

\* The mutations after drawing a page when c has been heard of.
LEMMA DoneDrawn ==
  ASSUME AllCallsOK(call), NEW c \in Calls, NEW cc, NEW o, NEW s, NEW t, Draw(Done(c, "done"), cc, o, s, t)
  PROVE  \A d \in Calls \ {c} : /\ call'[d].phase = call[d].phase /\ call'[d].kind = call[d].kind
                                /\ call'[d].on = call[d].on /\ call'[d].got = call[d].got
                                /\ call'[d].from = call[d].from
<1>1. AllCallsOK(Done(c, "done")) /\ \A d \in Calls \ {c} : Done(c, "done")[d] = call[d]
  BY DoneOK
<1>. QED
  BY <1>1, DrawCalls

\* An update: its answer takes the place of the data under the key that the
\* mutation has by now, which need not be that of its ticket.
LEMMA HearUpdatedCurrency ==
  ASSUME UpToDate, NEW c \in Calls, HearUpdated(c)
  PROVE  Currency'
<1>1. CallOK(call[c]) /\ Answered(c, "update") /\ UNCHANGED db /\ UpdateDoubt(c)
  BY Known DEF HearUpdated, AllCallsOK
<1>2. PICK on \in Tickets, key \in Tickets : on = call[c].on /\ key = call[c].key /\ call[c].got \in Rows
  BY <1>1 DEF CallOK, Answered
<1>. DEFINE cc == [cache EXCEPT ![Detail(key)] = [cache[Detail(key)] EXCEPT !.data = call[c].got, !.failed = FALSE]]
<1>3. DOMAIN cache = Keys /\ Detail(key) \in Keys /\ Detail(on) \in Keys /\ cache[Detail(key)] \in Entries(Rows)
  BY Known, KeyFacts DEF CacheOK
<1>4. Updated(c) = cc
  BY <1>2, <1>3 DEF Updated
<1>5. /\ cc[Detail(key)].data = call[c].got /\ ~cc[Detail(key)].failed
      /\ cc[Detail(key)].fetch = cache[Detail(key)].fetch /\ cc[Detail(key)].got = cache[Detail(key)].got
      /\ \A k \in Keys \ {Detail(key)} : cc[k] = cache[k]
  BY <1>3 DEF Entries
<1>6. CacheOK(cc) /\ LoadingOK(cc)
  <2>1. [cache[Detail(key)] EXCEPT !.data = call[c].got, !.failed = FALSE] \in Entries(DataOf(Detail(key)))
    BY <1>2, <1>3, KeyFacts DEF Entries, DataOf
  <2>2. CacheOK(cc)
    BY Known, <1>3, <2>1, CacheEntry
  <2>. HIDE DEF cc
  <2>. QED
    BY Known, <1>5, <2>2 DEF LoadingOK
<1>. HIDE DEF cc
<1>7. PICK s \in Screens, t \in Tickets \cup {NoTicket} : CanDraw(orphan, s, t) /\ Draw(Done(c, "done"), cc, orphan, s, t)
  <2>1. /\ CanDraw(orphan, screen, at) /\ (\A t \in Tickets : CanDraw(orphan, "view", t))
        /\ screen \in Screens /\ at \in Tickets \cup {NoTicket} /\ "view" \in Screens /\ call[c].got.id \in Tickets
    BY Known, <1>2, DrawAgain DEF PageOK, Screens, Existing, Rows
  <2>2. \/ Draw(Done(c, "done"), cc, orphan, "view", call[c].got.id)
        \/ Draw(Done(c, "done"), cc, orphan, screen, at)
    BY <1>4 DEF HearUpdated
  <2>. QED
    BY <2>1, <2>2
<1>8. s = screen /\ t = at /\ orphan # NoData => ~Fetching(cc[Detail(t)])
  <2>1. at \in Tickets => Detail(at) \in Keys
    BY KeyFacts
  <2>. QED
    BY Known, <1>5, <2>1 DEF PageOK, DrawnOK, Fetching
<1>9. \A d \in Calls \ {c} : /\ call'[d].phase = call[d].phase /\ call'[d].kind = call[d].kind
                             /\ call'[d].on = call[d].on /\ call'[d].got = call[d].got
  BY Known, <1>7, DoneDrawn
<1>10. \A k \in Keys \ {Detail(on)} : k \in doubt \/ Awaited(k)' \/ Shows(cache[k], Answer(k)')
  BY <1>1, <1>2, <1>9, DoneAwaited DEF Answered
<1>. DEFINE right == \/ cache[Detail(on)].fetch = "asked"
                     \/ cache[Detail(on)].fetch = "none" /\ call[c].got = ticket[on]
<1>11. Answer(Detail(on)) = ticket[on] /\ \A k \in Keys : Answer(k)' = Answer(k)
  BY <1>1, SameAnswers, KeyFacts DEF Answer
<1>12. ASSUME NEW k \in Keys
       PROVE  k \in doubt' \/ Awaited(k)' \/ Shows(cc[k], Answer(k)') \/ cache'[k].fetch = "asked"
  <2>1. CASE key # on
    <3>1. doubt' = (doubt \cup {Detail(on), Detail(key)}) \ Asking
      BY <1>1, <1>2, <2>1 DEF UpdateDoubt, Settle
    <3>. QED
      BY <1>5, <1>10, <3>1 DEF Asking
  <2>2. CASE key = on /\ k # Detail(on)
    <3>1. doubt \ {Detail(on)} \subseteq doubt' \cup Asking
      BY <1>1, <1>2, <2>2 DEF UpdateDoubt, Settle
    <3>. QED
      BY <1>5, <1>10, <2>2, <3>1 DEF Asking
  <2>3. CASE key = on /\ k = Detail(on) /\ right
    BY <1>5, <1>11, <2>3 DEF Shows
  <2>4. CASE key = on /\ k = Detail(on) /\ ~right
    <3>1. doubt' = (doubt \cup {k}) \ Asking
      BY <1>1, <1>2, <2>4 DEF UpdateDoubt, Settle
    <3>. QED
      BY <3>1 DEF Asking
  <2>. QED
    BY <2>1, <2>2, <2>3, <2>4
<1>. QED
  BY Known, <1>6, <1>7, <1>8, <1>12, DrawCurrency

\* A ticket that was created is shown on a page of its own, which asks for it
\* if it is not there.
LEMMA HearCreatedCurrency ==
  ASSUME UpToDate, NEW c \in Calls, HearCreated(c)
  PROVE  Currency'
<1>1. CallOK(call[c]) /\ Answered(c, "create") /\ UNCHANGED db /\ doubt' = doubt \ Asking
  BY Known DEF HearCreated, AllCallsOK, Settle
<1>2. PICK s \in Screens, t \in Tickets \cup {NoTicket} :
        CanDraw(orphan, s, t) /\ Draw(Done(c, "done"), cache, orphan, s, t)
  <2>1. /\ CanDraw(orphan, screen, at) /\ (\A t \in Tickets : CanDraw(orphan, "view", t))
        /\ screen \in Screens /\ at \in Tickets \cup {NoTicket} /\ "view" \in Screens /\ call[c].got.id \in Tickets
    BY Known, <1>1, DrawAgain DEF PageOK, Screens, Existing, Rows, CallOK, Answered
  <2>2. \/ Draw(Done(c, "done"), cache, orphan, "view", call[c].got.id)
        \/ Draw(Done(c, "done"), cache, orphan, screen, at)
    BY DEF HearCreated
  <2>. QED
    BY <2>1, <2>2
<1>3. \A d \in Calls \ {c} : /\ call'[d].phase = call[d].phase /\ call'[d].kind = call[d].kind
                             /\ call'[d].on = call[d].on /\ call'[d].got = call[d].got
  BY Known, <1>2, DoneDrawn
<1>4. \A k \in Keys : k \in doubt \/ Awaited(k)' \/ Shows(cache[k], Answer(k)')
  BY <1>1, <1>3, DoneAwaited DEF Answered
<1>5. \A k \in Keys : k \in doubt' \/ Awaited(k)' \/ Shows(cache[k], Answer(k)') \/ cache'[k].fetch = "asked"
  BY <1>1, <1>4 DEF Asking
<1>. QED
  BY Known, <1>2, <1>5, DrawCurrency

\* A deletion: what is removed is what the mutation has for its ticket by
\* now, and its own ticket is in doubt if that is another one.
LEMMA HearDeletedCurrency ==
  ASSUME UpToDate, NEW c \in Calls, HearDeleted(c)
  PROVE  Currency'
<1>1. CallOK(call[c]) /\ Answered(c, "delete") /\ UNCHANGED db
  BY Known DEF HearDeleted, AllCallsOK
<1>2. PICK on \in Tickets, key \in Tickets : on = call[c].on /\ key = call[c].key
  BY <1>1 DEF CallOK, Answered
<1>. DEFINE gone == [cache EXCEPT ![Detail(key)] = Unused]
            entry == [cache[Detail(key)] EXCEPT !.fetch = "none", !.got = NoData]
            left == IF screen \in Existing /\ orphan = NoData /\ Detail(key) = Detail(at) THEN entry ELSE orphan
<1>3. DOMAIN cache = Keys /\ Detail(key) \in Keys /\ cache[Detail(key)] \in Entries(Rows)
  BY Known, KeyFacts DEF CacheOK
<1>4. gone[Detail(key)] = Unused /\ \A k \in Keys \ {Detail(key)} : gone[k] = cache[k]
  BY <1>3
<1>5. CacheOK(gone) /\ LoadingOK(gone)
  <2>1. Unused \in Entries(DataOf(Detail(key))) /\ ~Fetching(Unused)
    BY DEF Entries, Unused, Fetching
  <2>2. CacheOK(gone)
    BY Known, <1>3, <2>1, CacheEntry
  <2>. HIDE DEF gone
  <2>. QED
    BY Known, <1>4, <2>1, <2>2 DEF LoadingOK, Loading
<1>6. doubt' = ((doubt \ {Detail(key)}) \cup ({Detail(on)} \ {Detail(key)})) \ Asking
  BY <1>2 DEF HearDeleted, Settle
<1>7. \/ Draw(Done(c, "done"), gone, orphan, "away", NoTicket)
      \/ Draw(Done(c, "done"), gone, left, screen, at)
  BY <1>2 DEF HearDeleted
<1>8. entry \in Entries(Rows)
  BY <1>3 DEF Entries
<1>9. /\ CanDraw(orphan, "away", NoTicket) /\ CanDraw(left, screen, at)
      /\ "away" = screen /\ NoTicket = at => orphan = NoData
      /\ left # NoData => ~Fetching(gone[Detail(at)])
  <2>1. CanDraw(orphan, "away", NoTicket) /\ CanDraw(orphan, screen, at)
    BY Known, DrawAgain
  <2>2. CanDraw(left, screen, at)
    BY Known, <1>8, <2>1 DEF CanDraw, PageOK, DrawnOK
  <2>3. "away" = screen => orphan = NoData
    BY Known DEF PageOK, DrawnOK, Existing
  <2>4. ~Fetching(gone[Detail(key)])
    BY <1>4 DEF Unused, Fetching
  <2>5. orphan # NoData => Detail(at) \in Keys
    BY Known, KeyFacts DEF PageOK, DrawnOK
  <2>. HIDE DEF gone, entry
  <2>6. left # NoData => ~Fetching(gone[Detail(at)])
    BY Known, <1>4, <2>4, <2>5
  <2>. QED
    BY <2>1, <2>2, <2>3, <2>6
<1>. HIDE DEF gone, left
<1>10. \A d \in Calls \ {c} : /\ call'[d].phase = call[d].phase /\ call'[d].kind = call[d].kind
                              /\ call'[d].on = call[d].on /\ call'[d].got = call[d].got
  BY Known, <1>7, DoneDrawn
<1>11. \A k \in Keys \ {Detail(on)} : k \in doubt \/ Awaited(k)' \/ Shows(cache[k], Answer(k)')
  BY <1>1, <1>2, <1>10, DoneAwaited DEF Answered
<1>12. ASSUME NEW k \in Keys
       PROVE  k \in doubt' \/ Awaited(k)' \/ Shows(gone[k], Answer(k)') \/ cache'[k].fetch = "asked"
  <2>1. CASE k = Detail(key)
    BY <1>4, <2>1 DEF Shows, Unused, Present
  <2>2. CASE k # Detail(key) /\ k = Detail(on)
    BY <1>6, <2>2 DEF Asking
  <2>3. CASE k # Detail(key) /\ k # Detail(on)
    BY <1>4, <1>6, <1>11, <2>3 DEF Asking
  <2>. QED
    BY <2>1, <2>2, <2>3
<1>13. CASE Draw(Done(c, "done"), gone, orphan, "away", NoTicket)
  BY Known, <1>5, <1>9, <1>12, <1>13, DrawCurrency
<1>14. CASE Draw(Done(c, "done"), gone, left, screen, at)
  BY Known, <1>5, <1>9, <1>12, <1>14, DrawCurrency
<1>. QED
  BY <1>7, <1>13, <1>14

\* A comment: the list of its ticket is asked for anew, or is in doubt.
LEMMA HearCommentCurrency ==
  ASSUME UpToDate, NEW c \in Calls, HearComment(c)
  PROVE  Currency'
<1>1. CallOK(call[c]) /\ Answered(c, "comment") /\ UNCHANGED <<db, orphan, at>> /\ CommentDoubt(c)
  BY Known DEF HearComment, AllCallsOK, place
<1>2. PICK on \in Tickets, key \in Tickets : on = call[c].on /\ key = call[c].key
  BY <1>1 DEF CallOK, Answered
<1>3. DOMAIN cache = Keys /\ Comments(key) \in Keys /\ cache[Comments(key)] \in Entries(DataOf(Comments(key)))
  BY Known, KeyFacts, CacheTyped DEF CacheOK
<1>4. /\ \A k \in Keys \ {Comments(key)} : cache'[k] = cache[k]
      /\ \/ cache'[Comments(key)] = cache[Comments(key)]
         \/ cache'[Comments(key)] = Asked(cache[Comments(key)])
  BY <1>2, <1>3 DEF HearComment, Refetch, Refetched
<1>5. \A d \in Calls \ {c} : call'[d] = call[d]
  BY Known, DoneOK DEF HearComment
<1>6. \A k \in Keys \ {Comments(on)} : k \in doubt \/ Awaited(k)' \/ Shows(cache[k], Answer(k)')
  BY <1>1, <1>2, <1>5, DoneAwaited DEF Answered
<1>7. ASSUME NEW k \in Keys
      PROVE  /\ \A x : Shows(cache[k], x) => Shows(cache'[k], x)
             /\ Loading(cache'[k]) => ~cache'[k].failed
  BY Known, <1>3, <1>4, AskedShows DEF LoadingOK
<1>8. ASSUME NEW k \in Keys PROVE Tracked(k)'
  <2>1. Tracked(k)' <=> k \in doubt' \/ Awaited(k)' \/ Shows(cache'[k], Answer(k)')
    BY DEF Tracked, Shows, Present
  <2>2. CASE k = Comments(on)
    <3>1. CASE key = on /\ cache'[k].fetch = "asked"
      BY <2>1, <3>1 DEF Shows
    <3>2. CASE ~(key = on /\ cache'[k].fetch = "asked")
      <4>1. doubt' = (doubt \cup {k}) \ Asking
        BY <1>1, <1>2, <2>2, <3>2 DEF CommentDoubt, Settle
      <4>. QED
        BY <2>1, <4>1 DEF Asking, Shows
    <3>. QED
      BY <3>1, <3>2
  <2>3. CASE k # Comments(on)
    <3>1. doubt \ {Comments(on)} \subseteq doubt' \cup Asking
      BY <1>1, <1>2 DEF CommentDoubt, Settle
    <3>. QED
      BY <1>6, <1>7, <2>1, <2>3, <3>1 DEF Asking, Shows
  <2>. QED
    BY <2>2, <2>3
<1>9. LoadingOK(cache')
  BY <1>7 DEF LoadingOK
<1>10. orphan' # NoData => ~Fetching(cache'[Detail(at')])
  <2>1. orphan # NoData => Detail(at) \in Keys
    BY Known, KeyFacts DEF PageOK, DrawnOK
  <2>. QED
    BY Known, <1>1, <1>4, <2>1, KeyFacts
<1>. QED
  BY <1>8, <1>9, <1>10, ByKey

\* Whoever hears of an error has changed nothing, or what he has changed is
\* in doubt already.
LEMMA HearErrorCurrency ==
  ASSUME UpToDate, NEW c \in Calls, HearError(c)
  PROVE  Currency'
<1>1. UNCHANGED <<db, cache, orphan, at, doubt>> /\ call[c].phase \in {"refused", "unheard"}
  BY DEF HearError, place
<1>2. \A d \in Calls \ {c} : call'[d] = call[d]
  BY Known, DoneOK DEF HearError
<1>3. \A k \in Keys : Answer(k)' = Answer(k) /\ (Awaited(k) => Awaited(k)')
  BY <1>1, <1>2, SameAnswers, StillAwaited
<1>. QED
  BY <1>1, <1>3, KeepCurrency

\* At the start nothing is shown.
LEMMA InitCurrency == Init => Currency
<1>1. SUFFICES ASSUME Init PROVE Currency
  OBVIOUS
<1>2. \A k \in Keys : cache[k] = Unused
  BY <1>1 DEF Init
<1>3. LoadingOK(cache) /\ \A k \in Keys : Tracked(k)
  BY <1>2 DEF LoadingOK, Loading, Fetching, Unused, Tracked, Shows, Present
<1>4. orphan = NoData
  BY <1>1 DEF Init
<1>. QED
  BY <1>3, <1>4, ByKey

\* Every step keeps everything up to date.
LEMMA NextUpToDate == UpToDate /\ [Next]_vars => UpToDate'
<1>1. SUFFICES ASSUME UpToDate, [Next]_vars PROVE Currency'
  BY NextIInv DEF UpToDate
<1>2. CASE Work
  BY <1>1, <1>2, FetchCurrency, ServeCurrency, HearUpdatedCurrency, HearCreatedCurrency,
     HearDeletedCurrency, HearCommentCurrency, HearErrorCurrency DEF Work
<1>3. CASE \E k \in Keys : FetchFails(k) \/ Retry(k)
  BY <1>1, <1>3, FetchCurrency, VisitCurrency
<1>4. CASE \E s \in Screens, t \in Tickets \cup {NoTicket} : Go(s, t)
  BY <1>1, <1>4, VisitCurrency
<1>5. CASE (\E t \in Teams \cup {NoTeam} : SetTeam(t)) \/ (\E e \in Epics \cup {NoEpic} : SetEpic(e))
  BY <1>1, <1>5, ChooseCurrency
<1>6. CASE \E c \in Calls : Save(c) \/ Delete(c) \/ AddComment(c)
  BY <1>1, <1>6, SendCurrency
<1>7. CASE \E t \in Tickets : EditElsewhere(t)
  BY <1>1, <1>7, ElsewhereCurrency
<1>8. CASE AtRest \/ UNCHANGED vars
  <2>1. UNCHANGED <<db, cache, orphan, at, call, doubt>>
    BY <1>8 DEF AtRest, vars, page, place
  <2>2. \A k \in Keys : Answer(k)' = Answer(k) /\ (Awaited(k) => Awaited(k)')
    BY <2>1, SameAnswers, StillAwaited
  <2>. QED
    BY <1>1, <2>1, <2>2, KeepCurrency
<1>. QED
  BY <1>1, <1>2, <1>3, <1>4, <1>5, <1>6, <1>7, <1>8 DEF Next

(***************************************************************************)
(* The theorems                                                            *)
(***************************************************************************)

\* In every reachable state every variable has its type, the page is the one
\* that its URL and its entry call for, what the user has chosen in the form
\* fits, and callbacks are left only to mutations under way that were sent
\* since he came to this kind of page, whatever rows there are and however
\* he goes from one ticket to another (TicketDetailPage, TicketForm, TicketView).
THEOREM Invariance == Spec => []IInv
<1>. QED
  BY InitIInv, NextIInv, PTL DEF Spec

\* Once the user has chosen a team or an epic, the form does not offer to save
\* an epic of another team, even if it was filled from a row that has one, for
\* any number of teams, epics and tickets (handleTeamChange, useTeamEpics).
THEOREM FormIsRight == Spec => []FormEpicInTeam
<1>1. IInv => FormEpicInTeam
  BY DEF IInv
<1>. QED
  BY <1>1, Invariance, PTL

\* Only hearing of a mutation makes it done, and the user is moved then only
\* if its callbacks are left.
LEMMA MoveStep ==
  ASSUME IInv, [Next]_vars, NEW c \in Calls, call[c].phase = "ok", call'[c].phase = "done",
         screen' # screen \/ at' # at
  PROVE  call[c].from = moves
<1>1. AllCallsOK(call) /\ LiveOK
  BY Parts
<1>2. CASE \E k \in Keys : ServeFetch(k) \/ EndFetch(k) \/ NotFound(k) \/ FetchFails(k) \/ Retry(k)
  <2>1. PICK k \in Keys : ServeFetch(k) \/ EndFetch(k) \/ NotFound(k) \/ FetchFails(k) \/ Retry(k)
    BY <1>2
  <2>2. UNCHANGED <<screen, at>>
    BY <2>1 DEF ServeFetch, EndFetch, NotFound, FetchFails, Retry, Draw, place
  <2>. QED
    BY <2>2
<1>3. ASSUME NEW s \in Screens, NEW t \in Tickets \cup {NoTicket}, Go(s, t) PROVE FALSE
  <2>1. Draw(call, cache, orphan, s, t)
    BY <1>3 DEF Go
  <2>2. call'[c].phase = call[c].phase
    BY <1>1, <2>1, DrawCalls
  <2>. QED
    BY <2>2
<1>4. CASE (\E t \in Teams \cup {NoTeam} : SetTeam(t)) \/ (\E e \in Epics \cup {NoEpic} : SetEpic(e))
  BY <1>4 DEF SetTeam, SetEpic
<1>5. CASE \E d \in Calls : Save(d) \/ Delete(d) \/ AddComment(d)
  BY <1>5 DEF Save, SendForm, Delete, AddComment, Send, place
<1>6. CASE (\E t \in Tickets : EditElsewhere(t)) \/ AtRest \/ UNCHANGED vars
  BY <1>6 DEF EditElsewhere, AtRest, vars
<1>7. CASE \E d \in Calls : ServeCall(d)
  BY <1>7 DEF ServeCall, ServeCreate, ReadCopy, WriteDirty, SkipWrite, ServeDelete, ServeComment, Refuse, page, place
<1>8. ASSUME NEW d \in Calls, HearComment(d) \/ HearError(d) PROVE FALSE
  BY <1>8 DEF HearComment, HearError, place
<1>9. ASSUME NEW d \in Calls, HearUpdated(d) \/ HearCreated(d) \/ HearDeleted(d) PROVE call[c].from = moves
  <2>1. d \in live
    BY <1>9 DEF HearUpdated, HearCreated, HearDeleted, Draw
  <2>2. d = c
    <3>. SUFFICES ASSUME d # c PROVE FALSE
      OBVIOUS
    <3>1. PICK cc, o, s, t : Draw(Done(d, "done"), cc, o, s, t)
      BY <1>9 DEF HearUpdated, HearCreated, HearDeleted
    <3>2. call'[c].phase = call[c].phase
      BY <1>1, <3>1, DoneDrawn
    <3>. QED
      BY <3>2
  <2>. QED
    BY <1>1, <2>1, <2>2 DEF LiveOK
<1>. QED
  BY <1>2, <1>3, <1>4, <1>5, <1>6, <1>7, <1>8, <1>9 DEF Next, Work

\* The answer to a mutation moves the user only while he has stayed on pages
\* of the kind he sent it from, for any number of mutations and tickets (the
\* callbacks of mutate run only while what has sent them is mounted, and the
\* page of another ticket keeps it mounted).
THEOREM NobodyIsMovedLater == Spec => AnswersMoveTheirPageOnly
<1>1. IInv /\ [Next]_vars =>
        [\A c \in Calls : call[c].phase = "ok" /\ call'[c].phase = "done" /\ (screen' # screen \/ at' # at)
           => call[c].from = moves]_vars
  BY MoveStep
<1>. QED
  BY <1>1, Invariance, PTL DEF Spec, AnswersMoveTheirPageOnly

\* In every reachable state what is cached shows every ticket and its comments
\* as they are, or will when what is on its way has arrived, unless it is in
\* doubt: changed elsewhere, changed by a mutation whose response was lost,
\* overtaken by an earlier answer, or written or left under the key of the
\* ticket to whose page the user has gone (setQueryData, removeQueries and
\* invalidateQueries of the ticket and comment hooks).
THEOREM StaysUpToDate == Spec => []UpToDate
<1>1. Init => UpToDate
  BY InitIInv, InitCurrency DEF UpToDate
<1>. QED
  BY <1>1, NextUpToDate, PTL DEF Spec

\* When all has come back, a ticket in the cache is the one in the database,
\* and a deleted one is not in it, for any number of tickets and mutations,
\* with the exemptions of TicketIsCurrent (setQueryData of useUpdateTicket,
\* removeQueries of useDeleteTicket).
THEOREM TicketShownIsCurrent == Spec => []TicketIsCurrent
<1>1. UpToDate => TicketIsCurrent
  <2>1. SUFFICES ASSUME UpToDate, Quiet, NEW t \in Tickets, Detail(t) \notin doubt, Present(cache[Detail(t)])
                 PROVE  cache[Detail(t)].data = ticket[t]
    BY DEF TicketIsCurrent
  <2>2. ~TicketAwaited(t) /\ cache[Detail(t)].fetch = "none"
    BY <2>1, KeyFacts DEF Quiet, Pending, UnderWay, TicketAwaited, Answered, Fetching
  <2>. QED
    BY <2>1, <2>2 DEF UpToDate, Currency, TicketTracked, Shows
<1>. QED
  BY <1>1, StaysUpToDate, PTL

\* A comment that was added is in the list when all has come back, for any
\* number of tickets and mutations, with the exemptions of CommentsAreCurrent
\* (invalidateQueries of useAddComment).
THEOREM CommentsShownAreCurrent == Spec => []CommentsAreCurrent
<1>1. UpToDate => CommentsAreCurrent
  <2>1. SUFFICES ASSUME UpToDate, Quiet, NEW t \in Tickets, Comments(t) \notin doubt, Present(cache[Comments(t)])
                 PROVE  cache[Comments(t)].data = comments[t]
    BY DEF CommentsAreCurrent
  <2>2. ~CommentAwaited(t) /\ cache[Comments(t)].fetch = "none"
    BY <2>1, KeyFacts DEF Quiet, Pending, UnderWay, CommentAwaited, Answered, Fetching
  <2>. QED
    BY <2>1, <2>2 DEF UpToDate, Currency, CommentsTracked, Shows
<1>. QED
  BY <1>1, StaysUpToDate, PTL

=============================================================================
