---------------------------- MODULE BoardProofs -----------------------------
(***************************************************************************)
(* Proofs about BoardCache, for any number of teams, tickets, moves,       *)
(* refetches, team switches and edits elsewhere.                           *)
(***************************************************************************)
EXTENDS BoardCache, TLAPS

\* A list in which a card is shifted is a list of the same team.
LEMMA ShiftType ==
  ASSUME NEW t \in Teams, NEW x \in Tickets, NEW s \in States
  PROVE  /\ \A list \in Lists(t) : Shift(list, x, s) \in Lists(t)
         /\ \A list \in [Tickets -> States] : Shift(list, x, s) \in [Tickets -> States]
BY DEF Shift, Lists

\* So it is for a list of whatever team.
LEMMA ShiftAny ==
  ASSUME NEW list \in AnyList, NEW x \in Tickets, NEW s \in States
  PROVE  Shift(list, x, s) \in AnyList
<1>1. PICK t \in Teams : list \in Lists(t)
  BY DEF AnyList
<1>2. Shift(list, x, s) \in Lists(t)
  BY <1>1, ShiftType
<1>. QED
  BY <1>2 DEF AnyList

\* A shifted card is where it was put, and stays there when it is put there
\* once more.
LEMMA ShiftTwice ==
  ASSUME NEW t \in Teams, NEW list \in Lists(t), NEW x \in TicketsOf(t), NEW s \in States
  PROVE  /\ Shift(list, x, s)[x] = s
         /\ Shift(Shift(list, x, s), x, s) = Shift(list, x, s)
BY DEF Shift, Lists

\* A list is data.
LEMMA ListIsData == \A t \in Teams : \A list \in Lists(t) : list \in AnyList /\ list # NoData
BY BoardMarkers DEF AnyList

\* What the backend answers is a list of the team.
LEMMA ListOfType == server \in [Tickets -> States] => \A t \in Teams : ListOf(t) \in Lists(t)
BY DEF ListOf, Lists, TicketsOf

\* A PATCH shifts the card in its own team's list and in no other.
LEMMA ServerShift ==
  ASSUME server \in [Tickets -> States], NEW x \in Tickets, NEW s \in States,
         server' = Shift(server, x, s), NEW t \in Teams
  PROVE  ListOf(t)' = IF TeamOf[x] = t THEN Shift(ListOf(t), x, s) ELSE ListOf(t)
<1>1. \A y \in TicketsOf(t) : server'[y] = IF y = x THEN s ELSE server[y]
  BY DEF Shift, TicketsOf
<1>2. CASE TeamOf[x] = t
  BY <1>1, <1>2 DEF ListOf, Shift
<1>3. CASE TeamOf[x] # t
  <2>1. \A y \in TicketsOf(t) : server'[y] = server[y]
    BY <1>1, <1>3 DEF TicketsOf
  <2>. QED
    BY <2>1, <1>3 DEF ListOf
<1>. QED
  BY <1>2, <1>3

(***************************************************************************)
(* The invariant, team by team                                             *)
(***************************************************************************)

FetchOK(t) ==
  fetch[t] # "none" =>
    /\ clean[t] => ~Busy(t)
    /\ ~doubt[t] => clean[t]
    /\ clean[t] /\ fetch[t] = "answered" => fetched[t] = ListOf(t)

MoveOK(t, m) ==
  ~doubt[t] /\ Touches(m, t) =>
    /\ key[m] = t /\ TeamOf[ticket[m]] = t
    /\ \A n \in Moves : Touches(n, t) => n = m
    /\ previous[m] \in Lists(t)
    /\ cache[t] = Shift(previous[m], ticket[m], target[m])
    /\ status[m] \in {"sent", "rejected"} => ListOf(t) = previous[m]
    /\ status[m] \in {"ok", "unheard"} => ListOf(t) = cache[t]

AnswerOK(t) == fetch[t] = "answered" => fetched[t] \in Lists(t)

RestOK(t) == ~doubt[t] /\ ~Busy(t) /\ cache[t] # NoData => cache[t] = ListOf(t)

TeamOK(t) == AnswerOK(t) /\ FetchOK(t) /\ (\A m \in Moves : MoveOK(t, m)) /\ RestOK(t)

KeptOK == \A m \in Moves : InFlight(m) => previous[m] \in AnyList

LEMMA ByTeams == IInv <=> TypeOK /\ KeptOK /\ \A t \in Teams : TeamOK(t)
BY DEF IInv, DataPresent, CleanFetchIsCurrent, OneMoveAtATime, RestingCacheIsCurrent,
       TeamOK, FetchOK, MoveOK, AnswerOK, RestOK, KeptOK

\* The same of the next state.
LEMMA ByTeamsNext == TypeOK' /\ KeptOK' /\ (\A t \in Teams : TeamOK(t)') => IInv'
BY DEF IInv, DataPresent, CleanFetchIsCurrent, OneMoveAtATime, RestingCacheIsCurrent,
       TeamOK, FetchOK, MoveOK, AnswerOK, RestOK, KeptOK

\* A move that the step does not change, as far as team t is concerned.
Same(m, t) ==
  /\ Touches(m, t)' <=> Touches(m, t)
  /\ Touches(m, t) => UNCHANGED <<key[m], ticket[m], target[m], previous[m], status[m]>>

\* A team that a step does not concern.
LEMMA Untouched ==
  ASSUME NEW t \in Teams, TeamOK(t),
         \A m \in Moves : Same(m, t),
         UNCHANGED <<fetch[t], fetched[t], cache[t], doubt[t], ListOf(t)>>,
         clean'[t] = clean[t] \/ fetch[t] = "none"
  PROVE  TeamOK(t)'
<1>1. Busy(t)' <=> Busy(t)
  BY DEF Busy, Same
<1>2. AnswerOK(t)' /\ FetchOK(t)' /\ RestOK(t)'
  BY <1>1 DEF TeamOK, AnswerOK, FetchOK, RestOK
<1>3. ASSUME NEW m \in Moves PROVE MoveOK(t, m)'
  BY <1>3 DEF TeamOK, MoveOK, Same
<1>. QED
  BY <1>2, <1>3 DEF TeamOK

\* At the start the first fetch is under way and nothing else.
LEMMA InitIInv == Init => IInv
<1>1. SUFFICES ASSUME Init PROVE IInv
  OBVIOUS
<1>2. TypeOK
  <2>1. ticket \in [Moves -> Tickets] /\ target \in [Moves -> States]
    BY <1>1 DEF Init
  <2>2. fetches \in 0..MaxFetches /\ edits \in 0..MaxEdits
    BY <1>1, BoardBounds DEF Init
  <2>3. status \in [Moves -> Pending \cup {"unused", "confirmed", "failed"}]
        /\ previous \in [Moves -> AnyList \cup {NoData}] /\ key \in [Moves -> Teams]
    BY <1>1 DEF Init
  <2>4. /\ cache \in [Teams -> AnyList \cup {NoData}] /\ fetched \in [Teams -> AnyList \cup {NoData}]
        /\ fetch \in [Teams -> {"none", "asked", "answered"}]
        /\ loadError \in [Teams -> BOOLEAN]
        /\ clean \in [Teams -> BOOLEAN] /\ doubt \in [Teams -> BOOLEAN]
    BY <1>1 DEF Init
  <2>. QED
    BY <1>1, <2>1, <2>2, <2>3, <2>4 DEF Init, TypeOK
<1>3. \A m \in Moves : ~InFlight(m)
  BY <1>1 DEF Init, InFlight, Pending
<1>4. ASSUME NEW t \in Teams PROVE TeamOK(t)
  <2>1. ~Busy(t) /\ \A m \in Moves : ~Touches(m, t)
    BY <1>3 DEF Busy, Touches
  <2>2. fetch[t] \in {"asked", "none"} /\ clean[t] /\ cache[t] = NoData
    BY <1>1 DEF Init
  <2>. QED
    BY <2>1, <2>2 DEF TeamOK, AnswerOK, FetchOK, MoveOK, RestOK
<1>. QED
  BY <1>2, <1>3, <1>4, ByTeams DEF KeptOK

(***************************************************************************)
(* Fetches                                                                 *)
(***************************************************************************)

\* A fetch, or a team switch that gives a move in flight another key, keeps
\* the inductive invariant: it is clean only for a team that no move touches,
\* and every team such a move touches is in doubt.
LEMMA AskIInv ==
  ASSUME IInv, NEW t \in Teams, Ask(t), team' \in Teams, latest' \in Moves \cup {NoMove},
         key' \in [Moves -> Teams]
  PROVE  IInv'
<1>1. TypeOK'
  BY BoardBounds DEF IInv, TypeOK, Ask, dragVars
<1>2. KeptOK'
  BY ByTeams DEF KeptOK, Ask, dragVars, InFlight
<1>3. ASSUME NEW u \in Teams PROVE TeamOK(u)'
  <2>1. TeamOK(u)
    BY ByTeams
  <2>2. /\ UNCHANGED <<server, cache, fetched, status, ticket, target, previous>>
        /\ clean'[u] <=> (clean[u] \/ (u = t /\ fetch[t] = "none")) /\ ~Busy(u)'
        /\ doubt'[u] <=> doubt[u] \/ \E m \in Moves : Touches(m, u)' /\ (u = t \/ key'[m] # key[m])
        /\ fetch'[u] = IF u = t /\ fetch[t] = "none" THEN "asked" ELSE fetch[u]
    BY DEF Ask, dragVars, IInv, TypeOK
  <2>3. \A m \in Moves : InFlight(m)' <=> InFlight(m)
    BY <2>2 DEF InFlight
  <2>4. ASSUME ~doubt'[u], NEW m \in Moves
        PROVE  Same(m, u)
    <3>1. Touches(m, u)' => key'[m] = key[m]
      BY <2>2, <2>4
    <3>2. Touches(m, u) => TeamOf[ticket[m]] = u
      BY <2>1, <2>2, <2>4 DEF TeamOK, MoveOK
    <3>3. Touches(m, u) => Touches(m, u)'
      BY <2>2, <2>3, <3>2 DEF Touches
    <3>4. Touches(m, u)' => Touches(m, u)
      BY <2>2, <2>3, <3>1 DEF Touches
    <3>. QED
      BY <2>2, <3>1, <3>3, <3>4 DEF Same
  <2>5. ~doubt'[u] => (Busy(u)' <=> Busy(u))
    BY <2>4 DEF Busy, Same
  <2>6. ListOf(u)' = ListOf(u)
    BY <2>2 DEF ListOf
  <2>7. AnswerOK(u)'
    BY <2>1, <2>2 DEF TeamOK, AnswerOK
  <2>8. FetchOK(u)'
    <3>1. ~doubt'[u] /\ u = t => ~Busy(u)'
      BY <2>2 DEF Busy
    <3>2. fetch[u] # "none" =>
            /\ clean[u] => ~Busy(u)
            /\ ~doubt[u] => clean[u]
            /\ clean[u] /\ fetch[u] = "answered" => fetched[u] = ListOf(u)
      BY <2>1 DEF TeamOK, FetchOK
    <3>3. clean'[u] => ~Busy(u)'
      BY <2>2
    <3>4. fetch'[u] # "none" /\ ~doubt'[u] => clean'[u]
      BY <2>2, <2>5, <3>1, <3>2
    <3>5. clean'[u] /\ fetch'[u] = "answered" => fetched'[u] = ListOf(u)'
      BY <2>2, <2>6, <3>2
    <3>. QED
      BY <3>3, <3>4, <3>5 DEF FetchOK
  <2>9. RestOK(u)'
    BY <2>1, <2>2, <2>5, <2>6 DEF TeamOK, RestOK
  <2>10. ASSUME NEW m \in Moves PROVE MoveOK(u, m)'
    <3>1. SUFFICES ASSUME ~doubt'[u] PROVE MoveOK(u, m)'
      BY DEF MoveOK
    <3>2. \A n \in Moves : Same(n, u)
      BY <3>1, <2>4
    <3>3. ~doubt[u] /\ UNCHANGED <<cache[u], ListOf(u)>>
      BY <3>1, <2>2, <2>6
    <3>. QED
      BY <2>1, <3>2, <3>3 DEF TeamOK, MoveOK, Same
  <2>. QED
    BY <2>7, <2>8, <2>9, <2>10 DEF TeamOK
<1>. QED
  BY <1>1, <1>2, <1>3, ByTeamsNext

\* So do the three actions that ask.
LEMMA AsksIInv == IInv /\ (Refetch \/ SelectTeam \/ Revisit) => IInv'
<1>1. SUFFICES ASSUME IInv, Refetch \/ SelectTeam \/ Revisit PROVE IInv'
  OBVIOUS
<1>2. team \in Teams /\ key \in [Moves -> Teams] /\ latest \in Moves \cup {NoMove}
  BY <1>1 DEF IInv, TypeOK
<1>3. CASE Refetch
  BY <1>1, <1>2, <1>3, AskIInv DEF Refetch
<1>4. CASE SelectTeam
  <2>1. PICK t \in Teams \ {team} :
          /\ team' = t /\ UNCHANGED latest /\ Ask(t)
          /\ key' = IF latest # NoMove /\ InFlight(latest) THEN [key EXCEPT ![latest] = t] ELSE key
    BY <1>4 DEF SelectTeam
  <2>2. key' \in [Moves -> Teams]
    BY <1>2, <2>1
  <2>. QED
    BY <1>1, <1>2, <2>1, <2>2, AskIInv
<1>5. CASE Revisit
  BY <1>1, <1>2, <1>5, AskIInv DEF Revisit
<1>. QED
  BY <1>1, <1>3, <1>4, <1>5

\* The steps of a fetch keep the inductive invariant.
LEMMA FetchIInv ==
  ASSUME IInv, NEW t \in Teams, ServeFetch(t) \/ EndFetch(t) \/ FetchFails(t)
  PROVE  IInv'
<1>1. UNCHANGED <<server, team, status, ticket, target, previous, key, latest, toasts, edits, fetches, clean>>
  BY DEF ServeFetch, EndFetch, FetchFails, moveVars, dragVars
<1>2. /\ \A m \in Moves, u \in Teams : Same(m, u)
      /\ \A u \in Teams : (Busy(u)' <=> Busy(u)) /\ ListOf(u)' = ListOf(u)
  <2>1. ASSUME NEW m \in Moves, NEW u \in Teams PROVE Same(m, u)
    <3>1. Touches(m, u)' <=> Touches(m, u)
      BY <1>1 DEF Touches, InFlight
    <3>. QED
      BY <1>1, <3>1 DEF Same
  <2>2. ASSUME NEW u \in Teams PROVE (Busy(u)' <=> Busy(u)) /\ ListOf(u)' = ListOf(u)
    <3>1. Busy(u)' <=> Busy(u)
      BY <2>1 DEF Busy, Same
    <3>2. ListOf(u)' = ListOf(u)
      BY <1>1 DEF ListOf
    <3>. QED
      BY <3>1, <3>2
  <2>. QED
    BY <2>1, <2>2
<1>3. TeamOK(t) /\ TypeOK
  BY ByTeams
<1>4. TypeOK'
  <2>1. ListOf(t) \in AnyList
    BY <1>3, ListOfType, ListIsData DEF TypeOK
  <2>2. /\ fetch' \in [Teams -> {"none", "asked", "answered"}] /\ doubt' \in [Teams -> BOOLEAN]
        /\ cache' \in [Teams -> AnyList \cup {NoData}] /\ loadError' \in [Teams -> BOOLEAN]
    BY <1>3 DEF TypeOK, ServeFetch, EndFetch, FetchFails
  <2>3. fetched' \in [Teams -> AnyList \cup {NoData}]
    BY <1>3, <2>1 DEF TypeOK, ServeFetch, EndFetch, FetchFails
  <2>. QED
    BY <1>1, <1>3, <2>2, <2>3 DEF TypeOK
<1>5. KeptOK'
  BY <1>1, ByTeams DEF KeptOK, InFlight
<1>6. ASSUME NEW u \in Teams \ {t} PROVE TeamOK(u)'
  <2>1. UNCHANGED <<fetch[u], fetched[u], cache[u], doubt[u]>>
    BY <1>3 DEF TypeOK, ServeFetch, EndFetch, FetchFails
  <2>. QED
    BY <1>1, <1>2, <2>1, ByTeams, Untouched
<1>7. TeamOK(t)'
  <2>1. CASE ServeFetch(t)
    <3>1. /\ fetch'[t] = "answered" /\ fetch[t] = "asked" /\ fetched'[t] = ListOf(t)
          /\ cache' = cache /\ doubt' = doubt
      BY <1>3, <2>1 DEF ServeFetch, TypeOK
    <3>2. AnswerOK(t)' /\ FetchOK(t)' /\ RestOK(t)'
      BY <1>1, <1>2, <1>3, <3>1, ListOfType DEF TeamOK, AnswerOK, FetchOK, RestOK, TypeOK
    <3>3. \A m \in Moves : MoveOK(t, m)'
      BY <1>2, <1>3, <3>1 DEF TeamOK, MoveOK, Same
    <3>. QED
      BY <3>2, <3>3 DEF TeamOK
  <2>2. CASE EndFetch(t)
    <3>1. /\ fetch'[t] = "none" /\ fetch[t] = "answered"
          /\ cache'[t] = fetched[t] /\ (doubt'[t] <=> doubt[t] /\ ~clean[t])
      BY <1>3, <2>2 DEF EndFetch, TypeOK
    <3>2. ~doubt'[t] => ~Busy(t) /\ fetched[t] = ListOf(t)
      BY <1>3, <3>1 DEF TeamOK, FetchOK
    <3>3. \A m \in Moves : ~doubt'[t] => ~Touches(m, t)'
      BY <1>2, <3>2 DEF Busy
    <3>4. AnswerOK(t)' /\ FetchOK(t)' /\ RestOK(t)'
      BY <1>2, <3>1, <3>2 DEF AnswerOK, FetchOK, RestOK
    <3>5. \A m \in Moves : MoveOK(t, m)'
      BY <3>3 DEF MoveOK
    <3>. QED
      BY <3>4, <3>5 DEF TeamOK
  <2>3. CASE FetchFails(t)
    <3>1. fetch'[t] = "none" /\ cache' = cache /\ doubt' = doubt
      BY <1>3, <2>3 DEF FetchFails, TypeOK
    <3>2. AnswerOK(t)' /\ FetchOK(t)' /\ RestOK(t)'
      BY <1>2, <1>3, <3>1 DEF TeamOK, AnswerOK, FetchOK, RestOK
    <3>3. \A m \in Moves : MoveOK(t, m)'
      BY <1>2, <1>3, <3>1 DEF TeamOK, MoveOK, Same
    <3>. QED
      BY <3>2, <3>3 DEF TeamOK
  <2>. QED
    BY <2>1, <2>2, <2>3
<1>. QED
  BY <1>4, <1>5, <1>6, <1>7, ByTeamsNext

(***************************************************************************)
(* Moves                                                                   *)
(***************************************************************************)

\* Dropping a card keeps the inductive invariant: without other moves the
\* list it keeps is the database, and no fetch is left that could bring an
\* older one.
LEMMA DropIInv ==
  ASSUME IInv, NEW m \in Moves, Drop(m)
  PROVE  IInv'
<1>1. PICK x \in Tickets, s \in States : Dragged(m, x, s)
  BY DEF Drop
<1>2. TypeOK /\ KeptOK /\ \A u \in Teams : TeamOK(u)
  BY ByTeams
<1>3. /\ status[m] = "unused" /\ status'[m] = "sent" /\ key'[m] = team
      /\ ticket'[m] = x /\ target'[m] = s /\ previous'[m] = cache[team]
      /\ cache'[team] = Shift(cache[team], x, s) /\ fetch'[team] = "none"
      /\ cache[team] \in AnyList /\ cache[team] # NoData
  BY <1>1, <1>2 DEF Drop, Sent, Dragged, Shown, TypeOK
<1>4. /\ \A n \in Moves \ {m} : UNCHANGED <<status[n], previous[n], ticket[n], target[n], key[n]>>
      /\ \A u \in Teams \ {team} : UNCHANGED <<cache[u], fetch[u]>>
      /\ UNCHANGED <<server, team, fetched>>
  BY <1>1, <1>2 DEF Drop, Sent, Dragged, TypeOK
<1>5. TypeOK'
  <2>1. cache' \in [Teams -> AnyList \cup {NoData}]
    BY <1>1, <1>2, <1>3, ShiftAny DEF Dragged, TypeOK
  <2>2. previous' \in [Moves -> AnyList \cup {NoData}]
    BY <1>2, <1>3 DEF Drop, TypeOK
  <2>. QED
    BY <1>1, <1>2, <2>1, <2>2 DEF Drop, Sent, Dragged, TypeOK, Pending
<1>6. KeptOK'
  BY <1>2, <1>3, <1>4 DEF KeptOK, InFlight
<1>7. /\ \A n \in Moves \ {m}, u \in Teams : Same(n, u)
      /\ \A u \in Teams : ~Touches(m, u) /\ (Touches(m, u)' <=> u \in {team, TeamOf[x]})
  BY <1>3, <1>4 DEF Same, Touches, InFlight, Pending
<1>8. ASSUME NEW u \in Teams PROVE TeamOK(u)'
  <2>1. /\ clean'[u] <=> clean[u] /\ ~Busy(u)'
        /\ doubt'[u] <=> doubt[u] \/ (Touches(m, u)' /\ (Busy(u) \/ TeamOf[x] # team))
        /\ TeamOK(u)
    BY <1>2, <1>3 DEF Drop, Sent, TypeOK
  <2>2. ListOf(u)' = ListOf(u)
    BY <1>4 DEF ListOf
  <2>3. CASE u \notin {team, TeamOf[x]}
    <3>1. \A n \in Moves : Same(n, u)
      BY <1>7, <2>3 DEF Same
    <3>2. Busy(u)' <=> Busy(u)
      BY <3>1 DEF Busy, Same
    <3>3. ~Touches(m, u)'
      BY <1>7, <2>3
    <3>4. doubt'[u] = doubt[u] /\ (clean'[u] = clean[u] \/ fetch[u] = "none")
      BY <1>2, <1>5, <2>1, <3>2, <3>3 DEF TeamOK, FetchOK, TypeOK
    <3>. QED
      BY <1>4, <2>1, <2>2, <2>3, <3>1, <3>4, Untouched
  <2>4. CASE u \in {team, TeamOf[x]}
    <3>1. Touches(m, u)' /\ Busy(u)' /\ ~clean'[u]
      BY <1>7, <2>1, <2>4 DEF Busy
    <3>2. CASE doubt'[u]
      <4>1. fetch'[u] \in {"none", fetch[u]}
        BY <1>3, <1>4
      <4>2. AnswerOK(u)' /\ FetchOK(u)' /\ RestOK(u)'
        BY <1>4, <2>1, <3>1, <3>2, <4>1 DEF TeamOK, AnswerOK, FetchOK, RestOK
      <4>3. \A n \in Moves : MoveOK(u, n)'
        BY <3>2 DEF MoveOK
      <4>. QED
        BY <4>2, <4>3 DEF TeamOK
    <3>3. CASE ~doubt'[u]
      <4>1. ~doubt[u] /\ ~Busy(u) /\ u = team /\ TeamOf[x] = u
        BY <2>1, <2>4, <3>1, <3>3
      <4>2. cache[u] = ListOf(u) /\ ListOf(u) \in Lists(u)
        BY <1>2, <1>3, <4>1, ListOfType DEF TeamOK, RestOK, TypeOK
      <4>3. \A n \in Moves : Touches(n, u)' => n = m
        BY <1>7, <4>1 DEF Same, Busy
      <4>4. AnswerOK(u)' /\ FetchOK(u)' /\ RestOK(u)'
        BY <1>3, <3>1, <4>1 DEF AnswerOK, FetchOK, RestOK
      <4>5. MoveOK(u, m)'
        BY <1>3, <2>2, <4>1, <4>2, <4>3 DEF MoveOK
      <4>6. \A n \in Moves : MoveOK(u, n)'
        BY <4>3, <4>5 DEF MoveOK
      <4>. QED
        BY <4>4, <4>6 DEF TeamOK
    <3>. QED
      BY <3>2, <3>3
  <2>. QED
    BY <2>3, <2>4
<1>. QED
  BY <1>5, <1>6, <1>8, ByTeamsNext

\* The PATCH of a move keeps the inductive invariant.
LEMMA ServeIInv ==
  ASSUME IInv, NEW m \in Moves, Serve(m)
  PROVE  IInv'
<1>1. TypeOK /\ KeptOK /\ \A u \in Teams : TeamOK(u)
  BY ByTeams
<1>2. /\ status[m] = "sent" /\ status'[m] \in {"ok", "unheard", "rejected"}
      /\ status'[m] = "rejected" => server' = server
      /\ status'[m] # "rejected" => server' = Shift(server, ticket[m], target[m])
      /\ \A n \in Moves \ {m} : status'[n] = status[n]
  BY <1>1 DEF Serve, TypeOK
<1>3. UNCHANGED <<cache, ticket, target, previous, key, fetch, fetched, clean, doubt>>
  BY DEF Serve, fetchVars, dragVars
<1>4. \A n \in Moves, u \in Teams : Touches(n, u)' <=> Touches(n, u)
  <2>1. \A n \in Moves : InFlight(n)' <=> InFlight(n)
    BY <1>2 DEF InFlight, Pending
  <2>. QED
    BY <1>3, <2>1 DEF Touches
<1>5. TypeOK'
  <2>1. server' \in [Tickets -> States]
    <3>1. Shift(server, ticket[m], target[m]) \in [Tickets -> States]
      BY <1>1 DEF Shift, TypeOK
    <3>. QED
      BY <1>1, <1>2, <3>1 DEF TypeOK
  <2>2. status' \in [Moves -> Pending \cup {"unused", "confirmed", "failed"}]
    BY <1>1 DEF Serve, TypeOK, Pending
  <2>. QED
    BY <1>1, <2>1, <2>2 DEF Serve, fetchVars, dragVars, TypeOK
<1>6. KeptOK'
  BY <1>1, <1>2, <1>3 DEF KeptOK, InFlight, Pending
<1>7. ASSUME NEW u \in Teams PROVE TeamOK(u)'
  <2>1. Busy(u)' <=> Busy(u)
    BY <1>4 DEF Busy
  <2>2. CASE TeamOf[ticket[m]] # u
    <3>1. ListOf(u)' = ListOf(u)
      <4>1. CASE server' = server
        BY <4>1 DEF ListOf
      <4>2. CASE server' = Shift(server, ticket[m], target[m])
        BY <1>1, <2>2, <4>2, ServerShift DEF TypeOK
      <4>. QED
        BY <1>2, <4>1, <4>2
    <3>2. AnswerOK(u)' /\ FetchOK(u)' /\ RestOK(u)'
      BY <1>1, <1>3, <2>1, <3>1 DEF TeamOK, AnswerOK, FetchOK, RestOK
    <3>3. ~doubt[u] => ~Touches(m, u)
      BY <1>1, <2>2 DEF TeamOK, MoveOK
    <3>4. ASSUME NEW n \in Moves PROVE MoveOK(u, n)'
      <4>1. CASE n = m
        BY <1>3, <1>4, <3>3, <4>1 DEF MoveOK
      <4>2. CASE n # m
        BY <1>1, <1>2, <1>3, <1>4, <3>1, <4>2 DEF TeamOK, MoveOK
      <4>. QED
        BY <4>1, <4>2
    <3>. QED
      BY <3>2, <3>4 DEF TeamOK
  <2>3. CASE TeamOf[ticket[m]] = u
    <3>1. Touches(m, u) /\ Busy(u)
      BY <1>2, <2>3 DEF Touches, InFlight, Pending, Busy
    <3>2. AnswerOK(u)' /\ FetchOK(u)' /\ RestOK(u)'
      BY <1>1, <1>3, <2>1, <3>1 DEF TeamOK, AnswerOK, FetchOK, RestOK
    <3>3. server' = Shift(server, ticket[m], target[m]) =>
            ListOf(u)' = Shift(ListOf(u), ticket[m], target[m])
      BY <1>1, <2>3, ServerShift DEF TypeOK
    <3>4. server' = server => ListOf(u)' = ListOf(u)
      BY DEF ListOf
    <3>5. MoveOK(u, m)'
      BY <1>1, <1>2, <1>3, <1>4, <3>3, <3>4 DEF TeamOK, MoveOK
    <3>6. ASSUME NEW n \in Moves PROVE MoveOK(u, n)'
      <4>1. CASE n = m
        BY <3>5, <4>1
      <4>2. CASE n # m
        BY <1>1, <1>3, <1>4, <3>1, <4>2 DEF TeamOK, MoveOK
      <4>. QED
        BY <4>1, <4>2
    <3>. QED
      BY <3>2, <3>6 DEF TeamOK
  <2>. QED
    BY <2>2, <2>3
<1>. QED
  BY <1>5, <1>6, <1>7, ByTeamsNext

\* The answer to a move keeps the inductive invariant: alone, it leaves the
\* list that the database holds.
LEMMA SettleIInv ==
  ASSUME IInv, NEW m \in Moves, Succeed(m) \/ Fail(m)
  PROVE  IInv'
<1>1. TypeOK /\ KeptOK /\ \A u \in Teams : TeamOK(u)
  BY ByTeams
<1>2. /\ status[m] \in {"ok", "rejected", "unheard"}
      /\ status'[m] \in {"confirmed", "failed"}
      /\ \A n \in Moves \ {m} : status'[n] = status[n]
      /\ UNCHANGED <<server, ticket, target, previous, key, fetch, fetched, clean>>
  BY <1>1 DEF Succeed, Fail, Failed, fetchVars, dragVars, TypeOK
<1>3. InFlight(m) /\ ~InFlight(m)' /\ previous[m] \in AnyList
  BY <1>1, <1>2 DEF InFlight, Pending, KeptOK
<1>4. /\ \A u \in Teams \ {key[m]} : cache'[u] = cache[u]
      /\ cache' \in [Teams -> AnyList \cup {NoData}]
  <2>1. cache[key[m]] # NoData => Shift(cache[key[m]], ticket[m], target[m]) \in AnyList
    BY <1>1, ShiftAny DEF TypeOK
  <2>. QED
    BY <1>1, <1>3, <2>1 DEF Succeed, Fail, TypeOK
<1>5. TypeOK'
  BY <1>1, <1>4 DEF Succeed, Fail, Failed, Toasted, fetchVars, dragVars, TypeOK
<1>6. KeptOK'
  BY <1>1, <1>2, <1>3 DEF KeptOK, InFlight
<1>7. /\ \A n \in Moves \ {m}, u \in Teams : Same(n, u)
      /\ \A u \in Teams : ~Touches(m, u)' /\ (Touches(m, u) <=> u \in {key[m], TeamOf[ticket[m]]})
  BY <1>2, <1>3 DEF Same, Touches, InFlight
<1>8. ASSUME NEW u \in Teams PROVE TeamOK(u)'
  <2>1. /\ ListOf(u)' = ListOf(u)
        /\ doubt'[u] <=> doubt[u] \/ (Fail(m) /\ status[m] = "unheard" /\ u = TeamOf[ticket[m]])
    BY <1>1, <1>2 DEF ListOf, Succeed, Fail, Failed, TypeOK
  <2>2. CASE u \notin {key[m], TeamOf[ticket[m]]}
    <3>1. \A n \in Moves : Same(n, u)
      BY <1>7, <2>2 DEF Same
    <3>2. doubt'[u] = doubt[u]
      BY <1>1, <1>5, <2>1, <2>2 DEF TypeOK
    <3>. QED
      BY <1>1, <1>2, <1>4, <2>1, <2>2, <3>1, <3>2, Untouched
  <2>3. CASE u \in {key[m], TeamOf[ticket[m]]}
    <3>1. Touches(m, u) /\ Busy(u)
      BY <1>7, <2>3 DEF Busy
    <3>2. fetch[u] # "none" => ~clean[u] /\ doubt[u]
      BY <1>1, <3>1 DEF TeamOK, FetchOK
    <3>3. AnswerOK(u)' /\ FetchOK(u)'
      BY <1>1, <1>2, <2>1, <3>2 DEF TeamOK, AnswerOK, FetchOK
    <3>4. ASSUME ~doubt'[u]
          PROVE  /\ \A n \in Moves : ~Touches(n, u)'
                 /\ cache'[u] = ListOf(u)
      <4>1. /\ ~doubt[u] /\ key[m] = u /\ TeamOf[ticket[m]] = u
            /\ \A n \in Moves : Touches(n, u) => n = m
            /\ previous[m] \in Lists(u)
            /\ cache[u] = Shift(previous[m], ticket[m], target[m])
            /\ status[m] = "rejected" => ListOf(u) = previous[m]
            /\ status[m] = "ok" => ListOf(u) = cache[u]
        BY <1>1, <2>1, <3>1, <3>4 DEF TeamOK, MoveOK
      <4>2. CASE Succeed(m)
        <5>1. ticket[m] \in TicketsOf(u) /\ target[m] \in States /\ status[m] = "ok"
          BY <1>1, <4>1, <4>2 DEF TicketsOf, TypeOK, Succeed
        <5>2. Shift(cache[u], ticket[m], target[m]) = cache[u]
          BY <4>1, <5>1, ShiftTwice
        <5>3. cache'[u] \in {cache[u], Shift(cache[u], ticket[m], target[m])}
          BY <1>1, <4>1, <4>2 DEF Succeed, TypeOK
        <5>. QED
          BY <1>7, <4>1, <5>1, <5>2, <5>3 DEF Same
      <4>3. CASE Fail(m)
        <5>1. status[m] = "rejected" /\ cache'[u] = previous[m]
          BY <1>1, <2>1, <3>4, <4>1, <4>3 DEF Fail, Failed, TypeOK
        <5>. QED
          BY <1>7, <4>1, <5>1 DEF Same
      <4>. QED
        BY <4>2, <4>3
    <3>5. RestOK(u)'
      BY <2>1, <3>4 DEF RestOK
    <3>6. \A n \in Moves : MoveOK(u, n)'
      BY <3>4 DEF MoveOK
    <3>. QED
      BY <3>3, <3>5, <3>6 DEF TeamOK
  <2>. QED
    BY <2>2, <2>3
<1>. QED
  BY <1>5, <1>6, <1>8, ByTeamsNext

\* An edit elsewhere keeps the inductive invariant: it puts its team in doubt.
LEMMA EditIInv == IInv /\ EditElsewhere => IInv'
<1>1. SUFFICES ASSUME IInv, EditElsewhere PROVE IInv'
  OBVIOUS
<1>2. TypeOK /\ KeptOK /\ \A u \in Teams : TeamOK(u)
  BY <1>1, ByTeams
<1>3. PICK x \in Tickets, s \in States :
        /\ server' = Shift(server, x, s)
        /\ clean' = [clean EXCEPT ![TeamOf[x]] = @ /\ fetch[TeamOf[x]] # "answered"]
        /\ doubt' = [doubt EXCEPT ![TeamOf[x]] = TRUE]
  BY <1>1 DEF EditElsewhere
<1>4. /\ UNCHANGED <<cache, status, ticket, target, previous, key, fetch, fetched>>
      /\ UNCHANGED <<team, loadError, latest, toasts, fetches>> /\ edits' \in 0..MaxEdits
  BY <1>1, <1>2, BoardBounds DEF EditElsewhere, moveVars, dragVars, TypeOK
<1>5. TypeOK'
  <2>1. server' \in [Tickets -> States]
    BY <1>2, <1>3 DEF Shift, TypeOK
  <2>2. clean' \in [Teams -> BOOLEAN] /\ doubt' \in [Teams -> BOOLEAN]
    BY <1>2, <1>3 DEF TypeOK
  <2>. QED
    BY <1>2, <1>4, <2>1, <2>2 DEF TypeOK
<1>6. KeptOK'
  BY <1>2, <1>4 DEF KeptOK, InFlight
<1>7. \A n \in Moves, u \in Teams : Same(n, u)
  BY <1>4 DEF Same, Touches, InFlight
<1>8. ASSUME NEW u \in Teams PROVE TeamOK(u)'
  <2>1. CASE u # TeamOf[x]
    <3>1. ListOf(u)' = ListOf(u)
      BY <1>2, <1>3, <2>1, ServerShift DEF TypeOK
    <3>2. UNCHANGED <<doubt[u], clean[u]>>
      BY <1>2, <1>3, <2>1 DEF TypeOK
    <3>. QED
      BY <1>2, <1>4, <1>7, <3>1, <3>2, Untouched
  <2>2. CASE u = TeamOf[x]
    <3>1. doubt'[u] /\ (clean'[u] => clean[u] /\ fetch[u] # "answered")
      BY <1>2, <1>3, <2>2 DEF TypeOK
    <3>2. Busy(u)' <=> Busy(u)
      BY <1>7 DEF Busy, Same
    <3>3. AnswerOK(u)' /\ FetchOK(u)' /\ RestOK(u)'
      BY <1>2, <1>4, <3>1, <3>2 DEF TeamOK, AnswerOK, FetchOK, RestOK
    <3>4. \A n \in Moves : MoveOK(u, n)'
      BY <3>1 DEF MoveOK
    <3>. QED
      BY <3>3, <3>4 DEF TeamOK
  <2>. QED
    BY <2>1, <2>2
<1>. QED
  BY <1>5, <1>6, <1>8, ByTeamsNext

(***************************************************************************)
(* The theorems                                                            *)
(***************************************************************************)

\* Every step keeps the inductive invariant.
LEMMA NextIInv == IInv /\ [Next]_vars => IInv'
<1>1. SUFFICES ASSUME IInv, [Next]_vars PROVE IInv'
  OBVIOUS
<1>2. CASE UNCHANGED vars
  <2>1. UNCHANGED <<server, cache, status, ticket, target, previous, key, fetch, fetched, clean, doubt>>
    BY <1>2 DEF vars, moveVars, dragVars, fetchVars
  <2>2. TypeOK' /\ KeptOK'
    BY <1>1, <1>2, ByTeams DEF vars, moveVars, dragVars, fetchVars, TypeOK, KeptOK, InFlight
  <2>3. ASSUME NEW u \in Teams PROVE TeamOK(u)'
    <3>1. ListOf(u)' = ListOf(u)
      BY <2>1 DEF ListOf
    <3>2. \A n \in Moves : Same(n, u)
      BY <2>1 DEF Same, Touches, InFlight
    <3>. QED
      BY <1>1, <2>1, <3>1, <3>2, Untouched, ByTeams
  <2>. QED
    BY <2>2, <2>3, ByTeamsNext
<1>3. CASE Refetch \/ SelectTeam \/ Revisit
  BY <1>1, <1>3, AsksIInv
<1>4. CASE EditElsewhere
  BY <1>1, <1>4, EditIInv
<1>5. ASSUME NEW t \in Teams, ServeFetch(t) \/ EndFetch(t) \/ FetchFails(t)
      PROVE  IInv'
  BY <1>1, <1>5, FetchIInv
<1>6. ASSUME NEW m \in Moves, Drop(m) \/ Serve(m) \/ Succeed(m) \/ Fail(m)
      PROVE  IInv'
  BY <1>1, <1>6, DropIInv, ServeIInv, SettleIInv
<1>. QED
  BY <1>1, <1>2, <1>3, <1>4, <1>5, <1>6 DEF Next, AtRest

\* The inductive invariant holds.
THEOREM BoardInvariant == Spec => []IInv
BY InitIInv, NextIInv, PTL DEF Spec

\* Without overlap a team's board shows the database whenever nothing is
\* under way, and after an overlap, or a team switch during a move, as soon as
\* a clean refetch has come back.
THEOREM QuietBoard == Spec => []QuietBoardIsCurrent
<1>1. IInv => QuietBoardIsCurrent
  BY DEF IInv, RestingCacheIsCurrent, QuietBoardIsCurrent, Quiet
<1>. QED
  BY <1>1, BoardInvariant, PTL

\* A dropped card stays where it was dropped until its PATCH is answered.
THEOREM DroppedCards == Spec => []CardStaysDropped
<1>1. ASSUME IInv, NEW m \in Moves, InFlight(m), ~doubt[key[m]]
      PROVE  cache[key[m]][ticket[m]] = target[m]
  <2>1. TypeOK /\ MoveOK(key[m], m) /\ Touches(m, key[m])
    BY <1>1, ByTeams DEF TeamOK, TypeOK, Touches
  <2>2. ticket[m] \in TicketsOf(key[m]) /\ target[m] \in States /\ key[m] \in Teams
    BY <1>1, <2>1 DEF MoveOK, TypeOK, TicketsOf
  <2>3. previous[m] \in Lists(key[m]) /\ cache[key[m]] = Shift(previous[m], ticket[m], target[m])
    BY <1>1, <2>1 DEF MoveOK
  <2>. QED
    BY <2>2, <2>3, ShiftTwice
<1>2. IInv => CardStaysDropped
  BY <1>1 DEF CardStaysDropped
<1>. QED
  BY <1>2, BoardInvariant, PTL

=============================================================================
