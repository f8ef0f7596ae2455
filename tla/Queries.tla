------------------------------ MODULE Queries -------------------------------
(***************************************************************************)
(* The query cache of one browser, as the pages use it: TanStack Query 5   *)
(* with the defaults of frontend/src/app/providers.tsx.  A cache is a      *)
(* function from keys to entries; every operator returns the cache after   *)
(* it.  Data is stale at once (staleTime 0) and is never collected.        *)
(***************************************************************************)
EXTENDS Naturals

CONSTANT NoData   \* what an entry holds before its first answer

\* data is what the pages see; got is an answer that is still on its way.
Entries(Data) ==
  [data : Data \cup {NoData}, fetch : {"none", "asked", "answered"},
   got : Data \cup {NoData}, failed : BOOLEAN]

Unused == [data |-> NoData, fetch |-> "none", got |-> NoData, failed |-> FALSE]

Fetching(e) == e.fetch # "none"

\* isLoading
Loading(e) == e.data = NoData /\ Fetching(e)

\* What the page draws rows from: data without an error.
Present(e) == e.data # NoData /\ ~e.failed

\* A fetch starts; an error is forgotten when there is no data to keep.
Asked(e) == [e EXCEPT !.fetch = "asked", !.got = NoData, !.failed = e.failed /\ e.data # NoData]

\* Pages mount observers of the keys ks: they join a fetch under way.
Mount(cache, ks) ==
  [k \in DOMAIN cache |-> IF k \in ks /\ ~Fetching(cache[k]) THEN Asked(cache[k]) ELSE cache[k]]

\* cancelRefetch: a fetch under way is dropped, but not the first one of a key.
Refetched(e) == IF Fetching(e) /\ e.data = NoData THEN e ELSE Asked(e)

\* invalidateQueries or refetch of the keys ks, which have observers.
Refetch(cache, ks) ==
  [k \in DOMAIN cache |-> IF k \in ks THEN Refetched(cache[k]) ELSE cache[k]]

\* The server answers the fetch of key k.
Serve(cache, k, answer) == [cache EXCEPT ![k].fetch = "answered", ![k].got = answer]

\* The answer arrives.
Arrive(cache, k) ==
  [cache EXCEPT ![k] = [data |-> cache[k].got, fetch |-> "none", got |-> NoData, failed |-> FALSE]]

\* Both attempts (retry: 1) have failed.
GiveUp(cache, k) ==
  [cache EXCEPT ![k].fetch = "none", ![k].got = NoData, ![k].failed = TRUE]

=============================================================================
