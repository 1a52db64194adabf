------------------------------ MODULE QueryCache ------------------------------
(***************************************************************************)
(* What the pages rely on of the query library (react-query): one entry    *)
(* per query key, holding the last answer, whether it was invalidated, and *)
(* the answer of a fetch that is still on its way.  An answer is a         *)
(* one-element set, {} is no answer, so that entries of any type compare.  *)
(*                                                                         *)
(* Left out: the age after which an answer is refetched (a fetch may start *)
(* at any moment) and failed fetches, which keep the data they found.      *)
(***************************************************************************)
NoAnswer == {}

EmptyEntry == [data |-> NoAnswer, stale |-> FALSE, flight |-> NoAnswer]

\* a fetch starts and the server computes its answer
Asked(entry, answer) == [entry EXCEPT !.flight = {answer}]

\* the answer arrives: it is taken for up to date, whatever happened meanwhile
Answered(entry) ==
    [data |-> entry.flight, stale |-> FALSE, flight |-> NoAnswer]

\* invalidateQueries: data that is there is marked, and if a page shows it a
\* fetch that was to replace it starts over; a first fetch goes on undisturbed
Invalidated(entry, shown) ==
    IF entry.data = NoAnswer THEN entry
    ELSE [entry EXCEPT !.stale = TRUE, !.flight = IF shown THEN NoAnswer ELSE @]

\* invalidateQueries with a key prefix, which stands for a set of keys; the
\* pages of the moment show the keys in active
InvalidatedAll(cache, keys, active) ==
    [k \in DOMAIN cache |->
        IF k \in keys THEN Invalidated(cache[k], k \in active) ELSE cache[k]]

\* const { data = default } = useQuery(...)
DataOr(entry, default) ==
    IF entry.data = NoAnswer THEN default ELSE CHOOSE v \in entry.data : TRUE
=============================================================================
