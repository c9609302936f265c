----------------------------- MODULE SafeVector -----------------------------
(***************************************************************************)
(* The operations of SafeVector<T> (safe_vector.hpp) on the value v of the *)
(* vector.  Every operation that takes the mutex m is one step of the      *)
(* thread that calls it; size() and is_empty() read v without the mutex,   *)
(* so the modules that use them decide what a racing read may return.      *)
(* Indices count from 0, as in the source.                                 *)
(***************************************************************************)
EXTENDS Naturals, Sequences, SequencesExt

PushBack(v, t) == Append(v, t)

\* v.at(index) throws std::out_of_range outside of this range.
InRange(v, index) == index < Len(v)

Get(v, index) == v[index + 1]

\* remove(index) copies every element but the one at index; an index beyond
\* the end leaves the vector as it was.
RemoveIndex(v, index) ==
    IF InRange(v, index)
    THEN [n \in 1..(Len(v) - 1) |-> IF index < n THEN v[n + 1] ELSE v[n]]
    ELSE v

\* What the comment above remove() says of it: "swap with back, then pop back".
SwapWithBack(v, index) ==
    IF InRange(v, index) THEN Front([v EXCEPT ![index + 1] = Last(v)]) ELSE v
=============================================================================
