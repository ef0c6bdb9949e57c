---------------------------- MODULE Subsequences ----------------------------
(***************************************************************************)
(* Array.prototype.filter, as an operator that can be reasoned about: what *)
(* a sequence has at some of its indices, in its order.                    *)
(***************************************************************************)
EXTENDS Integers, FiniteSets, Sequences

\* The members of a set, counted from the least.
Rank(ids, x) == Cardinality({y \in ids : y <= x})

Subsequence(s, ids) == [k \in 1 .. Cardinality(ids) |-> s[CHOOSE n \in ids : Rank(ids, n) = k]]
Filter(s, Test(_)) == Subsequence(s, {n \in DOMAIN s : Test(s[n])})
=============================================================================
