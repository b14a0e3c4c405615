------------------------------- MODULE Order -------------------------------
(***************************************************************************)
(* Order on sequences of packet numbers, and lists ordered by arrival.     *)
(***************************************************************************)
EXTENDS Naturals, Sequences, FiniteSets

Increasing(s) == \A i, j \in DOMAIN s : i < j => s[i] < s[j]

\* Everything in s is older than everything in t.
AllBefore(s, t) == \A i \in DOMAIN s, j \in DOMAIN t : s[i] < t[j]

\* Nothing in s is newer than n.
UpTo(s, n) == \A i \in DOMAIN s : s[i] <= n

\* The place of i among the members of S, the greatest of which is first.
Rank(S, i) == Cardinality({j \in S : j >= i})

AtMost(n, max) == IF n < max THEN n ELSE max

\* list has the rows of S's members, that of the greatest first, and ends after max.
Lists(list, S, row, max) ==
  /\ Len(list) = AtMost(Cardinality(S), max)
  /\ \A i \in S : Rank(S, i) <= max => list[Rank(S, i)] = row[i]
=============================================================================
