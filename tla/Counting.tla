------------------------------ MODULE Counting ------------------------------
(***************************************************************************)
(* How many elements of a sequence are of some kinds: what the counters of *)
(* the servers (WebFeed, GoFeed) count.                                    *)
(***************************************************************************)
EXTENDS Integers, Sequences, FiniteSets

Count(s, kinds) == Cardinality({i \in DOMAIN s : s[i] \in kinds})
=============================================================================
