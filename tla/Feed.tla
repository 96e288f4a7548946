-------------------------------- MODULE Feed --------------------------------
(***************************************************************************)
(* What a live feed promises to a connection: from the moment it is there  *)
(* it is given messages published since, each at most once and in order.   *)
(* A feed without gaps leaves none of them out; one with gaps may pass     *)
(* messages over, and never comes back to them.  A connection may end at   *)
(* any time and is not used again.  WebFeed implements the feed without    *)
(* gaps, GoFeed the one with gaps.                                         *)
(***************************************************************************)
EXTENDS Naturals, Sequences, SequencesExt

CONSTANTS Conns, Gaps

VARIABLES
  length,     (* how many messages have been published                      *)
  stage,      (* "new", "open" or "closed", per connection                  *)
  from,       (* what had been published when the connection opened         *)
  got         (* the messages it was given                                  *)

vars == <<length, stage, from, got>>

Init ==
  /\ length = 0
  /\ stage = [c \in Conns |-> "new"]
  /\ from = [c \in Conns |-> 0]
  /\ got = [c \in Conns |-> <<>>]

Publish ==
  /\ length' = length + 1
  /\ UNCHANGED <<stage, from, got>>

Open(c) ==
  /\ stage[c] = "new"
  /\ stage' = [stage EXCEPT ![c] = "open"]
  /\ from' = [from EXCEPT ![c] = length]
  /\ UNCHANGED <<length, got>>

LastOf(c) == IF got[c] = <<>> THEN from[c] ELSE Last(got[c])

Deliver(c) ==
  /\ stage[c] = "open"
  /\ \E i \in LastOf(c) + 1 .. length :
       /\ Gaps \/ i = LastOf(c) + 1
       /\ got' = [got EXCEPT ![c] = Append(@, i)]
  /\ UNCHANGED <<length, stage, from>>

Close(c) ==
  /\ stage[c] = "open"
  /\ stage' = [stage EXCEPT ![c] = "closed"]
  /\ UNCHANGED <<length, from, got>>

Next == Publish \/ \E c \in Conns : Open(c) \/ Deliver(c) \/ Close(c)

Spec == Init /\ [][Next]_vars

=============================================================================
