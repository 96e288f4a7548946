---------------------------- MODULE LossyStream -----------------------------
(***************************************************************************)
(* What the path from the tracepoints to the monitor core promises, with   *)
(* no word of how: every CPU's records reach the core one by one, in the   *)
(* order they were made; a record may be dropped, but only at the moment   *)
(* it is made and never without being counted; no more losses are reported *)
(* than took place; and while the monitor lives, an accepted record does   *)
(* reach it.  PerfReader implements this.                                  *)
(***************************************************************************)
EXTENDS Naturals, Sequences

CONSTANTS Cpus, Bodies

VARIABLES
  open,       (* the monitor has not been destroyed                        *)
  pending,    (* accepted and not yet delivered, per CPU                   *)
  delivered,  (* what the core was given, per CPU                          *)
  dropped,    (* records lost, per CPU                                     *)
  reported    (* of those, the losses the core was told of, per CPU        *)

vars == <<open, pending, delivered, dropped, reported>>

Init ==
  /\ open = TRUE
  /\ pending = [c \in Cpus |-> <<>>]
  /\ delivered = [c \in Cpus |-> <<>>]
  /\ dropped = [c \in Cpus |-> 0]
  /\ reported = [c \in Cpus |-> 0]

Accept(c, b) ==
  /\ open
  /\ pending' = [pending EXCEPT ![c] = Append(@, b)]
  /\ UNCHANGED <<open, delivered, dropped, reported>>

Drop(c) ==
  /\ open
  /\ dropped' = [dropped EXCEPT ![c] = @ + 1]
  /\ UNCHANGED <<open, pending, delivered, reported>>

Deliver(c) ==
  /\ open
  /\ pending[c] # <<>>
  /\ delivered' = [delivered EXCEPT ![c] = Append(@, Head(pending[c]))]
  /\ pending' = [pending EXCEPT ![c] = Tail(@)]
  /\ UNCHANGED <<open, dropped, reported>>

Report(c) ==
  /\ open
  /\ \E n \in 1 .. dropped[c] - reported[c] :
       reported' = [reported EXCEPT ![c] = @ + n]
  /\ UNCHANGED <<open, pending, delivered, dropped>>

(* What the monitor had not been given when it ends is lost with it. *)
Close ==
  /\ open
  /\ open' = FALSE
  /\ dropped' = [c \in Cpus |-> dropped[c] + Len(pending[c])]
  /\ pending' = [c \in Cpus |-> <<>>]
  /\ UNCHANGED <<delivered, reported>>

Next ==
  \/ \E c \in Cpus : \/ \E b \in Bodies : Accept(c, b)
                     \/ Drop(c)
                     \/ Deliver(c)
                     \/ Report(c)
  \/ Close

Safe == Init /\ [][Next]_vars
Spec == Safe /\ \A c \in Cpus : WF_vars(Deliver(c))

=============================================================================
