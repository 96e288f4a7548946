------------------------------- MODULE WebFeed -------------------------------
(***************************************************************************)
(* The agent's web server (process-monitor/src/web.rs): one forwarder task *)
(* polls the core under the monitor's lock and broadcasts what it found to *)
(* every WebSocket connection over a bounded ring; the REST handlers take  *)
(* the same lock.                                                          *)
(*                                                                         *)
(* Each connection has a task that takes from the ring and sends to the    *)
(* socket.  A send waits for a client that does not read.  When the ring   *)
(* has run over what a task was to take next, its recv fails, the task     *)
(* returns, and select! ends the connection.                               *)
(*                                                                         *)
(* The content of the messages, the authorization and the pages are left   *)
(* out, and so is the cost of a handler.  A connection of the model is     *)
(* used once: the page that reconnects after two seconds is another.       *)
(***************************************************************************)
EXTENDS Counting, SequencesExt

CONSTANTS
  Conns,
  Readers,      (* connections whose client goes on reading                *)
  Capacity,     (* of the broadcast channel (1024)                         *)
  Samples,      (* the outputs of the instance                             *)
  MaxOutputs,   (* bound on the outputs of the core                        *)
  MaxBatch      (* bound on the outputs of one poll                        *)

ASSUME WebAssumption == /\ Readers \subseteq Conns
                        /\ Capacity \in Nat \ {0}
                        /\ MaxOutputs \in Nat /\ MaxBatch \in Nat

(* The variants of Output; of the kinds of event, those counted apart.     *)
Outputs == {"Exec", "Open", "OtherEvent", "Alert", "Action"}
Events  == {"Exec", "Open", "OtherEvent"}

ASSUME SampleAssumption == Samples \subseteq Outputs

VARIABLES
  total_events, (* Monitor.total_events                                     *)
  polled,       (* how many outputs the core has produced                   *)
  batch,        (* outputs of the present poll still to be handled; the     *)
                (* forwarder holds the lock until there are none            *)
  feed,         (* what was sent into the broadcast channel                 *)
  metrics,      (* the Prometheus counters                                  *)
  stats,        (* the last answer of /api/v1/stats or /api/v1/threshold    *)
  stage,        (* "new", "open" or "closed", per connection                *)
  from,         (* length of feed at the subscription                       *)
  pos,          (* the receiver's place in the channel                      *)
  hand,         (* message the task is sending, 0 if it waits for one       *)
  got           (* messages sent to the socket                              *)

core_vars == <<total_events, polled, batch, feed>>
conn_vars == <<stage, from, pos, hand, got>>
vars      == <<core_vars, metrics, stats, conn_vars>>

Locked == batch # <<>>

-----------------------------------------------------------------------------

(* The forwarder takes the lock and polls. *)
Poll ==
  /\ ~ Locked
  /\ \E n \in 1 .. MaxBatch :
       /\ polled + n <= MaxOutputs
       /\ polled' = polled + n
       /\ batch' \in [1 .. n -> Samples]
  /\ total_events' = total_events + Count(batch', Events)
  /\ UNCHANGED <<feed, metrics, stats, conn_vars>>

(* It counts and sends the next output; an Action is for nobody.  The      *)
(* counter moves first, but no one reads both it and the feed in between.  *)
Counted(m, o) ==
  [m EXCEPT !.events = @ + (IF o \in Events THEN 1 ELSE 0),
            !.exec   = @ + (IF o = "Exec" THEN 1 ELSE 0),
            !.open   = @ + (IF o = "Open" THEN 1 ELSE 0),
            !.alerts = @ + (IF o = "Alert" THEN 1 ELSE 0)]

(* The ring has run over what the task of c was to take next. *)
Lagged(c) == Len(feed) - pos[c] > Capacity

PublishWaiting ==
  /\ \A c \in Conns : stage[c] = "open" => Len(feed) - pos[c] < Capacity
  /\ Locked
  /\ metrics' = Counted(metrics, Head(batch))
  /\ feed' = IF Head(batch) = "Action" THEN feed ELSE Append(feed, Head(batch))
  /\ batch' = Tail(batch)
  /\ UNCHANGED <<total_events, polled, stats, conn_vars>>

Publish ==
  LET o == Head(batch)
  IN
  /\ Locked
  /\ metrics' = Counted(metrics, o)
  /\ feed' = IF o = "Action" THEN feed ELSE Append(feed, o)
  /\ batch' = Tail(batch)
  /\ UNCHANGED <<total_events, polled, stats, conn_vars>>

Forwarder == Poll \/ Publish

-----------------------------------------------------------------------------

(* What get_stats answers, and set_threshold when it has changed the       *)
(* threshold (which Detector models).  The counters of /metrics and the    *)
(* length of the feed at that moment are kept beside the answer.           *)
Answer == [total_events |-> total_events, counted |-> metrics.events, published |-> Len(feed)]

get_stats_unlocked ==
  /\ stats' = Answer
  /\ UNCHANGED <<core_vars, metrics, conn_vars>>

get_stats ==
  /\ ~ Locked
  /\ stats' = Answer
  /\ UNCHANGED <<core_vars, metrics, conn_vars>>

-----------------------------------------------------------------------------

(* handle_ws: the connection is counted and subscribes. *)
handle_ws(c) ==
  /\ stage[c] = "new"
  /\ stage' = [stage EXCEPT ![c] = "open"]
  /\ metrics' = [metrics EXCEPT !.ws = @ + 1]
  /\ from' = [from EXCEPT ![c] = Len(feed)]
  /\ pos' = [pos EXCEPT ![c] = Len(feed)]
  /\ UNCHANGED <<core_vars, stats, hand, got>>

RecvSkipping(c) ==
  /\ stage[c] = "open" /\ hand[c] = 0
  /\ pos[c] < Len(feed)
  /\ pos' = [pos EXCEPT ![c] = IF Lagged(c) THEN Len(feed) - Capacity + 1 ELSE @ + 1]
  /\ hand' = [hand EXCEPT ![c] = pos'[c]]
  /\ UNCHANGED <<core_vars, metrics, stats, stage, from, got>>

RecvEndsAlone(c) ==
  /\ stage[c] = "open" /\ hand[c] = 0
  /\ pos[c] < Len(feed) /\ ~ Lagged(c)
  /\ pos' = [pos EXCEPT ![c] = @ + 1]
  /\ hand' = [hand EXCEPT ![c] = pos[c] + 1]
  /\ UNCHANGED <<core_vars, metrics, stats, stage, from, got>>

(* send_task takes the next message, or learns that it has lagged behind:  *)
(* then it returns, and the connection is dropped.                         *)
Recv(c) ==
  /\ stage[c] = "open" /\ hand[c] = 0
  /\ pos[c] < Len(feed)
  /\ IF Lagged(c)
     THEN stage' = [stage EXCEPT ![c] = "closed"] /\ UNCHANGED <<pos, hand>>
     ELSE /\ pos' = [pos EXCEPT ![c] = @ + 1]
          /\ hand' = [hand EXCEPT ![c] = pos[c] + 1]
          /\ stage' = stage
  /\ UNCHANGED <<core_vars, metrics, stats, from, got>>

(* The socket has taken the message. *)
Sent(c) ==
  /\ stage[c] = "open" /\ hand[c] # 0
  /\ got' = [got EXCEPT ![c] = Append(@, hand[c])]
  /\ hand' = [hand EXCEPT ![c] = 0]
  /\ UNCHANGED <<core_vars, metrics, stats, stage, from, pos>>

(* The client closes or is gone: recv_task or the send ends, and select!   *)
(* aborts the other task.                                                  *)
Leave(c) ==
  /\ stage[c] = "open"
  /\ stage' = [stage EXCEPT ![c] = "closed"]
  /\ UNCHANGED <<core_vars, metrics, stats, from, pos, hand, got>>

-----------------------------------------------------------------------------

Init ==
  /\ total_events = 0 /\ polled = 0 /\ batch = <<>> /\ feed = <<>>
  /\ metrics = [events |-> 0, exec |-> 0, open |-> 0, alerts |-> 0, ws |-> 0]
  /\ stats = [total_events |-> 0, counted |-> 0, published |-> 0]
  /\ stage = [c \in Conns |-> "new"]
  /\ from = [c \in Conns |-> 0] /\ pos = from /\ hand = from
  /\ got = [c \in Conns |-> <<>>]

Next ==
  \/ Forwarder
  \/ get_stats
  \/ \E c \in Conns : handle_ws(c) \/ Recv(c) \/ Sent(c) \/ Leave(c)

(* The runtime polls every task that can go on.  A send is only known to   *)
(* go on when the client reads.                                            *)
Spec ==
  /\ Init
  /\ [][Next]_vars
  /\ WF_vars(Forwarder)
  /\ \A c \in Conns : WF_vars(Recv(c))
  /\ \A c \in Readers : WF_vars(Sent(c))

-----------------------------------------------------------------------------

(* A connection is given every message published since it subscribed, in   *)
(* order and without a gap, for as long as it lasts: a task that lags      *)
(* behind ends its connection rather than leave something out.             *)
AbstractFeed == INSTANCE Feed WITH length <- Len(feed), Gaps <- FALSE
IsFeed == AbstractFeed!Spec

(* The counters of /metrics are those of the messages in the feed; an      *)
(* answer of the REST handlers is of one moment between two polls, where   *)
(* the core's own count, the counters and the feed agree.                  *)
CountsAgree ==
  /\ metrics.events = Count(feed, Events)
  /\ metrics.exec = Count(feed, {"Exec"})
  /\ metrics.open = Count(feed, {"Open"})
  /\ metrics.alerts = Count(feed, {"Alert"})
  /\ metrics.ws = Cardinality({c \in Conns : stage[c] # "new"})
  /\ stats.total_events = stats.counted
  /\ stats.counted = Count(SubSeq(feed, 1, stats.published), Events)

(* The forwarder, and with it the detection, waits for no client. *)
LockReleased == Locked ~> ~ Locked

(* What was published while a client that reads is connected reaches it,   *)
(* or the connection ends and the client knows.                            *)
ReachedOrEnded ==
  \A c \in Readers : \A i \in 1 .. MaxOutputs :
    stage[c] = "open" /\ from[c] < i /\ i <= Len(feed)
      ~> i \in Range(got[c]) \/ stage[c] = "closed"

=============================================================================
