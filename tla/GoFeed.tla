------------------------------- MODULE GoFeed -------------------------------
(***************************************************************************)
(* The dashboard server in Go (go-web/main.go) on top of the C interface   *)
(* of the monitor (process-monitor/src/ffi.rs).  One goroutine polls,      *)
(* counts, and offers each message to the channel of every client; a       *)
(* client that has a full channel misses it.  Each client has a goroutine  *)
(* that reads, which takes the client off the list when the socket ends,   *)
(* and one that writes what is in the channel.                             *)
(*                                                                         *)
(* A poll of the interface empties the core's queue and returns as many of *)
(* its outputs as the caller has room for.  mu keeps calls into the        *)
(* library apart, wsClientsMu the list of clients; each is held for one    *)
(* step of the model, and the counters are not protected at all.           *)
(*                                                                         *)
(* Not modelled: the content of messages, what a client sends (it is taken *)
(* to send messages that are not empty), the shutdown by a signal.  The    *)
(* monitor is started without auto-kill, so there are no Actions.          *)
(***************************************************************************)
EXTENDS Counting, SequencesExt

CONSTANTS
  Conns,
  Readers,      (* connections whose client goes on reading                *)
  ChanCap,      (* of the channel of a client (64)                         *)
  PollMax,      (* events a poll has room for (64)                         *)
  Samples,      (* the outputs of the instance                             *)
  MaxOutputs,   (* bound on the outputs of the core                        *)
  MaxBatch      (* bound on the outputs waiting at one poll                *)

Outputs == {"Exec", "Open", "OtherEvent", "Alert"}
Events  == Outputs \ {"Alert"}

ASSUME GoAssumption == /\ Readers \subseteq Conns
                       /\ ChanCap \in Nat \ {0} /\ PollMax \in Nat \ {0}
                       /\ Samples \subseteq Outputs
                       /\ MaxOutputs \in Nat /\ MaxBatch \in Nat

VARIABLES
  total_events, (* Monitor.total_events                                     *)
  polled,       (* how many outputs the core has given out                  *)
  left_out,     (* of those, the outputs that found no room                 *)
  raw,          (* events returned by the poll, still to be converted       *)
  batch,        (* wsEvents                                                 *)
  sending,      (* the forwarder is handing batch out                       *)
  feed,         (* messages that were offered to the clients                *)
  metrics,      (* the counters of /metrics                                 *)
  stage,        (* "new", "open" or "closed": the socket                    *)
  listed,       (* wsClients                                                *)
  from,         (* length of feed when the client was listed                *)
  chan,         (* wsConn.send                                              *)
  missed,       (* history: messages that found the channel full            *)
  hand,         (* message the writer has taken, 0 if it waits for one      *)
  writer,       (* the writer is running                                    *)
  got           (* messages written to the socket                           *)

core_vars    == <<total_events, polled, left_out, raw, batch, sending>>
channel_vars == <<chan, missed>>
conn_vars    == <<stage, listed, from, hand, writer, got>>
vars         == <<core_vars, feed, metrics, channel_vars, conn_vars>>


-----------------------------------------------------------------------------

(* talus_monitor_poll: the core's queue is emptied, and the outputs that   *)
(* the caller has no room for are dropped with it.                         *)
Returned(outputs) ==
  IF Len(outputs) <= PollMax THEN outputs ELSE SubSeq(outputs, 1, PollMax)

(* pollEvents, under mu. *)
Poll ==
  /\ raw = <<>> /\ ~ sending
  /\ \E n \in 1 .. MaxBatch : \E outputs \in [1 .. n -> Samples] :
       /\ polled + n <= MaxOutputs
       /\ polled' = polled + n
       /\ total_events' = total_events + Count(outputs, Events)
       /\ raw' = Returned(outputs)
       /\ left_out' = left_out \o SubSeq(outputs, Len(raw') + 1, n)
  /\ UNCHANGED <<batch, sending, feed, metrics, channel_vars, conn_vars>>

(* Converting the next event and counting it, mu released.                 *)
Convert ==
  LET o == Head(raw)
      added(kinds) == IF o \in kinds THEN 1 ELSE 0
  IN
  /\ raw # <<>>
  /\ batch' = Append(batch, o)
  /\ metrics' = [metrics EXCEPT !.events = @ + added(Events),
                                !.exec   = @ + added({"Exec"}),
                                !.open   = @ + added({"Open"}),
                                !.alerts = @ + added({"Alert"})]
  /\ raw' = Tail(raw)
  /\ sending' = (raw' = <<>>)
  /\ UNCHANGED <<total_events, polled, left_out, feed, channel_vars, conn_vars>>

HasRoom(c) == Len(chan[c]) < ChanCap

OfferWaiting ==
  /\ sending /\ batch # <<>>
  /\ \A c \in Conns : listed[c] => HasRoom(c)
  /\ feed' = Append(feed, Head(batch))
  /\ chan' = [c \in Conns |-> IF listed[c] THEN Append(chan[c], Len(feed')) ELSE chan[c]]
  /\ batch' = Tail(batch)
  /\ UNCHANGED <<total_events, polled, left_out, raw, sending, metrics, missed, conn_vars>>

OfferUntilFull ==
  LET all == \A c \in Conns : listed[c] => HasRoom(c)
  IN
  /\ sending /\ batch # <<>>
  /\ feed' = Append(feed, Head(batch))
  /\ chan' = [c \in Conns |-> IF listed[c] /\ all THEN Append(chan[c], Len(feed')) ELSE chan[c]]
  /\ missed' = [c \in Conns |-> IF listed[c] /\ ~ HasRoom(c) THEN missed[c] \cup {Len(feed')}
                                                             ELSE missed[c]]
  /\ batch' = Tail(batch)
  /\ UNCHANGED <<total_events, polled, left_out, raw, sending, metrics, conn_vars>>

(* The next message goes into the channel of every listed client that has  *)
(* room.  wsClientsMu is held for reading; the writers go on meanwhile,    *)
(* each on a channel of its own.                                           *)
Offer ==
  /\ sending /\ batch # <<>>
  /\ feed' = Append(feed, Head(batch))
  /\ chan' = [c \in Conns |-> IF listed[c] /\ HasRoom(c) THEN Append(chan[c], Len(feed'))
                                                         ELSE chan[c]]
  /\ missed' = [c \in Conns |-> IF listed[c] /\ ~ HasRoom(c) THEN missed[c] \cup {Len(feed')}
                                                             ELSE missed[c]]
  /\ batch' = Tail(batch)
  /\ UNCHANGED <<total_events, polled, left_out, raw, sending, metrics, conn_vars>>

(* Ten milliseconds' sleep. *)
Sleep ==
  /\ sending /\ batch = <<>>
  /\ sending' = FALSE
  /\ UNCHANGED <<total_events, polled, left_out, raw, batch, feed, metrics, channel_vars, conn_vars>>

Forwarder == Poll \/ Convert \/ Offer \/ Sleep

-----------------------------------------------------------------------------

(* The upgrade went well, and the client is listed. *)
handleWS(c) ==
  /\ stage[c] = "new"
  /\ stage' = [stage EXCEPT ![c] = "open"]
  /\ listed' = [listed EXCEPT ![c] = TRUE]
  /\ writer' = [writer EXCEPT ![c] = TRUE]
  /\ from' = [from EXCEPT ![c] = Len(feed)]
  /\ metrics' = [metrics EXCEPT !.ws = @ + 1]
  /\ UNCHANGED <<core_vars, feed, channel_vars, hand, got>>

(* The client closes, or is gone. *)
Hangup(c) ==
  /\ stage[c] = "open"
  /\ stage' = [stage EXCEPT ![c] = "closed"]
  /\ UNCHANGED <<core_vars, feed, metrics, channel_vars, listed, from, hand, writer, got>>

(* The reader has seen the end of the socket. *)
Unlist(c) ==
  /\ stage[c] = "closed" /\ listed[c]
  /\ listed' = [listed EXCEPT ![c] = FALSE]
  /\ UNCHANGED <<core_vars, feed, metrics, channel_vars, stage, from, hand, writer, got>>

TakePeeking(c) ==
  /\ writer[c] /\ hand[c] = 0
  /\ chan[c] # <<>>
  /\ hand' = [hand EXCEPT ![c] = Head(chan[c])]
  /\ UNCHANGED <<core_vars, feed, metrics, channel_vars, stage, listed, from, writer, got>>

(* The writer takes a message.  It waits for one when the channel is       *)
(* empty, even after the reader has gone: the channel is never closed.     *)
Take(c) ==
  /\ writer[c] /\ hand[c] = 0
  /\ chan[c] # <<>>
  /\ hand' = [hand EXCEPT ![c] = Head(chan[c])]
  /\ chan' = [chan EXCEPT ![c] = Tail(@)]
  /\ UNCHANGED <<core_vars, feed, metrics, missed, stage, listed, from, writer, got>>

(* WriteMessage: the message is written, or the socket has ended and so    *)
(* does the writer.                                                        *)
Write(c) ==
  /\ writer[c] /\ hand[c] # 0
  /\ IF stage[c] = "open"
     THEN got' = [got EXCEPT ![c] = Append(@, hand[c])] /\ writer' = writer
     ELSE writer' = [writer EXCEPT ![c] = FALSE] /\ got' = got
  /\ hand' = [hand EXCEPT ![c] = 0]
  /\ UNCHANGED <<core_vars, feed, metrics, channel_vars, stage, listed, from>>

-----------------------------------------------------------------------------

Init ==
  /\ total_events = 0 /\ polled = 0 /\ left_out = <<>>
  /\ raw = <<>> /\ batch = <<>> /\ sending = FALSE /\ feed = <<>>
  /\ metrics = [events |-> 0, exec |-> 0, open |-> 0, alerts |-> 0, ws |-> 0]
  /\ stage = [c \in Conns |-> "new"]
  /\ listed = [c \in Conns |-> FALSE] /\ writer = listed
  /\ from = [c \in Conns |-> 0] /\ hand = from
  /\ chan = [c \in Conns |-> <<>>] /\ got = chan
  /\ missed = [c \in Conns |-> {}]

Next ==
  \/ Forwarder
  \/ \E c \in Conns : handleWS(c) \/ Hangup(c) \/ Unlist(c) \/ Take(c) \/ Write(c)

(* Every goroutine that can go on does.  A write is only known to go on    *)
(* when the client reads, or the socket has ended.                         *)
Spec ==
  /\ Init
  /\ [][Next]_vars
  /\ WF_vars(Forwarder)
  /\ \A c \in Conns :
       /\ WF_vars(Unlist(c)) /\ WF_vars(Take(c))
       /\ WF_vars((c \in Readers \/ stage[c] = "closed") /\ Write(c))

-----------------------------------------------------------------------------

(* What a client is sent was published after it connected, each message    *)
(* once and in order; messages may be missing.                             *)
AbstractFeed == INSTANCE Feed WITH length <- Len(feed), Gaps <- TRUE
IsFeed == AbstractFeed!Spec

(* A client misses only messages that found its own channel full: one that *)
(* is slow costs the others nothing.  The counters of /metrics are those   *)
(* of the messages published and under way; the core's own count is ahead  *)
(* of them by what is not yet converted and by what a poll had no room     *)
(* for, which nobody counts.                                               *)
OnlySlowMiss ==
  LET converted == feed \o batch
  IN
  /\ \A c \in Conns :
       listed[c] /\ stage[c] = "open" =>
         Range(got[c]) \cup Range(chan[c]) \cup missed[c] \cup ({hand[c]} \ {0})
           = from[c] + 1 .. Len(feed)
  /\ metrics.events = Count(converted, Events)
  /\ metrics.exec = Count(converted, {"Exec"})
  /\ metrics.open = Count(converted, {"Open"})
  /\ metrics.alerts = Count(converted, {"Alert"})
  /\ total_events = metrics.events + Count(raw \o left_out, Events)
  /\ polled = Len(feed \o batch \o raw \o left_out)

(* A batch is handed out whatever the clients do. *)
NeverHeldUp == sending ~> ~ sending

(* talus.h 137: a poll "Returns events since the last poll." *)
PollReturnsAll == left_out = <<>>

=============================================================================
