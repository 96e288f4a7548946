----------------------------- MODULE RingProofs ------------------------------
(***************************************************************************)
(* Proofs about two rings of which the consumers may not keep up.          *)
(* Of WebFeed, for any connections, any capacity of the broadcast channel  *)
(* and any outputs: the server is a feed without gaps, and its counters    *)
(* agree with the feed.                                                    *)
(* Of RawRing, for any number of CPUs and any sizes of its rings: every    *)
(* record made is in one place, and in order.  A perf ring holds the       *)
(* records after those handled without a gap (Strung); what was handled is *)
(* split into what the caller has, what waits for him, what was dropped    *)
(* and what was told lost (Split).                                         *)
(***************************************************************************)
EXTENDS WebFeed, RawRing, DataLemmas

Metrics == [events : Nat, exec : Nat, open : Nat, alerts : Nat, ws : Nat]

TypeOK ==
  /\ total_events \in Nat
  /\ batch \in Seq(Outputs)
  /\ feed \in Seq(Outputs)
  /\ metrics \in Metrics
  /\ stats \in [total_events : Nat, counted : Nat, published : Nat]
  /\ stage \in [Conns -> {"new", "open", "closed"}]
  /\ from \in [Conns -> Nat]
  /\ pos \in [Conns -> Nat]
  /\ hand \in [Conns -> Nat]
  /\ got \in [Conns -> Seq(Nat)]

(* The place of c in the ring is one past what its socket was given last,  *)
(* except for the message that its task has in hand.                       *)
Given(c) == IF hand[c] = 0 THEN pos[c] ELSE pos[c] - 1

Placed(c) ==
  /\ from[c] <= Given(c)
  /\ pos[c] <= Len(feed)
  /\ hand[c] \in {0, pos[c]}
  /\ stage[c] = "new" => got[c] = <<>> /\ hand[c] = 0
  /\ Given(c) = AbstractFeed!LastOf(c)

FeedInv == TypeOK /\ \A c \in Conns : Placed(c)

-----------------------------------------------------------------------------

LEMMA FeedInit == Init => FeedInv
<1> SUFFICES ASSUME Init PROVE FeedInv
  OBVIOUS
<1>1. TypeOK
  BY DEF Init, TypeOK, Metrics
<1>2. \A c \in Conns : Placed(c)
  BY DEF Init, Placed, Given, AbstractFeed!LastOf
<1> QED BY <1>1, <1>2 DEF FeedInv

LEMMA CountType == ASSUME NEW s \in Seq(Outputs), NEW kinds PROVE Count(s, kinds) \in Nat
BY CountConcat

LEMMA CountedFields ==
  ASSUME NEW m \in Metrics, NEW o
  PROVE  LET n == Counted(m, o) IN
         /\ n \in Metrics
         /\ n.events = m.events + (IF o \in Events THEN 1 ELSE 0)
         /\ n.exec = m.exec + (IF o = "Exec" THEN 1 ELSE 0)
         /\ n.open = m.open + (IF o = "Open" THEN 1 ELSE 0)
         /\ n.alerts = m.alerts + (IF o = "Alert" THEN 1 ELSE 0)
         /\ n.ws = m.ws
<1> DEFINE e == m.events + (IF o \in Events THEN 1 ELSE 0)
           x == m.exec + (IF o = "Exec" THEN 1 ELSE 0)
           p == m.open + (IF o = "Open" THEN 1 ELSE 0)
           a == m.alerts + (IF o = "Alert" THEN 1 ELSE 0)
<1>1. Counted(m, o) = [m EXCEPT !.events = e, !.exec = x, !.open = p, !.alerts = a]
  BY DEF Counted, Metrics
<1>2. e \in Nat /\ x \in Nat /\ p \in Nat /\ a \in Nat
  BY DEF Metrics
<1> HIDE DEF e, x, p, a
<1>3. /\ Counted(m, o) \in Metrics
      /\ Counted(m, o).events = e /\ Counted(m, o).exec = x /\ Counted(m, o).open = p
      /\ Counted(m, o).alerts = a /\ Counted(m, o).ws = m.ws
  BY <1>1, <1>2 DEF Metrics
<1> QED BY <1>3 DEF e, x, p, a

LEMMA TypeStep == TypeOK /\ [Next]_vars => TypeOK'
<1> SUFFICES ASSUME TypeOK, [Next]_vars PROVE TypeOK'
  OBVIOUS
<1> USE DEF TypeOK
<1>1. CASE Poll
  <2>1. batch' \in Seq(Outputs)
    BY <1>1, SampleAssumption DEF Poll
  <2>2. Count(batch', Events) \in Nat
    BY <2>1, CountType
  <2> QED BY <1>1, <2>1, <2>2 DEF Poll, conn_vars
<1>2. CASE Publish
  <2>1. Head(batch) \in Outputs /\ Tail(batch) \in Seq(Outputs)
    BY <1>2, HeadTailProperties DEF Publish, Locked
  <2>2. Append(feed, Head(batch)) \in Seq(Outputs)
    BY <2>1, AppendProperties
  <2>3. metrics' \in Metrics
    BY <1>2, CountedFields DEF Publish
  <2> QED BY <1>2, <2>1, <2>2, <2>3 DEF Publish, conn_vars
<1>3. CASE get_stats
  <2>1. Answer \in [total_events : Nat, counted : Nat, published : Nat]
    BY LenProperties DEF Answer, Metrics
  <2> QED BY <1>3, <2>1 DEF get_stats, core_vars, conn_vars
<1>4. ASSUME NEW c \in Conns, handle_ws(c) PROVE TypeOK'
  <2>1. Len(feed) \in Nat
    BY LenProperties
  <2>2. UNCHANGED <<total_events, batch, feed, stats, hand, got>>
    BY <1>4 DEF handle_ws, core_vars
  <2>4. metrics' \in Metrics
    <3> DEFINE n == metrics.ws + 1
    <3>1. n \in Nat
      BY DEF Metrics
    <3>2. metrics' = [metrics EXCEPT !.ws = n]
      BY <1>4 DEF handle_ws
    <3> HIDE DEF n
    <3> QED BY <3>1, <3>2 DEF Metrics
  <2>5. stage' \in [Conns -> {"new", "open", "closed"}]
    BY <1>4 DEF handle_ws
  <2>3. from' \in [Conns -> Nat] /\ pos' \in [Conns -> Nat]
    BY <1>4, <2>1 DEF handle_ws
  <2> QED BY <2>2, <2>3, <2>4, <2>5
<1>5. ASSUME NEW c \in Conns, Recv(c) PROVE TypeOK'
  <2>1. UNCHANGED <<total_events, batch, feed, metrics, stats, from, got>>
    BY <1>5 DEF Recv, core_vars
  <2>2. pos[c] + 1 \in Nat
    OBVIOUS
  <2>3. /\ stage' \in [Conns -> {"new", "open", "closed"}]
        /\ pos' \in [Conns -> Nat] /\ hand' \in [Conns -> Nat]
    BY <1>5, <2>2, ZenonT(40) DEF Recv
  <2> QED BY <2>1, <2>3
<1>6. ASSUME NEW c \in Conns, Sent(c) PROVE TypeOK'
  <2>1. Append(got[c], hand[c]) \in Seq(Nat)
    BY AppendProperties
  <2> QED BY <1>6, <2>1 DEF Sent, core_vars
<1>7. ASSUME NEW c \in Conns, Leave(c) PROVE TypeOK'
  BY <1>7 DEF Leave, core_vars
<1>8. CASE UNCHANGED vars
  BY <1>8 DEF vars, core_vars, conn_vars
<1> QED BY <1>1, <1>2, <1>3, <1>4, <1>5, <1>6, <1>7, <1>8 DEF Next, Forwarder

(* The feed only grows. *)
LEMMA FeedGrows ==
  ASSUME TypeOK, [Next]_vars
  PROVE  /\ \/ feed' = feed
            \/ Publish /\ feed' = Append(feed, Head(batch)) /\ Head(batch) \in Outputs
         /\ Len(feed) \in Nat
         /\ (Len(feed') = Len(feed) \/ Len(feed') = Len(feed) + 1)
<1>1. Len(feed) \in Nat
  BY LenProperties DEF TypeOK
<1>2. CASE Publish
  <2>1. Head(batch) \in Outputs
    BY <1>2, HeadTailProperties DEF Publish, Locked, TypeOK
  <2>2. Len(Append(feed, Head(batch))) = Len(feed) + 1
    BY <2>1, AppendProperties DEF TypeOK
  <2>3. feed' = IF Head(batch) = "Action" THEN feed ELSE Append(feed, Head(batch))
    BY <1>2 DEF Publish
  <2> QED BY <1>1, <1>2, <2>1, <2>2, <2>3
<1>3. CASE feed' = feed
  BY <1>1, <1>3
<1>4. Publish \/ feed' = feed
  <2>1. Poll \/ get_stats \/ UNCHANGED vars => feed' = feed
    BY DEF Poll, get_stats, vars, core_vars
  <2>2. \A c \in Conns : handle_ws(c) \/ Recv(c) \/ Sent(c) \/ Leave(c) => feed' = feed
    BY DEF handle_ws, Recv, Sent, Leave, core_vars
  <2> QED BY <2>1, <2>2 DEF Next, Forwarder
<1> QED BY <1>2, <1>3, <1>4

LEMMA FeedStep == FeedInv /\ [Next]_vars => FeedInv'
<1> SUFFICES ASSUME FeedInv, [Next]_vars PROVE FeedInv'
  OBVIOUS
<1>1. TypeOK /\ TypeOK'
  BY TypeStep DEF FeedInv
<1>2. Len(feed) \in Nat /\ Len(feed') \in Nat /\ Len(feed) <= Len(feed')
  BY <1>1, FeedGrows
<1> SUFFICES ASSUME NEW c \in Conns PROVE Placed(c)'
  BY <1>1 DEF FeedInv
<1> DEFINE Same == /\ stage'[c] = stage[c] /\ from'[c] = from[c] /\ pos'[c] = pos[c]
                   /\ hand'[c] = hand[c] /\ got'[c] = got[c]
<1>3. /\ Placed(c) /\ from[c] \in Nat /\ pos[c] \in Nat /\ hand[c] \in Nat
      /\ got[c] \in Seq(Nat)
  BY <1>1 DEF FeedInv, TypeOK
<1>4. CASE Same
  BY <1>2, <1>3, <1>4 DEF Placed, Given, AbstractFeed!LastOf
<1>5. CASE handle_ws(c)
  <2>1. stage[c] = "new" /\ from'[c] = Len(feed) /\ pos'[c] = Len(feed) /\ feed' = feed
        /\ hand' = hand /\ got' = got /\ stage'[c] = "open"
    BY <1>1, <1>5 DEF handle_ws, TypeOK, core_vars
  <2> QED BY <1>2, <1>3, <2>1 DEF Placed, Given, AbstractFeed!LastOf
<1>6. CASE Recv(c)
  <2>1. CASE Lagged(c)
    <3>1. stage'[c] = "closed" /\ feed' = feed /\ pos' = pos /\ hand' = hand
          /\ from' = from /\ got' = got
      BY <1>1, <1>6, <2>1 DEF Recv, TypeOK, core_vars
    <3> QED BY <1>3, <3>1 DEF Placed, Given, AbstractFeed!LastOf
  <2>2. CASE ~ Lagged(c)
    <3>1. /\ stage[c] = "open" /\ stage' = stage /\ feed' = feed /\ hand[c] = 0 /\ pos[c] < Len(feed)
          /\ pos'[c] = pos[c] + 1 /\ hand'[c] = pos[c] + 1
          /\ from' = from /\ got' = got
      BY <1>1, <1>6, <2>2 DEF Recv, TypeOK, core_vars
    <3> QED BY <1>2, <1>3, <3>1 DEF Placed, Given, AbstractFeed!LastOf
  <2> QED BY <2>1, <2>2
<1>7. CASE Sent(c)
  <2>1. /\ stage[c] = "open" /\ stage' = stage /\ feed' = feed /\ pos' = pos /\ from' = from
        /\ hand[c] # 0 /\ hand'[c] = 0 /\ got'[c] = Append(got[c], hand[c])
    BY <1>1, <1>7 DEF Sent, TypeOK, core_vars
  <2>2. got'[c] # <<>> /\ Last(got'[c]) = hand[c]
    <3>1. /\ Append(got[c], hand[c]) # <<>>
          /\ Len(Append(got[c], hand[c])) = Len(got[c]) + 1
          /\ Append(got[c], hand[c])[Len(got[c]) + 1] = hand[c]
      BY <1>3, AppendProperties
    <3> QED BY <2>1, <3>1 DEF Last
  <2>3. AbstractFeed!LastOf(c)' = hand[c] /\ Given(c)' = pos[c]
    <3>1. AbstractFeed!LastOf(c)' = IF got'[c] = <<>> THEN from'[c] ELSE Last(got'[c])
      BY DEF AbstractFeed!LastOf, AbstractFeed!Last, Last
    <3>2. Given(c)' = IF hand'[c] = 0 THEN pos'[c] ELSE pos'[c] - 1
      BY DEF Given
    <3> QED BY <2>1, <2>2, <3>1, <3>2
  <2>4. hand[c] = pos[c] /\ from[c] <= pos[c]
    BY <1>3, <2>1 DEF Placed, Given
  <2> QED BY <1>2, <1>3, <2>1, <2>3, <2>4 DEF Placed
<1>8. CASE Leave(c)
  <2>1. stage'[c] = "closed" /\ feed' = feed /\ pos' = pos /\ hand' = hand
        /\ from' = from /\ got' = got
    BY <1>1, <1>8 DEF Leave, TypeOK, core_vars
  <2> QED BY <1>3, <2>1 DEF Placed, Given, AbstractFeed!LastOf
<1>9. CASE ~ (handle_ws(c) \/ Recv(c) \/ Sent(c) \/ Leave(c))
  <2>1. ASSUME NEW d \in Conns, d # c, handle_ws(d) \/ Recv(d) \/ Sent(d) \/ Leave(d)
        PROVE  Same
    BY <1>1, <2>1 DEF handle_ws, Recv, Sent, Leave, TypeOK
  <2>2. CASE Forwarder \/ get_stats \/ UNCHANGED vars
    <3>1. UNCHANGED <<stage, from, pos, hand, got>>
      BY <2>2 DEF Forwarder, Poll, Publish, get_stats, vars, conn_vars
    <3> QED BY <3>1, <1>4
  <2>3. \/ Forwarder \/ get_stats \/ UNCHANGED vars
        \/ \E d \in Conns : d # c /\ (handle_ws(d) \/ Recv(d) \/ Sent(d) \/ Leave(d))
    BY <1>9 DEF Next
  <2> QED BY <2>1, <2>2, <2>3, <1>4
<1> QED BY <1>5, <1>6, <1>7, <1>8, <1>9

-----------------------------------------------------------------------------

(* Each step is a step of the feed without gaps, or changes nothing of it. *)
LEMMA FeedRefined ==
  FeedInv /\ [Next]_vars => [AbstractFeed!Next]_(AbstractFeed!vars)
<1> SUFFICES ASSUME FeedInv, [Next]_vars
             PROVE  AbstractFeed!Next \/ UNCHANGED AbstractFeed!vars
  OBVIOUS
<1>1. TypeOK /\ Len(feed) \in Nat
  BY LenProperties DEF FeedInv, TypeOK
<1>2. CASE Publish
  <2>1. UNCHANGED <<stage, from, got>>
    BY <1>2 DEF Publish, conn_vars
  <2>2. Len(feed') = Len(feed) \/ Len(feed') = Len(feed) + 1
    BY <1>1, FeedGrows
  <2> QED BY <2>1, <2>2 DEF AbstractFeed!Next, AbstractFeed!Publish, AbstractFeed!vars
<1>3. CASE Poll \/ get_stats \/ UNCHANGED vars
  BY <1>3 DEF Poll, get_stats, vars, core_vars, conn_vars, AbstractFeed!vars
<1>4. ASSUME NEW c \in Conns, handle_ws(c) PROVE AbstractFeed!Open(c)
  BY <1>4 DEF handle_ws, core_vars, AbstractFeed!Open
<1>5. ASSUME NEW c \in Conns, Recv(c)
      PROVE  AbstractFeed!Close(c) \/ UNCHANGED AbstractFeed!vars
  BY <1>5 DEF Recv, core_vars, AbstractFeed!Close, AbstractFeed!vars
<1>6. ASSUME NEW c \in Conns, Sent(c) PROVE AbstractFeed!Deliver(c)
  <2>1. Placed(c) /\ pos[c] \in Nat /\ from[c] \in Nat
    BY DEF FeedInv, TypeOK
  <2>2. hand[c] = pos[c] /\ pos[c] \in 1 .. Len(feed) /\ AbstractFeed!LastOf(c) = hand[c] - 1
    BY <1>1, <1>6, <2>1 DEF Sent, Placed, Given
  <2>3. hand[c] \in AbstractFeed!LastOf(c) + 1 .. Len(feed) /\ hand[c] = AbstractFeed!LastOf(c) + 1
    BY <1>1, <2>1, <2>2
  <2> HIDE DEF AbstractFeed!LastOf
  <2> QED BY <1>6, <2>3 DEF Sent, core_vars, AbstractFeed!Deliver
<1>7. ASSUME NEW c \in Conns, Leave(c) PROVE AbstractFeed!Close(c)
  BY <1>7 DEF Leave, core_vars, AbstractFeed!Close
<1> QED
  BY <1>2, <1>3, <1>4, <1>5, <1>6, <1>7 DEF Next, Forwarder, AbstractFeed!Next

(* The web server implements the feed without gaps: a WebSocket connection *)
(* is given every message published since it subscribed, once and in       *)
(* order, until it ends.                                                   *)
THEOREM FeedImplemented == Spec => IsFeed
<1>1. Init => AbstractFeed!Init
  BY DEF Init, AbstractFeed!Init
<1> QED
  BY <1>1, FeedInit, FeedStep, FeedRefined, PTL DEF Spec, IsFeed, AbstractFeed!Spec

-----------------------------------------------------------------------------
(* The counters.                                                           *)

Connected == {c \in Conns : stage[c] # "new"}

(* Beside what CountsAgree says: the core is ahead of the counters by the  *)
(* events of the batch that is being handed out, and so by none between    *)
(* two polls; an answer speaks of a prefix of the feed.                    *)
CountInv ==
  /\ TypeOK
  /\ CountsAgree
  /\ total_events = metrics.events + Count(batch, Events)
  /\ stats.published <= Len(feed)
  /\ IsFiniteSet(Connected)

LEMMA CountInit == Init => CountInv
<1> SUFFICES ASSUME Init PROVE CountInv
  OBVIOUS
<1>1. TypeOK
  BY FeedInit DEF FeedInv
<1>2. feed = <<>> /\ batch = <<>> /\ Len(feed) = 0 /\ SubSeq(feed, 1, 0) = <<>>
  BY EmptySeq, SubSeqEmpty DEF Init
<1>3. Connected = {} /\ IsFiniteSet(Connected) /\ Cardinality(Connected) = 0
  BY FS_EmptySet DEF Init, Connected
<1>4. /\ metrics.events = 0 /\ metrics.exec = 0 /\ metrics.open = 0 /\ metrics.alerts = 0
      /\ metrics.ws = 0
      /\ stats.total_events = 0 /\ stats.counted = 0 /\ stats.published = 0 /\ total_events = 0
  BY DEF Init
<1>5. \A kinds : Count(feed, kinds) = 0 /\ Count(batch, kinds) = 0
  BY <1>2, CountEmpty
<1>6. Count(SubSeq(feed, 1, stats.published), Events) = 0
  BY <1>2, <1>4, CountEmpty
<1>7. CountsAgree
  BY <1>3, <1>4, <1>5, <1>6 DEF CountsAgree, Connected
<1> QED BY <1>1, <1>2, <1>3, <1>4, <1>5, <1>7 DEF CountInv

(* An answer given before goes on being true of its prefix of the feed.    *)
LEMMA AnswerLasts ==
  ASSUME CountInv, [Next]_vars, stats' = stats
  PROVE  /\ stats'.total_events = stats'.counted
         /\ stats'.published <= Len(feed')
         /\ stats'.counted = Count(SubSeq(feed', 1, stats'.published), Events)
<1>1. stats.published \in Nat /\ stats.published <= Len(feed) /\ feed \in Seq(Outputs)
  BY DEF CountInv, TypeOK
<1>2. Len(feed) \in Nat /\ Len(feed) <= Len(feed')
  BY FeedGrows DEF CountInv
<1>3. SubSeq(feed', 1, stats.published) = SubSeq(feed, 1, stats.published)
  <2>1. CASE feed' = feed
    BY <2>1
  <2>2. CASE feed' # feed
    <3>1. Head(batch) \in Outputs /\ feed' = Append(feed, Head(batch))
      BY <2>2, FeedGrows DEF CountInv
    <3>2. feed' = feed \o <<Head(batch)>> /\ <<Head(batch)>> \in Seq(Outputs)
      BY <1>1, <3>1, AppendIsConcat
    <3>3. CASE stats.published = 0
      BY <3>3, SubSeqEmpty
    <3>4. CASE stats.published # 0
      <4>1. 1 \in 1 .. Len(feed) /\ stats.published \in 1 .. Len(feed)
        BY <1>1, <1>2, <3>4
      <4> QED BY <1>1, <3>2, <4>1, SubSeqOfConcat1
    <3> QED BY <3>3, <3>4
  <2> QED BY <2>1, <2>2
<1>4. stats'.published <= Len(feed')
  <2>1. Len(feed') \in Nat
    BY <1>2, FeedGrows DEF CountInv
  <2> QED BY <1>1, <1>2, <2>1
<1>5. stats.total_events = stats.counted
      /\ stats.counted = Count(SubSeq(feed, 1, stats.published), Events)
  BY DEF CountInv, CountsAgree
<1>6. stats'.counted = Count(SubSeq(feed', 1, stats'.published), Events)
  BY <1>3, <1>5
<1> QED BY <1>4, <1>5, <1>6

LEMMA CountStep == CountInv /\ [Next]_vars => CountInv'
<1> SUFFICES ASSUME CountInv, [Next]_vars PROVE CountInv'
  OBVIOUS
<1>1. TypeOK /\ TypeOK'
  BY TypeStep DEF CountInv
<1>2. metrics \in Metrics /\ metrics' \in Metrics /\ feed \in Seq(Outputs)
      /\ batch \in Seq(Outputs) /\ total_events \in Nat /\ Len(feed) \in Nat
  BY <1>1, LenProperties DEF TypeOK
<1>3. \A kinds : Count(feed, kinds) \in Nat /\ Count(batch, kinds) \in Nat
  BY <1>2, CountType
<1>4. /\ metrics.events = Count(feed, Events) /\ metrics.exec = Count(feed, {"Exec"})
      /\ metrics.open = Count(feed, {"Open"}) /\ metrics.alerts = Count(feed, {"Alert"})
      /\ metrics.ws = Cardinality(Connected) /\ IsFiniteSet(Connected)
      /\ total_events = metrics.events + Count(batch, Events)
  BY DEF CountInv, CountsAgree, Connected
<1> DEFINE Answered ==
      /\ stats'.total_events = stats'.counted
      /\ stats'.published <= Len(feed')
      /\ stats'.counted = Count(SubSeq(feed', 1, stats'.published), Events)
    Connects == metrics'.ws = Cardinality(Connected') /\ IsFiniteSet(Connected')
    Counts ==
      /\ metrics'.events = Count(feed', Events) /\ metrics'.exec = Count(feed', {"Exec"})
      /\ metrics'.open = Count(feed', {"Open"}) /\ metrics'.alerts = Count(feed', {"Alert"})
      /\ total_events' = metrics'.events + Count(batch', Events)
<1>5. stats' = stats => Answered
  BY AnswerLasts
<1>6. UNCHANGED <<stage, metrics>> => Connects
  BY <1>4 DEF Connected
<1>7. CASE Poll
  <2>1. UNCHANGED <<feed, metrics, stats, stage>>
    BY <1>7 DEF Poll, conn_vars
  <2>2. batch = <<>> /\ total_events' = total_events + Count(batch', Events)
    BY <1>7 DEF Poll, Locked
  <2>3. Count(batch', Events) \in Nat
    BY <1>1, CountType DEF TypeOK
  <2>4. metrics.events \in Nat
    BY <1>2 DEF Metrics
  <2>5. Counts
    BY <1>4, <2>1, <2>2, <2>3, <2>4, CountEmpty
  <2> QED BY <1>1, <1>5, <1>6, <2>1, <2>5 DEF CountInv, CountsAgree, Connected
<1>8. CASE Publish
  <2> DEFINE o == Head(batch)
  <2>1. UNCHANGED <<total_events, stats, stage>> /\ metrics' = Counted(metrics, o)
        /\ batch # <<>> /\ batch' = Tail(batch)
        /\ feed' = IF o = "Action" THEN feed ELSE Append(feed, o)
    BY <1>8 DEF Publish, conn_vars, Locked
  <2>2. o \in Outputs
    BY <1>2, <2>1, HeadTailProperties
  <2> HIDE DEF o
  <2>3. \A kinds : Count(feed', kinds) =
                     Count(feed, kinds) + IF o \in kinds \ {"Action"} THEN 1 ELSE 0
    BY <1>2, <1>3, <2>1, <2>2, CountAppend
  <2>4. /\ metrics'.events = metrics.events + (IF o \in Events THEN 1 ELSE 0)
        /\ metrics'.exec = metrics.exec + (IF o = "Exec" THEN 1 ELSE 0)
        /\ metrics'.open = metrics.open + (IF o = "Open" THEN 1 ELSE 0)
        /\ metrics'.alerts = metrics.alerts + (IF o = "Alert" THEN 1 ELSE 0)
        /\ metrics'.ws = metrics.ws
    BY <1>2, <2>1, CountedFields
  <2>5. Count(batch, Events) = (IF o \in Events THEN 1 ELSE 0) + Count(batch', Events)
    BY <1>2, <2>1, CountHeadTail DEF o
  <2>6. Count(batch', Events) \in Nat /\ metrics.events \in Nat
    BY <1>1, <1>2, CountType DEF TypeOK, Metrics
  <2>7. total_events' = metrics'.events + Count(batch', Events)
    BY <1>4, <2>1, <2>4, <2>5, <2>6
  <2>8. /\ (o \in Events \ {"Action"}) <=> (o \in Events)
        /\ (o \in {"Exec"} \ {"Action"}) <=> (o = "Exec")
        /\ (o \in {"Open"} \ {"Action"}) <=> (o = "Open")
        /\ (o \in {"Alert"} \ {"Action"}) <=> (o = "Alert")
    BY DEF Events
  <2>9. Counts
    BY <1>4, <2>3, <2>4, <2>7, <2>8
  <2>10. Connects
    BY <1>4, <2>1, <2>4 DEF Connected
  <2> QED BY <1>1, <1>5, <2>1, <2>9, <2>10 DEF CountInv, CountsAgree, Connected
<1>9. CASE get_stats
  <2>1. UNCHANGED <<total_events, batch, feed, metrics, stage>> /\ stats' = Answer /\ batch = <<>>
    BY <1>9 DEF get_stats, core_vars, conn_vars, Locked
  <2>2. SubSeq(feed, 1, Len(feed)) = feed
    BY <1>2, SubSeqFull
  <2>3. total_events = metrics.events
    BY <1>2, <1>4, <2>1, CountEmpty DEF Metrics
  <2>4. Answered
    <3>1. /\ stats'.total_events = total_events /\ stats'.counted = metrics.events
          /\ stats'.published = Len(feed)
      BY <2>1 DEF Answer
    <3>2. SubSeq(feed', 1, stats'.published) = feed /\ Len(feed') = Len(feed)
      BY <2>1, <2>2, <3>1
    <3>3. metrics.events = Count(feed, Events)
      BY <1>4
    <3>4. stats'.published <= Len(feed')
      BY <1>2, <3>1, <3>2
    <3>5. stats'.total_events = stats'.counted
      BY <2>3, <3>1, Zenon
    <3>6. stats'.counted = Count(SubSeq(feed', 1, stats'.published), Events)
      BY <3>1, <3>2, <3>3, Zenon
    <3> QED BY <3>4, <3>5, <3>6
  <2>5. Counts
    BY <1>4, <2>1
  <2> QED BY <1>1, <1>6, <2>1, <2>4, <2>5 DEF CountInv, CountsAgree, Connected
<1>10. ASSUME NEW c \in Conns, handle_ws(c) PROVE CountInv'
  <2>1. UNCHANGED <<total_events, batch, feed, stats>> /\ stage[c] = "new"
        /\ stage' = [stage EXCEPT ![c] = "open"] /\ metrics' = [metrics EXCEPT !.ws = @ + 1]
    BY <1>10 DEF handle_ws, core_vars
  <2>2. Connected' = Connected \cup {c} /\ c \notin Connected
    BY <1>1, <2>1 DEF Connected, TypeOK
  <2>3. IsFiniteSet(Connected') /\ Cardinality(Connected') = Cardinality(Connected) + 1
    BY <1>4, <2>2, FS_AddElement
  <2>4. /\ metrics'.events = metrics.events /\ metrics'.exec = metrics.exec
        /\ metrics'.open = metrics.open /\ metrics'.alerts = metrics.alerts
        /\ metrics'.ws = metrics.ws + 1
    <3> DEFINE n == metrics.ws + 1
    <3>1. metrics' = [metrics EXCEPT !.ws = n]
      BY <2>1
    <3> HIDE DEF n
    <3>2. /\ metrics'.events = metrics.events /\ metrics'.exec = metrics.exec
          /\ metrics'.open = metrics.open /\ metrics'.alerts = metrics.alerts
          /\ metrics'.ws = n
      BY <1>2, <3>1 DEF Metrics
    <3> QED BY <3>2 DEF n
  <2>5. Counts
    BY <1>4, <2>1, <2>4
  <2>6. Connects
    BY <1>4, <2>3, <2>4
  <2> QED BY <1>1, <1>5, <2>1, <2>5, <2>6 DEF CountInv, CountsAgree, Connected
<1>11. ASSUME NEW c \in Conns, Recv(c) \/ Sent(c) \/ Leave(c) PROVE CountInv'
  <2>1. UNCHANGED <<total_events, batch, feed, metrics, stats>> /\ stage[c] = "open"
        /\ (stage' = stage \/ stage' = [stage EXCEPT ![c] = "closed"])
    BY <1>11 DEF Recv, Sent, Leave, core_vars
  <2>2. Connected' = Connected
    BY <1>1, <2>1 DEF Connected, TypeOK
  <2>3. Counts /\ Connects
    BY <1>4, <2>1, <2>2
  <2> QED BY <1>1, <1>5, <2>1, <2>3 DEF CountInv, CountsAgree, Connected
<1>12. CASE UNCHANGED vars
  <2>1. UNCHANGED <<total_events, batch, feed, metrics, stats, stage>>
    BY <1>12 DEF vars, core_vars, conn_vars
  <2>2. Counts
    BY <1>4, <2>1
  <2> QED BY <1>1, <1>5, <1>6, <2>1, <2>2 DEF CountInv, CountsAgree, Connected
<1> QED
  BY <1>7, <1>8, <1>9, <1>10, <1>11, <1>12 DEF Next, Forwarder

(* The counters of /metrics are those of the messages in the feed at any   *)
(* moment, and an answer of the REST handlers is of one moment at which    *)
(* the core, the counters and the feed agreed.                             *)
THEOREM CountersAreExact == Spec => []CountsAgree
<1>1. CountInv => CountsAgree
  BY DEF CountInv
<1> QED BY <1>1, CountInit, CountStep, PTL DEF Spec

-----------------------------------------------------------------------------

(***************************************************************************)
(* The raw ring of the C port.                                             *)
(***************************************************************************)

(* Once round at most. *)
LEMMA Wrapped ==
  ASSUME NEW n \in Nat \ {0}, NEW x \in Nat, x < n + n
  PROVE  x % n = IF x < n THEN x ELSE x - n
OBVIOUS

(* The ring r from tail t to head h. *)
WaitingOf(h, t) == (h + Size - t) % Size
KeptOf(r, h, t) == [i \in 1 .. WaitingOf(h, t) |-> r[(t + i - 1) % Size]]

LEMMA RingPlaces ==
  ASSUME NEW h \in Slots, NEW t \in Slots
  PROVE  /\ WaitingOf(h, t) = IF t <= h THEN h - t ELSE h + Size - t
         /\ WaitingOf(h, t) \in 0 .. Size - 1
         /\ NextSlot(h) = IF h = Size - 1 THEN 0 ELSE h + 1
         /\ NextSlot(h) \in Slots
         /\ NextSlot(h) = t <=> WaitingOf(h, t) = Size - 1
<1>1. Size \in Nat \ {0} /\ h \in 0 .. Size - 1 /\ t \in 0 .. Size - 1
  BY RawAssumption DEF Slots
<1>2. WaitingOf(h, t) = IF t <= h THEN h - t ELSE h + Size - t
  <2>1. h + Size - t \in Nat /\ h + Size - t < Size + Size
    BY <1>1
  <2>2. (h + Size - t) % Size = IF h + Size - t < Size THEN h + Size - t ELSE h + Size - t - Size
    BY <1>1, <2>1
  <2> QED BY <1>1, <2>2 DEF WaitingOf
<1>3. NextSlot(h) = IF h = Size - 1 THEN 0 ELSE h + 1
  <2>1. h + 1 \in Nat /\ h + 1 < Size + Size
    BY <1>1
  <2>2. (h + 1) % Size = IF h + 1 < Size THEN h + 1 ELSE h + 1 - Size
    BY <1>1, <2>1
  <2> QED BY <1>1, <2>2 DEF NextSlot
<1>4. WaitingOf(h, t) \in 0 .. Size - 1
  BY <1>1, <1>2
<1>5. NextSlot(h) \in Slots
  BY <1>1, <1>3 DEF Slots
<1>6. NextSlot(h) = t <=> WaitingOf(h, t) = Size - 1
  BY <1>1, <1>2, <1>3
<1> QED BY <1>2, <1>3, <1>4, <1>5, <1>6

SlotOf(t, i) == IF t + i - 1 < Size THEN t + i - 1 ELSE t + i - 1 - Size

LEMMA KeptAt ==
  ASSUME NEW h \in Slots, NEW t \in Slots, NEW r
  PROVE  \A i \in 1 .. WaitingOf(h, t) : KeptOf(r, h, t)[i] = r[SlotOf(t, i)]
<1> SUFFICES ASSUME NEW i \in 1 .. WaitingOf(h, t)
             PROVE  KeptOf(r, h, t)[i] = r[SlotOf(t, i)]
  OBVIOUS
<1>1. Size \in Nat \ {0} /\ t \in 0 .. Size - 1 /\ WaitingOf(h, t) \in 0 .. Size - 1
  BY RawAssumption, RingPlaces DEF Slots
<1>2. t + i - 1 \in Nat /\ t + i - 1 < Size + Size
  BY <1>1
<1>3. (t + i - 1) % Size = SlotOf(t, i)
  BY <1>1, <1>2 DEF SlotOf
<1> QED BY <1>3 DEF KeptOf

(* q is r with x put at h. *)
IsPut(r, q, h, x) == q[h] = x /\ \A k \in Slots : k # h => q[k] = r[k]

(* What is put at the head is kept last. *)
LEMMA KeptPut ==
  ASSUME NEW h \in Slots, NEW t \in Slots, NEW r, NEW q, NEW x, NextSlot(h) # t,
         IsPut(r, q, h, x), NEW n, n = WaitingOf(h, t)
  PROVE  /\ WaitingOf(NextSlot(h), t) = n + 1
         /\ \A i \in 1 .. n : KeptOf(q, NextSlot(h), t)[i] = KeptOf(r, h, t)[i]
         /\ KeptOf(q, NextSlot(h), t)[n + 1] = x
<1>1. Size \in Nat \ {0} /\ h \in 0 .. Size - 1 /\ t \in 0 .. Size - 1
  BY RawAssumption DEF Slots
<1>2. n = (IF t <= h THEN h - t ELSE h + Size - t) /\ n \in 0 .. Size - 2
  BY <1>1, RingPlaces
<1>3. WaitingOf(NextSlot(h), t) = n + 1
  <2> DEFINE k == NextSlot(h)
  <2>1. k = (IF h = Size - 1 THEN 0 ELSE h + 1) /\ k \in Slots /\ k # t
    BY RingPlaces
  <2>2. WaitingOf(k, t) = IF t <= k THEN k - t ELSE k + Size - t
    <3> HIDE DEF k
    <3> QED BY <2>1, RingPlaces
  <2> QED BY <1>1, <1>2, <2>1, <2>2
<1>4. \A i \in 1 .. n + 1 : KeptOf(q, NextSlot(h), t)[i] = q[SlotOf(t, i)]
  <2> DEFINE k == NextSlot(h)
  <2>1. k \in Slots
    BY RingPlaces
  <2> HIDE DEF k
  <2>2. \A i \in 1 .. WaitingOf(k, t) : KeptOf(q, k, t)[i] = q[SlotOf(t, i)]
    BY <2>1, KeptAt
  <2> QED BY <1>3, <2>2 DEF k
<1>5. \A i \in 1 .. n : KeptOf(r, h, t)[i] = r[SlotOf(t, i)]
  BY KeptAt
<1>6. \A i \in 1 .. n : SlotOf(t, i) # h /\ SlotOf(t, i) \in Slots
  BY <1>1, <1>2 DEF Slots, SlotOf
<1>7. SlotOf(t, n + 1) = h
  BY <1>1, <1>2 DEF SlotOf
<1>8. n + 1 \in 1 .. n + 1 /\ \A i \in 1 .. n : i \in 1 .. n + 1
  BY <1>2
<1>10. \A i \in 1 .. n : KeptOf(q, NextSlot(h), t)[i] = KeptOf(r, h, t)[i]
  BY <1>4, <1>5, <1>6, <1>8 DEF IsPut
<1>11. KeptOf(q, NextSlot(h), t)[n + 1] = x
  BY <1>4, <1>7, <1>8 DEF IsPut
<1> QED BY <1>3, <1>10, <1>11

(* What is taken at the tail was kept first. *)
LEMMA KeptTake ==
  ASSUME NEW h \in Slots, NEW t \in Slots, NEW r, h # t
  PROVE  LET n == WaitingOf(h, t)
         IN  /\ n \in Nat \ {0} /\ WaitingOf(h, NextSlot(t)) = n - 1
             /\ KeptOf(r, h, t)[1] = r[t]
             /\ \A i \in 1 .. n - 1 : KeptOf(r, h, NextSlot(t))[i] = KeptOf(r, h, t)[i + 1]
<1> DEFINE n == WaitingOf(h, t)
           k == NextSlot(t)
<1>1. Size \in Nat \ {0} /\ h \in 0 .. Size - 1 /\ t \in 0 .. Size - 1
  BY RawAssumption DEF Slots
<1>2. n = (IF t <= h THEN h - t ELSE h + Size - t) /\ n \in 1 .. Size - 1
  BY <1>1, RingPlaces
<1>3. k = (IF t = Size - 1 THEN 0 ELSE t + 1) /\ k \in Slots
  BY RingPlaces
<1> HIDE DEF k
<1>4. WaitingOf(h, k) = IF k <= h THEN h - k ELSE h + Size - k
  BY <1>3, RingPlaces
<1>5. WaitingOf(h, k) = n - 1
  BY <1>1, <1>2, <1>3, <1>4
<1>6. \A i \in 1 .. n : KeptOf(r, h, t)[i] = r[SlotOf(t, i)]
  BY KeptAt
<1>7. \A i \in 1 .. n - 1 : KeptOf(r, h, k)[i] = r[SlotOf(k, i)]
  BY <1>3, <1>5, KeptAt
<1>8. KeptOf(r, h, t)[1] = r[t]
  <2>1. 1 \in 1 .. n /\ SlotOf(t, 1) = t
    BY <1>1, <1>2 DEF SlotOf
  <2> HIDE DEF n
  <2> QED BY <1>6, <2>1
<1>9. ASSUME NEW i \in 1 .. n - 1
      PROVE  KeptOf(r, h, k)[i] = KeptOf(r, h, t)[i + 1]
  <2>1. i + 1 \in 1 .. n /\ SlotOf(t, i + 1) = SlotOf(k, i)
    BY <1>1, <1>2, <1>3 DEF SlotOf
  <2> HIDE DEF n
  <2> QED BY <1>6, <1>7, <2>1
<1> QED BY <1>2, <1>5, <1>8, <1>9 DEF k

-----------------------------------------------------------------------------

(* The entries of a perf ring: they speak for records of c without a gap,  *)
(* the last for those up to top.                                           *)
Strung(s, c, top) ==
  /\ \A i \in DOMAIN s :
       /\ s[i].cpu = c
       /\ 1 <= s[i].first /\ s[i].first <= s[i].last /\ s[i].last <= top
       /\ s[i].type = "Event" => s[i].first = s[i].last
  /\ \A i, j \in DOMAIN s : i < j => s[i].last < s[j].first
  /\ \A i \in DOMAIN s : IF i = Len(s) THEN s[i].last = top ELSE s[i + 1].first = s[i].last + 1

(* The last record before the entries from place lo on. *)
FrontOf(s, lo, top) == IF lo \in DOMAIN s THEN s[lo].first - 1 ELSE top

LEMMA EntryNumbers ==
  ASSUME NEW s \in Seq(Entry)
  PROVE  /\ DOMAIN s = 1 .. Len(s) /\ Len(s) \in Nat
         /\ \A i \in DOMAIN s : s[i] \in Entry /\ s[i].first \in Nat /\ s[i].last \in Nat
                                /\ s[i].cpu \in Cpus
                                /\ s[i].type \in {"Event", "Lost"}
<1>1. DOMAIN s = 1 .. Len(s) /\ Len(s) \in Nat /\ \A i \in DOMAIN s : s[i] \in Entry
  OBVIOUS
<1> QED BY <1>1 DEF Entry

LEMMA StrungAppend ==
  ASSUME NEW c, NEW s \in Seq(Entry), NEW top \in Nat, Strung(s, c, top),
         NEW e \in Entry, e.cpu = c, e.first = top + 1, e.first <= e.last,
         e.type = "Event" => e.first = e.last
  PROVE  /\ Append(s, e) \in Seq(Entry) /\ Len(Append(s, e)) = Len(s) + 1
         /\ Strung(Append(s, e), c, e.last)
         /\ \A lo \in 1 .. Len(s) + 1 : FrontOf(Append(s, e), lo, e.last) = FrontOf(s, lo, top)
<1> DEFINE q == Append(s, e)
<1>1. /\ q \in Seq(Entry) /\ Len(q) = Len(s) + 1 /\ DOMAIN q = 1 .. Len(s) + 1
      /\ \A i \in 1 .. Len(s) : q[i] = s[i]
      /\ q[Len(s) + 1] = e
  OBVIOUS
<1>2. /\ DOMAIN s = 1 .. Len(s) /\ Len(s) \in Nat
      /\ \A i \in 1 .. Len(s) : s[i].first \in Nat /\ s[i].last \in Nat
      /\ e.first \in Nat /\ e.last \in Nat
  BY EntryNumbers DEF Entry
<1> HIDE DEF q
<1>3. ASSUME NEW i \in DOMAIN q
      PROVE  /\ q[i].cpu = c
             /\ 1 <= q[i].first /\ q[i].first <= q[i].last /\ q[i].last <= e.last
             /\ q[i].type = "Event" => q[i].first = q[i].last
  <2>1. CASE i \in 1 .. Len(s)
    <3>1. q[i] = s[i] /\ i \in DOMAIN s /\ s[i].last <= top
      BY <1>1, <1>2, <2>1 DEF Strung
    <3> QED BY <1>2, <3>1 DEF Strung
  <2>2. CASE i = Len(s) + 1
    BY <1>1, <1>2, <2>2
  <2> QED BY <1>1, <2>1, <2>2
<1>4. ASSUME NEW i \in DOMAIN q, NEW j \in DOMAIN q, i < j
      PROVE  q[i].last < q[j].first
  <2>1. i \in 1 .. Len(s) /\ q[i] = s[i] /\ s[i].last <= top
    BY <1>1, <1>2, <1>4 DEF Strung
  <2>2. CASE j \in 1 .. Len(s)
    BY <1>1, <1>2, <1>4, <2>1, <2>2 DEF Strung
  <2>3. CASE j = Len(s) + 1
    BY <1>1, <1>2, <2>1, <2>3
  <2> QED BY <1>1, <2>2, <2>3
<1>5. ASSUME NEW i \in DOMAIN q
      PROVE  IF i = Len(q) THEN q[i].last = e.last ELSE q[i + 1].first = q[i].last + 1
  <2>1. CASE i = Len(s) + 1
    BY <1>1, <2>1
  <2>2. CASE i = Len(s)
    <3>1. i \in 1 .. Len(s)
      <4>1. i \in 1 .. Len(s) + 1
        BY <1>1
      <4> QED BY <1>2, <2>2, <4>1
    <3>2. i \in DOMAIN s /\ q[i] = s[i] /\ i + 1 = Len(s) + 1 /\ i # Len(q)
      <4>1. i \in DOMAIN s /\ q[i] = s[i]
        BY <1>1, <1>2, <3>1
      <4>2. i # Len(s) + 1
        <5>1. Len(s) \in Nat
          BY <1>2
        <5> QED BY <2>2, <5>1
      <4>3. Len(q) = Len(s) + 1
        BY <1>1
      <4> QED BY <2>2, <4>1, <4>2, <4>3
    <3>3. s[i].last = top
      BY <2>2, <3>2 DEF Strung
    <3> QED BY <1>1, <3>2, <3>3
  <2>3. CASE i \in 1 .. Len(s) /\ i # Len(s)
    <3>1. i + 1 \in 1 .. Len(s) /\ i \in DOMAIN s /\ i # Len(q)
      BY <1>1, <1>2, <2>3
    <3>2. s[i + 1].first = s[i].last + 1
      BY <2>3, <3>1 DEF Strung
    <3> QED BY <1>1, <2>3, <3>1, <3>2
  <2> QED BY <1>1, <1>2, <2>1, <2>2, <2>3
<1>6. Strung(q, c, e.last)
  BY <1>3, <1>4, <1>5 DEF Strung
<1>7. ASSUME NEW lo \in 1 .. Len(s) + 1
      PROVE  FrontOf(q, lo, e.last) = FrontOf(s, lo, top)
  <2>1. CASE lo \in DOMAIN s
    BY <1>1, <1>2, <2>1 DEF FrontOf
  <2>2. CASE lo = Len(s) + 1
    <3>1. lo \in DOMAIN q /\ lo \notin DOMAIN s /\ e.first - 1 = top
      BY <1>1, <1>2, <2>2
    <3> QED BY <1>1, <2>2, <3>1 DEF FrontOf
  <2> QED BY <1>2, <2>1, <2>2
<1> QED BY <1>1, <1>6, <1>7 DEF q

LEMMA StrungRest ==
  ASSUME NEW c, NEW s \in Seq(Entry), NEW top \in Nat, Strung(s, c, top), NEW k \in 0 .. Len(s)
  PROVE  LET q == SubSeq(s, k + 1, Len(s))
         IN  /\ q \in Seq(Entry) /\ Len(q) = Len(s) - k
             /\ Strung(q, c, top)
             /\ FrontOf(q, 1, top) = FrontOf(s, k + 1, top)
<1> DEFINE q == SubSeq(s, k + 1, Len(s))
<1>1. Len(s) \in Nat /\ DOMAIN s = 1 .. Len(s)
  OBVIOUS
<1>2. /\ q \in Seq(Entry) /\ Len(q) = Len(s) - k /\ DOMAIN q = 1 .. Len(s) - k
      /\ \A i \in 1 .. Len(s) - k : q[i] = s[k + i]
  <2>1. \A i \in k + 1 .. Len(s) : s[i] \in Entry
    BY <1>1
  <2>2. /\ q \in Seq(Entry)
        /\ Len(q) = IF k + 1 <= Len(s) THEN Len(s) - (k + 1) + 1 ELSE 0
        /\ \A i \in 1 .. Len(s) - (k + 1) + 1 : q[i] = s[k + 1 + i - 1]
    <3>1. k + 1 \in Int /\ Len(s) \in Int
      BY <1>1
    <3> QED BY <2>1, <3>1, SubSeqProperties
  <2>3. Len(s) - (k + 1) + 1 = Len(s) - k /\ \A i \in 1 .. Len(s) - k : k + 1 + i - 1 = k + i
    BY <1>1
  <2> HIDE DEF q
  <2>4. Len(q) = Len(s) - k
    <3>1. Len(q) = IF k + 1 <= Len(s) THEN Len(s) - (k + 1) + 1 ELSE 0
      BY <2>2
    <3>2. k \in Nat /\ k <= Len(s)
      BY <1>1
    <3>3. CASE k + 1 <= Len(s)
      <4>1. Len(q) = Len(s) - (k + 1) + 1
        BY <3>1, <3>3
      <4> QED BY <1>1, <3>2, <4>1
    <3>4. CASE ~ k + 1 <= Len(s)
      <4>1. Len(q) = 0
        BY <3>1, <3>4
      <4>2. k = Len(s)
        <5>1. Len(s) \in Nat
          BY <1>1
        <5> QED BY <3>2, <3>4, <5>1
      <4> QED BY <1>1, <4>1, <4>2
    <3> QED BY <3>3, <3>4
  <2> QED BY <2>2, <2>3, <2>4, LenProperties
<1>3. \A i \in 1 .. Len(s) - k : k + i \in DOMAIN s
  BY <1>1
<1>4. \A i \in 1 .. Len(s) : s[i].first \in Nat /\ s[i].last \in Nat
  BY EntryNumbers
<1> HIDE DEF q
<1>5. \A i \in DOMAIN q :
        /\ q[i].cpu = c
        /\ 1 <= q[i].first /\ q[i].first <= q[i].last /\ q[i].last <= top
        /\ q[i].type = "Event" => q[i].first = q[i].last
  <2> SUFFICES ASSUME NEW i \in DOMAIN q
               PROVE  /\ q[i].cpu = c
                      /\ 1 <= q[i].first /\ q[i].first <= q[i].last /\ q[i].last <= top
                      /\ q[i].type = "Event" => q[i].first = q[i].last
    OBVIOUS
  <2>1. k + i \in DOMAIN s /\ q[i] = s[k + i]
    BY <1>2, <1>3
  <2> QED BY <2>1 DEF Strung
<1>6. ASSUME NEW i \in DOMAIN q, NEW j \in DOMAIN q, i < j
      PROVE  q[i].last < q[j].first
  <2>1. i \in 1 .. Len(s) - k /\ j \in 1 .. Len(s) - k
    BY <1>2
  <2>2. k + i < k + j
    BY <1>1, <1>6, <2>1
  <2> QED BY <1>2, <1>3, <2>1, <2>2 DEF Strung
<1>7. ASSUME NEW i \in DOMAIN q
      PROVE  IF i = Len(q) THEN q[i].last = top ELSE q[i + 1].first = q[i].last + 1
  <2>1. k + i \in DOMAIN s /\ q[i] = s[k + i] /\ (i = Len(q) <=> k + i = Len(s))
    BY <1>1, <1>2, <1>3
  <2>2. i # Len(q) => q[i + 1] = s[(k + i) + 1]
    <3> SUFFICES ASSUME i # Len(q) PROVE q[i + 1] = s[(k + i) + 1]
      OBVIOUS
    <3>1. i \in 1 .. Len(s) - k
      BY <1>2
    <3>2. i + 1 \in 1 .. Len(s) - k /\ k + (i + 1) = (k + i) + 1
      BY <1>1, <1>2, <3>1
    <3> QED BY <1>2, <3>2
  <2> QED BY <2>1, <2>2 DEF Strung
<1>8. Strung(q, c, top)
  BY <1>5, <1>6, <1>7 DEF Strung
<1>9. FrontOf(q, 1, top) = FrontOf(s, k + 1, top)
  BY <1>1, <1>2 DEF FrontOf
<1> QED BY <1>2, <1>8, <1>9 DEF q

(* Where an entry is read, the front moves over what it speaks for. *)
LEMMA StrungRead ==
  ASSUME NEW c, NEW s \in Seq(Entry), NEW top \in Nat, Strung(s, c, top), NEW lo \in DOMAIN s
  PROVE  /\ FrontOf(s, lo, top) \in Nat
         /\ s[lo].first = FrontOf(s, lo, top) + 1 /\ s[lo].first <= s[lo].last
         /\ FrontOf(s, lo + 1, top) = s[lo].last
<1>1. /\ DOMAIN s = 1 .. Len(s) /\ Len(s) \in Nat
      /\ s[lo].first \in Nat /\ s[lo].last \in Nat
      /\ 1 <= s[lo].first /\ s[lo].first <= s[lo].last
  BY EntryNumbers DEF Strung
<1>2. CASE lo = Len(s)
  <2>1. lo + 1 \notin DOMAIN s /\ s[lo].last = top
    BY <1>1, <1>2 DEF Strung
  <2> QED BY <1>1, <2>1 DEF FrontOf
<1>3. CASE lo # Len(s)
  <2>1. lo + 1 \in DOMAIN s /\ s[lo + 1].first = s[lo].last + 1
    BY <1>1, <1>3 DEF Strung
  <2> QED BY <1>1, <2>1 DEF FrontOf
<1> QED BY <1>2, <1>3

LEMMA FrontType ==
  ASSUME NEW c, NEW s \in Seq(Entry), NEW top \in Nat, Strung(s, c, top), NEW lo \in Nat
  PROVE  FrontOf(s, lo, top) \in 0 .. top
<1>1. CASE lo \in DOMAIN s
  <2>1. /\ s[lo].first \in Nat /\ s[lo].last \in Nat
        /\ 1 <= s[lo].first /\ s[lo].first <= s[lo].last /\ s[lo].last <= top
    BY <1>1, EntryNumbers DEF Strung
  <2> QED BY <1>1, <2>1 DEF FrontOf
<1>2. CASE lo \notin DOMAIN s
  BY <1>2 DEF FrontOf
<1> QED BY <1>1, <1>2

(* From place lo on, each record above t up to top has one entry. *)
Covered(s, lo, t, top) ==
  /\ \A n \in t + 1 .. top : \E i \in lo .. Len(s) : n \in s[i].first .. s[i].last
  /\ \A i \in lo .. Len(s), n \in Nat : n \in s[i].first .. s[i].last => t < n /\ n <= top
  /\ \A i, j \in lo .. Len(s), n \in Nat :
       n \in s[i].first .. s[i].last /\ n \in s[j].first .. s[j].last => i = j

LEMMA StrungCovers ==
  ASSUME NEW c, NEW s \in Seq(Entry), NEW top \in Nat, Strung(s, c, top), NEW lo \in Nat \ {0}
  PROVE  Covered(s, lo, FrontOf(s, lo, top), top)
<1>1. /\ DOMAIN s = 1 .. Len(s) /\ Len(s) \in Nat
      /\ \A i \in 1 .. Len(s) : s[i].first \in Nat /\ s[i].last \in Nat
  BY EntryNumbers
<1>2. ASSUME NEW n \in FrontOf(s, lo, top) + 1 .. top
      PROVE  \E i \in lo .. Len(s) : n \in s[i].first .. s[i].last
  <2>1. lo \in DOMAIN s /\ s[lo].first <= n /\ n \in Nat
    <3>1. FrontOf(s, lo, top) \in Nat /\ FrontOf(s, lo, top) < top
      BY FrontType
    <3>2. lo \in DOMAIN s
      BY <3>1 DEF FrontOf
    <3>3. FrontOf(s, lo, top) = s[lo].first - 1
      BY <3>2 DEF FrontOf
    <3> QED BY <1>1, <3>1, <3>2, <3>3
  <2> DEFINE T == {i \in lo .. Len(s) : n <= s[i].last}
  <2>2. T \in SUBSET Nat
    BY <1>1
  <2>3. Len(s) \in T
    <3>1. Len(s) \in DOMAIN s /\ Len(s) \in lo .. Len(s)
      BY <1>1, <2>1
    <3>2. s[Len(s)].last = top
      BY <3>1 DEF Strung
    <3> QED BY <3>1, <3>2
  <2>4. PICK i \in T : \A j \in T : i <= j
    <3> HIDE DEF T
    <3> QED BY <2>2, <2>3, LeastNatural
  <2>5. i \in lo .. Len(s) /\ n <= s[i].last /\ i \in DOMAIN s
    BY <1>1, <2>4
  <2>6. s[i].first <= n
    <3>1. CASE i = lo
      BY <2>1, <3>1
    <3>2. CASE i # lo
      <4>1. i - 1 \in lo .. Len(s) /\ i - 1 \in DOMAIN s /\ ~ i <= i - 1 /\ i - 1 # Len(s)
            /\ (i - 1) + 1 = i
        BY <1>1, <2>5, <3>2
      <4>2. ~ n <= s[i - 1].last
        BY <2>4, <4>1
      <4>3. s[i].first = s[i - 1].last + 1
        BY <4>1 DEF Strung
      <4> QED BY <1>1, <2>1, <2>5, <4>1, <4>2, <4>3
    <3> QED BY <3>1, <3>2
  <2> QED BY <1>1, <2>1, <2>5, <2>6
<1>3. ASSUME NEW i \in lo .. Len(s), NEW n \in Nat, n \in s[i].first .. s[i].last
      PROVE  FrontOf(s, lo, top) < n /\ n <= top
  <2>1. i \in DOMAIN s /\ lo \in DOMAIN s /\ (lo = i \/ lo < i)
    BY <1>1
  <2>2. s[lo].first <= s[i].first
    BY <1>1, <2>1 DEF Strung
  <2>3. s[i].last <= top
    BY <2>1 DEF Strung
  <2>4. FrontOf(s, lo, top) = s[lo].first - 1
    BY <2>1 DEF FrontOf
  <2> QED BY <1>1, <1>3, <2>1, <2>2, <2>3, <2>4
<1>4. ASSUME NEW i \in lo .. Len(s), NEW j \in lo .. Len(s), NEW n \in Nat,
             n \in s[i].first .. s[i].last, n \in s[j].first .. s[j].last
      PROVE  i = j
  <2>1. i \in DOMAIN s /\ j \in DOMAIN s
    BY <1>1
  <2>2. i \in Nat /\ j \in Nat /\ s[i].last \in Nat /\ s[j].last \in Nat
    BY <1>1, <2>1
  <2>3. n <= s[i].last /\ n <= s[j].last /\ s[i].first <= n /\ s[j].first <= n
        /\ s[i].first \in Nat /\ s[j].first \in Nat
    BY <1>1, <1>4, <2>1
  <2>4. (i < j => s[i].last < s[j].first) /\ (j < i => s[j].last < s[i].first)
    BY <2>1 DEF Strung
  <2>5. ~ s[i].last < s[j].first /\ ~ s[j].last < s[i].first
    BY <2>2, <2>3
  <2> QED BY <2>2, <2>4, <2>5
<1> QED BY <1>2, <1>3, <1>4 DEF Covered

-----------------------------------------------------------------------------

(* The records up to t, each in one of four sets. *)
Split(had, held, gone, lost, t) ==
  /\ had \cup held \cup gone \cup lost = 1 .. t
  /\ had \cap held = {} /\ had \cap gone = {} /\ had \cap lost = {}
  /\ held \cap gone = {} /\ held \cap lost = {} /\ gone \cap lost = {}

LEMMA SplitGrows ==
  ASSUME NEW A, NEW B, NEW C, NEW D, NEW t \in Nat, NEW m \in Nat, t <= m, Split(A, B, C, D, t)
  PROVE  /\ Split(A, B \cup (t + 1 .. m), C, D, m)
         /\ Split(A, B, C \cup (t + 1 .. m), D, m)
         /\ Split(A, B, C, D \cup (t + 1 .. m), m)
<1>1. (1 .. t) \cup (t + 1 .. m) = 1 .. m
  OBVIOUS
<1>2. (1 .. t) \cap (t + 1 .. m) = {}
  OBVIOUS
<1> DEFINE E == t + 1 .. m
           F == 1 .. t
<1>3. /\ A \cup B \cup C \cup D = F /\ F \cup E = 1 .. m /\ F \cap E = {}
      /\ A \cap B = {} /\ A \cap C = {} /\ A \cap D = {}
      /\ B \cap C = {} /\ B \cap D = {} /\ C \cap D = {}
  BY <1>1, <1>2 DEF Split
<1> HIDE DEF E, F
<1>4. Split(A, B \cup E, C, D, m) /\ Split(A, B, C \cup E, D, m) /\ Split(A, B, C, D \cup E, m)
  BY <1>3 DEF Split
<1> QED BY <1>4 DEF E

LEMMA SplitMoves ==
  ASSUME NEW A, NEW B, NEW C, NEW D, NEW t, Split(A, B, C, D, t), NEW n \in B
  PROVE  Split(A \cup {n}, B \ {n}, C, D, t)
BY DEF Split

-----------------------------------------------------------------------------

Top(c)     == produced[c] - missed[c]
NextOf(c)  == IF c = cpu THEN read + 1 ELSE 1
Through(c) == FrontOf(rings[c], NextOf(c), Top(c))   \* handled so far

Had(c)  == {copied[c][j] : j \in DOMAIN copied[c]}
Held(c) == {Kept[i].first : i \in {j \in DOMAIN Kept : Kept[j].cpu = c}}
Gone(c) == {d.no : d \in {e \in dropped : e.cpu = c}}

RawTypeOK ==
  /\ produced \in [Cpus -> Nat] /\ missed \in [Cpus -> Nat]
  /\ rings \in [Cpus -> Seq(Entry)]
  /\ DOMAIN ring = Slots /\ head \in Slots /\ tail \in Slots
  /\ total_lost \in Nat
  /\ at \in {"idle", "poll", "copy"}
  /\ ready \subseteq Cpus /\ cpu \in Cpus \cup {0}
  /\ read \in Nat /\ upto \in Nat /\ room \in Nat
  /\ copied \in [Cpus -> Seq(Nat)]
  /\ told \in [Cpus -> SUBSET Nat]
  /\ dropped \subseteq [cpu : Cpus, no : Nat, waiting : Nat]

WalkOK == cpu # 0 => at = "poll" /\ read <= upto /\ upto <= Len(rings[cpu])

StrungOK == \A c \in Cpus : missed[c] <= produced[c] /\ Strung(rings[c], c, Top(c))

SplitOK == \A c \in Cpus : Split(Had(c), Held(c), Gone(c), told[c], Through(c))

KeptOK == \A i \in DOMAIN Kept : Kept[i].cpu \in Cpus /\ Kept[i].first \in Nat

OrderOK ==
  /\ \A c \in Cpus : \A i, j \in DOMAIN copied[c] : i < j => copied[c][i] < copied[c][j]
  /\ \A i, j \in DOMAIN Kept : i < j /\ Kept[i].cpu = Kept[j].cpu => Kept[i].first < Kept[j].first
  /\ \A i \in DOMAIN Kept : LET c == Kept[i].cpu
                            IN  \A j \in DOMAIN copied[c] : copied[c][j] < Kept[i].first

FullOK == \A d \in dropped : d.waiting = Size - 1

LossOK == total_lost = SumFunction([c \in Cpus |-> Cardinality(told[c])])

(* What a perf ring holds follows what was handled without a gap, and what *)
(* was handled is in one place.                                            *)
RawInv ==
  /\ RawTypeOK /\ WalkOK /\ StrungOK /\ SplitOK /\ KeptOK /\ OrderOK /\ FullOK /\ LossOK

LEMMA RawInitInv == RawInit => RawInv
<1> SUFFICES ASSUME RawInit PROVE RawInv
  OBVIOUS
<1> USE DEF RawInit, PerfInit
<1>1. 0 \in Slots /\ Size \in Nat \ {0}
  BY RawAssumption DEF Slots
<1>2. RawTypeOK
  BY <1>1 DEF RawTypeOK
<1>3. Kept = KeptOf(ring, 0, 0) /\ WaitingOf(0, 0) = 0
  <2>1. WaitingOf(0, 0) = 0
    BY <1>1, RingPlaces
  <2> QED BY <2>1 DEF Kept, Waiting, KeptOf, WaitingOf
<1>4. DOMAIN Kept = {}
  <2>1. DOMAIN Kept = 1 .. 0
    BY <1>3 DEF KeptOf
  <2> QED BY <2>1
<1>5. \A c \in Cpus : /\ Had(c) = {} /\ Held(c) = {} /\ Gone(c) = {} /\ told[c] = {}
                      /\ Top(c) = 0 /\ Through(c) = 0
  BY <1>4 DEF Had, Held, Gone, Top, Through, FrontOf
<1>6. SplitOK
  <2>1. 1 .. 0 = {}
    OBVIOUS
  <2> QED BY <1>5, <2>1 DEF SplitOK, Split
<1>7. StrungOK
  BY DEF StrungOK, Strung, Top
<1>8. WalkOK /\ KeptOK /\ OrderOK /\ FullOK
  BY <1>4 DEF WalkOK, KeptOK, OrderOK, FullOK
<1>9. LossOK
  <2>1. IsFiniteSet(Cpus)
    BY CpuAssumption, FS_Interval DEF Cpus
  <2>2. [c \in Cpus |-> Cardinality(told[c])] = [c \in Cpus |-> 0]
    BY <1>5, FS_EmptySet
  <2> QED BY <2>1, <2>2, SumZero DEF LossOK
<1> QED BY <1>2, <1>6, <1>7, <1>8, <1>9 DEF RawInv

(* What the raw ring and the histories say stays true while they and the   *)
(* fronts stay. *)
LEMMA SameSplit ==
  ASSUME RawInv, RawTypeOK', WalkOK', StrungOK',
         UNCHANGED <<raw, total_lost, copied, told, dropped>>,
         \A c \in Cpus : Through(c)' = Through(c)
  PROVE  RawInv'
<1>1. Kept' = Kept /\ ring' = ring /\ head' = head /\ tail' = tail
  BY DEF raw, Kept, Waiting
<1>2. \A c \in Cpus : Had(c)' = Had(c) /\ Held(c)' = Held(c) /\ Gone(c)' = Gone(c)
  BY <1>1 DEF Had, Held, Gone
<1>3. SplitOK'
  BY <1>2 DEF RawInv, SplitOK
<1>4. KeptOK' /\ OrderOK' /\ FullOK' /\ LossOK'
  BY <1>1 DEF RawInv, KeptOK, OrderOK, FullOK, LossOK
<1> QED BY <1>3, <1>4 DEF RawInv

(* While no perf ring changes, they stay strung. *)
LEMMA PerfStands ==
  ASSUME RawInv, UNCHANGED perf_vars
  PROVE  StrungOK' /\ \A c \in Cpus : Top(c)' = Top(c) /\ rings'[c] = rings[c]
BY DEF RawInv, StrungOK, perf_vars, Top

(* A record put in the ring, or counted as missed: no front moves. *)
LEMMA RawEmitInv ==
  ASSUME RawInv, NEW c \in Cpus, NEW b \in Bodies, RawEmit(c, b)
  PROVE  RawInv'
<1> DEFINE s   == rings[c]
           top == Top(c)
           q   == s \o Entries(c, b)
           new == produced[c] + 1
<1>1. /\ s \in Seq(Entry) /\ produced[c] \in Nat /\ missed[c] \in Nat
      /\ missed[c] <= produced[c] /\ Strung(s, c, top)
      /\ top \in Nat /\ top + missed[c] = produced[c] /\ new \in Nat
  BY DEF RawInv, RawTypeOK, StrungOK, Top
<1>2. /\ produced' = [produced EXCEPT ![c] = @ + 1]
      /\ rings' = IF Len(q) <= RingCap THEN [rings EXCEPT ![c] = q] ELSE rings
      /\ missed' = [missed EXCEPT ![c] = IF Len(q) <= RingCap THEN 0 ELSE @ + 1]
      /\ UNCHANGED <<raw, total_lost, at, walk, room, copied, told, dropped>>
  BY DEF RawEmit, Put
<1>3. /\ q \in Seq(Entry) /\ Len(q) \in Nat /\ Len(q) >= Len(s) /\ Strung(q, c, new)
      /\ \A lo \in 1 .. Len(s) + 1 : FrontOf(q, lo, new) = FrontOf(s, lo, top)
  <2> DEFINE e == Sample(c, new, b)
             l == Lost(c, top + 1, produced[c])
  <2>1. /\ e \in Entry /\ e.cpu = c /\ e.first = new /\ e.last = new
    BY <1>1 DEF Sample, Entry
  <2>2. /\ l \in Entry /\ l.cpu = c /\ l.first = top + 1 /\ l.last = produced[c] /\ l.type = "Lost"
    BY <1>1 DEF Lost, Entry
  <2>3. CASE missed[c] > 0
    <3> DEFINE m == Append(s, l)
    <3>1. q = Append(m, e)
      <4>1. Entries(c, b) = <<l, e>>
        BY <2>3 DEF Entries, Top
      <4> HIDE DEF e, l
      <4>2. s \o <<l, e>> = Append(Append(s, l), e)
        <5> HIDE DEF s
        <5> QED BY <1>1, <2>1, <2>2, ConcatTwo
      <4> QED BY <4>1, <4>2
    <3>2. /\ m \in Seq(Entry) /\ Len(m) = Len(s) + 1 /\ Strung(m, c, produced[c])
          /\ \A lo \in 1 .. Len(s) + 1 : FrontOf(m, lo, produced[c]) = FrontOf(s, lo, top)
      <4>1. l.first <= l.last
        BY <1>1, <2>2, <2>3
      <4> HIDE DEF l, top, s
      <4> QED BY <1>1, <2>2, <4>1, StrungAppend
    <3>3. /\ q \in Seq(Entry) /\ Len(q) = Len(m) + 1 /\ Strung(q, c, new)
          /\ \A lo \in 1 .. Len(m) + 1 : FrontOf(q, lo, new) = FrontOf(m, lo, produced[c])
      <4>1. e.first = produced[c] + 1 /\ e.first <= e.last
        BY <1>1, <2>1
      <4> HIDE DEF e, l, s, top, m, q, new
      <4> QED BY <1>1, <2>1, <3>1, <3>2, <4>1, StrungAppend
    <3>4. Len(s) \in Nat
      BY <1>1
    <3>5. \A lo \in 1 .. Len(s) + 1 : lo \in 1 .. Len(m) + 1
      BY <3>2, <3>4
    <3> HIDE DEF q, m, s, top, new
    <3>6. Len(q) \in Nat /\ Len(q) >= Len(s)
      BY <3>2, <3>3, <3>4
    <3> QED BY <3>2, <3>3, <3>5, <3>6
  <2>4. CASE ~ missed[c] > 0
    <3>1. q = Append(s, e)
      <4>1. Entries(c, b) = <<e>>
        BY <2>4 DEF Entries
      <4> HIDE DEF e
      <4>2. s \o <<e>> = Append(s, e)
        BY <1>1, <2>1
      <4> QED BY <4>1, <4>2
    <3>2. /\ q \in Seq(Entry) /\ Len(q) = Len(s) + 1 /\ Strung(q, c, new)
          /\ \A lo \in 1 .. Len(s) + 1 : FrontOf(q, lo, new) = FrontOf(s, lo, top)
      <4>1. e.first = top + 1 /\ e.first <= e.last
        BY <1>1, <2>1, <2>4
      <4> HIDE DEF e, q, s, top
      <4> QED BY <1>1, <2>1, <3>1, <4>1, StrungAppend
    <3>3. Len(s) \in Nat
      BY <1>1
    <3> HIDE DEF q, s, top, new
    <3>4. Len(q) \in Nat /\ Len(q) >= Len(s)
      BY <3>2, <3>3
    <3> QED BY <3>2, <3>4
  <2> QED BY <2>3, <2>4
<1>4. /\ UNCHANGED <<cpu, read, upto, at, ready>>
      /\ \A d \in Cpus \ {c} : /\ produced'[d] = produced[d] /\ missed'[d] = missed[d]
                               /\ rings'[d] = rings[d]
  BY <1>2 DEF walk, RawInv, RawTypeOK
<1>5. NextOf(c) \in 1 .. Len(s) + 1
  <2>1. Len(s) \in Nat
    BY <1>1
  <2> QED BY <2>1 DEF RawInv, RawTypeOK, WalkOK, NextOf, Cpus
<1>6. /\ missed'[c] <= produced'[c] /\ Strung(rings'[c], c, Top(c)')
      /\ Through(c)' = Through(c) /\ rings'[c] \in Seq(Entry) /\ Len(rings'[c]) >= Len(rings[c])
      /\ missed'[c] \in Nat /\ produced'[c] \in Nat
  <2>1. produced'[c] = new
    BY <1>2 DEF RawInv, RawTypeOK
  <2>2. CASE Len(q) <= RingCap
    <3>1. rings'[c] = q /\ missed'[c] = 0
      BY <1>2, <2>2 DEF RawInv, RawTypeOK
    <3>2. Top(c)' = new
      BY <1>1, <2>1, <3>1 DEF Top
    <3> HIDE DEF q, new
    <3>3. Through(c)' = FrontOf(q, NextOf(c), new)
      BY <1>4, <3>1, <3>2 DEF Through, NextOf
    <3>4. Through(c)' = Through(c)
      BY <1>3, <1>5, <3>3 DEF Through, new
    <3>5. Strung(rings'[c], c, Top(c)') /\ rings'[c] \in Seq(Entry) /\ Len(rings'[c]) >= Len(rings[c])
      BY <1>3, <3>1, <3>2 DEF new
    <3>6. missed'[c] <= produced'[c] /\ missed'[c] \in Nat /\ produced'[c] \in Nat
      BY <1>1, <2>1, <3>1 DEF new
    <3> QED BY <3>4, <3>5, <3>6
  <2>3. CASE ~ Len(q) <= RingCap
    <3>1. rings'[c] = s /\ missed'[c] = missed[c] + 1
      BY <1>2, <2>3 DEF RawInv, RawTypeOK
    <3>2. Top(c)' = top
      BY <1>1, <2>1, <3>1 DEF Top
    <3>3. Len(s) \in Nat
      BY <1>1
    <3>4. Through(c)' = Through(c)
      BY <1>4, <3>1, <3>2 DEF Through, NextOf
    <3> QED BY <1>1, <2>1, <3>1, <3>2, <3>3, <3>4
  <2> QED BY <2>2, <2>3
<1>7. \A d \in Cpus \ {c} : Top(d)' = Top(d) /\ Through(d)' = Through(d)
  BY <1>4 DEF Top, Through, NextOf
<1>8. StrungOK'
  BY <1>4, <1>6, <1>7 DEF RawInv, StrungOK
<1>9. RawTypeOK'
  <2>1. /\ produced' \in [Cpus -> Nat] /\ missed' \in [Cpus -> Nat] /\ rings' \in [Cpus -> Seq(Entry)]
    BY <1>2, <1>4, <1>6 DEF RawInv, RawTypeOK
  <2> QED BY <1>2, <2>1 DEF RawInv, RawTypeOK, raw, walk
<1>10. WalkOK'
  <2> SUFFICES ASSUME cpu # 0 PROVE (at = "poll" /\ read <= upto /\ upto <= Len(rings[cpu]))'
    BY <1>4 DEF WalkOK
  <2>1. /\ cpu \in Cpus /\ at = "poll" /\ read <= upto /\ upto <= Len(rings[cpu])
        /\ upto \in Nat /\ rings[cpu] \in Seq(Entry)
    BY DEF RawInv, RawTypeOK, WalkOK
  <2>2. rings'[cpu] \in Seq(Entry) /\ Len(rings'[cpu]) >= Len(rings[cpu])
    BY <1>4, <1>6, <2>1
  <2>3. Len(rings'[cpu]) \in Nat /\ Len(rings[cpu]) \in Nat
    BY <2>1, <2>2
  <2> QED BY <1>4, <2>1, <2>2, <2>3
<1> QED BY <1>2, <1>6, <1>7, <1>8, <1>9, <1>10, SameSplit

(* Beginning and ending a poll or a ring moves no front. *)
LEMMA WalkInv ==
  ASSUME RawInv, BeginPoll \/ BeginRing \/ EndRing \/ EndCallbacks \/ EndPoll
  PROVE  RawInv'
<1>1. ASSUME BeginPoll \/ EndCallbacks \/ EndPoll PROVE RawInv'
  <2>1. /\ UNCHANGED <<perf_vars, raw, total_lost, cpu, read, upto, copied, told, dropped>>
        /\ ready' \subseteq Cpus /\ room' \in Nat /\ at' \in {"idle", "poll", "copy"}
    <3>1. ready \subseteq Cpus /\ room \in Nat /\ \A n \in Rooms : n \in Nat
      BY RawAssumption DEF RawInv, RawTypeOK
    <3>2. CASE BeginPoll
      BY <3>1, <3>2 DEF BeginPoll
    <3>3. CASE EndCallbacks
      BY <3>1, <3>3 DEF EndCallbacks, walk
    <3>4. CASE EndPoll
      BY <3>1, <3>4 DEF EndPoll, walk
    <3> QED BY <1>1, <3>2, <3>3, <3>4
  <2>2. cpu # 0 => at' = at
    BY <1>1 DEF BeginPoll, EndCallbacks, EndPoll, RawInv, WalkOK
  <2>3. WalkOK'
    BY <2>1, <2>2 DEF RawInv, WalkOK, perf_vars
  <2>4. RawTypeOK'
    BY <2>1 DEF RawInv, RawTypeOK, perf_vars, raw
  <2>5. StrungOK' /\ \A c \in Cpus : Top(c)' = Top(c) /\ rings'[c] = rings[c]
    BY <2>1, PerfStands
  <2>6. \A c \in Cpus : Through(c)' = Through(c)
    BY <2>1, <2>5 DEF Through, NextOf
  <2> QED BY <2>1, <2>3, <2>4, <2>5, <2>6, SameSplit
<1>2. ASSUME BeginRing PROVE RawInv'
  <2>1. /\ UNCHANGED <<perf_vars, raw, total_lost, at, room, copied, told, dropped>>
        /\ at = "poll" /\ cpu = 0 /\ cpu' \in Cpus /\ ready' \subseteq Cpus
        /\ read' = 0 /\ upto' = Len(rings[cpu'])
    BY <1>2 DEF BeginRing, RawInv, RawTypeOK
  <2>2. rings' = rings /\ Len(rings[cpu']) \in Nat
    BY <2>1 DEF perf_vars, RawInv, RawTypeOK
  <2>3. WalkOK'
    BY <2>1, <2>2 DEF WalkOK
  <2>4. RawTypeOK'
    BY <2>1, <2>2 DEF RawInv, RawTypeOK, perf_vars, raw
  <2>5. StrungOK' /\ \A c \in Cpus : Top(c)' = Top(c) /\ rings'[c] = rings[c]
    BY <2>1, PerfStands
  <2>6. \A c \in Cpus : NextOf(c)' = NextOf(c)
    BY <2>1 DEF NextOf, Cpus
  <2>7. \A c \in Cpus : Through(c)' = Through(c)
    BY <2>5, <2>6 DEF Through
  <2> QED BY <2>1, <2>3, <2>4, <2>5, <2>7, SameSplit
<1>3. ASSUME EndRing PROVE RawInv'
  <2> DEFINE s == rings[cpu]
             q == SubSeq(s, upto + 1, Len(s))
  <2>1. /\ UNCHANGED <<produced, missed, raw, total_lost, at, ready, room, copied, told, dropped>>
        /\ at = "poll" /\ cpu # 0 /\ read = upto
        /\ cpu' = 0 /\ read' = 0 /\ upto' = 0
        /\ rings' = [rings EXCEPT ![cpu] = q]
    BY <1>3 DEF EndRing
  <2>2. /\ cpu \in Cpus /\ s \in Seq(Entry) /\ Strung(s, cpu, Top(cpu)) /\ upto \in 0 .. Len(s)
    BY <2>1 DEF RawInv, RawTypeOK, StrungOK, WalkOK
  <2>3. Top(cpu) \in Nat
    BY <2>2 DEF RawInv, RawTypeOK, StrungOK, Top
  <2>4. /\ q \in Seq(Entry) /\ Strung(q, cpu, Top(cpu))
        /\ FrontOf(q, 1, Top(cpu)) = FrontOf(s, upto + 1, Top(cpu))
    <3> DEFINE top == Top(cpu)
    <3>1. top \in Nat /\ Strung(s, cpu, top)
      BY <2>2, <2>3
    <3> HIDE DEF s, top
    <3> QED BY <2>2, <3>1, StrungRest DEF top
  <2>5. rings'[cpu] = q /\ \A d \in Cpus \ {cpu} : rings'[d] = rings[d]
    BY <2>1, <2>2 DEF RawInv, RawTypeOK
  <2>6. \A d \in Cpus : Top(d)' = Top(d) /\ NextOf(d)' = 1 /\ (d # cpu => NextOf(d) = 1)
    BY <2>1 DEF Top, NextOf, Cpus
  <2>7. NextOf(cpu) = upto + 1
    BY <2>1 DEF NextOf
  <2> HIDE DEF q, s
  <2>8. \A d \in Cpus : Through(d)' = Through(d)
    <3> SUFFICES ASSUME NEW d \in Cpus PROVE Through(d)' = Through(d)
      OBVIOUS
    <3>1. CASE d = cpu
      BY <2>4, <2>5, <2>6, <2>7, <3>1 DEF Through, s
    <3>2. CASE d # cpu
      BY <2>5, <2>6, <3>2 DEF Through
    <3> QED BY <3>1, <3>2
  <2>9. StrungOK'
    BY <2>1, <2>2, <2>4, <2>5, <2>6 DEF RawInv, StrungOK
  <2>10. WalkOK' /\ RawTypeOK'
    BY <2>1, <2>2, <2>4 DEF RawInv, RawTypeOK, WalkOK, raw
  <2> QED BY <2>1, <2>8, <2>9, <2>10, SameSplit
<1> QED BY <1>1, <1>2, <1>3

(* One callback: the front of the ring moves over its record. *)
LEMMA ReadOneMoves ==
  ASSUME RawInv, ReadOne
  PROVE  /\ cpu \in Cpus /\ Record \in Entry /\ Record.cpu = cpu
         /\ Record.first \in Nat /\ Record.last \in Nat /\ Record.first <= Record.last
         /\ Record.type = "Event" => Record.first = Record.last
         /\ Through(cpu) \in Nat /\ Record.first = Through(cpu) + 1
         /\ Through(cpu)' = Record.last
         /\ \A c \in Cpus : Through(c) \in Nat /\ (c # cpu => Through(c)' = Through(c))
         /\ StrungOK' /\ WalkOK' /\ read' \in Nat
         /\ UNCHANGED <<perf_vars, at, ready, cpu, upto, room, copied>>
<1> DEFINE s == rings[cpu]
<1>1. /\ UNCHANGED <<perf_vars, at, ready, cpu, upto, room, copied>>
      /\ cpu # 0 /\ read < upto /\ read' = read + 1
  BY DEF ReadOne
<1>2. /\ cpu \in Cpus /\ s \in Seq(Entry) /\ Strung(s, cpu, Top(cpu)) /\ read \in Nat
      /\ upto \in Nat /\ upto <= Len(s) /\ Len(s) \in Nat
  BY <1>1 DEF RawInv, RawTypeOK, StrungOK, WalkOK
<1>3. \A c \in Cpus : Top(c) \in Nat
  BY DEF RawInv, RawTypeOK, StrungOK, Top
<1>4. read + 1 \in DOMAIN s
  BY <1>1, <1>2
<1>5. /\ FrontOf(s, read + 1, Top(cpu)) \in Nat
      /\ s[read + 1].first = FrontOf(s, read + 1, Top(cpu)) + 1
      /\ s[read + 1].first <= s[read + 1].last
      /\ FrontOf(s, (read + 1) + 1, Top(cpu)) = s[read + 1].last
  <2> DEFINE top == Top(cpu)
             lo  == read + 1
  <2>1. top \in Nat /\ Strung(s, cpu, top) /\ lo \in DOMAIN s
    BY <1>2, <1>3, <1>4
  <2> HIDE DEF s, top, lo
  <2> QED BY <1>2, <2>1, StrungRead DEF top, lo
<1>6. NextOf(cpu) = read + 1 /\ NextOf(cpu)' = (read + 1) + 1
  BY <1>1 DEF NextOf
<1>7. StrungOK' /\ \A c \in Cpus : Top(c)' = Top(c) /\ rings'[c] = rings[c]
  BY <1>1, PerfStands
<1>8. Through(cpu) = FrontOf(s, read + 1, Top(cpu))
      /\ Through(cpu)' = FrontOf(s, (read + 1) + 1, Top(cpu))
  <2>1. Top(cpu)' = Top(cpu) /\ rings'[cpu'] = rings[cpu] /\ cpu' = cpu
    BY <1>1, <1>2, <1>7
  <2> QED BY <1>1, <1>6, <2>1 DEF Through, Top, NextOf
<1>9. \A c \in Cpus : c # cpu => Through(c)' = Through(c)
  BY <1>1, <1>7 DEF Through, NextOf
<1>10. \A c \in Cpus : Through(c) \in Nat
  <2> SUFFICES ASSUME NEW c \in Cpus PROVE Through(c) \in Nat
    OBVIOUS
  <2> DEFINE top == Top(c)
             lo  == NextOf(c)
             t   == rings[c]
  <2>1. top \in Nat /\ lo \in Nat /\ t \in Seq(Entry) /\ Strung(t, c, top)
    BY <1>3 DEF RawInv, RawTypeOK, StrungOK, NextOf
  <2>2. Through(c) = FrontOf(t, lo, top)
    BY DEF Through
  <2> HIDE DEF top, lo, t
  <2>3. FrontOf(t, lo, top) \in 0 .. top
    BY <2>1, FrontType
  <2> QED BY <2>1, <2>2, <2>3
<1>11. WalkOK'
  BY <1>1, <1>2 DEF RawInv, WalkOK, perf_vars
<1>12. /\ Record = s[read + 1] /\ Record \in Entry /\ Record.cpu = cpu
       /\ Record.first \in Nat /\ Record.last \in Nat
       /\ Record.type = "Event" => Record.first = Record.last
  <2>1. Record = s[read + 1]
    BY DEF Record
  <2>2. s[read + 1].cpu = cpu /\ (s[read + 1].type = "Event" => s[read + 1].first = s[read + 1].last)
    BY <1>2, <1>4 DEF Strung
  <2> QED BY <1>2, <1>4, <2>1, <2>2, EntryNumbers
<1> QED BY <1>1, <1>2, <1>5, <1>7, <1>8, <1>9, <1>10, <1>11, <1>12

(* A set of records split off the end of what was handled. *)
LEMMA OneRecord ==
  ASSUME NEW t \in Nat, NEW m \in Nat, m = t + 1
  PROVE  t + 1 .. m = {m}
OBVIOUS

LEMMA RawEventInv ==
  ASSUME RawInv, HandleEvent
  PROVE  RawInv'
<1> DEFINE r == Record
           t == Through(cpu)
           n == r.first
<1>1. ReadOne /\ r.type = "Event" /\ UNCHANGED <<total_lost, told>>
  BY DEF HandleEvent
<1>2. /\ cpu \in Cpus /\ r.cpu = cpu /\ n \in Nat /\ t \in Nat /\ n = t + 1
      /\ Through(cpu)' = n
      /\ \A c \in Cpus : Through(c) \in Nat /\ (c # cpu => Through(c)' = Through(c))
      /\ StrungOK' /\ WalkOK' /\ read' \in Nat
      /\ UNCHANGED <<perf_vars, at, ready, cpu, upto, room, copied>>
  BY <1>1, ReadOneMoves
<1>3. t + 1 .. n = {n} /\ t <= n
  BY <1>2, OneRecord
<1>4. \A c \in Cpus : Had(c)' = Had(c) /\ told'[c] = told[c]
  BY <1>1, <1>2 DEF Had
<1>5. LossOK'
  BY <1>1 DEF RawInv, LossOK
<1>6. Split(Had(cpu), Held(cpu), Gone(cpu), told[cpu], t)
  BY <1>2 DEF RawInv, SplitOK
<1>7. /\ Split(Had(cpu), Held(cpu) \cup {n}, Gone(cpu), told[cpu], n)
      /\ Split(Had(cpu), Held(cpu), Gone(cpu) \cup {n}, told[cpu], n)
  <2> HIDE DEF n, t, r
  <2>1. /\ Split(Had(cpu), Held(cpu) \cup (t + 1 .. n), Gone(cpu), told[cpu], n)
        /\ Split(Had(cpu), Held(cpu), Gone(cpu) \cup (t + 1 .. n), told[cpu], n)
    BY <1>2, <1>3, <1>6, SplitGrows
  <2> QED BY <1>3, <2>1
<1>8. /\ head \in Slots /\ tail \in Slots /\ DOMAIN ring = Slots
      /\ Kept = KeptOf(ring, head, tail) /\ Waiting = WaitingOf(head, tail)
      /\ DOMAIN Kept = 1 .. Waiting /\ Waiting \in Nat
  <2>1. head \in Slots /\ tail \in Slots /\ DOMAIN ring = Slots
    BY DEF RawInv, RawTypeOK
  <2>2. Waiting = WaitingOf(head, tail)
    BY DEF Waiting, WaitingOf
  <2>3. Waiting \in 0 .. Size - 1
    BY <2>1, <2>2, RingPlaces
  <2> QED BY <2>1, <2>2, <2>3 DEF Kept, KeptOf
<1>9. ASSUME Full PROVE RawInv'
  <2> DEFINE d == [cpu |-> cpu, no |-> n, waiting |-> Waiting]
  <2>1. dropped' = dropped \cup {d} /\ UNCHANGED raw
    BY <1>9 DEF HandleEvent
  <2>2. Waiting = Size - 1
    BY <1>8, <1>9, RingPlaces DEF Full
  <2>3. ring' = ring /\ head' = head /\ tail' = tail /\ Kept' = Kept
    BY <2>1 DEF raw, Kept, Waiting
  <2>4. d.cpu = cpu /\ d.no = n /\ d.waiting = Size - 1
    BY <2>2
  <2> HIDE DEF d
  <2>5. /\ Gone(cpu)' = Gone(cpu) \cup {n}
        /\ \A c \in Cpus : c # cpu => Gone(c)' = Gone(c)
    <3>1. cpu' = cpu
      BY <1>2
    <3> HIDE DEF n
    <3>2. Gone(cpu)' = {e.no : e \in {f \in dropped \cup {d} : f.cpu = cpu}}
      BY <2>1, <3>1 DEF Gone
    <3>3. {f \in dropped \cup {d} : f.cpu = cpu} = {f \in dropped : f.cpu = cpu} \cup {d}
      BY <2>4
    <3>4. Gone(cpu)' = Gone(cpu) \cup {n}
      BY <2>4, <3>2, <3>3 DEF Gone
    <3>5. ASSUME NEW c \in Cpus, c # cpu PROVE Gone(c)' = Gone(c)
      <4>1. {f \in dropped \cup {d} : f.cpu = c} = {f \in dropped : f.cpu = c}
        BY <2>4, <3>5
      <4> QED BY <2>1, <4>1 DEF Gone
    <3> QED BY <3>4, <3>5
  <2>6. \A c \in Cpus : Held(c)' = Held(c)
    BY <2>3 DEF Held
  <2>7. SplitOK'
    <3> SUFFICES ASSUME NEW c \in Cpus
                 PROVE  Split(Had(c)', Held(c)', Gone(c)', told'[c], Through(c)')
      BY DEF SplitOK
    <3>1. CASE c = cpu
      <4>1. /\ Had(c)' = Had(cpu) /\ Held(c)' = Held(cpu) /\ told'[c] = told[cpu]
            /\ Gone(c)' = Gone(cpu) \cup {n} /\ Through(c)' = n
        BY <1>2, <1>4, <2>5, <2>6, <3>1
      <4> QED BY <1>7, <4>1
    <3>2. CASE c # cpu
      BY <1>2, <1>4, <2>5, <2>6, <3>2 DEF RawInv, SplitOK
    <3> QED BY <3>1, <3>2
  <2>8. RawTypeOK'
    <3>1. d \in [cpu : Cpus, no : Nat, waiting : Nat]
      BY <1>2, <1>8 DEF d
    <3> QED BY <1>1, <1>2, <2>1, <3>1 DEF RawInv, RawTypeOK, perf_vars, raw
  <2>9. KeptOK' /\ OrderOK' /\ FullOK'
    BY <1>2, <2>1, <2>3, <2>4 DEF RawInv, KeptOK, OrderOK, FullOK
  <2> QED BY <1>2, <1>5, <2>7, <2>8, <2>9 DEF RawInv
<1>10. ASSUME ~ Full PROVE RawInv'
  <2> DEFINE w == Waiting
  <2>1. /\ ring' = [ring EXCEPT ![head] = r] /\ head' = NextSlot(head)
        /\ tail' = tail /\ dropped' = dropped
    BY <1>10 DEF HandleEvent
  <2>2. NextSlot(head) # tail /\ NextSlot(head) \in Slots
    BY <1>8, <1>10, RingPlaces DEF Full
  <2>3. /\ Waiting' = w + 1 /\ DOMAIN Kept' = 1 .. w + 1
        /\ \A i \in 1 .. w : Kept'[i] = Kept[i]
        /\ Kept'[w + 1] = r
    <3>1. Kept' = KeptOf(ring', NextSlot(head), tail) /\ Waiting' = WaitingOf(NextSlot(head), tail)
      BY <2>1 DEF Kept, Waiting, KeptOf, WaitingOf
    <3> HIDE DEF r
    <3>2. /\ WaitingOf(NextSlot(head), tail) = w + 1
          /\ \A i \in 1 .. w : KeptOf(ring', NextSlot(head), tail)[i] = Kept[i]
          /\ KeptOf(ring', NextSlot(head), tail)[w + 1] = r
      <4>1. w = WaitingOf(head, tail) /\ Kept = KeptOf(ring, head, tail)
        BY <1>8
      <4>2. IsPut(ring, ring', head, r)
        BY <1>8, <2>1 DEF IsPut
      <4> HIDE DEF w
      <4> QED BY <1>8, <2>2, <4>1, <4>2, KeptPut
    <3>3. DOMAIN Kept' = 1 .. WaitingOf(NextSlot(head), tail)
      BY <3>1 DEF KeptOf
    <3> QED BY <3>1, <3>2, <3>3
  <2>4. w \in Nat /\ \A i \in 1 .. w + 1 : i \in 1 .. w \/ i = w + 1
    BY <1>8
  <2>5. w + 1 \in 1 .. w + 1 /\ (\A i \in 1 .. w : i \in 1 .. w + 1) /\ DOMAIN Kept = 1 .. w
    BY <1>8
  <2> HIDE DEF w, r
  <2>6. /\ Held(cpu)' = Held(cpu) \cup {n}
        /\ \A c \in Cpus : c # cpu => Held(c)' = Held(c)
    <3>1. cpu' = cpu
      BY <1>2
    <3>2. ASSUME NEW c \in Cpus
          PROVE  /\ \A x : x \in Held(c) => x \in Held(c)'
                 /\ \A x : x \in Held(c)' => x \in Held(c) \/ (c = cpu /\ x = n)
                 /\ c = cpu => n \in Held(c)'
      <4>1. ASSUME NEW x \in Held(c) PROVE x \in Held(c)'
        <5>1. PICK i \in DOMAIN Kept : Kept[i].cpu = c /\ x = Kept[i].first
          BY DEF Held
        <5>2. i \in DOMAIN Kept' /\ Kept'[i] = Kept[i]
          BY <2>3, <2>5, <5>1
        <5> QED BY <5>1, <5>2 DEF Held
      <4>2. ASSUME NEW x \in Held(c)' PROVE x \in Held(c) \/ (c = cpu /\ x = n)
        <5>1. PICK i \in DOMAIN Kept' : Kept'[i].cpu = c /\ x = Kept'[i].first
          BY DEF Held
        <5>2. CASE i = w + 1
          BY <1>2, <2>3, <5>1, <5>2
        <5>3. CASE i \in 1 .. w
          <6>1. i \in DOMAIN Kept /\ Kept'[i] = Kept[i]
            BY <2>3, <2>5, <5>3
          <6> QED BY <5>1, <6>1 DEF Held
        <5> QED BY <2>3, <2>4, <5>2, <5>3
      <4>3. c = cpu => n \in Held(c)'
        <5>1. w + 1 \in DOMAIN Kept' /\ Kept'[w + 1] = r
          BY <2>3, <2>5
        <5> QED BY <1>2, <5>1 DEF Held
      <4> QED BY <4>1, <4>2, <4>3
    <3> HIDE DEF n
    <3> QED BY <1>2, <3>1, <3>2
  <2>7. \A c \in Cpus : Gone(c)' = Gone(c)
    BY <2>1 DEF Gone
  <2>8. SplitOK'
    <3> SUFFICES ASSUME NEW c \in Cpus
                 PROVE  Split(Had(c)', Held(c)', Gone(c)', told'[c], Through(c)')
      BY DEF SplitOK
    <3>1. CASE c = cpu
      <4>1. /\ Had(c)' = Had(cpu) /\ Gone(c)' = Gone(cpu) /\ told'[c] = told[cpu]
            /\ Held(c)' = Held(cpu) \cup {n} /\ Through(c)' = n
        BY <1>2, <1>4, <2>6, <2>7, <3>1
      <4> QED BY <1>7, <4>1
    <3>2. CASE c # cpu
      BY <1>2, <1>4, <2>6, <2>7, <3>2 DEF RawInv, SplitOK
    <3> QED BY <3>1, <3>2
  <2>9. KeptOK'
    <3> SUFFICES ASSUME NEW i \in DOMAIN Kept' PROVE Kept'[i].cpu \in Cpus /\ Kept'[i].first \in Nat
      BY DEF KeptOK
    <3>1. CASE i = w + 1
      BY <1>2, <2>3, <3>1
    <3>2. CASE i \in 1 .. w
      <4>1. i \in DOMAIN Kept /\ Kept'[i] = Kept[i]
        BY <2>3, <2>5, <3>2
      <4> QED BY <4>1 DEF RawInv, KeptOK
    <3> QED BY <2>3, <2>4, <3>1, <3>2
  <2>10. /\ \A i \in 1 .. w : Kept[i].cpu = cpu => Kept[i].first < n
         /\ \A j \in DOMAIN copied[cpu] : copied[cpu][j] < n
    <3>1. Held(cpu) \subseteq 1 .. t /\ Had(cpu) \subseteq 1 .. t
      BY <1>6 DEF Split
    <3>2. \A x \in 1 .. t : x < n
      BY <1>2
    <3>3. \A i \in 1 .. w : Kept[i].cpu = cpu => Kept[i].first \in Held(cpu)
      BY <2>5 DEF Held
    <3>4. \A j \in DOMAIN copied[cpu] : copied[cpu][j] \in Had(cpu)
      BY DEF Had
    <3> HIDE DEF n, t
    <3> QED BY <3>1, <3>2, <3>3, <3>4
  <2>11. OrderOK'
    <3>1. \A c \in Cpus : \A i, j \in DOMAIN copied[c] : i < j => copied[c][i] < copied[c][j]
      BY DEF RawInv, OrderOK
    <3>2. ASSUME NEW i \in DOMAIN Kept', NEW j \in DOMAIN Kept', i < j, Kept'[i].cpu = Kept'[j].cpu
          PROVE  Kept'[i].first < Kept'[j].first
      <4>1. i \in 1 .. w /\ Kept'[i] = Kept[i]
        BY <2>3, <2>4, <3>2
      <4>2. CASE j \in 1 .. w
        <5>1. Kept'[j] = Kept[j] /\ i \in DOMAIN Kept /\ j \in DOMAIN Kept
          BY <2>3, <2>5, <4>1, <4>2
        <5> QED BY <3>2, <4>1, <5>1 DEF RawInv, OrderOK
      <4>3. CASE j = w + 1
        <5>1. Kept'[j] = r
          BY <2>3, <4>3
        <5> QED BY <1>2, <2>10, <3>2, <4>1, <5>1
      <4> QED BY <2>3, <2>4, <4>2, <4>3
    <3>3. ASSUME NEW i \in DOMAIN Kept', NEW j \in DOMAIN copied[Kept'[i].cpu]
          PROVE  copied[Kept'[i].cpu][j] < Kept'[i].first
      <4>1. CASE i \in 1 .. w
        <5>1. Kept'[i] = Kept[i] /\ i \in DOMAIN Kept
          BY <2>3, <2>5, <4>1
        <5> QED BY <5>1 DEF RawInv, OrderOK
      <4>2. CASE i = w + 1
        <5>1. Kept'[i] = r
          BY <2>3, <4>2
        <5> QED BY <1>2, <2>10, <5>1
      <4> QED BY <2>3, <2>4, <4>1, <4>2
    <3> QED BY <1>2, <3>1, <3>2, <3>3 DEF OrderOK
  <2>12. FullOK'
    BY <2>1 DEF RawInv, FullOK
  <2>13. RawTypeOK'
    BY <1>1, <1>2, <2>1, <2>2 DEF RawInv, RawTypeOK, perf_vars
  <2> QED BY <1>2, <1>5, <2>8, <2>9, <2>11, <2>12, <2>13 DEF RawInv
<1> QED BY <1>9, <1>10

LEMMA RawLostInv ==
  ASSUME RawInv, HandleLost
  PROVE  RawInv'
<1> DEFINE r   == Record
           t   == Through(cpu)
           new == r.first .. r.last
           loss == LossOf(r)
<1>1. /\ ReadOne /\ UNCHANGED <<raw, dropped>>
      /\ total_lost' = total_lost + loss
      /\ told' = [told EXCEPT ![cpu] = @ \cup new]
  BY DEF HandleLost
<1>2. /\ cpu \in Cpus /\ r.first \in Nat /\ r.last \in Nat /\ t \in Nat
      /\ r.first = t + 1 /\ r.first <= r.last
      /\ Through(cpu)' = r.last
      /\ \A c \in Cpus : Through(c) \in Nat /\ (c # cpu => Through(c)' = Through(c))
      /\ StrungOK' /\ WalkOK' /\ read' \in Nat
      /\ UNCHANGED <<perf_vars, at, ready, cpu, upto, room, copied>>
  BY <1>1, ReadOneMoves
<1>3. Kept' = Kept /\ ring' = ring /\ head' = head /\ tail' = tail
  BY <1>1 DEF raw, Kept, Waiting
<1>4. \A c \in Cpus : Had(c)' = Had(c) /\ Held(c)' = Held(c) /\ Gone(c)' = Gone(c)
  BY <1>1, <1>2, <1>3 DEF Had, Held, Gone
<1>5. /\ told'[cpu] = told[cpu] \cup new
      /\ \A c \in Cpus : c # cpu => told'[c] = told[c]
  BY <1>1, <1>2 DEF RawInv, RawTypeOK
<1>6. Split(Had(cpu), Held(cpu), Gone(cpu), told[cpu], t)
  BY <1>2 DEF RawInv, SplitOK
<1>7. Split(Had(cpu), Held(cpu), Gone(cpu), told[cpu] \cup new, r.last)
  <2> DEFINE m == r.last
  <2>1. new = t + 1 .. m /\ t <= m /\ m \in Nat
    BY <1>2
  <2> HIDE DEF t, m, new
  <2>2. Split(Had(cpu), Held(cpu), Gone(cpu), told[cpu] \cup (t + 1 .. m), m)
    BY <1>2, <1>6, <2>1, SplitGrows
  <2> QED BY <2>1, <2>2 DEF m
<1>8. SplitOK'
  <2> SUFFICES ASSUME NEW c \in Cpus
               PROVE  Split(Had(c)', Held(c)', Gone(c)', told'[c], Through(c)')
    BY DEF SplitOK
  <2>1. CASE c = cpu
    <3>1. /\ Had(c)' = Had(cpu) /\ Held(c)' = Held(cpu) /\ Gone(c)' = Gone(cpu)
          /\ told'[c] = told[cpu] \cup new /\ Through(c)' = r.last
      BY <1>2, <1>4, <1>5, <2>1
    <3> QED BY <1>7, <3>1
  <2>2. CASE c # cpu
    BY <1>2, <1>4, <1>5, <2>2 DEF RawInv, SplitOK
  <2> QED BY <2>1, <2>2
<1>9. loss \in Nat /\ loss = r.last - r.first + 1
  BY <1>2 DEF LossOf
<1>10. LossOK'
  <2> DEFINE f == [c \in Cpus |-> Cardinality(told[c])]
             g == [c \in Cpus |-> Cardinality(told'[c])]
  <2>1. IsFiniteSet(Cpus)
    BY CpuAssumption, FS_Interval DEF Cpus
  <2>2. \A c \in Cpus : IsFiniteSet(told[c]) /\ Cardinality(told[c]) \in Nat
    <3> SUFFICES ASSUME NEW c \in Cpus PROVE IsFiniteSet(told[c]) /\ Cardinality(told[c]) \in Nat
      OBVIOUS
    <3>1. told[c] \subseteq 1 .. Through(c) /\ Through(c) \in Nat
      BY <1>2 DEF RawInv, SplitOK, Split
    <3>2. IsFiniteSet(1 .. Through(c))
      BY <3>1, FS_Interval
    <3> QED BY <3>1, <3>2, FS_Subset, FS_CardinalityType
  <2>3. IsFiniteSet(new) /\ Cardinality(new) = loss
    <3> DEFINE lo == r.first
               hi == r.last
    <3>1. lo \in Nat /\ hi \in Nat /\ lo <= hi /\ loss = hi - lo + 1 /\ new = lo .. hi
      BY <1>2, <1>9
    <3> HIDE DEF lo, hi, loss, new
    <3>2. IsFiniteSet(lo .. hi) /\ Cardinality(lo .. hi) = hi - lo + 1
      BY <3>1, FS_Interval
    <3> QED BY <3>1, <3>2
  <2>4. told[cpu] \cap new = {}
    <3>1. told[cpu] \subseteq 1 .. t
      BY <1>6 DEF Split
    <3>2. (1 .. t) \cap new = {}
      BY <1>2
    <3> QED BY <3>1, <3>2
  <2>5. Cardinality(told'[cpu]) = Cardinality(told[cpu]) + loss
    <3> HIDE DEF new, loss
    <3>1. Cardinality(told[cpu] \cup new) = Cardinality(told[cpu]) + Cardinality(new) - Cardinality(told[cpu] \cap new)
      BY <1>2, <2>2, <2>3, FS_Union
    <3>2. Cardinality(told[cpu] \cap new) = 0
      BY <2>4, FS_EmptySet
    <3> QED BY <1>2, <1>5, <1>9, <2>2, <2>3, <3>1, <3>2
  <2>6. f \in [Cpus -> Nat] /\ g \in [Cpus -> Nat] /\ \A c \in Cpus \ {cpu} : g[c] = f[c]
    <3> HIDE DEF new, loss
    <3>1. \A c \in Cpus : Cardinality(told'[c]) \in Nat
      <4>1. Cardinality(told'[cpu]) \in Nat
        BY <1>2, <1>9, <2>2, <2>5
      <4> QED BY <1>5, <2>2, <4>1
    <3> QED BY <1>5, <2>2, <3>1
  <2>7. f[cpu] = Cardinality(told[cpu]) /\ g[cpu] = f[cpu] + loss /\ f[cpu] \in Nat
    BY <1>2, <2>2, <2>5
  <2> HIDE DEF f, g, loss
  <2>8. SumFunction(g) + f[cpu] = SumFunction(f) + g[cpu]
    BY <1>2, <2>1, <2>6, SumChange
  <2>9. SumFunction(f) \in Nat /\ SumFunction(g) \in Nat
    BY <2>1, <2>6, SumType
  <2>10. total_lost = SumFunction(f)
    BY DEF RawInv, LossOK, f
  <2>11. total_lost' = SumFunction(g)
    BY <1>1, <1>9, <2>7, <2>8, <2>9, <2>10
  <2> QED BY <2>11 DEF LossOK, g
<1>11. RawTypeOK'
  <2>1. told' \in [Cpus -> SUBSET Nat]
    <3>1. new \subseteq Nat
      BY <1>2
    <3> HIDE DEF new
    <3> QED BY <1>1, <1>2, <3>1 DEF RawInv, RawTypeOK
  <2>2. total_lost' \in Nat
    <3> HIDE DEF loss
    <3> QED BY <1>1, <1>9 DEF RawInv, RawTypeOK
  <2>3. dropped' = dropped
    BY <1>1
  <2> QED BY <1>2, <1>3, <2>1, <2>2, <2>3 DEF RawInv, RawTypeOK, perf_vars
<1>12. KeptOK' /\ OrderOK' /\ FullOK'
  BY <1>1, <1>2, <1>3 DEF RawInv, KeptOK, OrderOK, FullOK
<1> QED BY <1>2, <1>8, <1>10, <1>11, <1>12 DEF RawInv

(* What the caller gets is the first that waited. *)
LEMMA CopyInv ==
  ASSUME RawInv, Copy
  PROVE  RawInv'
<1> DEFINE w == Waiting
<1>0. PICK b, n : b = ring[tail].cpu /\ n = ring[tail].first
  OBVIOUS
<1>1. /\ tail # head /\ room \in Nat \ {0} /\ room' = room - 1
      /\ copied' = [copied EXCEPT ![b] = Append(@, n)]
      /\ tail' = NextSlot(tail)
      /\ UNCHANGED <<perf_vars, ring, head, total_lost, at, walk, told, dropped>>
  BY <1>0 DEF Copy, RawInv, RawTypeOK
<1>2. /\ head \in Slots /\ tail \in Slots /\ NextSlot(tail) \in Slots
      /\ Kept = KeptOf(ring, head, tail) /\ w = WaitingOf(head, tail)
      /\ Kept' = KeptOf(ring, head, NextSlot(tail)) /\ Waiting' = WaitingOf(head, NextSlot(tail))
  <2>1. head \in Slots /\ tail \in Slots
    BY DEF RawInv, RawTypeOK
  <2>2. NextSlot(tail) \in Slots
    BY <2>1, RingPlaces
  <2> QED BY <1>1, <2>1, <2>2 DEF Kept, Waiting, KeptOf, WaitingOf
<1>3. /\ w \in Nat \ {0} /\ Waiting' = w - 1 /\ Kept[1] = ring[tail]
      /\ \A i \in 1 .. w - 1 : Kept'[i] = Kept[i + 1]
  BY <1>1, <1>2, KeptTake
<1>4. DOMAIN Kept = 1 .. w /\ DOMAIN Kept' = 1 .. w - 1
  BY <1>2, <1>3 DEF KeptOf
<1>5. /\ 1 \in DOMAIN Kept /\ \A i \in DOMAIN Kept' : i + 1 \in DOMAIN Kept /\ 1 < i + 1
      /\ \A i \in DOMAIN Kept : i # 1 => i - 1 \in DOMAIN Kept' /\ (i - 1) + 1 = i
  BY <1>3, <1>4
<1>6. b \in Cpus /\ n \in Nat /\ Kept[1].cpu = b /\ Kept[1].first = n
  BY <1>0, <1>3, <1>5 DEF RawInv, KeptOK
<1> HIDE DEF w
<1>7. /\ copied[b] \in Seq(Nat) /\ copied'[b] = Append(copied[b], n)
      /\ \A c \in Cpus : c # b => copied'[c] = copied[c]
      /\ copied' \in [Cpus -> Seq(Nat)]
  BY <1>1, <1>6 DEF RawInv, RawTypeOK
<1>8. /\ DOMAIN copied[b] = 1 .. Len(copied[b]) /\ Len(copied[b]) \in Nat
      /\ DOMAIN copied'[b] = 1 .. Len(copied[b]) + 1
      /\ \A j \in 1 .. Len(copied[b]) : copied'[b][j] = copied[b][j]
      /\ copied'[b][Len(copied[b]) + 1] = n
  BY <1>6, <1>7
<1>9. \A j \in 1 .. Len(copied[b]) + 1 : j \in 1 .. Len(copied[b]) \/ j = Len(copied[b]) + 1
  BY <1>8
<1>10. /\ \A j \in DOMAIN copied[b] : copied[b][j] < n
       /\ \A i \in DOMAIN Kept : i # 1 /\ Kept[i].cpu = b => n < Kept[i].first
  <2>1. \A i \in DOMAIN Kept : i # 1 => 1 < i
    BY <1>3, <1>4
  <2> QED BY <1>5, <1>6, <2>1 DEF RawInv, OrderOK
<1>11. Had(b)' = Had(b) \cup {n} /\ \A c \in Cpus : c # b => Had(c)' = Had(c)
  <2> DEFINE L == Len(copied[b])
  <2>1. \A x \in Had(b)' : x \in Had(b) \cup {n}
    BY <1>8, <1>9 DEF Had
  <2>2. \A x \in Had(b) : x \in Had(b)'
    <3>1. \A j \in DOMAIN copied[b] : j \in DOMAIN copied'[b] /\ copied'[b][j] = copied[b][j]
      BY <1>8
    <3> QED BY <3>1 DEF Had
  <2>3. n \in Had(b)'
    <3>1. L + 1 \in DOMAIN copied'[b]
      BY <1>8
    <3> QED BY <1>8, <3>1 DEF Had
  <2> QED BY <1>7, <2>1, <2>2, <2>3 DEF Had
<1>12. \A c \in Cpus : Held(c)' = IF c = b THEN Held(b) \ {n} ELSE Held(c)
  <2> SUFFICES ASSUME NEW c \in Cpus PROVE Held(c)' = IF c = b THEN Held(b) \ {n} ELSE Held(c)
    OBVIOUS
  <2>1. ASSUME NEW x \in Held(c)' PROVE x \in Held(c) /\ (c = b => x # n)
    <3>1. PICK i \in DOMAIN Kept' : Kept'[i].cpu = c /\ x = Kept'[i].first
      BY DEF Held
    <3>2. /\ i + 1 \in DOMAIN Kept /\ i + 1 # 1 /\ Kept[i + 1].cpu = c /\ x = Kept[i + 1].first
      BY <1>3, <1>4, <1>5, <3>1
    <3>3. c = b => n < x
      BY <1>10, <3>2
    <3>4. x \in Held(c) /\ x \in Nat
      BY <3>2 DEF Held, RawInv, KeptOK
    <3> QED BY <1>6, <3>3, <3>4
  <2>2. ASSUME NEW x \in Held(c), c = b => x # n PROVE x \in Held(c)'
    <3>1. PICK i \in DOMAIN Kept : Kept[i].cpu = c /\ x = Kept[i].first
      BY DEF Held
    <3>2. i # 1
      BY <1>6, <2>2, <3>1
    <3>3. i - 1 \in DOMAIN Kept' /\ Kept'[i - 1] = Kept[i]
      BY <1>3, <1>4, <1>5, <3>2
    <3> QED BY <3>1, <3>3 DEF Held
  <2> QED BY <2>1, <2>2
<1>13. n \in Held(b)
  BY <1>5, <1>6 DEF Held
<1>14. \A c \in Cpus : Gone(c)' = Gone(c) /\ told'[c] = told[c]
  BY <1>1 DEF Gone
<1>15. StrungOK' /\ \A c \in Cpus : Through(c)' = Through(c)
  <2>1. StrungOK' /\ \A c \in Cpus : Top(c)' = Top(c) /\ rings'[c] = rings[c]
    BY <1>1, PerfStands
  <2> QED BY <1>1, <2>1 DEF Through, NextOf, walk
<1>16. SplitOK'
  <2> SUFFICES ASSUME NEW c \in Cpus
               PROVE  Split(Had(c)', Held(c)', Gone(c)', told'[c], Through(c)')
    BY DEF SplitOK
  <2>1. Split(Had(c), Held(c), Gone(c), told[c], Through(c))
    BY DEF RawInv, SplitOK
  <2>2. CASE c = b
    <3>1. Split(Had(b) \cup {n}, Held(b) \ {n}, Gone(b), told[b], Through(b))
      BY <1>13, <2>1, <2>2, SplitMoves
    <3>2. /\ Had(c)' = Had(b) \cup {n} /\ Held(c)' = Held(b) \ {n}
          /\ Gone(c)' = Gone(b) /\ told'[c] = told[b] /\ Through(c)' = Through(b)
      BY <1>11, <1>12, <1>14, <1>15, <2>2
    <3> QED BY <3>1, <3>2
  <2>3. CASE c # b
    BY <1>11, <1>12, <1>14, <1>15, <2>1, <2>3
  <2> QED BY <2>2, <2>3
<1>17. KeptOK'
  BY <1>3, <1>4, <1>5 DEF RawInv, KeptOK
<1>18. OrderOK'
  <2>1. ASSUME NEW c \in Cpus, NEW i \in DOMAIN copied'[c], NEW j \in DOMAIN copied'[c], i < j
        PROVE  copied'[c][i] < copied'[c][j]
    <3>1. CASE c # b
      BY <1>7, <2>1, <3>1 DEF RawInv, OrderOK
    <3>2. CASE c = b
      <4>1. i \in 1 .. Len(copied[b]) /\ copied'[b][i] = copied[b][i]
        BY <1>8, <2>1, <3>2
      <4>2. CASE j \in 1 .. Len(copied[b])
        BY <1>6, <1>8, <2>1, <3>2, <4>1, <4>2 DEF RawInv, OrderOK
      <4>3. CASE j = Len(copied[b]) + 1
        BY <1>8, <1>10, <3>2, <4>1, <4>3
      <4> QED BY <1>8, <1>9, <3>2, <4>2, <4>3
    <3> QED BY <3>1, <3>2
  <2>2. ASSUME NEW i \in DOMAIN Kept', NEW j \in DOMAIN Kept', i < j, Kept'[i].cpu = Kept'[j].cpu
        PROVE  Kept'[i].first < Kept'[j].first
    <3>1. /\ Kept'[i] = Kept[i + 1] /\ Kept'[j] = Kept[j + 1]
          /\ i + 1 \in DOMAIN Kept /\ j + 1 \in DOMAIN Kept /\ i + 1 < j + 1
      BY <1>3, <1>4, <1>5, <2>2
    <3> QED BY <2>2, <3>1 DEF RawInv, OrderOK
  <2>3. ASSUME NEW i \in DOMAIN Kept', NEW j \in DOMAIN copied'[Kept'[i].cpu]
        PROVE  copied'[Kept'[i].cpu][j] < Kept'[i].first
    <3>1. /\ Kept'[i] = Kept[i + 1] /\ i + 1 \in DOMAIN Kept /\ i + 1 # 1
          /\ Kept[i + 1].cpu \in Cpus
      BY <1>3, <1>4, <1>5 DEF RawInv, KeptOK
    <3>2. CASE Kept[i + 1].cpu # b
      <4>1. copied'[Kept'[i].cpu] = copied[Kept[i + 1].cpu]
        BY <1>7, <3>1, <3>2
      <4> QED BY <3>1, <4>1 DEF RawInv, OrderOK
    <3>3. CASE Kept[i + 1].cpu = b
      <4>1. CASE j \in 1 .. Len(copied[b])
        BY <1>8, <3>1, <3>3, <4>1 DEF RawInv, OrderOK
      <4>2. CASE j = Len(copied[b]) + 1
        BY <1>8, <1>10, <3>1, <3>3, <4>2
      <4> QED BY <1>8, <1>9, <3>1, <3>3, <4>1, <4>2
    <3> QED BY <3>2, <3>3
  <2> QED BY <2>1, <2>2, <2>3 DEF OrderOK
<1>19. WalkOK' /\ FullOK' /\ LossOK'
  BY <1>1 DEF RawInv, WalkOK, FullOK, LossOK, perf_vars, walk
<1>20. RawTypeOK'
  <2>1. /\ UNCHANGED <<perf_vars, ring, head, total_lost, at, walk, told, dropped>>
        /\ tail' \in Slots /\ room' \in Nat
    BY <1>1, <1>2
  <2> QED BY <1>7, <2>1 DEF RawInv, RawTypeOK, perf_vars, walk
<1> QED BY <1>15, <1>16, <1>17, <1>18, <1>19, <1>20 DEF RawInv

LEMMA RawNextInv == RawInv /\ [RawNext]_raw_vars => RawInv'
<1> SUFFICES ASSUME RawInv, [RawNext]_raw_vars PROVE RawInv'
  OBVIOUS
<1>1. CASE UNCHANGED raw_vars
  <2>1. Kept' = Kept /\ \A c \in Cpus : /\ Had(c)' = Had(c) /\ Held(c)' = Held(c) /\ Gone(c)' = Gone(c)
                                        /\ Top(c)' = Top(c) /\ Through(c)' = Through(c)
    BY <1>1 DEF raw_vars, raw, walk, perf_vars, Kept, Waiting, Had, Held, Gone, Top, Through, NextOf
  <2>2. /\ UNCHANGED <<produced, missed, rings, ring, head, tail, total_lost, at, ready, cpu, read, upto,
                       room, copied, told, dropped>>
    BY <1>1 DEF raw_vars, raw, walk, perf_vars
  <2>3. SplitOK' /\ StrungOK'
    BY <2>1, <2>2 DEF RawInv, SplitOK, StrungOK
  <2>4. KeptOK' /\ OrderOK' /\ FullOK' /\ LossOK' /\ WalkOK'
    BY <2>1, <2>2 DEF RawInv, KeptOK, OrderOK, FullOK, LossOK, WalkOK
  <2>5. RawTypeOK'
    BY <2>2 DEF RawInv, RawTypeOK
  <2> QED BY <2>3, <2>4, <2>5 DEF RawInv
<1>2. ASSUME NEW c \in Cpus, NEW b \in Bodies, RawEmit(c, b) PROVE RawInv'
  BY <1>2, RawEmitInv
<1>3. CASE BeginPoll \/ BeginRing \/ EndRing \/ EndCallbacks \/ EndPoll
  BY <1>3, WalkInv
<1>4. CASE HandleEvent
  BY <1>4, RawEventInv
<1>5. CASE HandleLost
  BY <1>5, RawLostInv
<1>6. CASE Copy
  BY <1>6, CopyInv
<1> QED BY <1>1, <1>2, <1>3, <1>4, <1>5, <1>6 DEF RawNext, RawPoll

LEMMA RawInvariance == RawSpec => []RawInv
<1> QED BY RawInitInv, RawNextInv, PTL DEF RawSpec

-----------------------------------------------------------------------------

Speaks(i, c, n) == i \in Unread(c) /\ n \in rings[c][i].first .. rings[c][i].last

(* Where the places of a record are. *)
LEMMA PlacesAre ==
  ASSUME NEW c, NEW n, NEW y
  PROVE  y \in Places(c, n) <=>
           \/ \E i \in DOMAIN copied[c] : copied[c][i] = n /\ y = <<"copied", i>>
           \/ \E i \in DOMAIN Kept : Kept[i].cpu = c /\ Kept[i].first = n /\ y = <<"kept", i>>
           \/ \E d \in dropped : d.cpu = c /\ d.no = n /\ y = <<"dropped", d>>
           \/ \E i : Speaks(i, c, n) /\ y = <<"unread", i>>
           \/ n \in told[c] /\ y = <<"told", n>>
           \/ n \in Top(c) + 1 .. produced[c] /\ y = <<"missed", n>>
<1> DEFINE A == {<<"copied", i>>  : i \in {j \in DOMAIN copied[c] : copied[c][j] = n}}
           B == {<<"kept", i>>    : i \in {j \in DOMAIN Kept : Kept[j].cpu = c /\ Kept[j].first = n}}
           C == {<<"dropped", d>> : d \in {e \in dropped : e.cpu = c /\ e.no = n}}
           D == {<<"unread", i>>  : i \in {j \in Unread(c) : n \in rings[c][j].first .. rings[c][j].last}}
           E == {<<"told", i>>    : i \in told[c] \cap {n}}
           F == {<<"missed", i>>  : i \in {n} \cap (Top(c) + 1 .. produced[c])}
<1>1. Places(c, n) = UNION {A, B, C, D, E, F}
  BY DEF Places, Top
<1>2. y \in A <=> \E i \in DOMAIN copied[c] : copied[c][i] = n /\ y = <<"copied", i>>
  OBVIOUS
<1>3. y \in B <=> \E i \in DOMAIN Kept : Kept[i].cpu = c /\ Kept[i].first = n /\ y = <<"kept", i>>
  OBVIOUS
<1>4. y \in C <=> \E d \in dropped : d.cpu = c /\ d.no = n /\ y = <<"dropped", d>>
  OBVIOUS
<1>5. y \in D <=> \E i : Speaks(i, c, n) /\ y = <<"unread", i>>
  BY DEF Speaks
<1>6. y \in E <=> n \in told[c] /\ y = <<"told", n>>
  OBVIOUS
<1>7. y \in F <=> n \in Top(c) + 1 .. produced[c] /\ y = <<"missed", n>>
  OBVIOUS
<1> HIDE DEF A, B, C, D, E, F
<1>8. y \in UNION {A, B, C, D, E, F} <=> y \in A \/ y \in B \/ y \in C \/ y \in D \/ y \in E \/ y \in F
  OBVIOUS
<1> QED BY <1>1, <1>2, <1>3, <1>4, <1>5, <1>6, <1>7, <1>8

(* What was handled, what can be read and what was missed follow one       *)
(* another.                                                                *)
LEMMA OneOfThree ==
  ASSUME RawInv, NEW c \in Cpus, NEW n \in 1 .. produced[c]
  PROVE  /\ n \in 1 .. Through(c) \/ (\E i : Speaks(i, c, n)) \/ n \in Top(c) + 1 .. produced[c]
         /\ n \in 1 .. Through(c) => n \notin Top(c) + 1 .. produced[c]
         /\ \A i : Speaks(i, c, n) => n \notin 1 .. Through(c) /\ n \notin Top(c) + 1 .. produced[c]
         /\ \A i, j : Speaks(i, c, n) /\ Speaks(j, c, n) => i = j
<1> DEFINE s   == rings[c]
           top == Top(c)
           lo  == NextOf(c)
           all == produced[c]
           t   == Through(c)
<1>1. s \in Seq(Entry) /\ top \in Nat /\ top <= all /\ all \in Nat /\ Strung(s, c, top) /\ lo \in Nat \ {0}
  <2>1. missed[c] \in Nat /\ missed[c] <= all /\ all \in Nat
    BY DEF RawInv, RawTypeOK, StrungOK
  <2>2. top \in Nat /\ top <= all
    BY <2>1 DEF Top
  <2>3. s \in Seq(Entry) /\ Strung(s, c, top) /\ read \in Nat
    BY DEF RawInv, RawTypeOK, StrungOK
  <2>4. lo \in Nat \ {0}
    BY <2>3 DEF NextOf
  <2> QED BY <2>1, <2>2, <2>3, <2>4
<1>2. t = FrontOf(s, lo, top)
  BY DEF Through
<1>3. \A i : Speaks(i, c, n) <=> i \in lo .. Len(s) /\ n \in s[i].first .. s[i].last
  BY DEF Speaks, Unread, NextOf
<1>4. n \in Nat /\ 1 <= n /\ n <= all
  BY <1>1
<1> HIDE DEF s, top, lo, all, t
<1>5. t \in 0 .. top
  BY <1>1, <1>2, FrontType
<1>6. /\ \A m \in t + 1 .. top : \E i \in lo .. Len(s) : m \in s[i].first .. s[i].last
      /\ \A i \in lo .. Len(s), m \in Nat : m \in s[i].first .. s[i].last => t < m /\ m <= top
      /\ \A i, j \in lo .. Len(s), m \in Nat :
           m \in s[i].first .. s[i].last /\ m \in s[j].first .. s[j].last => i = j
  <2>1. Covered(s, lo, t, top)
    BY <1>1, <1>2, StrungCovers
  <2> QED BY <2>1 DEF Covered
<1>7. n \in 1 .. t \/ n \in t + 1 .. top \/ n \in top + 1 .. all
  BY <1>1, <1>4, <1>5
<1>8. ~ (n \in 1 .. t /\ n \in top + 1 .. all)
  BY <1>1, <1>5
<1>9. t < n /\ n <= top => n \notin 1 .. t /\ n \notin top + 1 .. all
  BY <1>1, <1>4, <1>5
<1>10. \A i : Speaks(i, c, n) => t < n /\ n <= top
  BY <1>3, <1>4, <1>6
<1>11. \A i, j : Speaks(i, c, n) /\ Speaks(j, c, n) => i = j
  BY <1>3, <1>4, <1>6
<1>12. n \in t + 1 .. top => \E i : Speaks(i, c, n)
  BY <1>3, <1>6
<1> QED BY <1>7, <1>8, <1>9, <1>10, <1>11, <1>12 DEF top, all, t


(* What was handled is in one of four places, each once. *)
LEMMA OneOfFour ==
  ASSUME RawInv, NEW c \in Cpus, NEW n
  PROVE  /\ n \in 1 .. Through(c) <=> n \in Had(c) \/ n \in Held(c) \/ n \in Gone(c) \/ n \in told[c]
         /\ ~ (n \in Had(c) /\ n \in Held(c)) /\ ~ (n \in Had(c) /\ n \in Gone(c))
         /\ ~ (n \in Had(c) /\ n \in told[c]) /\ ~ (n \in Held(c) /\ n \in Gone(c))
         /\ ~ (n \in Held(c) /\ n \in told[c]) /\ ~ (n \in Gone(c) /\ n \in told[c])
         /\ \A i, j \in DOMAIN copied[c] : copied[c][i] = n /\ copied[c][j] = n => i = j
         /\ \A i, j \in DOMAIN Kept :
              Kept[i].cpu = c /\ Kept[i].first = n /\ Kept[j].cpu = c /\ Kept[j].first = n => i = j
         /\ \A d, e \in dropped : d.cpu = c /\ e.cpu = c /\ d.no = n /\ e.no = n => d = e
<1>1. Split(Had(c), Held(c), Gone(c), told[c], Through(c))
  BY DEF RawInv, SplitOK
<1>2. /\ copied[c] \in Seq(Nat) /\ DOMAIN Kept = 1 .. Waiting /\ Waiting \in Nat
      /\ dropped \subseteq [cpu : Cpus, no : Nat, waiting : Nat]
  <2>1. head \in Slots /\ tail \in Slots
    BY DEF RawInv, RawTypeOK
  <2>2. Waiting = WaitingOf(head, tail)
    BY DEF Waiting, WaitingOf
  <2>3. Waiting \in Nat
    <3>1. Size \in Nat \ {0}
      BY RawAssumption
    <3> QED BY <2>1, <2>2, <3>1, RingPlaces
  <2> QED BY <2>3 DEF Kept, RawInv, RawTypeOK
<1>3. ASSUME NEW i \in DOMAIN copied[c], NEW j \in DOMAIN copied[c], copied[c][i] = n, copied[c][j] = n
      PROVE  i = j
  <2>1. i \in Nat /\ j \in Nat /\ n \in Nat
    BY <1>2, <1>3
  <2>2. ~ n < n
    BY <2>1
  <2>3. ~ i < j /\ ~ j < i
    BY <1>3, <2>2 DEF RawInv, OrderOK
  <2> QED BY <2>1, <2>3
<1>4. ASSUME NEW i \in DOMAIN Kept, NEW j \in DOMAIN Kept, Kept[i].cpu = c, Kept[j].cpu = c,
             Kept[i].first = n, Kept[j].first = n
      PROVE  i = j
  <2>1. i \in Nat /\ j \in Nat
    BY <1>2
  <2>2. n \in Nat
    BY <1>4 DEF RawInv, KeptOK
  <2>3. ~ n < n
    BY <2>2
  <2>4. ~ i < j /\ ~ j < i
    BY <1>4, <2>3 DEF RawInv, OrderOK
  <2> QED BY <2>1, <2>4
<1>5. ASSUME NEW d \in dropped, NEW e \in dropped, d.cpu = c, e.cpu = c, d.no = n, e.no = n
      PROVE  d = e
  <2>1. d.waiting = e.waiting
    BY DEF RawInv, FullOK
  <2>2. d \in [cpu : Cpus, no : Nat, waiting : Nat] /\ e \in [cpu : Cpus, no : Nat, waiting : Nat]
    BY <1>2
  <2> QED BY <1>5, <2>1, <2>2
<1>6. /\ n \in 1 .. Through(c) <=> n \in Had(c) \/ n \in Held(c) \/ n \in Gone(c) \/ n \in told[c]
      /\ ~ (n \in Had(c) /\ n \in Held(c)) /\ ~ (n \in Had(c) /\ n \in Gone(c))
      /\ ~ (n \in Had(c) /\ n \in told[c]) /\ ~ (n \in Held(c) /\ n \in Gone(c))
      /\ ~ (n \in Held(c) /\ n \in told[c]) /\ ~ (n \in Gone(c) /\ n \in told[c])
  <2> DEFINE S == 1 .. Through(c)
  <2>1. Split(Had(c), Held(c), Gone(c), told[c], Through(c)) /\ S = 1 .. Through(c)
    BY <1>1
  <2> HIDE DEF S
  <2> QED BY <2>1 DEF Split
<1>7. \A i, j \in DOMAIN copied[c] : copied[c][i] = n /\ copied[c][j] = n => i = j
  BY <1>3
<1>8. \A i, j \in DOMAIN Kept :
        Kept[i].cpu = c /\ Kept[i].first = n /\ Kept[j].cpu = c /\ Kept[j].first = n => i = j
  BY <1>4
<1>9. \A d, e \in dropped : d.cpu = c /\ e.cpu = c /\ d.no = n /\ e.no = n => d = e
  BY <1>5
<1> QED BY <1>6, <1>7, <1>8, <1>9

LEMMA OnePlace ==
  ASSUME RawInv, NEW c \in Cpus, NEW n \in 1 .. produced[c]
  PROVE  Cardinality(Places(c, n)) = 1
<1> DEFINE up      == n \in 1 .. Through(c)
           missing == n \in Top(c) + 1 .. produced[c]
           wait    == \E i : Speaks(i, c, n)
           had     == n \in Had(c)
           held    == n \in Held(c)
           gone    == n \in Gone(c)
           lost    == n \in told[c]
<1>1. /\ up \/ wait \/ missing
      /\ ~ (up /\ missing) /\ ~ (wait /\ up) /\ ~ (wait /\ missing)
      /\ \A i, j : Speaks(i, c, n) /\ Speaks(j, c, n) => i = j
  BY OneOfThree
<1>2. /\ up <=> had \/ held \/ gone \/ lost
      /\ ~ (had /\ held) /\ ~ (had /\ gone) /\ ~ (had /\ lost)
      /\ ~ (held /\ gone) /\ ~ (held /\ lost) /\ ~ (gone /\ lost)
  BY OneOfFour
<1>3. /\ \A i, j \in DOMAIN copied[c] : copied[c][i] = n /\ copied[c][j] = n => i = j
      /\ \A i, j \in DOMAIN Kept :
           Kept[i].cpu = c /\ Kept[i].first = n /\ Kept[j].cpu = c /\ Kept[j].first = n => i = j
      /\ \A d, e \in dropped : d.cpu = c /\ e.cpu = c /\ d.no = n /\ e.no = n => d = e
  BY OneOfFour
<1>4. /\ had <=> \E i \in DOMAIN copied[c] : copied[c][i] = n
      /\ held <=> \E i \in DOMAIN Kept : Kept[i].cpu = c /\ Kept[i].first = n
      /\ gone <=> \E d \in dropped : d.cpu = c /\ d.no = n
  BY DEF Had, Held, Gone
<1>5. \A y : y \in Places(c, n) <=>
         \/ \E i \in DOMAIN copied[c] : copied[c][i] = n /\ y = <<"copied", i>>
         \/ \E i \in DOMAIN Kept : Kept[i].cpu = c /\ Kept[i].first = n /\ y = <<"kept", i>>
         \/ \E d \in dropped : d.cpu = c /\ d.no = n /\ y = <<"dropped", d>>
         \/ \E i : Speaks(i, c, n) /\ y = <<"unread", i>>
         \/ lost /\ y = <<"told", n>>
         \/ missing /\ y = <<"missed", n>>
  BY PlacesAre
<1> HIDE DEF up, missing, wait, had, held, gone, lost
<1>6. \E x : Places(c, n) = {x}
  <2>1. CASE had
    <3>1. PICK i \in DOMAIN copied[c] : copied[c][i] = n
      BY <1>4, <2>1
    <3>2. ~ held /\ ~ gone /\ ~ lost /\ ~ wait /\ ~ missing
      BY <1>1, <1>2, <2>1
    <3>3. \A y : y \in Places(c, n) <=> y = <<"copied", i>>
      BY <1>3, <1>4, <1>5, <3>1, <3>2 DEF wait
    <3>5. Places(c, n) = {<<"copied", i>>}
      BY <3>3
    <3> QED BY <3>5
  <2>2. CASE held
    <3>1. PICK i \in DOMAIN Kept : Kept[i].cpu = c /\ Kept[i].first = n
      BY <1>4, <2>2
    <3>2. ~ had /\ ~ gone /\ ~ lost /\ ~ wait /\ ~ missing
      BY <1>1, <1>2, <2>2
    <3>3. \A y : y \in Places(c, n) <=> y = <<"kept", i>>
      BY <1>3, <1>4, <1>5, <3>1, <3>2 DEF wait
    <3>5. Places(c, n) = {<<"kept", i>>}
      BY <3>3
    <3> QED BY <3>5
  <2>3. CASE gone
    <3>1. PICK d \in dropped : d.cpu = c /\ d.no = n
      BY <1>4, <2>3
    <3>2. ~ had /\ ~ held /\ ~ lost /\ ~ wait /\ ~ missing
      BY <1>1, <1>2, <2>3
    <3>3. \A y : y \in Places(c, n) <=> y = <<"dropped", d>>
      BY <1>3, <1>4, <1>5, <3>1, <3>2 DEF wait
    <3>5. Places(c, n) = {<<"dropped", d>>}
      BY <3>3
    <3> QED BY <3>5
  <2>4. CASE lost
    <3>1. ~ had /\ ~ held /\ ~ gone /\ ~ wait /\ ~ missing
      BY <1>1, <1>2, <2>4
    <3>2. \A y : y \in Places(c, n) <=> y = <<"told", n>>
      BY <1>4, <1>5, <2>4, <3>1 DEF wait
    <3>5. Places(c, n) = {<<"told", n>>}
      BY <3>2
    <3> QED BY <3>5
  <2>5. CASE wait
    <3>1. PICK i : Speaks(i, c, n)
      BY <2>5 DEF wait
    <3>2. ~ had /\ ~ held /\ ~ gone /\ ~ lost /\ ~ missing
      BY <1>1, <1>2, <2>5
    <3>3. \A y : y \in Places(c, n) <=> y = <<"unread", i>>
      BY <1>1, <1>4, <1>5, <3>1, <3>2
    <3>5. Places(c, n) = {<<"unread", i>>}
      BY <3>3
    <3> QED BY <3>5
  <2>6. CASE missing
    <3>1. ~ had /\ ~ held /\ ~ gone /\ ~ lost /\ ~ wait
      BY <1>1, <1>2, <2>6
    <3>2. \A y : y \in Places(c, n) <=> y = <<"missed", n>>
      BY <1>4, <1>5, <2>6, <3>1 DEF wait
    <3>5. Places(c, n) = {<<"missed", n>>}
      BY <3>2
    <3> QED BY <3>5
  <2> QED BY <1>1, <1>2, <2>1, <2>2, <2>3, <2>4, <2>5, <2>6
<1> QED BY <1>6, FS_Singleton

(* The C port: a record that the kernel makes is never in two places and   *)
(* never in none.  It is with the caller, in the raw ring, in a perf ring, *)
(* counted as lost or going to be, or was dropped by the callback, which   *)
(* does so only while Size - 1 records wait.  The caller gets each CPU's   *)
(* records in the order they were made, also over the polls at which he    *)
(* had no room, and total_lost is what the Losts told of.                  *)
THEOREM RawRecordsKept == RawSpec => []RawAccounted
<1>1. RawInv => RawAccounted
  <2> SUFFICES ASSUME RawInv PROVE RawAccounted
    OBVIOUS
  <2>1. \A c \in Cpus : \A n \in 1 .. produced[c] : Cardinality(Places(c, n)) = 1
    BY OnePlace
  <2>2. OrderOK /\ FullOK /\ LossOK
    BY DEF RawInv
  <2> QED BY <2>1, <2>2 DEF RawAccounted, OrderOK, FullOK, LossOK
<1> QED BY <1>1, RawInvariance, PTL

=============================================================================
