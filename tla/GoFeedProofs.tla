---------------------------- MODULE GoFeedProofs -----------------------------
(***************************************************************************)
(* Proofs about GoFeed, for any clients, channels and polls: the server is *)
(* a feed with gaps, the gaps are what found the client's own channel      *)
(* full, and nothing the core gave out is unaccounted for.                 *)
(***************************************************************************)
EXTENDS GoFeed, DataLemmas

Metrics == [events : Nat, exec : Nat, open : Nat, alerts : Nat, ws : Nat]

TypeOK ==
  /\ total_events \in Nat /\ polled \in Nat
  /\ left_out \in Seq(Outputs)
  /\ raw \in Seq(Outputs)
  /\ batch \in Seq(Outputs)
  /\ sending \in BOOLEAN
  /\ feed \in Seq(Outputs)
  /\ metrics \in Metrics
  /\ stage \in [Conns -> {"new", "open", "closed"}]
  /\ listed \in [Conns -> BOOLEAN]
  /\ from \in [Conns -> Nat]
  /\ chan \in [Conns -> Seq(Nat)]
  /\ missed \in [Conns -> SUBSET Nat]
  /\ hand \in [Conns -> Nat]
  /\ writer \in [Conns -> BOOLEAN]
  /\ got \in [Conns -> Seq(Nat)]

(* The last message the writer of c took. *)
Taken(c) == IF hand[c] = 0 THEN AbstractFeed!LastOf(c) ELSE hand[c]

(* What is on its way to c is newer than what c was given, and in order.   *)
Placed(c) ==
  /\ stage[c] = "new" => /\ ~ listed[c] /\ hand[c] = 0
                         /\ chan[c] = <<>> /\ got[c] = <<>> /\ missed[c] = {}
  /\ hand[c] # 0 => AbstractFeed!LastOf(c) < hand[c]
  /\ Taken(c) <= Len(feed)
  /\ \A i \in 1 .. Len(chan[c]) : chan[c][i] \in Taken(c) + 1 .. Len(feed)
  /\ \A i, j \in 1 .. Len(chan[c]) : i < j => chan[c][i] < chan[c][j]

FeedInv == TypeOK /\ \A c \in Conns : Placed(c)

-----------------------------------------------------------------------------

LEMMA FeedInit == Init => FeedInv
<1> SUFFICES ASSUME Init PROVE FeedInv
  OBVIOUS
<1>1. TypeOK
  <2>1. metrics \in Metrics
    BY DEF Init, Metrics
  <2>2. missed \in [Conns -> SUBSET Nat]
    BY DEF Init
  <2>3. chan \in [Conns -> Seq(Nat)] /\ got \in [Conns -> Seq(Nat)]
    BY DEF Init
  <2>4. listed \in [Conns -> BOOLEAN] /\ writer \in [Conns -> BOOLEAN]
    BY DEF Init
  <2>5. stage \in [Conns -> {"new", "open", "closed"}]
    BY DEF Init
  <2>6. /\ total_events \in Nat /\ polled \in Nat /\ sending \in BOOLEAN
        /\ from \in [Conns -> Nat] /\ hand \in [Conns -> Nat]
    BY DEF Init
  <2>7. left_out = <<>> /\ raw = <<>> /\ batch = <<>> /\ feed = <<>>
    BY DEF Init
  <2> QED BY <2>1, <2>2, <2>3, <2>4, <2>5, <2>6, <2>7, EmptySeq DEF TypeOK
<1>2. \A c \in Conns : Placed(c)
  BY DEF Init, Placed, Taken, AbstractFeed!LastOf
<1> QED BY <1>1, <1>2 DEF FeedInv

(* What the poll returns and what it leaves out make up the outputs.       *)
LEMMA ReturnedSplits ==
  ASSUME NEW n \in Nat, NEW outputs \in [1 .. n -> Samples]
  PROVE  LET back == Returned(outputs)
             rest == SubSeq(outputs, Len(back) + 1, n)
         IN  /\ outputs \in Seq(Outputs) /\ back \in Seq(Outputs) /\ rest \in Seq(Outputs)
             /\ back \o rest = outputs
             /\ Len(outputs) = n
<1> DEFINE back == Returned(outputs)
           rest == SubSeq(outputs, Len(back) + 1, n)
<1>1. outputs \in Seq(Outputs) /\ Len(outputs) = n
  BY GoAssumption
<1>2. PollMax \in Nat
  BY GoAssumption
<1>3. CASE n <= PollMax
  <2>1. back = outputs
    BY <1>1, <1>3 DEF Returned
  <2>2. rest = <<>>
    BY <1>1, <2>1, SubSeqEmpty
  <2> QED BY <1>1, <2>1, <2>2, ConcatEmptySeq, EmptySeq
<1>4. CASE ~ n <= PollMax
  <2>1. back = SubSeq(outputs, 1, PollMax)
    BY <1>1, <1>4 DEF Returned
  <2>2. back \in Seq(Outputs) /\ Len(back) = PollMax
    BY <1>1, <1>2, <1>4, <2>1, SubSeqProperties, ElementOfSeq
  <2>3. rest \in Seq(Outputs)
    BY <1>1, <1>2, <1>4, <2>2, SubSeqProperties, ElementOfSeq
  <2>4. SubSeq(outputs, 1, PollMax) \o SubSeq(outputs, PollMax + 1, n) = SubSeq(outputs, 1, n)
    BY <1>1, <1>2, <1>4, ConcatAdjacentSubSeq
  <2>5. SubSeq(outputs, 1, n) = outputs
    BY <1>1, SubSeqFull
  <2> QED BY <1>1, <2>1, <2>2, <2>3, <2>4, <2>5
<1> QED BY <1>2, <1>3, <1>4

LEMMA CountType == ASSUME NEW s \in Seq(Outputs), NEW kinds PROVE Count(s, kinds) \in Nat
BY CountConcat

(* What converting an event does. *)
LEMMA ConvertFields ==
  ASSUME TypeOK, Convert
  PROVE  LET o == Head(raw) IN
         /\ o \in Outputs /\ Tail(raw) \in Seq(Outputs)
         /\ raw # <<>> /\ raw' = Tail(raw)
         /\ batch' = Append(batch, o) /\ batch' \in Seq(Outputs)
         /\ metrics' \in Metrics
         /\ metrics'.events = metrics.events + (IF o \in Events THEN 1 ELSE 0)
         /\ metrics'.exec = metrics.exec + (IF o \in {"Exec"} THEN 1 ELSE 0)
         /\ metrics'.open = metrics.open + (IF o \in {"Open"} THEN 1 ELSE 0)
         /\ metrics'.alerts = metrics.alerts + (IF o \in {"Alert"} THEN 1 ELSE 0)
<1> DEFINE o == Head(raw)
           e == metrics.events + (IF o \in Events THEN 1 ELSE 0)
           x == metrics.exec + (IF o \in {"Exec"} THEN 1 ELSE 0)
           p == metrics.open + (IF o \in {"Open"} THEN 1 ELSE 0)
           a == metrics.alerts + (IF o \in {"Alert"} THEN 1 ELSE 0)
<1>1. /\ o \in Outputs /\ Tail(raw) \in Seq(Outputs) /\ raw # <<>>
      /\ raw' = Tail(raw) /\ batch' = Append(batch, o)
  BY HeadTailProperties DEF Convert, TypeOK
<1>2. batch' \in Seq(Outputs)
  BY <1>1, AppendProperties DEF TypeOK
<1>3. metrics' = [metrics EXCEPT !.events = e, !.exec = x, !.open = p, !.alerts = a]
  BY DEF Convert, TypeOK, Metrics
<1>4. metrics \in Metrics /\ e \in Nat /\ x \in Nat /\ p \in Nat /\ a \in Nat
  BY DEF TypeOK, Metrics
<1> HIDE DEF e, x, p, a
<1>5. /\ metrics' \in Metrics
      /\ metrics'.events = e /\ metrics'.exec = x /\ metrics'.open = p /\ metrics'.alerts = a
  BY <1>3, <1>4 DEF Metrics
<1> QED BY <1>1, <1>2, <1>5 DEF e, x, p, a

(* What offering a message does to the channel of c.                       *)
LEMMA OfferEffect ==
  ASSUME TypeOK, Offer
  PROVE  /\ batch # <<>> /\ Head(batch) \in Outputs
         /\ batch' = Tail(batch) /\ batch' \in Seq(Outputs)
         /\ feed' = Append(feed, Head(batch)) /\ feed' \in Seq(Outputs)
         /\ Len(feed) \in Nat /\ Len(feed') = Len(feed) + 1
         /\ \A c \in Conns :
              \/ /\ listed[c] /\ chan'[c] = Append(chan[c], Len(feed) + 1)
                 /\ missed'[c] = missed[c]
              \/ /\ listed[c] /\ chan'[c] = chan[c]
                 /\ missed'[c] = missed[c] \cup {Len(feed) + 1}
              \/ ~ listed[c] /\ chan'[c] = chan[c] /\ missed'[c] = missed[c]
         /\ chan' \in [Conns -> Seq(Nat)] /\ missed' \in [Conns -> SUBSET Nat]
<1>1. batch # <<>> /\ batch' = Tail(batch) /\ feed' = Append(feed, Head(batch))
  BY DEF Offer
<1>2. Head(batch) \in Outputs /\ Tail(batch) \in Seq(Outputs)
  BY <1>1, HeadTailProperties DEF TypeOK
<1>3. feed' \in Seq(Outputs) /\ Len(feed) \in Nat /\ Len(feed') = Len(feed) + 1
  BY <1>1, <1>2, AppendProperties, LenProperties DEF TypeOK
<1>4. /\ chan' = [c \in Conns |-> IF listed[c] /\ HasRoom(c) THEN Append(chan[c], Len(feed) + 1)
                                                             ELSE chan[c]]
      /\ missed' = [c \in Conns |-> IF listed[c] /\ ~ HasRoom(c)
                                    THEN missed[c] \cup {Len(feed) + 1} ELSE missed[c]]
  BY <1>3 DEF Offer
<1>5. Len(feed) + 1 \in Nat
  BY <1>3
<1>6. \A c \in Conns : /\ chan[c] \in Seq(Nat) /\ Append(chan[c], Len(feed) + 1) \in Seq(Nat)
                       /\ missed[c] \in SUBSET Nat
  BY <1>5, AppendProperties DEF TypeOK
<1>7. chan' \in [Conns -> Seq(Nat)]
  BY <1>4, <1>6
<1>8. missed' \in [Conns -> SUBSET Nat]
  BY <1>4, <1>5, <1>6
<1>9. \A c \in Conns :
        /\ chan'[c] = IF listed[c] /\ HasRoom(c) THEN Append(chan[c], Len(feed) + 1) ELSE chan[c]
        /\ missed'[c] = IF listed[c] /\ ~ HasRoom(c)
                        THEN missed[c] \cup {Len(feed) + 1} ELSE missed[c]
  BY <1>4
<1> QED BY <1>1, <1>2, <1>3, <1>7, <1>8, <1>9

LEMMA TypeStep == TypeOK /\ [Next]_vars => TypeOK'
<1> SUFFICES ASSUME TypeOK, [Next]_vars PROVE TypeOK'
  OBVIOUS
<1>1. CASE Poll
  <2>1. PICK n \in 1 .. MaxBatch : \E outputs \in [1 .. n -> Samples] :
          /\ polled' = polled + n
          /\ total_events' = total_events + Count(outputs, Events)
          /\ raw' = Returned(outputs)
          /\ left_out' = left_out \o SubSeq(outputs, Len(raw') + 1, n)
    BY <1>1 DEF Poll
  <2>2. PICK outputs \in [1 .. n -> Samples] :
          /\ polled' = polled + n
          /\ total_events' = total_events + Count(outputs, Events)
          /\ raw' = Returned(outputs)
          /\ left_out' = left_out \o SubSeq(outputs, Len(raw') + 1, n)
    BY <2>1
  <2>3. n \in Nat
    BY GoAssumption
  <2>4. /\ outputs \in Seq(Outputs) /\ raw' \in Seq(Outputs)
        /\ SubSeq(outputs, Len(raw') + 1, n) \in Seq(Outputs)
    BY <2>2, <2>3, ReturnedSplits
  <2>5. Count(outputs, Events) \in Nat
    BY <2>4, CountType
  <2>6. left_out' \in Seq(Outputs)
    BY <2>2, <2>4, ConcatProperties DEF TypeOK
  <2>7. polled' \in Nat /\ total_events' \in Nat
    BY <2>2, <2>3, <2>5 DEF TypeOK
  <2> QED BY <1>1, <2>4, <2>6, <2>7 DEF Poll, TypeOK, channel_vars, conn_vars
<1>2. CASE Convert
  BY <1>2, ConvertFields DEF Convert, TypeOK, channel_vars, conn_vars
<1>3. CASE Offer
  BY <1>3, OfferEffect DEF Offer, TypeOK, conn_vars
<1>4. CASE Sleep
  BY <1>4 DEF Sleep, TypeOK, channel_vars, conn_vars
<1>5. ASSUME NEW c \in Conns, handleWS(c) PROVE TypeOK'
  <2>1. Len(feed) \in Nat
    BY LenProperties DEF TypeOK
  <2>2. metrics' \in Metrics
    <3> DEFINE n == metrics.ws + 1
    <3>1. n \in Nat
      BY DEF TypeOK, Metrics
    <3>2. metrics' = [metrics EXCEPT !.ws = n]
      BY <1>5 DEF handleWS
    <3> HIDE DEF n
    <3> QED BY <3>1, <3>2 DEF TypeOK, Metrics
  <2>3. /\ UNCHANGED <<core_vars, feed, channel_vars, hand, got>>
        /\ stage' = [stage EXCEPT ![c] = "open"] /\ listed' = [listed EXCEPT ![c] = TRUE]
        /\ writer' = [writer EXCEPT ![c] = TRUE] /\ from' = [from EXCEPT ![c] = Len(feed)]
    BY <1>5 DEF handleWS
  <2> QED BY <2>1, <2>2, <2>3 DEF TypeOK, core_vars, channel_vars
<1>6. ASSUME NEW c \in Conns, Hangup(c) \/ Unlist(c) PROVE TypeOK'
  BY <1>6 DEF Hangup, Unlist, TypeOK, core_vars, channel_vars
<1>7. ASSUME NEW c \in Conns, Take(c) PROVE TypeOK'
  <2>1. chan[c] # <<>> /\ chan[c] \in Seq(Nat)
    BY <1>7 DEF Take, TypeOK
  <2>2. Head(chan[c]) \in Nat /\ Tail(chan[c]) \in Seq(Nat)
    BY <2>1, HeadTailProperties
  <2> QED BY <1>7, <2>2 DEF Take, TypeOK, core_vars
<1>8. ASSUME NEW c \in Conns, Write(c) PROVE TypeOK'
  <2>1. Append(got[c], hand[c]) \in Seq(Nat)
    BY AppendProperties DEF TypeOK
  <2> QED BY <1>8, <2>1 DEF Write, TypeOK, core_vars, channel_vars
<1>9. CASE UNCHANGED vars
  BY <1>9 DEF vars, TypeOK, core_vars, channel_vars, conn_vars
<1> QED BY <1>1, <1>2, <1>3, <1>4, <1>5, <1>6, <1>7, <1>8, <1>9 DEF Next, Forwarder

(* The feed only grows. *)
LEMMA FeedGrows ==
  ASSUME TypeOK, [Next]_vars
  PROVE  /\ Len(feed) \in Nat
         /\ Offer \/ feed' = feed
         /\ Len(feed') = Len(feed) \/ Len(feed') = Len(feed) + 1
<1>1. Len(feed) \in Nat
  BY LenProperties DEF TypeOK
<1>2. Offer \/ feed' = feed
  <2>1. Poll \/ Convert \/ Sleep \/ UNCHANGED vars => feed' = feed
    BY DEF Poll, Convert, Sleep, vars
  <2>2. \A c \in Conns : handleWS(c) \/ Hangup(c) \/ Unlist(c) \/ Take(c) \/ Write(c)
                           => feed' = feed
    BY DEF handleWS, Hangup, Unlist, Take, Write
  <2> QED BY <2>1, <2>2 DEF Next, Forwarder
<1>3. Offer => Len(feed') = Len(feed) + 1
  BY OfferEffect
<1>4. feed' = feed => Len(feed') = Len(feed)
  OBVIOUS
<1> QED BY <1>1, <1>2, <1>3, <1>4

(* What the others do leaves a client as it is. *)
LEMMA ApartFrom ==
  ASSUME TypeOK, [Next]_vars, NEW c \in Conns, ~ Offer,
         ~ (handleWS(c) \/ Hangup(c) \/ Unlist(c) \/ Take(c) \/ Write(c))
  PROVE  /\ stage'[c] = stage[c] /\ listed'[c] = listed[c] /\ from'[c] = from[c]
         /\ chan'[c] = chan[c] /\ missed'[c] = missed[c]
         /\ hand'[c] = hand[c] /\ got'[c] = got[c]
         /\ feed' = feed
<1> DEFINE Same == /\ stage'[c] = stage[c] /\ listed'[c] = listed[c] /\ from'[c] = from[c]
                   /\ chan'[c] = chan[c] /\ missed'[c] = missed[c]
                   /\ hand'[c] = hand[c] /\ got'[c] = got[c]
<1>1. CASE Poll \/ Convert \/ Sleep \/ UNCHANGED vars
  <2>1. UNCHANGED <<stage, listed, from, chan, missed, hand, got>>
    BY <1>1 DEF Poll, Convert, Sleep, vars, channel_vars, conn_vars
  <2> QED BY <2>1, FeedGrows
<1>2. ASSUME NEW d \in Conns, d # c,
             handleWS(d) \/ Hangup(d) \/ Unlist(d) \/ Take(d) \/ Write(d)
      PROVE  Same
  <2>1. CASE handleWS(d)
    BY <1>2, <2>1 DEF handleWS, TypeOK, channel_vars
  <2>2. CASE Hangup(d)
    BY <1>2, <2>2 DEF Hangup, TypeOK, channel_vars
  <2>3. CASE Unlist(d)
    BY <1>2, <2>3 DEF Unlist, TypeOK, channel_vars
  <2>4. CASE Take(d)
    BY <1>2, <2>4 DEF Take, TypeOK
  <2>5. CASE Write(d)
    BY <1>2, <2>5 DEF Write, TypeOK, channel_vars
  <2> QED BY <1>2, <2>1, <2>2, <2>3, <2>4, <2>5
<1>3. \/ Poll \/ Convert \/ Sleep \/ UNCHANGED vars
      \/ \E d \in Conns : d # c /\ (handleWS(d) \/ Hangup(d) \/ Unlist(d) \/ Take(d) \/ Write(d))
  BY DEF Next, Forwarder
<1> QED BY <1>1, <1>2, <1>3, FeedGrows

(* What the writer takes from the channel. *)
LEMMA TakeEffect ==
  ASSUME TypeOK, NEW c \in Conns, Take(c)
  PROVE  /\ UNCHANGED <<stage, listed, from, missed, got, feed>>
         /\ hand[c] = 0 /\ chan[c] # <<>> /\ Len(chan[c]) \in Nat \ {0}
         /\ hand'[c] = chan[c][1] /\ chan'[c] = Tail(chan[c])
         /\ chan'[c] \in Seq(Nat) /\ Len(chan'[c]) = Len(chan[c]) - 1
         /\ \A i \in 1 .. Len(chan'[c]) : chan'[c][i] = chan[c][i + 1]
<1>1. chan[c] \in Seq(Nat) /\ chan[c] # <<>>
  BY DEF TypeOK, Take
<1>2. /\ Tail(chan[c]) \in Seq(Nat) /\ Len(Tail(chan[c])) = Len(chan[c]) - 1
      /\ \A i \in 1 .. Len(Tail(chan[c])) : Tail(chan[c])[i] = chan[c][i + 1]
  BY <1>1, HeadTailProperties
<1>3. Len(chan[c]) \in Nat \ {0}
  BY <1>1, EmptySeq
<1>4. /\ UNCHANGED <<stage, listed, from, missed, got, feed>> /\ hand[c] = 0
      /\ hand'[c] = Head(chan[c]) /\ chan'[c] = Tail(chan[c])
  BY DEF Take, TypeOK
<1>5. Head(chan[c]) = chan[c][1]
  BY <1>1
<1> QED BY <1>1, <1>2, <1>3, <1>4, <1>5

(* What becomes of the message the writer has in hand. *)
LEMMA WriteEffect ==
  ASSUME TypeOK, NEW c \in Conns, Write(c)
  PROVE  /\ UNCHANGED <<stage, listed, from, chan, missed, feed>>
         /\ hand[c] # 0 /\ hand'[c] = 0
         /\ \/ /\ stage[c] = "open" /\ got' = [got EXCEPT ![c] = Append(@, hand[c])]
               /\ got'[c] = Append(got[c], hand[c])
               /\ AbstractFeed!LastOf(c)' = hand[c]
            \/ /\ stage[c] # "open" /\ got' = got
               /\ AbstractFeed!LastOf(c)' = AbstractFeed!LastOf(c)
<1>1. UNCHANGED <<stage, listed, from, chan, missed, feed>> /\ hand[c] # 0 /\ hand'[c] = 0
  BY DEF Write, TypeOK, channel_vars
<1>2. CASE stage[c] = "open"
  <2>1. got' = [got EXCEPT ![c] = Append(@, hand[c])] /\ got'[c] = Append(got[c], hand[c])
    BY <1>2 DEF Write, TypeOK
  <2>2. /\ Append(got[c], hand[c]) # <<>>
        /\ Len(Append(got[c], hand[c])) = Len(got[c]) + 1
        /\ Append(got[c], hand[c])[Len(got[c]) + 1] = hand[c]
    <3>1. got[c] \in Seq(Nat) /\ hand[c] \in Nat
      BY DEF TypeOK
    <3> QED BY <3>1, AppendProperties
  <2>3. AbstractFeed!LastOf(c)' = hand[c]
    BY <2>1, <2>2 DEF AbstractFeed!LastOf, AbstractFeed!Last
  <2> QED BY <1>1, <1>2, <2>1, <2>3
<1>3. CASE stage[c] # "open"
  <2>1. got' = got
    BY <1>3 DEF Write
  <2>2. AbstractFeed!LastOf(c)' = AbstractFeed!LastOf(c)
    BY <1>1, <2>1 DEF AbstractFeed!LastOf
  <2> QED BY <1>1, <1>3, <2>1, <2>2
<1> QED BY <1>2, <1>3

LEMMA LastOfType ==
  ASSUME TypeOK, NEW c \in Conns
  PROVE  AbstractFeed!LastOf(c) \in Nat /\ Taken(c) \in Nat
<1>1. got[c] \in Seq(Nat) /\ from[c] \in Nat /\ hand[c] \in Nat
  BY DEF TypeOK
<1>2. got[c] # <<>> => got[c][Len(got[c])] \in Nat
  BY <1>1, EmptySeq, ElementOfSeq
<1> QED BY <1>1, <1>2 DEF Taken, AbstractFeed!LastOf, AbstractFeed!Last

LEMMA FeedStep == FeedInv /\ [Next]_vars => FeedInv'
<1> SUFFICES ASSUME FeedInv, [Next]_vars PROVE FeedInv'
  OBVIOUS
<1>1. TypeOK /\ TypeOK'
  BY TypeStep DEF FeedInv
<1> SUFFICES ASSUME NEW c \in Conns PROVE Placed(c)'
  BY <1>1 DEF FeedInv
<1> DEFINE last == AbstractFeed!LastOf(c)
<1>2. /\ Placed(c) /\ Len(feed) \in Nat /\ hand[c] \in Nat /\ chan[c] \in Seq(Nat)
      /\ Len(chan[c]) \in Nat
  BY <1>1, LenProperties DEF FeedInv, TypeOK
<1>3. last \in Nat /\ Taken(c) \in Nat /\ \A i \in 1 .. Len(chan[c]) : chan[c][i] \in Nat
  BY <1>1, <1>2, LastOfType, ElementOfSeq
<1>4. CASE Offer
  <2>1. /\ Len(feed') = Len(feed) + 1
        /\ \/ listed[c] /\ chan'[c] = Append(chan[c], Len(feed) + 1)
              /\ missed'[c] = missed[c]
           \/ listed[c] /\ chan'[c] = chan[c]
           \/ ~ listed[c] /\ chan'[c] = chan[c] /\ missed'[c] = missed[c]
    BY <1>1, <1>4, OfferEffect
  <2>2. UNCHANGED <<stage, listed, from, hand, got>>
    BY <1>4 DEF Offer, conn_vars
  <2>3. last' = last /\ Taken(c)' = Taken(c)
    BY <2>2 DEF Taken, AbstractFeed!LastOf
  <2> HIDE DEF last
  <2>4. CASE chan'[c] = Append(chan[c], Len(feed) + 1) /\ listed[c] /\ missed'[c] = missed[c]
    <3>1. /\ Len(chan'[c]) = Len(chan[c]) + 1
          /\ \A i \in 1 .. Len(chan[c]) : chan'[c][i] = chan[c][i]
          /\ chan'[c][Len(chan[c]) + 1] = Len(feed) + 1
      BY <1>2, <2>4, AppendProperties
    <3>2. \A i \in 1 .. Len(chan'[c]) : chan'[c][i] \in Taken(c) + 1 .. Len(feed')
      <4> SUFFICES ASSUME NEW i \in 1 .. Len(chan[c]) + 1
                   PROVE  chan'[c][i] \in Taken(c) + 1 .. Len(feed) + 1
        BY <2>1, <3>1
      <4>1. CASE i \in 1 .. Len(chan[c])
        <5>1. chan[c][i] \in Taken(c) + 1 .. Len(feed)
          BY <1>2, <4>1 DEF Placed
        <5> QED BY <1>2, <1>3, <3>1, <4>1, <5>1, SMTT(20)
      <4>2. CASE i = Len(chan[c]) + 1
        <5>1. Taken(c) <= Len(feed)
          BY <1>2 DEF Placed
        <5> QED BY <1>2, <1>3, <3>1, <4>2, <5>1
      <4>3. i \in 1 .. Len(chan[c]) \/ i = Len(chan[c]) + 1
        <5>1. Len(chan[c]) \in Nat
          BY <1>2
        <5> QED BY <5>1
      <4> QED BY <4>1, <4>2, <4>3
    <3>3. \A i, j \in 1 .. Len(chan'[c]) : i < j => chan'[c][i] < chan'[c][j]
      <4> SUFFICES ASSUME NEW i \in 1 .. Len(chan[c]) + 1, NEW j \in 1 .. Len(chan[c]) + 1, i < j
                   PROVE  chan'[c][i] < chan'[c][j]
        BY <3>1
      <4>1. i \in 1 .. Len(chan[c])
        BY <1>2
      <4>2. CASE j \in 1 .. Len(chan[c])
        <5>1. chan[c][i] < chan[c][j]
          BY <1>2, <4>1, <4>2 DEF Placed
        <5> QED BY <3>1, <4>1, <4>2, <5>1
      <4>3. CASE j = Len(chan[c]) + 1
        <5>1. chan[c][i] \in Taken(c) + 1 .. Len(feed)
          BY <1>2, <4>1 DEF Placed
        <5>2. chan[c][i] < Len(feed) + 1
          BY <1>2, <1>3, <5>1
        <5>3. chan'[c][i] = chan[c][i] /\ chan'[c][j] = Len(feed) + 1
          BY <3>1, <4>1, <4>3
        <5> QED BY <5>2, <5>3
      <4>4. j \in 1 .. Len(chan[c]) \/ j = Len(chan[c]) + 1
        BY <1>2
      <4> QED BY <4>2, <4>3, <4>4
    <3> QED BY <1>2, <1>3, <2>1, <2>2, <2>3, <2>4, <3>2, <3>3, SMTT(30) DEF Placed, last
  <2>5. CASE chan'[c] = chan[c] /\ (listed[c] \/ missed'[c] = missed[c])
    <3>1. stage[c] = "new" => missed'[c] = missed[c]
      BY <1>2, <2>5 DEF Placed
    <3>2. Taken(c)' <= Len(feed')
      BY <1>2, <1>3, <2>1, <2>3 DEF Placed
    <3>3. \A i \in 1 .. Len(chan[c]) : chan[c][i] \in Taken(c) + 1 .. Len(feed')
      BY <1>2, <1>3, <2>1 DEF Placed
    <3> QED BY <1>2, <2>2, <2>3, <2>5, <3>1, <3>2, <3>3, SMTT(30) DEF Placed, last
  <2> QED BY <2>1, <2>4, <2>5
<1>5. CASE handleWS(c)
  <2>1. /\ stage'[c] = "open" /\ from'[c] = Len(feed) /\ feed' = feed
        /\ chan' = chan /\ hand' = hand /\ got' = got /\ stage[c] = "new"
    BY <1>1, <1>5 DEF handleWS, TypeOK, channel_vars
  <2>2. chan[c] = <<>> /\ hand[c] = 0 /\ got[c] = <<>>
    BY <1>2, <2>1 DEF Placed
  <2> QED BY <1>2, <2>1, <2>2 DEF Placed, Taken, AbstractFeed!LastOf
<1>6. CASE Hangup(c) \/ Unlist(c)
  <2>1. /\ stage'[c] = "closed" /\ feed' = feed
        /\ chan' = chan /\ hand' = hand /\ got' = got /\ from' = from
    BY <1>1, <1>6 DEF Hangup, Unlist, TypeOK, channel_vars
  <2> QED BY <1>2, <2>1 DEF Placed, Taken, AbstractFeed!LastOf
<1>7. CASE Take(c)
  <2>1. /\ UNCHANGED <<stage, listed, from, missed, got, feed>>
        /\ hand[c] = 0 /\ Len(chan[c]) \in Nat \ {0}
        /\ hand'[c] = chan[c][1] /\ chan[c] # <<>>
        /\ Len(chan'[c]) = Len(chan[c]) - 1
        /\ \A i \in 1 .. Len(chan'[c]) : chan'[c][i] = chan[c][i + 1]
    BY <1>1, <1>7, TakeEffect
  <2>2. last' = last /\ Taken(c) = last
    BY <2>1 DEF Taken, AbstractFeed!LastOf
  <2> HIDE DEF last
  <2>3. hand'[c] \in last + 1 .. Len(feed)
    BY <1>2, <1>3, <2>1, <2>2 DEF Placed
  <2>4. Taken(c)' = chan[c][1]
    BY <1>3, <2>1, <2>3 DEF Taken
  <2>5. \A i \in 1 .. Len(chan[c]) - 1 : chan[c][i + 1] \in chan[c][1] + 1 .. Len(feed)
    <3> SUFFICES ASSUME NEW i \in 1 .. Len(chan[c]) - 1
                 PROVE  chan[c][i + 1] \in chan[c][1] + 1 .. Len(feed)
      OBVIOUS
    <3>1. i + 1 \in 1 .. Len(chan[c]) /\ 1 \in 1 .. Len(chan[c]) /\ 1 < i + 1
      BY <1>2
    <3>2. chan[c][1] < chan[c][i + 1] /\ chan[c][i + 1] \in Taken(c) + 1 .. Len(feed)
      BY <1>2, <3>1 DEF Placed
    <3> QED BY <1>2, <1>3, <3>1, <3>2, SMTT(20)
  <2>6. \A i, j \in 1 .. Len(chan[c]) - 1 : i < j => chan[c][i + 1] < chan[c][j + 1]
    <3> SUFFICES ASSUME NEW i \in 1 .. Len(chan[c]) - 1, NEW j \in 1 .. Len(chan[c]) - 1, i < j
                 PROVE  chan[c][i + 1] < chan[c][j + 1]
      OBVIOUS
    <3>1. Len(chan[c]) \in Nat
      BY <1>2
    <3>2. i + 1 \in 1 .. Len(chan[c]) /\ j + 1 \in 1 .. Len(chan[c]) /\ i + 1 < j + 1
      BY <3>1
    <3>3. \A a, b \in 1 .. Len(chan[c]) : a < b => chan[c][a] < chan[c][b]
      BY <1>2 DEF Placed
    <3> QED BY <3>2, <3>3
  <2>7. stage[c] # "new"
    BY <1>2, <2>1 DEF Placed
  <2>8. Taken(c)' <= Len(feed') /\ last' < hand'[c]
    BY <1>2, <1>3, <2>1, <2>2, <2>3, <2>4
  <2>9. \A i \in 1 .. Len(chan'[c]) : chan'[c][i] \in Taken(c)' + 1 .. Len(feed')
    BY <2>1, <2>4, <2>5
  <2>10. \A i, j \in 1 .. Len(chan'[c]) : i < j => chan'[c][i] < chan'[c][j]
    <3> SUFFICES ASSUME NEW i \in 1 .. Len(chan[c]) - 1, NEW j \in 1 .. Len(chan[c]) - 1, i < j
                 PROVE  chan'[c][i] < chan'[c][j]
      BY <2>1
    <3>1. chan'[c][i] = chan[c][i + 1] /\ chan'[c][j] = chan[c][j + 1]
      BY <2>1
    <3> QED BY <2>6, <3>1
  <2> QED BY <2>1, <2>7, <2>8, <2>9, <2>10 DEF Placed, last
<1>8. CASE Write(c)
  <2>1. /\ UNCHANGED <<stage, listed, from, chan, missed, feed>>
        /\ hand[c] # 0 /\ hand'[c] = 0
        /\ (last' = hand[c] \/ last' = last)
    BY <1>1, <1>8, WriteEffect
  <2>2. Taken(c)' = last' /\ Taken(c) = hand[c]
    BY <2>1 DEF Taken
  <2> HIDE DEF last
  <2>3. last < hand[c] /\ hand[c] <= Len(feed) /\ stage[c] # "new"
    BY <1>2, <2>1, <2>2 DEF Placed, last
  <2>4. last' \in Nat /\ last' <= hand[c]
    BY <1>2, <1>3, <2>1, <2>3
  <2>5. \A i \in 1 .. Len(chan[c]) : chan[c][i] \in last' + 1 .. Len(feed)
    BY <1>2, <1>3, <2>2, <2>4 DEF Placed
  <2>6. stage'[c] # "new" /\ hand'[c] = 0
    BY <2>1, <2>3
  <2>7. Taken(c)' <= Len(feed')
    BY <1>3, <2>1, <2>2, <2>3, <2>4
  <2>8. \A i \in 1 .. Len(chan'[c]) : chan'[c][i] \in Taken(c)' + 1 .. Len(feed')
    BY <2>1, <2>2, <2>5
  <2>9. \A i, j \in 1 .. Len(chan'[c]) : i < j => chan'[c][i] < chan'[c][j]
    BY <1>2, <2>1 DEF Placed
  <2> QED BY <2>6, <2>7, <2>8, <2>9 DEF Placed
<1>9. CASE ~ Offer /\ ~ (handleWS(c) \/ Hangup(c) \/ Unlist(c) \/ Take(c) \/ Write(c))
  <2>1. /\ stage'[c] = stage[c] /\ listed'[c] = listed[c] /\ from'[c] = from[c]
        /\ chan'[c] = chan[c] /\ missed'[c] = missed[c]
        /\ hand'[c] = hand[c] /\ got'[c] = got[c] /\ feed' = feed
    BY <1>1, <1>9, ApartFrom
  <2>2. last' = last /\ Taken(c)' = Taken(c)
    BY <2>1 DEF Taken, AbstractFeed!LastOf, AbstractFeed!Last
  <2> HIDE DEF last
  <2> QED BY <1>2, <2>1, <2>2, SMTT(30) DEF Placed, last
<1> QED BY <1>4, <1>5, <1>6, <1>7, <1>8, <1>9

-----------------------------------------------------------------------------

(* Each step is a step of the feed with gaps, or changes nothing of it. *)
LEMMA FeedRefined ==
  FeedInv /\ [Next]_vars => [AbstractFeed!Next]_(AbstractFeed!vars)
<1> SUFFICES ASSUME FeedInv, [Next]_vars
             PROVE  AbstractFeed!Next \/ UNCHANGED AbstractFeed!vars
  OBVIOUS
<1>1. TypeOK /\ Len(feed) \in Nat
  BY LenProperties DEF FeedInv, TypeOK
<1>2. CASE Offer
  <2>1. UNCHANGED <<stage, from, got>>
    BY <1>2 DEF Offer, conn_vars
  <2>2. Len(feed') = Len(feed) + 1
    BY <1>1, <1>2, OfferEffect
  <2> QED BY <2>1, <2>2 DEF AbstractFeed!Next, AbstractFeed!Publish
<1>3. CASE Poll \/ Convert \/ Sleep \/ UNCHANGED vars
  BY <1>3 DEF Poll, Convert, Sleep, vars, conn_vars, AbstractFeed!vars
<1>4. ASSUME NEW c \in Conns, handleWS(c) PROVE AbstractFeed!Open(c)
  BY <1>4 DEF handleWS, AbstractFeed!Open
<1>5. ASSUME NEW c \in Conns, Hangup(c) PROVE AbstractFeed!Close(c)
  BY <1>5 DEF Hangup, AbstractFeed!Close
<1>6. ASSUME NEW c \in Conns, Unlist(c) \/ Take(c) PROVE UNCHANGED AbstractFeed!vars
  BY <1>6 DEF Unlist, Take, AbstractFeed!vars
<1>7. ASSUME NEW c \in Conns, Write(c)
      PROVE  AbstractFeed!Deliver(c) \/ UNCHANGED AbstractFeed!vars
  <2>1. /\ UNCHANGED <<stage, from, feed>> /\ hand[c] # 0
        /\ \/ stage[c] = "open" /\ got' = [got EXCEPT ![c] = Append(@, hand[c])]
           \/ got' = got
    BY <1>1, <1>7, WriteEffect
  <2>2. hand[c] \in AbstractFeed!LastOf(c) + 1 .. Len(feed)
    <3>1. AbstractFeed!LastOf(c) \in Nat /\ hand[c] \in Nat /\ Placed(c)
      BY <1>1, LastOfType DEF FeedInv, TypeOK
    <3> QED BY <1>1, <2>1, <3>1 DEF Placed, Taken
  <2> HIDE DEF AbstractFeed!LastOf
  <2> QED BY <2>1, <2>2 DEF AbstractFeed!Deliver, AbstractFeed!vars
<1> QED
  BY <1>2, <1>3, <1>4, <1>5, <1>6, <1>7 DEF Next, Forwarder, AbstractFeed!Next

(* The Go server implements the feed with gaps: what a client is sent was  *)
(* published after it was listed, each message once and in order.          *)
THEOREM FeedImplemented == Spec => IsFeed
<1>1. Init => AbstractFeed!Init
  BY DEF Init, AbstractFeed!Init
<1> QED
  BY <1>1, FeedInit, FeedStep, FeedRefined, PTL DEF Spec, IsFeed, AbstractFeed!Spec

-----------------------------------------------------------------------------
(* Nothing is missed that had room, and nothing is lost from sight.        *)

Accounted(c) == Range(got[c]) \cup Range(chan[c]) \cup missed[c] \cup ({hand[c]} \ {0})

Served(c) ==
  /\ from[c] <= Len(feed)
  /\ listed[c] /\ stage[c] = "open" => Accounted(c) = from[c] + 1 .. Len(feed)

(* The counters, by the sequences that make up what they count.            *)
Tally ==
  /\ metrics.events = Count(feed, Events) + Count(batch, Events)
  /\ metrics.exec = Count(feed, {"Exec"}) + Count(batch, {"Exec"})
  /\ metrics.open = Count(feed, {"Open"}) + Count(batch, {"Open"})
  /\ metrics.alerts = Count(feed, {"Alert"}) + Count(batch, {"Alert"})
  /\ total_events = metrics.events + (Count(raw, Events) + Count(left_out, Events))
  /\ polled = Len(feed) + Len(batch) + Len(raw) + Len(left_out)

MissInv == FeedInv /\ Tally /\ \A c \in Conns : Served(c)

LEMMA MissInit == Init => MissInv
<1> SUFFICES ASSUME Init PROVE MissInv
  OBVIOUS
<1>1. \A c \in Conns : Served(c)
  BY DEF Init, Served
<1>2. feed = <<>> /\ batch = <<>> /\ raw = <<>> /\ left_out = <<>> /\ Len(<<>>) = 0
  BY EmptySeq DEF Init
<1>3. Tally
  <2>1. /\ metrics.events = 0 /\ metrics.exec = 0 /\ metrics.open = 0 /\ metrics.alerts = 0
        /\ total_events = 0 /\ polled = 0
    BY DEF Init
  <2>2. \A kinds : /\ Count(feed, kinds) = 0 /\ Count(batch, kinds) = 0
                   /\ Count(raw, kinds) = 0 /\ Count(left_out, kinds) = 0
    BY <1>2, CountEmpty
  <2> QED BY <1>2, <2>1, <2>2 DEF Tally
<1> QED BY <1>1, <1>3, FeedInit DEF MissInv

LEMMA TallyStep == TypeOK /\ Tally /\ [Next]_vars => Tally'
<1> SUFFICES ASSUME TypeOK, Tally, [Next]_vars PROVE Tally'
  OBVIOUS
<1>1. TypeOK'
  BY TypeStep
<1>2. /\ feed \in Seq(Outputs) /\ batch \in Seq(Outputs) /\ raw \in Seq(Outputs)
      /\ left_out \in Seq(Outputs) /\ total_events \in Nat /\ polled \in Nat
      /\ metrics.events \in Nat /\ metrics.exec \in Nat /\ metrics.open \in Nat
      /\ metrics.alerts \in Nat
  BY DEF TypeOK, Metrics
<1>3. \A kinds : /\ Count(feed, kinds) \in Nat /\ Count(batch, kinds) \in Nat
                 /\ Count(raw, kinds) \in Nat /\ Count(left_out, kinds) \in Nat
  BY <1>2, CountType
<1>4. Len(feed) \in Nat /\ Len(batch) \in Nat /\ Len(raw) \in Nat /\ Len(left_out) \in Nat
  BY <1>2, LenProperties
<1>5. CASE Poll
  <2>1. PICK n \in 1 .. MaxBatch : \E outputs \in [1 .. n -> Samples] :
          /\ polled' = polled + n
          /\ total_events' = total_events + Count(outputs, Events)
          /\ raw' = Returned(outputs)
          /\ left_out' = left_out \o SubSeq(outputs, Len(raw') + 1, n)
    BY <1>5 DEF Poll
  <2>2. PICK outputs \in [1 .. n -> Samples] :
          /\ polled' = polled + n
          /\ total_events' = total_events + Count(outputs, Events)
          /\ raw' = Returned(outputs)
          /\ left_out' = left_out \o SubSeq(outputs, Len(raw') + 1, n)
    BY <2>1
  <2> DEFINE rest == SubSeq(outputs, Len(raw') + 1, n)
  <2>3. n \in Nat /\ raw = <<>> /\ UNCHANGED <<feed, batch, metrics>>
    BY <1>5, GoAssumption DEF Poll
  <2>4. /\ raw' \in Seq(Outputs) /\ rest \in Seq(Outputs)
        /\ raw' \o rest = outputs /\ Len(outputs) = n
    BY <2>2, <2>3, ReturnedSplits
  <2>5. left_out' = left_out \o rest
    BY <2>2
  <2> HIDE DEF rest
  <2>6. /\ Count(outputs, Events) = Count(raw', Events) + Count(rest, Events)
        /\ Count(left_out', Events) = Count(left_out, Events) + Count(rest, Events)
        /\ Count(raw', Events) \in Nat /\ Count(rest, Events) \in Nat
        /\ Count(raw, Events) = 0
    BY <1>2, <2>3, <2>4, <2>5, CountConcat, CountEmpty, ZenonT(40)
  <2>7. /\ n = Len(raw') + Len(rest) /\ Len(left_out') = Len(left_out) + Len(rest)
        /\ Len(raw') \in Nat /\ Len(rest) \in Nat /\ Len(raw) = 0
    BY <1>2, <2>3, <2>4, <2>5, ConcatProperties, LenProperties, EmptySeq
  <2>8. total_events' = metrics.events + (Count(raw', Events) + Count(left_out', Events))
    <3>1. total_events = metrics.events + (Count(raw, Events) + Count(left_out, Events))
      BY DEF Tally
    <3>2. /\ metrics.events \in Nat /\ Count(left_out, Events) \in Nat
          /\ total_events' = total_events + Count(outputs, Events)
      BY <1>2, <1>3, <2>2
    <3> QED BY <2>6, <3>1, <3>2
  <2>9. polled' = Len(feed) + Len(batch) + Len(raw') + Len(left_out')
    <3>1. polled = Len(feed) + Len(batch) + Len(raw) + Len(left_out)
      BY DEF Tally
    <3>2. polled' = polled + n
      BY <2>2
    <3> QED BY <1>4, <2>7, <3>1, <3>2
  <2> QED BY <2>3, <2>8, <2>9 DEF Tally
<1>6. CASE Convert
  <2> DEFINE o == Head(raw)
             one(kinds) == IF o \in kinds THEN 1 ELSE 0
  <2>1. /\ o \in Outputs /\ Tail(raw) \in Seq(Outputs) /\ raw # <<>> /\ raw' = Tail(raw)
        /\ batch' = Append(batch, o)
        /\ metrics'.events = metrics.events + one(Events)
        /\ metrics'.exec = metrics.exec + one({"Exec"})
        /\ metrics'.open = metrics.open + one({"Open"})
        /\ metrics'.alerts = metrics.alerts + one({"Alert"})
    BY <1>6, ConvertFields
  <2>2. UNCHANGED <<total_events, polled, left_out, feed>>
    BY <1>6 DEF Convert
  <2> HIDE DEF o
  <2>3. \A kinds : Count(batch', kinds) = Count(batch, kinds) + one(kinds)
    BY <1>2, <2>1, CountAppend
  <2>4. Count(raw, Events) = one(Events) + Count(raw', Events)
    BY <1>2, <2>1, CountHeadTail DEF o
  <2>5. Count(raw', Events) \in Nat
    BY <1>1, CountType DEF TypeOK
  <2>6. Len(batch') = Len(batch) + 1 /\ Len(raw') = Len(raw) - 1
    BY <1>2, <2>1, AppendProperties, HeadTailProperties
  <2>7. \A kinds : one(kinds) \in Nat
    OBVIOUS
  <2> HIDE DEF one
  <2>8. /\ metrics'.events = Count(feed, Events) + Count(batch', Events)
        /\ metrics'.exec = Count(feed, {"Exec"}) + Count(batch', {"Exec"})
        /\ metrics'.open = Count(feed, {"Open"}) + Count(batch', {"Open"})
        /\ metrics'.alerts = Count(feed, {"Alert"}) + Count(batch', {"Alert"})
    <3>1. /\ metrics.events = Count(feed, Events) + Count(batch, Events)
          /\ metrics.exec = Count(feed, {"Exec"}) + Count(batch, {"Exec"})
          /\ metrics.open = Count(feed, {"Open"}) + Count(batch, {"Open"})
          /\ metrics.alerts = Count(feed, {"Alert"}) + Count(batch, {"Alert"})
      BY DEF Tally
    <3>2. \A kinds : (Count(feed, kinds) + Count(batch, kinds)) + one(kinds)
                      = Count(feed, kinds) + Count(batch', kinds)
      BY <1>3, <2>3, <2>7
    <3> QED BY <2>1, <3>1, <3>2
  <2>9. total_events = metrics'.events + (Count(raw', Events) + Count(left_out, Events))
    <3>1. total_events = metrics.events + (Count(raw, Events) + Count(left_out, Events))
      BY DEF Tally
    <3>2. /\ metrics.events \in Nat /\ Count(left_out, Events) \in Nat /\ one(Events) \in Nat
          /\ metrics'.events = metrics.events + one(Events)
      BY <1>2, <1>3, <2>1, <2>7
    <3> QED BY <2>4, <2>5, <3>1, <3>2
  <2>10. polled = Len(feed) + Len(batch') + Len(raw') + Len(left_out)
    BY <1>4, <2>6 DEF Tally
  <2> QED BY <2>2, <2>8, <2>9, <2>10 DEF Tally
<1>7. CASE Offer
  <2> DEFINE o == Head(batch)
             one(kinds) == IF o \in kinds THEN 1 ELSE 0
  <2>1. /\ batch # <<>> /\ o \in Outputs /\ batch' = Tail(batch) /\ batch' \in Seq(Outputs)
        /\ feed' = Append(feed, o) /\ Len(feed') = Len(feed) + 1
    BY <1>7, OfferEffect
  <2>2. UNCHANGED <<total_events, polled, left_out, raw, metrics>>
    BY <1>7 DEF Offer
  <2> HIDE DEF o
  <2>3. \A kinds : Count(feed', kinds) = Count(feed, kinds) + one(kinds)
    BY <1>2, <2>1, CountAppend
  <2>4. \A kinds : Count(batch, kinds) = one(kinds) + Count(batch', kinds)
    BY <1>2, <2>1, CountHeadTail DEF o
  <2>5. \A kinds : Count(batch', kinds) \in Nat /\ one(kinds) \in Nat
    BY <2>1, CountType
  <2>6. Len(batch') = Len(batch) - 1
    BY <1>2, <2>1, HeadTailProperties
  <2> HIDE DEF one
  <2>7. \A kinds : Count(feed', kinds) + Count(batch', kinds) = Count(feed, kinds) + Count(batch, kinds)
    BY <1>3, <2>3, <2>4, <2>5
  <2>8. Len(feed') + Len(batch') = Len(feed) + Len(batch)
    BY <1>4, <2>1, <2>6
  <2> QED BY <2>2, <2>7, <2>8 DEF Tally
<1>8. CASE Sleep \/ UNCHANGED vars
  <2>1. UNCHANGED <<total_events, polled, left_out, raw, batch, feed, metrics>>
    BY <1>8 DEF Sleep, vars, core_vars
  <2> QED BY <2>1 DEF Tally
<1>9. ASSUME NEW c \in Conns, handleWS(c) PROVE Tally'
  <2>1. UNCHANGED <<total_events, polled, left_out, raw, batch, feed>>
    BY <1>9 DEF handleWS, core_vars
  <2>2. /\ metrics'.events = metrics.events /\ metrics'.exec = metrics.exec
        /\ metrics'.open = metrics.open /\ metrics'.alerts = metrics.alerts
    <3> DEFINE n == metrics.ws + 1
    <3>1. metrics' = [metrics EXCEPT !.ws = n] /\ metrics \in Metrics
      BY <1>9 DEF handleWS, TypeOK
    <3> HIDE DEF n
    <3> QED BY <3>1 DEF Metrics
  <2> QED BY <2>1, <2>2 DEF Tally
<1>10. ASSUME NEW c \in Conns, Hangup(c) \/ Unlist(c) \/ Take(c) \/ Write(c) PROVE Tally'
  <2>1. UNCHANGED <<total_events, polled, left_out, raw, batch, feed, metrics>>
    BY <1>10 DEF Hangup, Unlist, Take, Write, core_vars
  <2> QED BY <2>1 DEF Tally
<1> QED BY <1>5, <1>6, <1>7, <1>8, <1>9, <1>10 DEF Next, Forwarder

LEMMA ServedStep ==
  ASSUME MissInv, [Next]_vars, NEW c \in Conns
  PROVE  Served(c)'
<1>1. TypeOK /\ Placed(c) /\ Served(c)
  BY DEF MissInv, FeedInv
<1>2. /\ Len(feed) \in Nat /\ hand[c] \in Nat /\ chan[c] \in Seq(Nat) /\ got[c] \in Seq(Nat)
      /\ from[c] \in Nat /\ missed[c] \in SUBSET Nat
      /\ from[c] <= Len(feed)
  BY <1>1, LenProperties DEF TypeOK, Served
<1>3. CASE Offer
  <2>1. /\ Len(feed') = Len(feed) + 1
        /\ \/ listed[c] /\ chan'[c] = Append(chan[c], Len(feed) + 1) /\ missed'[c] = missed[c]
           \/ listed[c] /\ chan'[c] = chan[c] /\ missed'[c] = missed[c] \cup {Len(feed) + 1}
           \/ ~ listed[c] /\ chan'[c] = chan[c] /\ missed'[c] = missed[c]
    BY <1>1, <1>3, OfferEffect
  <2>2. UNCHANGED <<stage, listed, from, hand, got>>
    BY <1>3 DEF Offer, conn_vars
  <2>3. Len(feed) + 1 \in Nat
    BY <1>2
  <2>4. Range(Append(chan[c], Len(feed) + 1)) = Range(chan[c]) \cup {Len(feed) + 1}
    BY <1>2, <2>3, RangeAppend, SMTT(20)
  <2>5. listed[c] => Accounted(c)' = Accounted(c) \cup {Len(feed) + 1}
    <3>1. Accounted(c)' = Range(got'[c]) \cup Range(chan'[c]) \cup missed'[c] \cup ({hand'[c]} \ {0})
      BY DEF Accounted
    <3>2. Accounted(c)' = Range(got[c]) \cup Range(chan'[c]) \cup missed'[c] \cup ({hand[c]} \ {0})
      BY <2>2, <3>1
    <3> QED BY <2>1, <2>4, <3>2 DEF Accounted
  <2>6. from[c] + 1 .. Len(feed) + 1 = (from[c] + 1 .. Len(feed)) \cup {Len(feed) + 1}
    BY <1>2
  <2> HIDE DEF Accounted
  <2>7. listed'[c] /\ stage'[c] = "open" => Accounted(c)' = from'[c] + 1 .. Len(feed')
    BY <1>1, <2>1, <2>2, <2>5, <2>6 DEF Served
  <2>8. from'[c] <= Len(feed')
    BY <1>2, <2>1, <2>2
  <2> QED BY <2>7, <2>8 DEF Served
<1>4. CASE handleWS(c)
  <2>1. /\ from'[c] = Len(feed) /\ feed' = feed /\ stage[c] = "new"
        /\ chan' = chan /\ missed' = missed /\ hand' = hand /\ got' = got
    BY <1>1, <1>4 DEF handleWS, TypeOK, channel_vars
  <2>2. chan[c] = <<>> /\ hand[c] = 0 /\ got[c] = <<>> /\ missed[c] = {}
    BY <1>1, <2>1 DEF Placed
  <2>3. Range(<<>>) = {}
    BY DEF Range
  <2>4. Accounted(c)' = {}
    BY <2>1, <2>2, <2>3 DEF Accounted
  <2>5. from'[c] + 1 .. Len(feed') = {}
    BY <1>2, <2>1
  <2> QED BY <1>2, <2>1, <2>4, <2>5 DEF Served
<1>5. CASE Hangup(c) \/ Unlist(c)
  <2>1. stage'[c] = "closed" /\ feed' = feed /\ from' = from
    BY <1>1, <1>5 DEF Hangup, Unlist, TypeOK
  <2> QED BY <1>2, <2>1 DEF Served
<1>6. CASE Take(c)
  <2>1. /\ UNCHANGED <<stage, listed, from, missed, got, feed>>
        /\ hand[c] = 0 /\ chan[c] # <<>> /\ Len(chan[c]) \in Nat \ {0}
        /\ hand'[c] = chan[c][1] /\ chan'[c] = Tail(chan[c])
    BY <1>1, <1>6, TakeEffect
  <2>2. Range(chan[c]) = {chan[c][1]} \cup Range(chan'[c])
    BY <1>2, <2>1, RangeHeadTail
  <2>3. hand'[c] # 0
    <3>1. Taken(c) \in Nat
      BY <1>1, LastOfType
    <3>2. 1 \in 1 .. Len(chan[c])
      BY <2>1
    <3>3. chan[c][1] \in Taken(c) + 1 .. Len(feed)
      BY <1>1, <3>2 DEF Placed
    <3> QED BY <1>2, <2>1, <3>1, <3>3
  <2>4. Accounted(c)' = Accounted(c)
    BY <2>1, <2>2, <2>3 DEF Accounted
  <2> QED BY <1>1, <2>1, <2>4 DEF Served
<1>7. CASE Write(c)
  <2>1. /\ UNCHANGED <<stage, listed, from, chan, missed, feed>>
        /\ hand[c] # 0 /\ hand'[c] = 0
        /\ stage[c] = "open" => got'[c] = Append(got[c], hand[c])
    BY <1>1, <1>7, WriteEffect
  <2>2. Range(Append(got[c], hand[c])) = Range(got[c]) \cup {hand[c]}
    BY <1>2, RangeAppend
  <2>3. stage[c] = "open" => Accounted(c)' = Accounted(c)
    BY <2>1, <2>2 DEF Accounted
  <2> QED BY <1>1, <2>1, <2>3 DEF Served
<1>8. CASE ~ Offer /\ ~ (handleWS(c) \/ Hangup(c) \/ Unlist(c) \/ Take(c) \/ Write(c))
  <2>1. /\ stage'[c] = stage[c] /\ listed'[c] = listed[c] /\ from'[c] = from[c]
        /\ chan'[c] = chan[c] /\ missed'[c] = missed[c]
        /\ hand'[c] = hand[c] /\ got'[c] = got[c] /\ feed' = feed
    BY <1>1, <1>8, ApartFrom
  <2>2. Accounted(c)' = Accounted(c)
    BY <2>1 DEF Accounted
  <2> QED BY <1>1, <2>1, <2>2 DEF Served
<1> QED BY <1>3, <1>4, <1>5, <1>6, <1>7, <1>8

LEMMA MissStep == MissInv /\ [Next]_vars => MissInv'
BY FeedStep, TallyStep, ServedStep DEF MissInv, FeedInv

LEMMA TallyMeans ==
  ASSUME TypeOK, Tally
  PROVE  LET converted == feed \o batch
         IN  /\ metrics.events = Count(converted, Events)
             /\ metrics.exec = Count(converted, {"Exec"})
             /\ metrics.open = Count(converted, {"Open"})
             /\ metrics.alerts = Count(converted, {"Alert"})
             /\ total_events = metrics.events + Count(raw \o left_out, Events)
             /\ polled = Len(feed \o batch \o raw \o left_out)
<1>1. feed \in Seq(Outputs) /\ batch \in Seq(Outputs) /\ raw \in Seq(Outputs) /\ left_out \in Seq(Outputs)
  BY DEF TypeOK
<1>2. /\ \A kinds : Count(feed \o batch, kinds) = Count(feed, kinds) + Count(batch, kinds)
      /\ Count(raw \o left_out, Events) = Count(raw, Events) + Count(left_out, Events)
  BY <1>1, CountConcat
<1>3. feed \o batch \in Seq(Outputs) /\ Len(feed \o batch) = Len(feed) + Len(batch)
  BY <1>1, ConcatProperties
<1>4. /\ feed \o batch \o raw \in Seq(Outputs)
      /\ Len(feed \o batch \o raw) = Len(feed) + Len(batch) + Len(raw)
  BY <1>1, <1>3, ConcatProperties
<1>5. Len(feed \o batch \o raw \o left_out) = Len(feed) + Len(batch) + Len(raw) + Len(left_out)
  BY <1>1, <1>4, ConcatProperties
<1> QED BY <1>2, <1>5 DEF Tally

(* A client misses only what found its own channel full, and the counters, *)
(* the core's count and the number of outputs add up whatever is under     *)
(* way and whatever a poll had no room for.                                *)
THEOREM OnlySlowClientsMiss == Spec => []OnlySlowMiss
<1>1. MissInv => OnlySlowMiss
  BY TallyMeans DEF MissInv, FeedInv, Served, Accounted, OnlySlowMiss
<1> QED BY <1>1, MissInit, MissStep, PTL DEF Spec

=============================================================================
