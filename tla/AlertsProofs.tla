---------------------------- MODULE AlertsProofs ----------------------------
(***************************************************************************)
(* Proofs about the alert dispatcher (Alerts), for every registry of       *)
(* channels, any settings, any number of requests and any size of queue,   *)
(* and, below, about its MQTT channel (MqttChannel).                       *)
(*                                                                         *)
(* StaleIsExplained is inductive once the queue is known to be a sequence: *)
(* news leaves it only through Refresh or by eviction.  SilencedAfterSend  *)
(* rests on the order of three times: the event's, the send's, the clock.  *)
(***************************************************************************)
EXTENDS Alerts, MqttChannel, SequenceTheorems, TLAPS

Kinds == {"event", "stats", "changed"}

\* The event under way is not newer than its send, nor that than the clock.
InTime == now <= clock /\ began <= clock /\ (pc = "send" => now <= began)

AlertsInv == TypeOK /\ StaleIsExplained /\ SilencedAfterSend /\ InTime

LEMMA SeqDomain == \A q \in Seq(Kinds) : Len(q) \in Nat /\ DOMAIN q = 1..Len(q)
  BY LenProperties

\* Putting into the queue: its type, its bound, and the news in it stays unless
\* it is the head of a full queue.
LEMMA PutLemma ==
    ASSUME NEW q \in Seq(Kinds), NEW e \in Kinds, Len(q) <= Maxsize
    PROVE  /\ Put(q, e) \in Seq(Kinds) /\ Len(Put(q, e)) <= Maxsize
           /\ Put(q, e)[Len(Put(q, e))] = e /\ Len(Put(q, e)) \in DOMAIN Put(q, e)
           /\ \A k \in DOMAIN q :
                q[k] = "changed" /\ ~(Len(q) = Maxsize /\ k = 1)
                    => \E j \in DOMAIN Put(q, e) : Put(q, e)[j] = "changed"
<1>1. Len(q) \in Nat /\ DOMAIN q = 1..Len(q)
  BY LenProperties
<1>2. CASE Len(q) < Maxsize
  <2>1. Put(q, e) = Append(q, e)
    BY <1>2 DEF Put
  <2>2. /\ Append(q, e) \in Seq(Kinds) /\ Len(Append(q, e)) = Len(q) + 1
        /\ \A i \in 1..Len(q) : Append(q, e)[i] = q[i]
        /\ Append(q, e)[Len(q) + 1] = e
    BY AppendProperties
  <2> DEFINE a == Append(q, e)
  <2> HIDE DEF a
  <2>3. DOMAIN a = 1..(Len(q) + 1) /\ Len(a) = Len(q) + 1 /\ a \in Seq(Kinds)
    BY <2>2, SeqDomain DEF a
  <2>4. a[Len(q) + 1] = e /\ \A i \in 1..Len(q) : a[i] = q[i]
    BY <2>2 DEF a
  <2>5. Put(q, e) = a
    BY <2>1 DEF a
  <2>6. Len(q) + 1 <= Maxsize
    BY <1>1, <1>2, QueueAssumption
  <2>7. \A k \in DOMAIN q : k \in DOMAIN a /\ a[k] = q[k]
    BY <1>1, <2>3, <2>4
  <2> QED
    BY <1>1, <2>3, <2>4, <2>5, <2>6, <2>7
<1>3. CASE ~(Len(q) < Maxsize)
  <2>a. Maxsize \in Nat /\ Maxsize # 0
    BY QueueAssumption
  <2>b. Len(q) \in Nat
    BY <1>1
  <2>c. Len(q) = Maxsize
    BY <1>3, <2>a, <2>b
  <2>1. Len(q) = Maxsize /\ q # <<>>
    BY <2>a, <2>c, EmptySeq
  <2>2. /\ Tail(q) \in Seq(Kinds) /\ Len(Tail(q)) = Len(q) - 1
        /\ \A i \in 1..Len(Tail(q)) : Tail(q)[i] = q[i + 1]
    BY <2>1, HeadTailProperties
  <2>3. Put(q, e) = Append(Tail(q), e)
    BY <1>3 DEF Put
  <2> DEFINE t == Tail(q)
  <2> HIDE DEF t
  <2>4. /\ Append(t, e) \in Seq(Kinds) /\ Len(Append(t, e)) = Len(t) + 1
        /\ \A i \in 1..Len(t) : Append(t, e)[i] = t[i]
        /\ Append(t, e)[Len(t) + 1] = e
    BY <2>2, AppendProperties DEF t
  <2>5. DOMAIN Append(t, e) = 1..(Len(t) + 1)
    BY <2>4, LenProperties
  <2>6. \A k \in 2..Len(q) : k - 1 \in 1..Len(t) /\ q[k] = Append(t, e)[k - 1]
    BY <1>1, <2>2, <2>4 DEF t
  <2>7. \A k \in DOMAIN q : k # 1 => k \in 2..Len(q) /\ k - 1 \in DOMAIN Append(t, e)
    BY <1>1, <2>2, <2>5 DEF t
  <2> QED
    BY <1>1, <2>1, <2>2, <2>3, <2>4, <2>5, <2>6, <2>7, QueueAssumption DEF t
<1> QED
  BY <1>2, <1>3

\* Taking from the queue: what is not the head stays.
LEMMA TakeLemma ==
    ASSUME NEW q \in Seq(Kinds), q # <<>>, Len(q) <= Maxsize
    PROVE  /\ Tail(q) \in Seq(Kinds) /\ Len(Tail(q)) <= Maxsize
           /\ \A k \in DOMAIN q :
                q[k] = "changed" /\ Head(q) # "changed"
                    => \E j \in DOMAIN Tail(q) : Tail(q)[j] = "changed"
<1>1. Len(q) \in Nat /\ DOMAIN q = 1..Len(q) /\ Head(q) = q[1]
  BY LenProperties, HeadTailProperties
<1>2. /\ Tail(q) \in Seq(Kinds) /\ Len(Tail(q)) = Len(q) - 1
      /\ \A i \in 1..Len(Tail(q)) : Tail(q)[i] = q[i + 1]
  BY HeadTailProperties
<1>3. DOMAIN Tail(q) = 1..(Len(q) - 1)
  BY <1>2, LenProperties
<1>4. \A k \in DOMAIN q : k # 1 => k - 1 \in DOMAIN Tail(q) /\ q[k] = Tail(q)[k - 1]
  BY <1>1, <1>2, <1>3
<1> QED
  BY <1>1, <1>2, <1>4, QueueAssumption

\* A place that wants an event is one of the registry, and its channel known.
LEMMA WantedPlace ==
    ASSUME NEW k \in Nat, NEW c, NEW t, NEW j \in Wanted(k, c, t)
    PROVE  (k >= 1 => j \in DOMAIN Channels) /\ j \in Nat
  <1>1. DOMAIN Channels = 1..Len(Channels) /\ Len(Channels) \in Nat
    BY RegistryAssumption, LenProperties
  <1> QED
    BY <1>1 DEF Wanted

\* Offering an event from some place on.
LEMMA OfferLemma ==
    ASSUME TypeOK, InTime, NEW k \in Nat \ {0}, NEW c \in Config, NEW t \in Nat,
           t <= clock, clock' = clock, Offer(k, c, t)
    PROVE  /\ cfg' \in Config /\ now' \in Nat /\ turn' \in Nat /\ began' \in Nat
           /\ pc' \in {"get", "send"}
           /\ pc' = "send" => turn' \in DOMAIN Channels
           /\ InTime'
  BY WantedPlace DEF TypeOK, InTime, Offer

\* The news in a queue, by what happens to it.
News(q) == \E k \in DOMAIN q : q[k] = "changed"

LEMMA InitInv == Init => AlertsInv
  <1> SUFFICES ASSUME Init PROVE AlertsInv
    OBVIOUS
  <1>1. queue \in Seq(Kinds) /\ Len(queue) <= Maxsize
    BY EmptySeq, QueueAssumption DEF Init
  <1>2. stored \in Config /\ cache \in Config /\ cfg \in Config
    BY ConfigAssumption DEF Init
  <1>3. last \in [Names -> Time] /\ sends \in [Names -> Time]
    BY DEF Init, Time
  <1>4. pc \in {"starting", "get", "send"} /\ pc # "send" /\ restarting \subseteq Requests
    BY DEF Init
  <1>n. {clock, now, turn, began} \subseteq Nat /\ {saves, load} \subseteq Nat
    <2>1. clock = 0 /\ now = 0 /\ turn = 0 /\ began = 0 /\ saves = 0 /\ load = 0
      BY DEF Init
    <2> QED
      BY <2>1
  <1>s. {stored, cache, cfg} \subseteq Config
    BY <1>2
  <1>r. restarting = {} /\ lost = FALSE
    BY DEF Init
  <1> HIDE DEF Init
  <1>5. TypeOK
    BY <1>1, <1>3, <1>4, <1>n, <1>s, <1>r DEF TypeOK, Kinds
  <1> QED
    BY <1>5 DEF Init, AlertsInv, StaleIsExplained, SilencedAfterSend, InTime

\* Publishing keeps the news there is, unless it was evicted.
LEMMA PublishKeepsNews ==
    ASSUME TypeOK, NEW e \in Kinds, Publish(e)
    PROVE  /\ queue' \in Seq(Kinds) /\ Len(queue') <= Maxsize
           /\ News(queue) /\ ~Evicts("changed") => News(queue')
           /\ e = "changed" /\ Subscribed => News(queue')
  <1>1. queue \in Seq(Kinds) /\ Len(queue) <= Maxsize
    BY DEF TypeOK, Kinds
  <1>2. CASE ~Subscribed
    BY <1>1, <1>2 DEF Publish
  <1>3. CASE Subscribed
    <2>1. queue' = Put(queue, e)
      BY <1>3 DEF Publish
    <2>2. News(queue) /\ ~Evicts("changed") => News(Put(queue, e))
      <3> SUFFICES ASSUME News(queue), ~Evicts("changed") PROVE News(Put(queue, e))
        OBVIOUS
      <3>1. PICK k \in DOMAIN queue : queue[k] = "changed"
        BY DEF News
      <3>2. Head(queue) = queue[1]
        BY <1>1, <3>1, SeqDomain, HeadTailProperties, EmptySeq
      <3>3. ~(Len(queue) = Maxsize /\ k = 1)
        BY <1>3, <3>1, <3>2 DEF Evicts
      <3> QED
        BY <1>1, <3>1, <3>3, PutLemma DEF News
    <2> QED
      BY <1>1, <2>1, <2>2, PutLemma DEF News
  <1> QED
    BY <1>2, <1>3

\* Taking an envelope other than news keeps the news there is.
LEMMA TakeKeepsNews ==
    ASSUME TypeOK, NEW e \in Kinds, Take(e)
    PROVE  /\ queue' \in Seq(Kinds) /\ Len(queue') <= Maxsize
           /\ News(queue) /\ e # "changed" => News(queue')
  <1>1. queue \in Seq(Kinds) /\ Len(queue) <= Maxsize
    BY DEF TypeOK, Kinds
  <1> QED
    BY <1>1, TakeLemma DEF Take, News

\* Every step keeps the types and the order of times.
LEMMA NextType ==
    ASSUME TypeOK, InTime, [Next]_vars
    PROVE  TypeOK' /\ InTime'
  <1> USE DEF TypeOK, InTime, bus, handling, fired, Time, Subscribed
  <1>1. CASE Subscribe
    BY <1>1 DEF Subscribe
  <1>2. CASE Refresh
    BY <1>2, TakeKeepsNews DEF Refresh, Kinds
  <1>3. CASE Ignore
    BY <1>3, TakeKeepsNews DEF Ignore, Kinds
  <1>4. CASE Handle
    <2>1. queue' \in Seq(Kinds) /\ Len(queue') <= Maxsize
      BY <1>4, TakeKeepsNews DEF Handle, Kinds
    <2>2. Offer(1, cache, clock) /\ clock' = clock
      BY <1>4 DEF Handle
    <2>3. /\ cfg' \in Config /\ now' \in Nat /\ turn' \in Nat /\ began' \in Nat
          /\ pc' \in {"get", "send"}
          /\ pc' = "send" => turn' \in DOMAIN Channels
          /\ InTime'
      BY <2>2, OfferLemma
    <2> QED
      BY <1>4, <2>1, <2>3 DEF Handle, Kinds
  <1>5. CASE Disregard
    BY <1>5, TakeKeepsNews DEF Disregard, Kinds
  <1>6. ASSUME pc = "send", Offer(turn + 1, cfg, now), clock' = clock
        PROVE  /\ cfg' \in Config /\ now' \in Nat /\ turn' \in Nat /\ began' \in Nat
               /\ pc' \in {"get", "send"}
               /\ pc' = "send" => turn' \in DOMAIN Channels
               /\ InTime'
    <2>1. turn + 1 \in Nat \ {0}
      OBVIOUS
    <2> QED
      BY <1>6, <2>1, OfferLemma
  <1>7. CASE SendOk
    <2>1. Channels[turn] \in Names
      BY <1>7, RegistryAssumption, LenProperties DEF SendOk, Names
    <2>2. last' \in [Names -> Time] /\ sends' \in [Names -> Time]
      BY <1>7, <2>1 DEF SendOk
    <2> QED
      BY <1>6, <1>7, <2>2 DEF SendOk
  <1>8. CASE SendFails
    BY <1>6, <1>8 DEF SendFails
  <1>9. CASE PublishOther
    BY <1>9, PublishKeepsNews DEF PublishOther, Kinds
  <1>10. CASE Tick
    BY <1>10 DEF Tick
  <1>11. ASSUME NEW h \in Requests, Save(h) PROVE TypeOK' /\ InTime'
    BY <1>11, ConfigAssumption DEF Save
  <1>12. ASSUME NEW h \in Requests, RestartDone(h) PROVE TypeOK' /\ InTime'
    BY <1>12, PublishKeepsNews DEF RestartDone, Kinds
  <1>13. ASSUME NEW h \in Requests, RestartFails(h) PROVE TypeOK' /\ InTime'
    BY <1>13 DEF RestartFails
  <1>14. CASE UNCHANGED vars
    BY <1>14 DEF vars
  <1> QED
    BY <1>1, <1>2, <1>3, <1>4, <1>5, <1>7, <1>8, <1>9, <1>10, <1>11, <1>12, <1>13, <1>14
    DEF Next, Dispatch, FinishRestart

\* No step makes stale settings go unexplained.
LEMMA NextStale ==
    ASSUME TypeOK, TypeOK', StaleIsExplained, [Next]_vars
    PROVE  StaleIsExplained'
  <1> DEFINE Explained == cache = stored \/ restarting # {} \/ News(queue) \/ lost
  <1>a. (StaleIsExplained <=> Explained) /\ (StaleIsExplained' <=> Explained')
    BY DEF StaleIsExplained, NewsUnderWay, News
  <1> SUFFICES Explained'
    BY <1>a
  <1>b. Explained
    BY <1>a
  <1> USE DEF bus, handling, fired
  <1>1. CASE Refresh
    BY <1>1 DEF Refresh
  <1>2. CASE Ignore
    <2>1. News(queue) => News(queue')
      BY <1>2, TakeKeepsNews DEF Ignore, Kinds
    <2> QED
      BY <1>b, <1>2, <2>1 DEF Ignore
  <1>3. CASE Handle \/ Disregard
    <2>1. News(queue) => News(queue')
      BY <1>3, TakeKeepsNews DEF Handle, Disregard, Kinds
    <2> QED
      BY <1>b, <1>3, <2>1 DEF Handle, Disregard
  <1>4. CASE PublishOther
    <2>1. PICK kind \in {"event", "stats"} : Publish(kind)
      BY <1>4 DEF PublishOther
    <2>2. News(queue) /\ ~Evicts("changed") => News(queue')
      BY <2>1, PublishKeepsNews DEF Kinds
    <2> QED
      BY <1>b, <1>4, <2>2 DEF PublishOther
  <1>5. ASSUME NEW h \in Requests, RestartDone(h) PROVE Explained'
    <2>1. Subscribed
      BY <1>5 DEF RestartDone, TypeOK
    <2> QED
      BY <1>5, <2>1, PublishKeepsNews DEF RestartDone, Kinds
  <1>6. ASSUME NEW h \in Requests, Save(h) PROVE Explained'
    BY <1>6 DEF Save
  <1>7. ASSUME NEW h \in Requests, RestartFails(h) PROVE Explained'
    BY <1>7 DEF RestartFails
  <1>8. CASE Subscribe \/ SendOk \/ SendFails \/ Tick \/ UNCHANGED vars
    BY <1>b, <1>8 DEF Subscribe, SendOk, SendFails, Tick, vars, News
  <1> QED
    BY <1>1, <1>2, <1>3, <1>4, <1>5, <1>6, <1>7, <1>8
    DEF Next, Dispatch, FinishRestart

\* No step marks a channel that did not send.
LEMMA NextSilenced ==
    ASSUME TypeOK, TypeOK', InTime, SilencedAfterSend, [Next]_vars
    PROVE  SilencedAfterSend'
  <1> USE DEF bus, handling, fired
  <1>1. CASE SendOk
    <2>1. Channels[turn] \in Names /\ now <= began /\ began \in Nat /\ now \in Nat
      BY <1>1, RegistryAssumption, LenProperties DEF SendOk, Names, TypeOK, InTime
    <2>2. ASSUME NEW ch \in Names, last'[ch] # Never
          PROVE  sends'[ch] # Never /\ sends'[ch] >= last'[ch]
      <3>1. CASE ch = Channels[turn]
        BY <1>1, <2>1, <3>1, QueueAssumption DEF SendOk, TypeOK
      <3>2. CASE ch # Channels[turn]
        BY <1>1, <2>1, <2>2, <3>2 DEF SendOk, TypeOK, SilencedAfterSend
      <3> QED
        BY <3>1, <3>2
    <2> QED
      BY <2>2 DEF SilencedAfterSend
  <1>2. CASE ~SendOk
    <2>1. UNCHANGED fired
      BY <1>2 DEF Next, Dispatch, Subscribe, Refresh, Ignore, Handle, Disregard,
         SendFails, PublishOther, Tick, Save, FinishRestart, RestartDone,
         RestartFails, vars
    <2> QED
      BY <2>1 DEF SilencedAfterSend
  <1> QED
    BY <1>1, <1>2

LEMMA NextInv == AlertsInv /\ [Next]_vars => AlertsInv'
  BY NextType, NextStale, NextSilenced DEF AlertsInv

\* The dispatcher's variables keep their types.
THEOREM TypeCorrect == Spec => []TypeOK
  <1>1. AlertsInv => TypeOK
    BY DEF AlertsInv
  <1> QED
    BY InitInv, NextInv, <1>1, PTL DEF Spec

\* The cache is the stored settings, or news of them is on its way, or a
\* restart raised or the news was evicted (run(), Supervisor.restart).
THEOREM StaleIsExplainedHolds == Spec => []StaleIsExplained
  <1>1. AlertsInv => StaleIsExplained
    BY DEF AlertsInv
  <1> QED
    BY InitInv, NextInv, <1>1, PTL DEF Spec

\* Only a message that went out starts a cooldown (_fire).
THEOREM SilencedAfterSendHolds == Spec => []SilencedAfterSend
  <1>1. AlertsInv => SilencedAfterSend
    BY DEF AlertsInv
  <1> QED
    BY InitInv, NextInv, <1>1, PTL DEF Spec

---------------------------------------------------------------------------
(* The MQTT channel (MqttChannel), for any brokers and any number of test  *)
(* alerts in flight.                                                       *)
(*                                                                         *)
(* That a message goes to the right broker rests on two facts about the    *)
(* publisher: the signature is that of the publisher held, and a sender    *)
(* that waits for a connection waits for a publisher of its own broker.    *)
(* That alerts alone leave no client behind rests on the task using no     *)
(* publisher but the one held.                                             *)

\* A sender that connects has a publisher for its broker; one that closes has
\* a publisher.
Targets ==
    \A s \in Senders :
        /\ place[s] = "closing" => uses[s] # 0
        /\ place[s] = "connecting" =>
             uses[s] # 0 /\ publishers[uses[s]] = wants[s]

MqttInv == MqttTypeOK /\ Targets /\ RightBroker

\* A new publisher is the last; the others are as they were.
LEMMA RenewMakes ==
    ASSUME NEW s \in Senders, NEW b \in Brokers,
           MqttTypeOK, Renew(s, b)
    PROVE  /\ publishers' \in Seq(Brokers)
           /\ Len(publishers) \in Nat
           /\ Len(publishers') = Len(publishers) + 1
           /\ Len(publishers') <= MaxPublishers
           /\ mqtt' = Len(publishers) + 1 /\ sig' = b
           /\ publishers'[Len(publishers) + 1] = b
           /\ \A q \in 1..Len(publishers) : publishers'[q] = publishers[q]
           /\ DOMAIN publishers = 1..Len(publishers)
           /\ DOMAIN publishers' = 1..(Len(publishers) + 1)
           /\ place' = [place EXCEPT ![s] = "connecting"]
           /\ uses' = [uses EXCEPT ![s] = Len(publishers) + 1]
           /\ misled' = misled
  <1>1. publishers \in Seq(Brokers) /\ publishers' = Append(publishers, b)
    BY DEF MqttTypeOK, Renew
  <1>2. Len(publishers) \in Nat
    BY <1>1, LenProperties
  <1> QED
    BY <1>1, <1>2, BoundAssumption, AppendProperties, LenProperties
       DEF BoundAssumption, Renew, Goto

\* Making a publisher keeps the invariant, whoever else is waiting for one.
LEMMA RenewSafe ==
    ASSUME NEW s \in Senders, NEW b \in Brokers,
           MqttInv, Renew(s, b),
           wants' = [wants EXCEPT ![s] = b], running' \subseteq running,
           UNCHANGED serving, tested' \in BOOLEAN
    PROVE  MqttInv'
  <1> DEFINE n == Len(publishers) + 1
  <1>1. /\ MqttTypeOK /\ n \in Nat \ {0} /\ Len(publishers) \in Nat
        /\ publishers' \in Seq(Brokers) /\ Len(publishers') = n /\ n <= MaxPublishers
        /\ DOMAIN publishers = 1..Len(publishers) /\ DOMAIN publishers' = 1..n
        /\ mqtt' = n /\ sig' = b /\ publishers'[n] = b
        /\ \A q \in 1..Len(publishers) : publishers'[q] = publishers[q]
        /\ place' = [place EXCEPT ![s] = "connecting"]
        /\ uses' = [uses EXCEPT ![s] = n]
        /\ misled' = misled
    BY RenewMakes DEF MqttInv
  <1> HIDE DEF n
  <1>2. 1..Len(publishers) \subseteq 1..n /\ 0..Len(publishers) \subseteq 0..n /\ n \in 0..n
    BY <1>1 DEF n
  <1>3. running' \subseteq DOMAIN publishers'
    BY <1>1, <1>2 DEF MqttTypeOK
  <1>4. uses' \in [Senders -> 0..n]
    BY <1>1, <1>2 DEF MqttTypeOK
  <1>5. MqttTypeOK'
    BY <1>1, <1>2, <1>3, <1>4 DEF MqttTypeOK
  <1>6. Targets'
    <2>1. \A r \in Senders : r # s =>
            /\ place'[r] = place[r] /\ uses'[r] = uses[r] /\ wants'[r] = wants[r]
            /\ uses[r] \in 0..Len(publishers)
      BY <1>1 DEF MqttTypeOK
    <2>2. place'[s] = "connecting" /\ uses'[s] = n /\ wants'[s] = b
      BY <1>1 DEF MqttTypeOK
    <2>3. \A r \in Senders : r # s /\ uses[r] # 0 => uses[r] \in 1..Len(publishers)
      BY <1>1, <2>1
    <2> QED
      BY <1>1, <2>1, <2>2, <2>3 DEF Targets, MqttInv
  <1> QED
    BY <1>1, <1>5, <1>6 DEF RightBroker, MqttInv

\* The initial states satisfy the invariant.
LEMMA MqttStarts == MqttInit => MqttInv
  <1> SUFFICES ASSUME MqttInit PROVE MqttInv
    OBVIOUS
  <1>1. publishers \in Seq(Brokers) /\ Len(publishers) = 0
    BY EmptySeq DEF MqttInit
  <1>2. \A r \in Senders : place[r] = "idle" /\ uses[r] = 0
    BY DEF MqttInit
  <1>3. /\ Len(publishers) <= MaxPublishers
        /\ running \subseteq DOMAIN publishers
        /\ mqtt \in 0..Len(publishers)
    BY <1>1, BoundAssumption DEF BoundAssumption, MqttInit
  <1>4. /\ place \in [Senders -> {"idle", "closing", "connecting", "cancelled"}]
        /\ uses \in [Senders -> 0..Len(publishers)]
    BY <1>1, <1>2 DEF MqttInit
  <1>5. MqttTypeOK
    BY <1>1, <1>3, <1>4 DEF MqttInit, MqttTypeOK
  <1> QED
    BY <1>2, <1>5 DEF MqttInit, MqttInv, Targets, RightBroker

\* Every step keeps it.
LEMMA MqttStep == MqttInv /\ [MqttNext]_mqttVars => MqttInv'
  <1> SUFFICES ASSUME MqttInv, [MqttNext]_mqttVars PROVE MqttInv'
    OBVIOUS
  <1>a. DOMAIN publishers = 1..Len(publishers) /\ Len(publishers) \in Nat
    BY LenProperties DEF MqttInv, MqttTypeOK
  <1>1. ASSUME NEW s \in Senders, NEW b \in Brokers, Reuse(s, b) PROVE MqttInv'
    <2> USE <1>a DEF MqttInv
    <2>1. mqtt \in 1..Len(publishers) /\ publishers[mqtt] = b
      BY <1>1 DEF Reuse, MqttTypeOK
    <2>2. RightBroker'
      BY <1>1, <2>1 DEF Reuse, Message, RightBroker
    <2>3. MqttTypeOK'
      BY <1>1, <2>1 DEF Reuse, Begin, Message, Goto, MqttTypeOK
    <2>4. Targets'
      BY <1>1, <2>1 DEF Reuse, Begin, Goto, MqttTypeOK, Targets
    <2> QED BY <2>2, <2>3, <2>4
  <1>2. ASSUME NEW s \in Senders, NEW b \in Brokers, Replace(s, b) PROVE MqttInv'
    BY <1>2, RenewSafe DEF Replace, Begin, MqttInv, MqttTypeOK
  <1>3. ASSUME NEW s \in Senders, NEW b \in Brokers, Close(s, b) PROVE MqttInv'
    BY <1>3 DEF Close, Begin, Goto, MqttInv, MqttTypeOK, Targets, RightBroker
  <1>4. ASSUME NEW s \in Senders, Closed(s) PROVE MqttInv'
    <2>1. wants[s] \in Brokers /\ wants' = [wants EXCEPT ![s] = wants[s]]
      BY <1>4 DEF Closed, MqttInv, MqttTypeOK
    <2> QED
      BY <1>4, <2>1, RenewSafe DEF Closed, MqttInv, MqttTypeOK
  <1>5. ASSUME NEW s \in Senders, Connected(s) PROVE MqttInv'
    <2> USE <1>a DEF MqttInv
    <2>1. uses[s] \in 1..Len(publishers) /\ publishers[uses[s]] = wants[s]
      BY <1>5 DEF Connected, MqttTypeOK, Targets
    <2>2. RightBroker'
      BY <1>5, <2>1 DEF Connected, Message, RightBroker
    <2>3. MqttTypeOK'
      BY <1>5, <2>1 DEF Connected, Message, Goto, MqttTypeOK
    <2>4. Targets'
      BY <1>5, <2>1 DEF Connected, Goto, MqttTypeOK, Targets
    <2> QED BY <2>2, <2>3, <2>4
  <1>6. ASSUME NEW s \in Senders, ConnectFails(s) PROVE MqttInv'
    BY <1>6 DEF ConnectFails, Goto, MqttInv, MqttTypeOK, Targets, RightBroker
  <1>9. ASSUME NEW s \in Senders, NEW b \in Brokers, MakeFails(s, b) PROVE MqttInv'
    BY <1>9 DEF MakeFails, Begin, MqttInv, MqttTypeOK, Targets, RightBroker
  <1>10. ASSUME NEW s \in Senders, CloseFails(s) PROVE MqttInv'
    BY <1>10 DEF CloseFails, Goto, MqttInv, MqttTypeOK, Targets, RightBroker
  <1>7. CASE Shutdown
    BY <1>7 DEF Shutdown, Senders, MqttInv, MqttTypeOK, Targets, RightBroker
  <1>8. CASE UNCHANGED mqttVars
    BY <1>8 DEF mqttVars, MqttInv, MqttTypeOK, Targets, RightBroker
  <1> QED
    BY <1>1, <1>2, <1>3, <1>4, <1>5, <1>6, <1>7, <1>8, <1>9, <1>10 DEF MqttNext

\* The variables keep their types, and the signature is always that of the
\* publisher the dispatcher holds (_publish_mqtt).
THEOREM MqttTypeCorrect == MqttSpec => []MqttTypeOK
  <1>1. MqttInv => MqttTypeOK
    BY DEF MqttInv
  <1> QED
    BY MqttStarts, MqttStep, <1>1, PTL DEF MqttSpec

\* No message reaches a broker other than that of its settings, however alerts
\* and test alerts interleave (_publish_mqtt).
THEOREM RightBrokerHolds == MqttSpec => []RightBroker
  <1>1. MqttInv => RightBroker
    BY DEF MqttInv
  <1> QED
    BY MqttStarts, MqttStep, <1>1, PTL DEF MqttSpec

---------------------------------------------------------------------------
(* Alerts alone.                                                           *)

\* No test alert waits, the task waits only for the publisher that is held, no
\* other one runs, and after a shutdown none does.
Alone ==
    /\ \A s \in Tests : place[s] = "idle"
    /\ running \subseteq {mqtt}
    /\ place[Task] \in {"closing", "connecting"} => uses[Task] = mqtt
    /\ ~serving => place[Task] = "cancelled" /\ running = {}

AloneInv == MqttInv /\ (~tested => Alone)

LEMMA AloneNext == AloneInv /\ [MqttNext]_mqttVars => AloneInv'
  <1> SUFFICES ASSUME AloneInv, [MqttNext]_mqttVars, ~tested' PROVE Alone'
    BY MqttStep DEF AloneInv
  <1>a. MqttInv /\ MqttInv' /\ DOMAIN publishers = 1..Len(publishers) /\ Len(publishers) \in Nat
    BY MqttStep, LenProperties DEF AloneInv, MqttInv, MqttTypeOK
  <1>b. ~tested
    BY DEF MqttNext, Reuse, Replace, MakeFails, Close, Begin, Closed, CloseFails,
           Connected, ConnectFails, Shutdown, mqttVars
  <1>c. Alone
    BY <1>b DEF AloneInv
  <1>d. Task \in Senders /\ Tests \subseteq Senders /\ Task \notin Tests
    BY SendersAssumption DEF SendersAssumption, Senders
  <1>e. MqttTypeOK
    BY <1>a DEF MqttInv
  <1>f. \A s \in Senders : s # Task => s \in Tests
    BY DEF Senders
  <1>1. ASSUME NEW s \in Senders, NEW b \in Brokers, Reuse(s, b) PROVE Alone'
    <2>1. s = Task
      BY <1>1, <1>f DEF Reuse, Begin
    <2> QED
      BY <1>1, <2>1, <1>c, <1>d, <1>e DEF Reuse, Begin, Goto, Alone, MqttTypeOK
  <1>2. ASSUME NEW s \in Senders, NEW b \in Brokers, Replace(s, b) PROVE Alone'
    <2>1. s = Task
      BY <1>2, <1>f DEF Replace, Begin
    <2>2. running = {}
      BY <1>2, <1>c, <1>e, <1>a DEF Replace, Begin, Alone, MqttTypeOK
    <2>3. running' = {} /\ serving'
      BY <1>2, <2>2 DEF Replace, Begin
    <2>4. mqtt' = Len(publishers) + 1 /\ place' = [place EXCEPT ![Task] = "connecting"]
          /\ uses' = [uses EXCEPT ![Task] = Len(publishers) + 1]
      BY <1>2, <2>1 DEF Replace, Renew, Goto
    <2> QED
      BY <2>3, <2>4, <1>c, <1>d, <1>e DEF Alone, MqttTypeOK
  <1>3. ASSUME NEW s \in Senders, NEW b \in Brokers, Close(s, b) PROVE Alone'
    <2>1. s = Task
      BY <1>3, <1>f DEF Close, Begin
    <2> QED
      BY <1>3, <2>1, <1>c, <1>d, <1>e DEF Close, Begin, Goto, Alone, MqttTypeOK
  <1>4. ASSUME NEW s \in Senders, Closed(s) PROVE Alone'
    <2>1. s = Task
      BY <1>4, <1>c, <1>f DEF Closed, Alone
    <2>2. running' = {} /\ serving'
      BY <1>4, <2>1, <1>c DEF Closed, Alone
    <2>3. mqtt' = Len(publishers) + 1 /\ place' = [place EXCEPT ![Task] = "connecting"]
          /\ uses' = [uses EXCEPT ![Task] = Len(publishers) + 1]
      BY <1>4, <2>1 DEF Closed, Renew, Goto
    <2> QED
      BY <2>2, <2>3, <1>c, <1>d, <1>e DEF Alone, MqttTypeOK
  <1>5. ASSUME NEW s \in Senders, Connected(s) PROVE Alone'
    <2>1. s = Task
      BY <1>5, <1>c, <1>f DEF Connected, Alone
    <2> QED
      BY <1>5, <2>1, <1>c, <1>d, <1>e DEF Connected, Goto, Alone, MqttTypeOK
  <1>6. ASSUME NEW s \in Senders, ConnectFails(s) PROVE Alone'
    <2>1. s = Task
      BY <1>6, <1>c, <1>f DEF ConnectFails, Alone
    <2> QED
      BY <1>6, <2>1, <1>c, <1>d, <1>e DEF ConnectFails, Goto, Alone, MqttTypeOK
  <1>9. ASSUME NEW s \in Senders, NEW b \in Brokers, MakeFails(s, b) PROVE Alone'
    BY <1>9, <1>c DEF MakeFails, Begin, Alone
  <1>10. ASSUME NEW s \in Senders, CloseFails(s) PROVE Alone'
    <2>1. s = Task
      BY <1>10, <1>c, <1>f DEF CloseFails, Alone
    <2> QED
      BY <1>10, <2>1, <1>c, <1>d, <1>e DEF CloseFails, Goto, Alone, MqttTypeOK
  <1>7. CASE Shutdown
    BY <1>7, <1>c, <1>d, <1>e DEF Shutdown, Alone, MqttTypeOK
  <1>8. CASE UNCHANGED mqttVars
    BY <1>8, <1>c DEF mqttVars, Alone
  <1> QED
    BY <1>1, <1>2, <1>3, <1>4, <1>5, <1>6, <1>7, <1>8, <1>9, <1>10 DEF MqttNext

LEMMA AloneInit == MqttInit => AloneInv
  BY MqttStarts DEF MqttInit, AloneInv, Alone, Senders

\* As long as no test alert is sent, every running client is the one held
\* (_publish_mqtt closes the old one before it makes another), and a shutdown
\* leaves none running (AlertDispatcher.aclose).
THEOREM NoStrayClientHolds == MqttSpec => []NoStrayClient
  <1>1. AloneInv => NoStrayClient
    BY DEF AloneInv, Alone, NoStrayClient
  <1> QED
    BY AloneInit, AloneNext, <1>1, PTL DEF MqttSpec
=============================================================================
