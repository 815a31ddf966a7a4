--------------------------- MODULE EventBusProofs ---------------------------
(***************************************************************************)
(* What holds of the event bus for every number of threads and clients and *)
(* every queue size: its types, the bound on a client's queue, that a      *)
(* queue is the end of the published history, and that each client sees a  *)
(* LossyStream.                                                            *)
(***************************************************************************)
EXTENDS EventBus, SequenceTheorems, TLAPS

(* Putting into a queue keeps its type and bound, and appends the envelope *)
(* to the queue or to its tail.                                            *)
LEMMA PutLemma ==
    ASSUME NEW q \in Seq(Envelope), NEW e \in Envelope, Len(q) <= Maxsize
    PROVE  LET r == Put(q, e)
           IN  /\ r \in Seq(Envelope)
               /\ Len(r) \in 1..Maxsize /\ Len(r) <= Len(q) + 1
               /\ r[Len(r)] = e
               /\ \A k \in 1..(Len(r) - 1) :
                    LET j == Len(q) - (Len(r) - 1) + k
                    IN  j \in 1..Len(q) /\ r[k] = q[j]
<1>1. CASE Len(q) < Maxsize
  <2>1. Put(q, e) = Append(q, e)
    BY <1>1 DEF Put
  <2> QED BY <1>1, <2>1, MaxsizeAssumption, AppendProperties
<1>2. CASE ~(Len(q) < Maxsize)
  <2>1. Len(q) = Maxsize /\ q # <<>>
    BY <1>2, MaxsizeAssumption
  <2>2. /\ Tail(q) \in Seq(Envelope) /\ Len(Tail(q)) = Len(q) - 1
        /\ \A i \in 1..Len(Tail(q)) : Tail(q)[i] = q[i + 1]
    BY <2>1, HeadTailProperties
  <2>3. Put(q, e) = Append(Tail(q), e)
    BY <1>2 DEF Put
  <2> DEFINE t == Tail(q)
  <2> HIDE DEF t
  <2>4. /\ Append(t, e) \in Seq(Envelope) /\ Len(Append(t, e)) = Len(t) + 1
        /\ \A i \in 1..Len(t) : Append(t, e)[i] = t[i]
        /\ Append(t, e)[Len(t) + 1] = e
    BY <2>2, AppendProperties DEF t
  <2> QED BY <2>1, <2>2, <2>3, <2>4, MaxsizeAssumption DEF t
<1> QED BY <1>1, <1>2

LEMMA NextEnvelopeType ==
    ASSUME TypeOK, NEW p \in Publishers
    PROVE  NextEnvelope(p) \in Envelope
BY DEF TypeOK, NextEnvelope, Envelope

LEMMA ReadyTail ==
    ASSUME TypeOK, ready # <<>>
    PROVE  /\ Head(ready) \in Envelope /\ Head(ready) = ready[1]
           /\ Tail(ready) \in Seq(Envelope)
           /\ Len(ready) \in Nat \ {0} /\ Len(Tail(ready)) = Len(ready) - 1
           /\ \A i \in 1..Len(Tail(ready)) : Tail(ready)[i] = ready[i + 1]
BY HeadTailProperties DEF TypeOK

LEMMA QueueTail ==
    ASSUME TypeOK, NEW c \in Clients, queue[c] # <<>>
    PROVE  /\ Head(queue[c]) = queue[c][1]
           /\ Tail(queue[c]) \in Seq(Envelope)
           /\ Len(queue[c]) \in Nat \ {0} /\ Len(Tail(queue[c])) = Len(queue[c]) - 1
           /\ \A i \in 1..Len(Tail(queue[c])) : Tail(queue[c])[i] = queue[c][i + 1]
<1> DEFINE q == queue[c]
<1>1. q \in Seq(Envelope) /\ q # <<>>
  BY DEF TypeOK
<1> HIDE DEF q
<1>2. /\ Head(q) = q[1] /\ Tail(q) \in Seq(Envelope)
      /\ Len(q) \in Nat \ {0} /\ Len(Tail(q)) = Len(q) - 1
      /\ \A i \in 1..Len(Tail(q)) : Tail(q)[i] = q[i + 1]
  BY <1>1, HeadTailProperties
<1> QED BY <1>2 DEF q

---------------------------------------------------------------------------

LEMMA InitOK == Init => TypeOK /\ BusInv
<1> SUFFICES ASSUME Init PROVE TypeOK /\ BusInv
  OBVIOUS
<1>1. TypeOK
  <2>1. <<>> \in Seq(Envelope)
    OBVIOUS
  <2>2. /\ bound \in BOOLEAN /\ sent \in [Publishers -> Nat] /\ subs \subseteq Clients
        /\ seen \in [Clients -> Nat]
    BY DEF Init
  <2>3. queue \in [Clients -> Seq(Envelope)]
    BY <2>1 DEF Init
  <2> QED BY <2>1, <2>2, <2>3 DEF Init, TypeOK
<1>2. \A c \in Clients : Len(queue[c]) = 0
  BY DEF Init
<1>3. Bounded
  BY <1>2, MaxsizeAssumption DEF Bounded
<1>4. QueueIsLatest /\ SeenBeforeQueue
  BY DEF Init, QueueIsLatest, SeenBeforeQueue
<1>5. PublishedInOrder /\ CallOrder
  BY DEF Init, PublishedInOrder, CallOrder, ReadyInOrder, ReadyIsLater, PublishedWasSent, ReadyWasSent
<1> QED BY <1>1, <1>3, <1>4, <1>5 DEF BusInv

(* What one call of publish does to the history and to every queue.        *)
LEMMA PublishLemma ==
    ASSUME TypeOK, BusInv, NEW e \in Envelope, Publish(e), UNCHANGED subs
    PROVE  /\ published' \in Seq(Envelope) /\ Len(published') = Len(published) + 1
           /\ published'[Len(published) + 1] = e
           /\ \A i \in 1..Len(published) : published'[i] = published[i]
           /\ queue' \in [Clients -> Seq(Envelope)]
           /\ Bounded' /\ QueueIsLatest'
           /\ \A c \in subs : Len(queue'[c]) <= Len(queue[c]) + 1
<1>1. published \in Seq(Envelope) /\ queue \in [Clients -> Seq(Envelope)] /\ subs \subseteq Clients
  BY DEF TypeOK
<1>2. published' = Append(published, e)
  BY DEF Publish
<1>3. /\ published' \in Seq(Envelope) /\ Len(published') = Len(published) + 1
      /\ published'[Len(published) + 1] = e
      /\ \A i \in 1..Len(published) : published'[i] = published[i]
  BY <1>1, <1>2, AppendProperties
<1>4. \A c \in Clients : queue'[c] = IF c \in subs THEN Put(queue[c], e) ELSE queue[c]
  BY DEF Publish
<1>5. \A c \in Clients : queue[c] \in Seq(Envelope) /\ Len(queue[c]) <= Maxsize
  BY <1>1 DEF BusInv, Bounded
<1>6. ASSUME NEW c \in Clients
      PROVE  /\ queue'[c] \in Seq(Envelope) /\ Len(queue'[c]) <= Maxsize
             /\ c \in subs => Len(queue'[c]) <= Len(queue[c]) + 1
  <2> DEFINE q == queue[c]
  <2>1. q \in Seq(Envelope) /\ Len(q) <= Maxsize
    BY <1>5
  <2>2. queue'[c] = IF c \in subs THEN Put(q, e) ELSE q
    BY <1>4
  <2> HIDE DEF q
  <2>3. Put(q, e) \in Seq(Envelope) /\ Len(Put(q, e)) <= Maxsize /\ Len(Put(q, e)) <= Len(q) + 1
    BY <2>1, PutLemma, MaxsizeAssumption
  <2> QED BY <2>1, <2>2, <2>3 DEF q
<1>7. queue' \in [Clients -> Seq(Envelope)]
  BY <1>6 DEF Publish
<1>8. QueueIsLatest'
  <2> SUFFICES ASSUME NEW c \in subs
               PROVE  /\ Len(queue'[c]) <= Len(published')
                      /\ \A k \in 1..Len(queue'[c]) :
                           queue'[c][k] = published'[Len(published') - Len(queue'[c]) + k]
    BY DEF QueueIsLatest
  <2> DEFINE q == queue[c]
             r == Put(q, e)
             N == Len(published)
  <2>1. /\ q \in Seq(Envelope) /\ Len(q) <= Maxsize /\ Len(q) \in Nat
        /\ Len(q) <= N /\ N \in Nat
        /\ \A k \in 1..Len(q) : q[k] = published[N - Len(q) + k]
    <3>1. c \in Clients
      BY <1>1
    <3>2. q \in Seq(Envelope) /\ Len(q) <= Maxsize
      BY <1>5, <3>1
    <3>3. /\ Len(q) <= N
          /\ \A k \in 1..Len(q) : q[k] = published[N - Len(q) + k]
      BY DEF BusInv, QueueIsLatest
    <3>4. Len(q) \in Nat /\ N \in Nat
      BY <1>1, <3>2
    <3> QED BY <3>2, <3>3, <3>4
  <2>2. queue'[c] = r
    BY <1>1, <1>4
  <2> HIDE DEF q
  <2>3. /\ Len(r) \in 1..Maxsize /\ Len(r) <= Len(q) + 1 /\ r[Len(r)] = e
        /\ \A k \in 1..(Len(r) - 1) :
             Len(q) - (Len(r) - 1) + k \in 1..Len(q) /\ r[k] = q[Len(q) - (Len(r) - 1) + k]
    BY <2>1, PutLemma
  <2> HIDE DEF r, N
  <2>4. Len(r) <= N + 1 /\ Len(published') = N + 1 /\ Len(r) \in Nat
    BY <1>3, <2>1, <2>3, MaxsizeAssumption DEF N
  <2>5. ASSUME NEW k \in 1..Len(r) PROVE r[k] = published'[N + 1 - Len(r) + k]
    <3>1. CASE k = Len(r)
      BY <1>3, <2>1, <2>3, <2>4, <3>1 DEF N
    <3>2. CASE k # Len(r)
      <4> DEFINE j == Len(q) - (Len(r) - 1) + k
      <4>1. k \in 1..(Len(r) - 1)
        BY <2>4, <3>2
      <4>2. j \in 1..Len(q) /\ r[k] = q[j]
        BY <2>3, <4>1
      <4>3. q[j] = published[N - Len(q) + j]
        BY <2>1, <4>2
      <4>4. N - Len(q) + j = N + 1 - Len(r) + k /\ N - Len(q) + j \in 1..N
        BY <2>1, <2>4, <4>2
      <4> QED BY <1>3, <4>2, <4>3, <4>4 DEF N
    <3> QED BY <3>1, <3>2
  <2>6. \A k \in 1..Len(r) : r[k] = published'[Len(published') - Len(r) + k]
    BY <2>1, <2>4, <2>5
  <2>7. Len(r) <= Len(published')
    BY <2>1, <2>4
  <2> QED BY <2>2, <2>6, <2>7
<1>9. Bounded'
  BY <1>6 DEF Bounded
<1>10. \A c \in subs : Len(queue'[c]) <= Len(queue[c]) + 1
  BY <1>1, <1>6
<1> QED BY <1>3, <1>7, <1>8, <1>9, <1>10

(* Envelopes are distinct, so each has one place in the history.           *)
LEMMA PositionLemma ==
    ASSUME TypeOK, PublishedInOrder, NEW k \in DOMAIN published
    PROVE  Position(published[k]) = k
<1>1. \E j \in DOMAIN published : published[j] = published[k]
  OBVIOUS
<1>2. /\ Position(published[k]) \in DOMAIN published
      /\ published[Position(published[k])] = published[k]
  BY <1>1 DEF Position
<1>3. DOMAIN published = 1..Len(published) /\ published[k] \in Envelope
  BY DEF TypeOK
<1>4. published[k].n \in Nat
  BY <1>3 DEF Envelope
<1>5. \A j \in DOMAIN published : published[j] = published[k] => ~(j < k) /\ ~(k < j)
  BY <1>4 DEF PublishedInOrder
<1> QED BY <1>2, <1>3, <1>5

(* The envelope that a client takes next is the oldest of its queue's end   *)
(* of the history.                                                         *)
LEMMA GetLemma ==
    ASSUME TypeOK, BusInv, NEW c \in subs, queue[c] # <<>>
    PROVE  Position(Head(queue[c])) = Len(published) - Len(queue[c]) + 1
<1> DEFINE N == Len(published)
           L == Len(queue[c])
<1>1. /\ published \in Seq(Envelope) /\ queue[c] \in Seq(Envelope)
      /\ N \in Nat /\ DOMAIN published = 1..N
  BY DEF TypeOK
<1>2. Head(queue[c]) = queue[c][1] /\ L \in Nat \ {0}
  BY <1>1, QueueTail
<1>3. L <= N /\ \A k \in 1..L : queue[c][k] = published[N - L + k]
  BY DEF BusInv, QueueIsLatest
<1>4. N - L + 1 \in DOMAIN published
  BY <1>1, <1>2, <1>3
<1>5. Head(queue[c]) = published[N - L + 1]
  <2> HIDE DEF N, L
  <2>1. 1 \in 1..L
    BY <1>2
  <2> QED BY <2>1, <1>2, <1>3
<1> QED BY <1>4, <1>5, PositionLemma DEF BusInv

LEMMA BusStep == TypeOK /\ BusInv /\ [Next]_vars => (TypeOK /\ BusInv)'
<1> SUFFICES ASSUME TypeOK, BusInv, [Next]_vars PROVE (TypeOK /\ BusInv)'
  OBVIOUS
<1>a. /\ bound \in BOOLEAN /\ sent \in [Publishers -> Nat] /\ subs \subseteq Clients
      /\ ready \in Seq(Envelope) /\ published \in Seq(Envelope)
      /\ queue \in [Clients -> Seq(Envelope)] /\ seen \in [Clients -> Nat]
  BY DEF TypeOK
<1>b. /\ DOMAIN ready = 1..Len(ready) /\ Len(ready) \in Nat
      /\ DOMAIN published = 1..Len(published) /\ Len(published) \in Nat
  BY <1>a
<1>c. /\ \A j \in 1..Len(ready) : ready[j].from \in Publishers /\ ready[j].n \in Nat
      /\ \A i \in 1..Len(published) :
           published[i].from \in Publishers /\ published[i].n \in Nat
  <2>1. \A e \in Envelope : e.from \in Publishers /\ e.n \in Nat
    BY DEF Envelope
  <2> QED BY <1>a, <2>1
<1>d. Bounded /\ QueueIsLatest /\ PublishedInOrder /\ CallOrder /\ SeenBeforeQueue
      /\ ReadyInOrder /\ ReadyIsLater /\ PublishedWasSent /\ ReadyWasSent
  BY DEF BusInv, CallOrder
<1>1. CASE BindLoop
  BY <1>1, <1>a, <1>d DEF BindLoop, TypeOK, BusInv, Bounded, QueueIsLatest, PublishedInOrder,
     CallOrder, ReadyInOrder, ReadyIsLater, PublishedWasSent, ReadyWasSent,
     SeenBeforeQueue
<1>2. ASSUME NEW p \in Threads, PublishThreadsafe(p) PROVE (TypeOK /\ BusInv)'
  <2> DEFINE e == NextEnvelope(p)
  <2>1. p \in Publishers /\ e \in Envelope /\ e.from = p /\ e.n = sent[p] + 1
    BY NextEnvelopeType DEF NextEnvelope, Publishers
  <2>2. /\ sent' = [sent EXCEPT ![p] = @ + 1]
        /\ ready' = Append(ready, e) \/ ready' = ready
        /\ UNCHANGED <<bound, published, subs, queue, seen>>
    BY <1>2 DEF PublishThreadsafe, CountSent
  <2> HIDE DEF e
  <2>3. sent' \in [Publishers -> Nat] /\ \A q \in Publishers :
          sent'[q] >= sent[q] /\ sent'[q] \in Nat
    BY <2>1, <2>2, <1>a
  <2>4. TypeOK'
    <3>1. ready' \in Seq(Envelope)
      <4>1. Append(ready, e) \in Seq(Envelope)
        BY <2>1, <1>a
      <4> QED BY <4>1, <2>2, <1>a
    <3> QED BY <2>2, <2>3, <3>1, <1>a DEF TypeOK
  <2>5. (Bounded /\ QueueIsLatest /\ PublishedInOrder /\ SeenBeforeQueue)'
    BY <2>2, <1>d DEF Bounded, QueueIsLatest, PublishedInOrder, SeenBeforeQueue
  <2>6. PublishedWasSent'
    BY <2>2, <2>3, <1>b, <1>c, <1>d, <1>a DEF PublishedWasSent
  <2>7. CallOrder'
    <3>1. CASE ready' = ready
      <4>1. ReadyInOrder' /\ ReadyIsLater'
        BY <3>1, <2>2, <1>d DEF ReadyInOrder, ReadyIsLater
      <4>2. ReadyWasSent'
        BY <3>1, <2>2, <2>3, <1>b, <1>c, <1>d, <1>a DEF ReadyWasSent
      <4> QED BY <4>1, <4>2, <2>6 DEF CallOrder
    <3>2. CASE ready' = Append(ready, e)
      <4>1. /\ DOMAIN ready' = 1..(Len(ready) + 1) /\ ready'[Len(ready) + 1] = e
            /\ \A j \in 1..Len(ready) : ready'[j] = ready[j]
        BY <3>2, <2>1, <1>a
      <4>2. \A j \in 1..Len(ready) : ready[j].from = p => ready[j].n < e.n
        <5> SUFFICES ASSUME NEW j \in 1..Len(ready), ready[j].from = p
                     PROVE  ready[j].n < e.n
          OBVIOUS
        <5>1. ready[j].n <= sent[p]
          BY <1>b, <1>d DEF ReadyWasSent
        <5>2. ready[j].n \in Nat /\ sent[p] \in Nat
          BY <2>1, <1>a, <1>c
        <5> QED BY <5>1, <5>2, <2>1
      <4>3. \A i \in 1..Len(published) : published[i].from = p => published[i].n < e.n
        BY <2>1, <1>a, <1>b, <1>c, <1>d DEF PublishedWasSent
      <4>4. sent'[p] = e.n
        BY <2>1, <2>2, <1>a
      <4>5. ReadyInOrder'
        BY <4>1, <4>2, <2>1, <1>b, <1>d DEF ReadyInOrder
      <4>6. ReadyIsLater'
        BY <4>1, <4>3, <2>1, <2>2, <1>b, <1>d DEF ReadyIsLater
      <4>7. ReadyWasSent'
        <5> SUFFICES ASSUME NEW j \in DOMAIN ready'
                     PROVE  ready'[j].from \in Threads /\ ready'[j].n <= sent'[ready'[j].from]
          BY DEF ReadyWasSent
        <5>1. CASE j = Len(ready) + 1
          BY <5>1, <4>1, <4>4, <2>1, <1>a
        <5>2. CASE j # Len(ready) + 1
          <6>1. j \in 1..Len(ready)
            BY <5>2, <4>1, <1>b
          <6> QED BY <6>1, <4>1, <2>3, <1>a, <1>b, <1>c, <1>d DEF ReadyWasSent
        <5> QED BY <5>1, <5>2
      <4> QED BY <4>5, <4>6, <4>7, <2>6 DEF CallOrder
    <3> QED BY <2>2, <3>1, <3>2
  <2> QED BY <2>4, <2>5, <2>7 DEF BusInv
<1>3. ASSUME NEW e \in Envelope, Publish(e), UNCHANGED <<bound, subs, seen>>,
             \A i \in 1..Len(published) : published[i].from = e.from => published[i].n < e.n
      PROVE  /\ published' \in Seq(Envelope) /\ queue' \in [Clients -> Seq(Envelope)]
             /\ Bounded' /\ QueueIsLatest' /\ PublishedInOrder' /\ SeenBeforeQueue'
             /\ DOMAIN published' = 1..(Len(published) + 1)
             /\ published'[Len(published) + 1] = e
             /\ \A i \in 1..Len(published) : published'[i] = published[i]
  <2>1. /\ published' \in Seq(Envelope) /\ Len(published') = Len(published) + 1
        /\ published'[Len(published) + 1] = e
        /\ \A i \in 1..Len(published) : published'[i] = published[i]
        /\ queue' \in [Clients -> Seq(Envelope)]
        /\ Bounded' /\ QueueIsLatest'
        /\ \A c \in subs : Len(queue'[c]) <= Len(queue[c]) + 1
    BY <1>3, PublishLemma
  <2>2. DOMAIN published' = 1..(Len(published) + 1)
    BY <2>1
  <2>3. PublishedInOrder'
    BY <1>3, <2>1, <2>2, <1>b, <1>c, <1>d DEF PublishedInOrder
  <2>4. SeenBeforeQueue'
    <3> SUFFICES ASSUME NEW c \in subs
                 PROVE  seen[c] <= Len(published') - Len(queue'[c])
      BY <1>3 DEF SeenBeforeQueue
    <3>1. c \in Clients /\ seen[c] \in Nat /\ queue[c] \in Seq(Envelope)
          /\ queue'[c] \in Seq(Envelope)
      BY <1>a, <2>1
    <3>2. seen[c] <= Len(published) - Len(queue[c])
      BY <1>d DEF SeenBeforeQueue
    <3>3. Len(queue[c]) \in Nat /\ Len(queue'[c]) \in Nat
      BY <3>1
    <3> QED BY <3>1, <3>2, <3>3, <2>1, <1>b
  <2> QED BY <2>1, <2>2, <2>3, <2>4
<1>4. CASE RunCallback
  <2>1. /\ ready # <<>> /\ Publish(Head(ready)) /\ ready' = Tail(ready)
        /\ UNCHANGED <<bound, sent, subs, seen>>
    BY <1>4 DEF RunCallback
  <2>2. /\ Head(ready) \in Envelope /\ Head(ready) = ready[1]
        /\ ready' \in Seq(Envelope) /\ Len(ready') = Len(ready) - 1 /\ Len(ready) >= 1
        /\ \A i \in 1..Len(ready') : ready'[i] = ready[i + 1]
    BY <2>1, <1>b, ReadyTail
  <2>3. \A i \in 1..Len(published) :
          published[i].from = ready[1].from => published[i].n < ready[1].n
    BY <2>2, <1>b, <1>d DEF ReadyIsLater
  <2>4. /\ published' \in Seq(Envelope) /\ queue' \in [Clients -> Seq(Envelope)]
        /\ Bounded' /\ QueueIsLatest' /\ PublishedInOrder' /\ SeenBeforeQueue'
        /\ DOMAIN published' = 1..(Len(published) + 1)
        /\ published'[Len(published) + 1] = ready[1]
        /\ \A i \in 1..Len(published) : published'[i] = published[i]
    BY <2>1, <2>2, <2>3, <1>3
  <2>5. CallOrder'
    <3>1. DOMAIN ready' = 1..(Len(ready) - 1)
      BY <2>2
    <3>2. \A j \in DOMAIN ready' : ready'[j] = ready[j + 1] /\ j + 1 \in 1..Len(ready)
      BY <3>1, <2>2, <1>b
    <3>3. ReadyInOrder'
      BY <3>1, <3>2, <1>b, <1>d DEF ReadyInOrder
    <3>4. ReadyIsLater'
      <4> SUFFICES ASSUME NEW i \in DOMAIN published', NEW j \in DOMAIN ready',
                          published'[i].from = ready'[j].from
                   PROVE  published'[i].n < ready'[j].n
        BY DEF ReadyIsLater
      <4>1. CASE i = Len(published) + 1
        <5>1. /\ 1 \in DOMAIN ready /\ j + 1 \in DOMAIN ready /\ 1 < j + 1
              /\ ready[1].from = ready[j + 1].from
          BY <4>1, <2>2, <2>4, <3>1, <3>2, <1>b
        <5>2. ready[1].n < ready[j + 1].n
          BY <5>1, <1>d DEF ReadyInOrder
        <5> QED BY <4>1, <5>2, <2>4, <3>2
      <4>2. CASE i # Len(published) + 1
        BY <4>2, <2>4, <3>2, <1>b, <1>d DEF ReadyIsLater
      <4> QED BY <4>1, <4>2
    <3>5. PublishedWasSent'
      <4> SUFFICES ASSUME NEW i \in DOMAIN published'
                   PROVE  published'[i].n <= sent[published'[i].from]
        BY <2>1 DEF PublishedWasSent
      <4>1. CASE i = Len(published) + 1
        BY <4>1, <2>2, <2>4, <1>b, <1>d DEF ReadyWasSent
      <4>2. CASE i # Len(published) + 1
        BY <4>2, <2>4, <1>b, <1>d DEF PublishedWasSent
      <4> QED BY <4>1, <4>2
    <3>6. ReadyWasSent'
      BY <2>1, <3>2, <1>b, <1>d DEF ReadyWasSent
    <3> QED BY <3>3, <3>4, <3>5, <3>6 DEF CallOrder
  <2>6. TypeOK'
    BY <2>1, <2>2, <2>4, <1>a DEF TypeOK
  <2> QED BY <2>4, <2>5, <2>6 DEF BusInv
<1>5. CASE PublishOnLoop
  <2> DEFINE e == NextEnvelope(Ticker)
  <2>1. Ticker \in Publishers /\ e \in Envelope /\ e.from = Ticker /\ e.n = sent[Ticker] + 1
    BY NextEnvelopeType DEF NextEnvelope, Publishers
  <2>2. /\ sent' = [sent EXCEPT ![Ticker] = @ + 1] /\ Publish(e)
        /\ UNCHANGED <<bound, ready, subs, seen>>
    BY <1>5 DEF PublishOnLoop, CountSent
  <2> HIDE DEF e
  <2>3. sent' \in [Publishers -> Nat] /\ (\A q \in Publishers :
          sent'[q] >= sent[q] /\ sent'[q] \in Nat) /\ sent'[Ticker] = e.n
    BY <2>1, <2>2, <1>a
  <2>4. \A i \in 1..Len(published) : published[i].from = e.from => published[i].n < e.n
    BY <2>1, <1>a, <1>b, <1>c, <1>d DEF PublishedWasSent
  <2>5. /\ published' \in Seq(Envelope) /\ queue' \in [Clients -> Seq(Envelope)]
        /\ Bounded' /\ QueueIsLatest' /\ PublishedInOrder' /\ SeenBeforeQueue'
        /\ DOMAIN published' = 1..(Len(published) + 1)
        /\ published'[Len(published) + 1] = e
        /\ \A i \in 1..Len(published) : published'[i] = published[i]
    BY <2>1, <2>2, <2>4, <1>3
  <2>6. CallOrder'
    <3>1. \A j \in 1..Len(ready) : ready[j].from # Ticker
      BY <1>b, <1>d, PublisherAssumption DEF ReadyWasSent
    <3>2. ReadyInOrder'
      BY <2>2, <1>d DEF ReadyInOrder
    <3>3. ReadyIsLater'
      <4> SUFFICES ASSUME NEW i \in DOMAIN published', NEW j \in DOMAIN ready,
                          published'[i].from = ready[j].from
                   PROVE  published'[i].n < ready[j].n
        BY <2>2 DEF ReadyIsLater
      <4>1. i # Len(published) + 1
        BY <3>1, <2>1, <2>5, <1>b
      <4> QED BY <4>1, <2>5, <1>b, <1>d DEF ReadyIsLater
    <3>4. PublishedWasSent'
      <4> SUFFICES ASSUME NEW i \in DOMAIN published'
                   PROVE  published'[i].n <= sent'[published'[i].from]
        BY DEF PublishedWasSent
      <4>1. CASE i = Len(published) + 1
        BY <4>1, <2>1, <2>3, <2>5, <1>b
      <4>2. CASE i # Len(published) + 1
        <5>1. i \in 1..Len(published)
          BY <4>2, <2>5, <1>b
        <5> QED BY <5>1, <2>3, <2>5, <1>a, <1>b, <1>c, <1>d DEF PublishedWasSent
      <4> QED BY <4>1, <4>2
    <3>5. ReadyWasSent'
      BY <2>2, <2>3, <1>a, <1>b, <1>c, <1>d DEF ReadyWasSent
    <3> QED BY <3>2, <3>3, <3>4, <3>5 DEF CallOrder
  <2>7. TypeOK'
    BY <2>2, <2>3, <2>5, <1>a DEF TypeOK
  <2> QED BY <2>5, <2>6, <2>7 DEF BusInv
<1>6. ASSUME NEW c \in Clients, Subscribe(c) PROVE (TypeOK /\ BusInv)'
  <2>1. /\ subs' = subs \cup {c} /\ queue' = [queue EXCEPT ![c] = <<>>]
        /\ seen' = [seen EXCEPT ![c] = Len(published)]
        /\ UNCHANGED <<bound, sent, ready, published>>
    BY <1>6 DEF Subscribe
  <2>2. /\ queue'[c] = <<>> /\ seen'[c] = Len(published)
        /\ \A d \in Clients \ {c} : queue'[d] = queue[d] /\ seen'[d] = seen[d]
    BY <2>1, <1>a
  <2>3. <<>> \in Seq(Envelope) /\ Len(queue'[c]) = 0
    BY <2>2
  <2>4. TypeOK'
    BY <2>1, <2>3, <1>a, <1>b DEF TypeOK
  <2>5. PublishedInOrder' /\ CallOrder'
    BY <2>1, <1>d DEF PublishedInOrder, CallOrder, ReadyInOrder, ReadyIsLater,
       PublishedWasSent, ReadyWasSent
  <2>6. Bounded' /\ QueueIsLatest' /\ SeenBeforeQueue'
    <3>1. Bounded'
      <4> SUFFICES ASSUME NEW d \in Clients PROVE Len(queue'[d]) <= Maxsize
        BY DEF Bounded
      <4>1. CASE d = c
        BY <4>1, <2>3, MaxsizeAssumption
      <4>2. CASE d # c
        BY <4>2, <2>2, <1>d DEF Bounded
      <4> QED BY <4>1, <4>2
    <3>2. QueueIsLatest'
      <4> SUFFICES ASSUME NEW d \in subs'
                   PROVE  /\ Len(queue'[d]) <= Len(published')
                          /\ \A k \in 1..Len(queue'[d]) :
                               queue'[d][k] = published'[Len(published') - Len(queue'[d]) + k]
        BY DEF QueueIsLatest
      <4>1. CASE d = c
        <5>1. Len(queue'[d]) = 0
          BY <4>1, <2>3
        <5> QED BY <5>1, <2>1, <1>b
      <4>2. CASE d # c
        <5>1. d \in subs /\ queue'[d] = queue[d]
          BY <4>2, <2>1, <2>2, <1>a
        <5> QED BY <5>1, <2>1, <1>d DEF QueueIsLatest
      <4> QED BY <4>1, <4>2
    <3>3. SeenBeforeQueue'
      BY <2>1, <2>2, <2>3, <1>a, <1>b, <1>d DEF SeenBeforeQueue
    <3> QED BY <3>1, <3>2, <3>3
  <2> QED BY <2>4, <2>5, <2>6 DEF BusInv
<1>7. ASSUME NEW c \in Clients, Unsubscribe(c) PROVE (TypeOK /\ BusInv)'
  BY <1>7, <1>a, <1>d DEF Unsubscribe, TypeOK, BusInv, Bounded, QueueIsLatest,
     PublishedInOrder,
     CallOrder, ReadyInOrder, ReadyIsLater, PublishedWasSent, ReadyWasSent,
     SeenBeforeQueue
<1>8. ASSUME NEW c \in Clients, Get(c) PROVE (TypeOK /\ BusInv)'
  <2> DEFINE N == Len(published)
             q == queue[c]
  <2>1. /\ c \in subs /\ q # <<>> /\ q \in Seq(Envelope)
        /\ seen' = [seen EXCEPT ![c] = Position(Head(q))]
        /\ queue' = [queue EXCEPT ![c] = Tail(q)]
        /\ UNCHANGED <<bound, sent, ready, published, subs>>
    BY <1>8, <1>a DEF Get
  <2>2. /\ Head(q) = q[1] /\ Tail(q) \in Seq(Envelope)
        /\ Len(q) \in Nat \ {0} /\ Len(Tail(q)) = Len(q) - 1
        /\ \A i \in 1..Len(Tail(q)) : Tail(q)[i] = q[i + 1]
    BY <2>1, QueueTail
  <2>3. /\ Len(q) <= N /\ Len(q) <= Maxsize
        /\ \A k \in 1..Len(q) : q[k] = published[N - Len(q) + k]
    BY <2>1, <1>d DEF QueueIsLatest, Bounded
  <2>4. Position(Head(q)) = N - Len(q) + 1
    <3>1. N - Len(q) + 1 \in DOMAIN published
      BY <2>2, <2>3, <1>b
    <3>2. Head(q) = published[N - Len(q) + 1]
      <4> HIDE DEF q, N
      <4>1. 1 \in 1..Len(q)
        BY <2>2
      <4> QED BY <4>1, <2>2, <2>3
    <3> QED BY <3>1, <3>2, <1>d, PositionLemma
  <2>5. /\ queue'[c] = Tail(q) /\ seen'[c] = N - Len(q) + 1
        /\ \A d \in Clients \ {c} : queue'[d] = queue[d] /\ seen'[d] = seen[d]
    BY <2>1, <2>4, <1>a
  <2>6. TypeOK'
    <3>1. N - Len(q) + 1 \in Nat
      BY <2>2, <2>3, <1>b
    <3> QED BY <2>1, <2>2, <2>4, <3>1, <1>a DEF TypeOK
  <2>7. PublishedInOrder' /\ CallOrder'
    BY <2>1, <1>d DEF PublishedInOrder, CallOrder, ReadyInOrder, ReadyIsLater,
       PublishedWasSent, ReadyWasSent
  <2>8. /\ Len(queue'[c]) = Len(q) - 1
        /\ \A k \in 1..Len(queue'[c]) : queue'[c][k] = published[N - Len(queue'[c]) + k]
    <3> DEFINE t == Tail(q)
    <3>1. Len(t) = Len(q) - 1 /\ \A k \in 1..Len(t) : t[k] = q[k + 1]
      BY <2>2
    <3> HIDE DEF t, q, N
    <3>2. \A k \in 1..Len(t) : N - Len(t) + k = N - Len(q) + (k + 1) /\ k + 1 \in 1..Len(q)
      BY <3>1, <2>2, <1>b DEF N
    <3> QED BY <2>3, <2>5, <3>1, <3>2 DEF t
  <2>a. N \in Nat /\ Len(q) \in Nat /\ Len(q) <= N
    BY <2>2, <2>3, <1>b
  <2> HIDE DEF q, N
  <2>9. Bounded'
    <3> SUFFICES ASSUME NEW d \in Clients PROVE Len(queue'[d]) <= Maxsize
      BY DEF Bounded
    <3> QED BY <2>2, <2>3, <2>5, <2>8, <1>d, MaxsizeAssumption DEF Bounded
  <2>10. QueueIsLatest'
    <3>1. published' = published /\ subs' = subs
      BY <2>1
    <3>2. Len(queue'[c]) <= N
      BY <2>a, <2>8
    <3>3. ASSUME NEW d \in subs, d # c
          PROVE  /\ Len(queue'[d]) <= N
                 /\ \A k \in 1..Len(queue'[d]) : queue'[d][k] = published[N - Len(queue'[d]) + k]
      BY <3>3, <2>5, <1>a, <1>d DEF QueueIsLatest, N
    <3>4. \A d \in subs :
            /\ Len(queue'[d]) <= N
            /\ \A k \in 1..Len(queue'[d]) : queue'[d][k] = published[N - Len(queue'[d]) + k]
      BY <3>2, <3>3, <2>8
    <3> QED BY <3>1, <3>4 DEF QueueIsLatest, N
  <2>11. SeenBeforeQueue'
    <3> SUFFICES ASSUME NEW d \in subs
                 PROVE  seen'[d] <= Len(published) - Len(queue'[d])
      BY <2>1 DEF SeenBeforeQueue
    <3>1. CASE d = c
      BY <3>1, <2>2, <2>3, <2>5, <2>8, <1>b DEF N
    <3>2. CASE d # c
      BY <3>2, <2>5, <1>a, <1>d DEF SeenBeforeQueue
    <3> QED BY <3>1, <3>2
  <2> QED BY <2>6, <2>7, <2>9, <2>10, <2>11 DEF BusInv
<1>9. CASE UNCHANGED vars
  BY <1>9, <1>d DEF vars, TypeOK, BusInv, Bounded, QueueIsLatest, PublishedInOrder,
     CallOrder, ReadyInOrder, ReadyIsLater, PublishedWasSent, ReadyWasSent,
     SeenBeforeQueue
<1> QED BY <1>1, <1>2, <1>4, <1>5, <1>6, <1>7, <1>8, <1>9 DEF Next

LEMMA Invariant == Spec => [](TypeOK /\ BusInv)
<1>1. Init => TypeOK /\ BusInv
  BY InitOK
<1>2. TypeOK /\ BusInv /\ [Next]_vars => (TypeOK /\ BusInv)'
  BY BusStep
<1> QED BY <1>1, <1>2, PTL DEF Spec

---------------------------------------------------------------------------

(* The variables of the bus keep their types.                              *)
THEOREM TypeCorrect == Spec => []TypeOK
<1>1. TypeOK /\ BusInv => TypeOK
  OBVIOUS
<1> QED BY <1>1, Invariant, PTL

(* However slowly a client reads, its queue holds at most Maxsize          *)
(* envelopes, for every Maxsize and number of clients and publishers.      *)
THEOREM BoundedHolds == Spec => []Bounded
<1>1. TypeOK /\ BusInv => Bounded
  BY DEF BusInv
<1> QED BY <1>1, Invariant, PTL

(* A subscriber's queue is the end of what has been published.             *)
THEOREM QueueIsLatestHolds == Spec => []QueueIsLatest
<1>1. TypeOK /\ BusInv => QueueIsLatest
  BY DEF BusInv
<1> QED BY <1>1, Invariant, PTL

---------------------------------------------------------------------------

LEMMA NoLossStep ==
    ASSUME TypeOK, BusInv, NoLossBelowLimit, [Next]_vars
    PROVE  NoLossBelowLimit'
<1>a. /\ published \in Seq(Envelope) /\ subs \subseteq Clients
      /\ queue \in [Clients -> Seq(Envelope)] /\ seen \in [Clients -> Nat]
  BY DEF TypeOK
<1>b. Len(published) \in Nat /\ \A c \in Clients : Len(queue[c]) \in Nat
  BY <1>a
<1>1. ASSUME NEW e \in Envelope, Publish(e), UNCHANGED <<subs, seen>>
      PROVE  NoLossBelowLimit'
  <2> SUFFICES ASSUME NEW c \in subs, Len(queue'[c]) < Maxsize
               PROVE  Len(published') - Len(queue'[c]) = seen[c]
    BY <1>1 DEF NoLossBelowLimit
  <2>1. Len(published') = Len(published) + 1
    BY <1>1, PublishLemma
  <2>2. queue'[c] = Put(queue[c], e) /\ queue[c] \in Seq(Envelope)
    BY <1>1, <1>a DEF Publish
  <2>3. CASE Len(queue[c]) < Maxsize
    <3>1. Len(queue'[c]) = Len(queue[c]) + 1
      BY <2>2, <2>3, AppendProperties DEF Put
    <3>2. Len(published) - Len(queue[c]) = seen[c]
      BY <2>3 DEF NoLossBelowLimit
    <3>3. Len(queue[c]) \in Nat /\ Len(published) \in Nat /\ seen[c] \in Nat
      BY <1>a, <1>b
    <3> DEFINE N == Len(published)
               L == Len(queue[c])
    <3>4. Len(published') = N + 1 /\ Len(queue'[c]) = L + 1
          /\ N - L = seen[c] /\ N \in Nat /\ L \in Nat
      BY <2>1, <3>1, <3>2, <3>3
    <3> HIDE DEF N, L
    <3>5. (N + 1) - (L + 1) = seen[c]
      BY <3>4
    <3> QED BY <3>4, <3>5
  <2>4. CASE Len(queue[c]) >= Maxsize
    <3>1. queue[c] # <<>> /\ queue'[c] = Append(Tail(queue[c]), e)
      BY <2>2, <2>4, <1>b, MaxsizeAssumption DEF Put
    <3>2. Tail(queue[c]) \in Seq(Envelope)
          /\ Len(Tail(queue[c])) = Len(queue[c]) - 1
      BY <2>2, <3>1, QueueTail
    <3>3. Len(queue'[c]) = Len(queue[c])
      BY <3>1, <3>2, <1>b, AppendProperties
    <3> QED BY <2>4, <3>3, <1>b, MaxsizeAssumption
  <2> QED BY <2>3, <2>4, <1>b, MaxsizeAssumption
<1>2. CASE RunCallback
  <2>1. Head(ready) \in Envelope
    BY <1>2, ReadyTail DEF RunCallback, TypeOK
  <2> QED BY <1>1, <1>2, <2>1 DEF RunCallback
<1>3. CASE PublishOnLoop
  BY <1>1, <1>3, NextEnvelopeType DEF PublishOnLoop, Publishers
<1>4. ASSUME UNCHANGED <<published, subs, queue, seen>>
      PROVE  NoLossBelowLimit'
  BY <1>4 DEF NoLossBelowLimit
<1>5. CASE BindLoop \/ UNCHANGED vars
  BY <1>4, <1>5 DEF BindLoop, vars
<1>6. ASSUME NEW p \in Threads, PublishThreadsafe(p)
      PROVE  NoLossBelowLimit'
  BY <1>4, <1>6 DEF PublishThreadsafe
<1>7. ASSUME NEW c \in Clients, Subscribe(c)
      PROVE  NoLossBelowLimit'
  <2> SUFFICES ASSUME NEW d \in subs \cup {c}, Len(queue'[d]) < Maxsize
               PROVE  Len(published) - Len(queue'[d]) = seen'[d]
    BY <1>7 DEF Subscribe, NoLossBelowLimit
  <2>1. CASE d = c
    <3>1. queue'[d] = <<>> /\ seen'[d] = Len(published)
      BY <1>7, <2>1, <1>a DEF Subscribe
    <3> QED BY <3>1, <1>b
  <2>2. CASE d # c
    BY <1>7, <2>2, <1>a DEF Subscribe, NoLossBelowLimit
  <2> QED BY <2>1, <2>2
<1>8. ASSUME NEW c \in Clients, Unsubscribe(c)
      PROVE  NoLossBelowLimit'
  BY <1>8 DEF Unsubscribe, NoLossBelowLimit
<1>9. ASSUME NEW c \in Clients, Get(c)
      PROVE  NoLossBelowLimit'
  <2> DEFINE L == Len(queue[c])
             N == Len(published)
  <2>1. /\ c \in subs /\ queue[c] # <<>> /\ UNCHANGED <<published, subs>>
        /\ seen' = [seen EXCEPT ![c] = Position(Head(queue[c]))]
        /\ queue' = [queue EXCEPT ![c] = Tail(queue[c])]
    BY <1>9 DEF Get
  <2>2. Len(Tail(queue[c])) = L - 1
    BY <2>1, <1>a, QueueTail
  <2>3. Position(Head(queue[c])) = N - (L - 1)
    <3>1. Position(Head(queue[c])) = N - L + 1
      BY <2>1, GetLemma
    <3>2. N \in Nat /\ L \in Nat
      BY <2>1, <1>a
    <3> HIDE DEF N, L
    <3> QED BY <3>1, <3>2
  <2> SUFFICES ASSUME NEW d \in subs, Len(queue'[d]) < Maxsize
               PROVE  N - Len(queue'[d]) = seen'[d]
    BY <2>1 DEF NoLossBelowLimit
  <2>4. CASE d = c
    BY <2>1, <2>2, <2>3, <2>4, <1>a
  <2>5. CASE d # c
    BY <2>1, <2>5, <1>a DEF NoLossBelowLimit
  <2> QED BY <2>4, <2>5
<1> QED BY <1>2, <1>3, <1>5, <1>6, <1>7, <1>8, <1>9 DEF Next

(* Nothing is lost below the limit: a client whose queue is not full has    *)
(* all that was published since the last envelope it got (publish drops    *)
(* only from a full queue).                                                *)
THEOREM NoLossBelowLimitHolds == Spec => []NoLossBelowLimit
<1>1. Init => NoLossBelowLimit
  BY DEF Init, NoLossBelowLimit
<1>2. TypeOK /\ BusInv /\ NoLossBelowLimit /\ [Next]_vars => NoLossBelowLimit'
  BY NoLossStep
<1> QED BY <1>1, <1>2, Invariant, PTL DEF Spec

---------------------------------------------------------------------------

(* Each step of the bus is a step of every client's stream, or a stutter.  *)
LEMMA StreamStep ==
    ASSUME TypeOK, BusInv, Next, NEW c \in Clients
    PROVE  Stream(c)!Next \/ UNCHANGED <<Length, seen[c]>>
<1>a. /\ published \in Seq(Envelope) /\ subs \subseteq Clients
      /\ queue \in [Clients -> Seq(Envelope)] /\ seen \in [Clients -> Nat]
  BY DEF TypeOK
<1>b. Len(published) \in Nat /\ DOMAIN published = 1..Len(published)
  BY <1>a
<1>1. ASSUME NEW e, Publish(e), seen' = seen
      PROVE  Stream(c)!Next
  <2>1. published' = Append(published, e)
    BY <1>1 DEF Publish
  <2>2. Len(published') = Len(published) + 1
    BY <2>1, <1>a
  <2> QED BY <1>1, <2>2 DEF Length, Stream!Next, Stream!Send
<1>2. CASE RunCallback
  BY <1>1, <1>2 DEF RunCallback
<1>3. CASE PublishOnLoop
  BY <1>1, <1>3 DEF PublishOnLoop
<1>4. ASSUME published' = published, seen'[c] = seen[c]
      PROVE  UNCHANGED <<Length, seen[c]>>
  BY <1>4 DEF Length
<1>5. CASE BindLoop
  BY <1>4, <1>5 DEF BindLoop
<1>6. ASSUME NEW p \in Threads, PublishThreadsafe(p)
      PROVE  UNCHANGED <<Length, seen[c]>>
  BY <1>4, <1>6 DEF PublishThreadsafe
<1>7. ASSUME NEW d \in Clients, Subscribe(d)
      PROVE  Stream(c)!Next \/ UNCHANGED <<Length, seen[c]>>
  <2>1. seen' = [seen EXCEPT ![d] = Len(published)] /\ published' = published
    BY <1>7 DEF Subscribe
  <2>2. CASE c = d
    BY <2>1, <2>2, <1>a DEF Length, Stream!Next, Stream!Join
  <2>3. CASE c # d
    BY <2>1, <2>3, <1>a, <1>4
  <2> QED BY <2>2, <2>3
<1>8. ASSUME NEW d \in Clients, Unsubscribe(d)
      PROVE  UNCHANGED <<Length, seen[c]>>
  BY <1>4, <1>8 DEF Unsubscribe
<1>9. ASSUME NEW d \in Clients, Get(d)
      PROVE  Stream(c)!Next \/ UNCHANGED <<Length, seen[c]>>
  <2>1. /\ d \in subs /\ queue[d] # <<>> /\ published' = published
        /\ seen' = [seen EXCEPT ![d] = Position(Head(queue[d]))]
    BY <1>9 DEF Get
  <2>2. CASE c # d
    BY <2>1, <2>2, <1>a, <1>4
  <2>3. CASE c = d
    <3> DEFINE N == Len(published)
               L == Len(queue[c])
    <3>1. Head(queue[c]) = queue[c][1] /\ L \in Nat \ {0}
      BY <2>1, <2>3, QueueTail
    <3>2. L <= N /\ L <= Maxsize /\ seen[c] <= N - L /\ seen[c] \in Nat
          /\ \A k \in 1..L : queue[c][k] = published[N - L + k]
      BY <2>1, <2>3, <1>a DEF BusInv, Bounded, QueueIsLatest, SeenBeforeQueue
    <3>3. N - L + 1 \in DOMAIN published
      BY <3>1, <3>2, <1>b
    <3>4. Head(queue[c]) = published[N - L + 1]
      <4> HIDE DEF N, L
      <4>1. 1 \in 1..L
        BY <3>1
      <4> QED BY <4>1, <3>1, <3>2
    <3>5. Position(Head(queue[c])) = N - L + 1
      BY <3>3, <3>4, PositionLemma DEF BusInv
    <3>6. seen'[c] = N - L + 1
      BY <2>1, <2>3, <3>5, <1>a
    <3> HIDE DEF L
    <3>7. seen'[c] \in (seen[c] + 1)..N /\ seen'[c] > N - Maxsize
      BY <3>1, <3>2, <3>6, <1>b, MaxsizeAssumption
    <3> QED BY <2>1, <3>7 DEF Length, Stream!Next, Stream!Receive
  <2> QED BY <2>2, <2>3
<1> QED BY <1>2, <1>3, <1>5, <1>6, <1>7, <1>8, <1>9 DEF Next

(* The event bus implements a LossyStream towards each of its clients: it  *)
(* may skip, and never repeats, reorders or delivers anything older than   *)
(* the last Maxsize envelopes.                                             *)
THEOREM Refinement == Spec => IsLossyStream
<1> DEFINE Step == \A c \in Clients : Stream(c)!Next \/ UNCHANGED <<Length, seen[c]>>
<1>1. Init => \A c \in Clients : Stream(c)!Init
  BY DEF Init, Length, Stream!Init
<1>2. TypeOK /\ BusInv /\ [Next]_vars => [Step]_vars
  BY StreamStep
<1> QED BY <1>1, <1>2, Invariant, PTL DEF Spec, IsLossyStream
=============================================================================
