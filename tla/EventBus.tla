----------------------------- MODULE EventBus -----------------------------
(***************************************************************************)
(* The in-process pub-sub of pipeline/events.py.  Capture threads and      *)
(* threadpool threads hand envelopes to the event loop, which publishes    *)
(* them one callback at a time into the bounded queue of every subscriber  *)
(* (an SSE stream, the alert dispatcher).  A full queue loses its oldest   *)
(* envelope, so a subscriber that stalls costs the publisher nothing.      *)
(***************************************************************************)
EXTENDS Integers, Sequences

CONSTANTS
    Threads,        \* threads that call publish_threadsafe
    Ticker,         \* the statistics task, which publishes from the loop
    Clients,        \* subscribers: one queue each
    Maxsize,        \* maxsize of a queue
    MaxSent         \* bound: envelopes per publisher

ASSUME MaxsizeAssumption == Maxsize \in Nat \ {0}
ASSUME PublisherAssumption == Ticker \notin Threads /\ MaxSent \in Nat

Publishers == Threads \cup {Ticker}

\* The n-th envelope of one publisher.
Envelope == [from : Publishers, n : Nat]

VARIABLES
    bound,          \* _loop is set: bind_loop has run
    sent,           \* sent[p]: envelopes p has tried to publish
    ready,          \* callbacks call_soon_threadsafe has queued, oldest first
    published,      \* history: what publish has been called with, in order
    subs,           \* clients whose queue is in _subs
    queue,          \* queue[c]: the queue c gets from
    seen            \* history: how much of published c has got, or was too
                    \* late for

vars == <<bound, sent, ready, published, subs, queue, seen>>

Init ==
    /\ bound = FALSE
    /\ sent = [p \in Publishers |-> 0]
    /\ ready = <<>> /\ published = <<>>
    /\ subs = {}
    /\ queue = [c \in Clients |-> <<>>]
    /\ seen = [c \in Clients |-> 0]

\* put_nowait, after dropping the oldest when the queue is full; or the new
\* envelope is dropped.
PutUnlessFull(q, e) == IF Len(q) < Maxsize THEN Append(q, e) ELSE q
Put(q, e) == IF Len(q) < Maxsize THEN Append(q, e) ELSE Append(Tail(q), e)

\* publish: every subscriber's queue, within one callback of the loop.
Publish(e) ==
    /\ published' = Append(published, e)
    /\ queue' = [c \in Clients |-> IF c \in subs THEN Put(queue[c], e) ELSE queue[c]]

\* The next envelope p builds.
NextEnvelope(p) == [from |-> p, n |-> sent[p] + 1]
CountSent(p) ==
    /\ sent[p] < MaxSent
    /\ sent' = [sent EXCEPT ![p] = @ + 1]

BindLoop ==
    /\ bound = FALSE
    /\ bound' = TRUE
    /\ UNCHANGED <<sent, ready, published, subs, queue, seen>>

\* publish_threadsafe: without a loop the envelope is dropped.
PublishThreadsafe(p) ==
    /\ CountSent(p)
    /\ ready' = IF bound THEN Append(ready, NextEnvelope(p)) ELSE ready
    /\ UNCHANGED <<bound, published, subs, queue, seen>>

\* The event loop runs the oldest callback.
RunCallback ==
    /\ ready # <<>>
    /\ Publish(Head(ready))
    /\ ready' = Tail(ready)
    /\ UNCHANGED <<bound, sent, subs, seen>>

\* publish_stats calls publish from the loop: ahead of any queued callback.
PublishOnLoop ==
    /\ bound /\ CountSent(Ticker)
    /\ Publish(NextEnvelope(Ticker))
    /\ UNCHANGED <<bound, ready, subs, seen>>

\* Were a client to get its old queue again.
SubscribeAgain(c) ==
    /\ bound /\ c \notin subs
    /\ subs' = subs \cup {c}
    /\ UNCHANGED <<bound, sent, ready, published, queue, seen>>

\* A fresh queue: nothing published before is ever delivered.
Subscribe(c) ==
    /\ bound /\ c \notin subs
    /\ subs' = subs \cup {c}
    /\ queue' = [queue EXCEPT ![c] = <<>>]
    /\ seen' = [seen EXCEPT ![c] = Len(published)]
    /\ UNCHANGED <<bound, sent, ready, published>>

\* The stream's or the task's `finally`; the queue goes with its owner.
Unsubscribe(c) ==
    /\ c \in subs
    /\ subs' = subs \ {c}
    /\ UNCHANGED <<bound, sent, ready, published, queue, seen>>

\* Envelopes are distinct: the place of one in the history.
Position(e) == CHOOSE k \in DOMAIN published : published[k] = e

\* await queue.get()
Get(c) ==
    /\ c \in subs /\ queue[c] # <<>>
    /\ seen' = [seen EXCEPT ![c] = Position(Head(queue[c]))]
    /\ queue' = [queue EXCEPT ![c] = Tail(@)]
    /\ UNCHANGED <<bound, sent, ready, published, subs>>

Next ==
    \/ BindLoop \/ RunCallback \/ PublishOnLoop
    \/ \E p \in Threads : PublishThreadsafe(p)
    \/ \E c \in Clients : Subscribe(c) \/ Unsubscribe(c) \/ Get(c)

Spec == Init /\ [][Next]_vars

\* The event loop runs what it was handed, and a stream that is being read
\* takes what is in its queue.
Fairness == WF_vars(RunCallback) /\ \A c \in Clients : WF_vars(Get(c))
FairSpec == Spec /\ Fairness

---------------------------------------------------------------------------
(* Properties.                                                             *)

TypeOK ==
    /\ bound \in BOOLEAN
    /\ sent \in [Publishers -> Nat]
    /\ ready \in Seq(Envelope)
    /\ published \in Seq(Envelope)
    /\ subs \subseteq Clients
    /\ queue \in [Clients -> Seq(Envelope)]
    /\ seen \in [Clients -> Nat]

\* A client that never reads holds at most Maxsize envelopes in memory.
Bounded == \A c \in Clients : Len(queue[c]) <= Maxsize

\* A subscriber's queue is the end of what was published, in that order: what
\* was dropped is older than everything that is still queued, and the newest
\* envelope is never the one that is lost.
QueueIsLatest ==
    \A c \in subs :
        /\ Len(queue[c]) <= Len(published)
        /\ \A k \in 1..Len(queue[c]) :
             queue[c][k] = published[Len(published) - Len(queue[c]) + k]

\* Nothing is lost below the limit: unless a client's queue is full, it holds
\* all that was published since the last envelope the client got.
NoLossBelowLimit ==
    \A c \in subs :
        Len(queue[c]) < Maxsize => Len(published) - Len(queue[c]) = seen[c]

\* Why Position is well defined: the loop runs callbacks in the order they were
\* handed to it, so no envelope is published twice.
PublishedInOrder ==
    \A i, j \in DOMAIN published :
        (i < j /\ published[i].from = published[j].from)
            => published[i].n < published[j].n
ReadyInOrder ==
    \A i, j \in DOMAIN ready :
        (i < j /\ ready[i].from = ready[j].from) => ready[i].n < ready[j].n
ReadyIsLater ==
    \A i \in DOMAIN published, j \in DOMAIN ready :
        published[i].from = ready[j].from => published[i].n < ready[j].n
PublishedWasSent ==
    \A i \in DOMAIN published : published[i].n <= sent[published[i].from]
ReadyWasSent ==
    \A j \in DOMAIN ready :
        ready[j].from \in Threads /\ ready[j].n <= sent[ready[j].from]
CallOrder == ReadyInOrder /\ ReadyIsLater /\ PublishedWasSent /\ ReadyWasSent

\* A client has got nothing that its queue still holds.
SeenBeforeQueue ==
    \A c \in subs : seen[c] <= Len(published) - Len(queue[c])

BusInv == Bounded /\ QueueIsLatest /\ PublishedInOrder /\ CallOrder /\ SeenBeforeQueue

\* A client that stays connected catches up with everything that was handed
\* to the bus, however far it once was behind.
CatchesUp ==
    \A c \in Clients :
        <>[](c \in subs) => <>[](ready = <<>> /\ seen[c] = Len(published))

---------------------------------------------------------------------------
Length == Len(published)
Stream(c) == INSTANCE LossyStream WITH
    Window <- Maxsize, sent <- Length, seen <- seen[c]

\* To each client the bus is a LossyStream: it may skip but not repeat or
\* reorder, and what it delivers is among the last Maxsize envelopes.  (The
\* conjunction of Stream(c)!Spec over the clients, with one box.)
IsLossyStream ==
    /\ \A c \in Clients : Stream(c)!Init
    /\ [][\A c \in Clients :
            Stream(c)!Next \/ UNCHANGED <<Length, seen[c]>>]_vars
=============================================================================
