------------------------------- MODULE Alerts -------------------------------
(***************************************************************************)
(* The alert dispatcher (alerts/dispatcher.py): one task of the event loop *)
(* that takes envelopes from its queue of the event bus, keeps a copy of   *)
(* the alert settings which it renews when it hears that settings changed, *)
(* and offers every event to each channel of the registry in turn.  While  *)
(* it waits for a channel the queue fills, with the statistics of every    *)
(* second too, and loses its oldest envelope when it is full.              *)
(***************************************************************************)
EXTENDS Integers, Sequences

CONSTANTS
    Channels,       \* CHANNELS, the registry: a sequence of names
    Configs,        \* alert settings a user can save
    Requests,       \* settings-saving HTTP requests in flight
    Outcomes,       \* whether a restart can succeed (TRUE) or raise (FALSE)
    Maxsize,        \* maxsize of the dispatcher's queue
    Never,          \* a channel that has not fired yet
    MaxClock,       \* bound: seconds in one behaviour
    MaxSaves,       \* bound: settings saved in one behaviour
    MaxLoad         \* bound: events and statistics in one behaviour

Names == {Channels[k] : k \in 1..Len(Channels)}
\* on: the channels whose enabled flag is set and whose target is not empty,
\* none with the master switch off.
Config == [on : SUBSET Names, cooldown : Nat]

ASSUME ConfigAssumption == Configs \subseteq Config /\ Outcomes \subseteq BOOLEAN
ASSUME QueueAssumption == Maxsize \in Nat \ {0} /\ Never \notin Nat
ASSUME RegistryAssumption == Channels \in Seq(Names)
ASSUME RunAssumption == {MaxClock, MaxSaves, MaxLoad} \subseteq Nat

VARIABLES
    clock,          \* time.monotonic()
    stored,         \* the alert settings in the YAML file
    restarting,     \* requests that have saved and whose restart is under way
    queue,          \* the dispatcher's queue
    pc,             \* the dispatcher: "starting", "get" or "send"
    cache,          \* _settings
    cfg, now, turn, \* handle(): its settings, its time, its place in CHANNELS
    last,           \* _last_fired
    began,          \* when the send under way began
    sends,          \* history: when the last successful send of each began
    lost,           \* history: no news of the stored settings will come
    saves, load     \* history: numbers of saves, and of events and statistics

bus == <<stored, restarting, lost, saves, load>>
handling == <<cfg, now, turn, began>>
fired == <<last, sends>>
vars == <<clock, stored, restarting, queue, pc, cache, cfg, now, turn, last,
          began, sends, lost, saves, load>>

\* AlertDispatcher.__init__, in the lifespan startup: it reads the settings.
Init ==
    /\ clock = 0 /\ stored \in Configs /\ restarting = {}
    /\ queue = <<>> /\ pc = "starting" /\ cache = stored
    /\ cfg = stored /\ now = 0 /\ turn = 0 /\ began = 0
    /\ last = [ch \in Names |-> Never] /\ sends = [ch \in Names |-> Never]
    /\ lost = FALSE /\ saves = 0 /\ load = 0

---------------------------------------------------------------------------
(* The bus: an envelope for the dispatcher's queue.                        *)

Subscribed == pc # "starting"
Put(q, e) == IF Len(q) < Maxsize THEN Append(q, e) ELSE Append(Tail(q), e)
Evicts(kind) == Subscribed /\ Len(queue) = Maxsize /\ Head(queue) = kind
Publish(e) == queue' = IF Subscribed THEN Put(queue, e) ELSE queue

\* A persisted event, or the statistics of another second.
PublishOther == \E kind \in {"event", "stats"} :
    /\ load < MaxLoad
    /\ load' = load + 1
    /\ Publish(kind)
    /\ lost' = (lost \/ Evicts("changed"))
    /\ UNCHANGED <<clock, stored, restarting, pc, cache, handling, fired, saves>>

\* A handler writes the file, then awaits the restart in a thread.  The task
\* has run before the server takes its first request.
Save(h) == \E c \in Configs :
    /\ Subscribed /\ h \notin restarting /\ saves < MaxSaves
    /\ stored' = c
    /\ restarting' = restarting \cup {h}
    /\ saves' = saves + 1
    /\ UNCHANGED <<clock, queue, pc, cache, handling, fired, lost, load>>

\* Supervisor.restart publishes settings_changed once the runner is replaced;
\* or does not.
RestartSilent(h) ==
    /\ h \in restarting /\ TRUE \in Outcomes
    /\ restarting' = restarting \ {h}
    /\ UNCHANGED <<clock, stored, queue, pc, cache, handling, fired, lost, saves, load>>
RestartDone(h) ==
    /\ h \in restarting /\ TRUE \in Outcomes
    /\ restarting' = restarting \ {h}
    /\ Publish("changed")
    /\ UNCHANGED <<clock, stored, pc, cache, handling, fired, lost, saves, load>>

\* camera_from_source, or the load, raises: nothing is published.
RestartFails(h) ==
    /\ h \in restarting /\ FALSE \in Outcomes
    /\ restarting' = restarting \ {h}
    /\ lost' = TRUE
    /\ UNCHANGED <<clock, stored, queue, pc, cache, handling, fired, saves, load>>

---------------------------------------------------------------------------
(* run(), handle() and _fire().                                            *)

\* The first step of the task.
Subscribe ==
    /\ pc = "starting" /\ pc' = "get"
    /\ UNCHANGED <<clock, queue, cache, bus, handling, fired>>

Take(kind) ==
    /\ pc = "get" /\ queue # <<>> /\ Head(queue) = kind
    /\ queue' = Tail(queue)

Refresh ==
    /\ Take("changed")
    /\ cache' = stored
    /\ lost' = FALSE
    /\ UNCHANGED <<clock, stored, restarting, pc, handling, fired, saves, load>>

Ignore ==
    /\ Take("stats")
    /\ UNCHANGED <<clock, pc, cache, bus, handling, fired>>

\* _due
Due(ch, c, t) == last[ch] # Never => t - last[ch] >= c.cooldown

\* The places in CHANNELS, from place k on, of the channels that want an event.
Wanted(k, c, t) ==
    {j \in k..Len(Channels) : Channels[j] \in c.on /\ Due(Channels[j], c, t)}

\* The loop over CHANNELS from place k on, to the next `await coro` or to the
\* end: nothing else runs on the event loop in between.
Offer(k, c, t) ==
    /\ cfg' = c /\ now' = t
    /\ \/ Wanted(k, c, t) = {} /\ pc' = "get" /\ UNCHANGED <<turn, began>>
       \/ \E first \in Wanted(k, c, t) :
            /\ \A j \in Wanted(k, c, t) : first <= j
            /\ pc' = "send" /\ turn' = first /\ began' = clock

\* A qualifying event: one time for all channels.
Handle ==
    /\ Take("event")
    /\ Offer(1, cache, clock)
    /\ UNCHANGED <<clock, cache, bus, fired>>

\* An event below min_speed_kph, or with the master switch off.
Disregard ==
    /\ Take("event")
    /\ UNCHANGED <<clock, pc, cache, bus, handling, fired>>

\* _fire: the channel is marked with the time of the event; or a failure
\* marks it as well.
SendOk ==
    /\ pc = "send"
    /\ last' = [last EXCEPT ![Channels[turn]] = now]
    /\ sends' = [sends EXCEPT ![Channels[turn]] = began]
    /\ Offer(turn + 1, cfg, now)
    /\ UNCHANGED <<clock, queue, cache, bus>>
FailureMarks ==
    /\ pc = "send"
    /\ last' = [last EXCEPT ![Channels[turn]] = now]
    /\ Offer(turn + 1, cfg, now)
    /\ UNCHANGED <<clock, queue, cache, bus, sends>>

\* A timeout or an error is logged; or it ends the task.
FailureEndsTask ==
    /\ pc = "send" /\ pc' = "dead"
    /\ UNCHANGED <<clock, queue, cache, bus, handling, fired>>
SendFails ==
    /\ pc = "send"
    /\ Offer(turn + 1, cfg, now)
    /\ UNCHANGED <<clock, queue, cache, bus, fired>>

Tick ==
    /\ clock < MaxClock /\ clock' = clock + 1
    /\ UNCHANGED <<queue, pc, cache, bus, handling, fired>>

Dispatch ==
    \/ Subscribe \/ Refresh \/ Ignore \/ Handle \/ Disregard
    \/ SendOk \/ SendFails
FinishRestart(h) == RestartDone(h) \/ RestartFails(h)
Next ==
    \/ Dispatch \/ PublishOther \/ Tick
    \/ \E h \in Requests : Save(h) \/ FinishRestart(h)

Spec == Init /\ [][Next]_vars

\* Every await of the dispatcher ends, by a timeout if need be, and so does
\* every restart.
FairSpec == Spec /\ WF_vars(Dispatch) /\ \A h \in Requests : WF_vars(FinishRestart(h))

---------------------------------------------------------------------------
(* Properties.                                                             *)

Time == Nat \cup {Never}
TypeOK ==
    /\ {stored, cache, cfg} \subseteq Config
    /\ queue \in Seq({"event", "stats", "changed"}) /\ Len(queue) <= Maxsize
    /\ pc \in {"starting", "get", "send"}
    /\ pc = "send" => turn \in DOMAIN Channels
    /\ last \in [Names -> Time] /\ sends \in [Names -> Time]
    /\ {clock, now, turn, began} \subseteq Nat
    /\ {saves, load} \subseteq Nat
    /\ restarting \subseteq Requests /\ lost \in BOOLEAN
    /\ restarting # {} => Subscribed

NewsUnderWay ==
    restarting # {} \/ \E k \in DOMAIN queue : queue[k] = "changed"

\* The dispatcher works with the stored settings, or will hear that they have
\* changed, unless a restart raised or the news was evicted from its queue:
\* no interleaving of saves, restarts and refreshes loses an update otherwise.
StaleIsExplained == cache = stored \/ NewsUnderWay \/ lost

\* A channel is silenced only after a message really went out: a send that
\* fails does not start the cooldown (channels.py: "the channel's cooldown is
\* NOT advanced, so the next event retries").
SilencedAfterSend ==
    \A ch \in Names :
        last[ch] # Never => sends[ch] # Never /\ sends[ch] >= last[ch]

\* Settings that are saved reach the dispatcher, however slow or broken its
\* channels are, unless the news is lost or they are saved over.
SettingsReachDispatcher ==
    \A c \in Configs :
        stored = c ~> (cache = c \/ stored # c \/ lost)
=============================================================================
