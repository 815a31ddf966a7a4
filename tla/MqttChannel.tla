---------------------------- MODULE MqttChannel ----------------------------
(***************************************************************************)
(* The MQTT channel (_publish_mqtt of alerts/dispatcher.py and             *)
(* MqttPublisher of alerts/channels.py): the dispatcher's task, and every  *)
(* request that sends a test alert, publish over the one publisher the     *)
(* dispatcher holds, and replace it when their settings name another       *)
(* broker.  All of them run on the event loop, and let each other run only *)
(* while a client connects or stops in a thread.  Init, Next and the like  *)
(* are named for the channel, as proofs put it beside Alerts.              *)
(***************************************************************************)
EXTENDS Integers, Sequences

CONSTANTS
    Brokers,        \* the signatures: host, port, user and password
    Task,           \* the task of the dispatcher
    Tests,          \* test alerts in flight
    NoBroker,       \* _mqtt_sig before the first publisher
    MaxPublishers   \* bound: publishers made in one behaviour

ASSUME BrokersAssumption == NoBroker \notin Brokers
ASSUME SendersAssumption == Task \notin Tests
ASSUME BoundAssumption == MaxPublishers \in Nat

Senders == {Task} \cup Tests

VARIABLES
    publishers,     \* the MqttPublishers made so far: the broker of each
    running,        \* those with _started set, whose network thread runs
    mqtt, sig,      \* _mqtt (0: None) and _mqtt_sig
    place,          \* a sender: "idle", "closing", "connecting", "cancelled"
    wants,          \* the broker in the settings it sends with
    uses,           \* the publisher whose publish() or aclose() it awaits
    serving,        \* the lifespan is not being shut down
    misled,         \* history: a message went to a broker it was not meant for
    tested          \* history: a test alert has been sent

mqttVars == <<publishers, running, mqtt, sig, place, wants, uses, serving, misled, tested>>

MqttInit ==
    /\ publishers = <<>> /\ running = {} /\ mqtt = 0 /\ sig = NoBroker
    /\ place = [s \in Senders |-> "idle"]
    /\ wants \in [Senders -> Brokers] /\ uses = [s \in Senders |-> 0]
    /\ serving = TRUE /\ misled = FALSE /\ tested = FALSE

---------------------------------------------------------------------------

Goto(s, at, p) ==
    /\ place' = [place EXCEPT ![s] = at]
    /\ uses' = [uses EXCEPT ![s] = p]

\* The end of MqttPublisher.publish: paho takes the message, or its return
\* code raises.
Message(b, p) ==
    \/ misled' = (misled \/ publishers[p] # b)
    \/ UNCHANGED misled

\* A publisher for broker b takes the place of the one there was, and starts
\* to connect.
Renew(s, b) ==
    /\ Len(publishers) < MaxPublishers
    /\ publishers' = Append(publishers, b)
    /\ mqtt' = Len(publishers) + 1 /\ sig' = b
    /\ Goto(s, "connecting", Len(publishers) + 1)
    /\ UNCHANGED misled

\* _publish_mqtt up to its first await.
Begin(s, b) ==
    /\ serving /\ place[s] = "idle"
    /\ wants' = [wants EXCEPT ![s] = b]
    /\ tested' = (tested \/ s \in Tests)
    /\ UNCHANGED serving
Reuse(s, b) ==
    /\ Begin(s, b)
    /\ mqtt # 0 /\ sig = b
    /\ UNCHANGED <<publishers, running, mqtt, sig>>
    /\ \/ mqtt \in running /\ Message(b, mqtt) /\ UNCHANGED <<place, uses>>
       \/ mqtt \notin running /\ Goto(s, "connecting", mqtt) /\ UNCHANGED misled
\* No publisher yet, or aclose() has nothing to stop; or aclose() is not called.
Drop(s, b) ==
    /\ Begin(s, b)
    /\ mqtt = 0 \/ sig # b
    /\ Renew(s, b)
    /\ UNCHANGED running
Replace(s, b) ==
    /\ Begin(s, b)
    /\ mqtt = 0 \/ (sig # b /\ mqtt \notin running)
    /\ Renew(s, b)
    /\ UNCHANGED running
\* The factory raises: the dispatcher holds what it held.
MakeFails(s, b) ==
    /\ Begin(s, b)
    /\ mqtt = 0 \/ (sig # b /\ mqtt \notin running)
    /\ UNCHANGED <<publishers, running, mqtt, sig, place, uses, misled>>
\* aclose() stops the client in a thread; or _mqtt_sig is renewed before that.
SignFirst(s, b) ==
    /\ Begin(s, b)
    /\ mqtt # 0 /\ sig # b /\ mqtt \in running
    /\ Goto(s, "closing", mqtt)
    /\ sig' = b
    /\ UNCHANGED <<publishers, running, mqtt, misled>>
Close(s, b) ==
    /\ Begin(s, b)
    /\ mqtt # 0 /\ sig # b /\ mqtt \in running
    /\ Goto(s, "closing", mqtt)
    /\ UNCHANGED <<publishers, running, mqtt, sig, misled>>

Closed(s) ==
    /\ place[s] = "closing"
    /\ running' = running \ {uses[s]}
    /\ Renew(s, wants[s])
    /\ UNCHANGED <<wants, serving, tested>>

\* loop_stop() or disconnect() raises, and _started stays set; or the factory
\* raises, after the close.
CloseFails(s) ==
    /\ place[s] = "closing"
    /\ running' \in {running, running \ {uses[s]}}
    /\ Goto(s, "idle", uses[s])
    /\ UNCHANGED <<publishers, mqtt, sig, wants, serving, misled, tested>>

Connected(s) ==
    /\ place[s] = "connecting"
    /\ running' = running \cup {uses[s]}
    /\ Message(wants[s], uses[s])
    /\ Goto(s, "idle", uses[s])
    /\ UNCHANGED <<publishers, mqtt, sig, wants, serving, tested>>

ConnectFails(s) ==
    /\ place[s] = "connecting"
    /\ Goto(s, "idle", uses[s])
    /\ UNCHANGED <<publishers, running, mqtt, sig, wants, serving, misled, tested>>

\* The end of the lifespan: no request is in flight, the task is cancelled
\* wherever it is, and AlertDispatcher.aclose stops the publisher.
Shutdown ==
    /\ serving /\ serving' = FALSE
    /\ \A s \in Tests : place[s] = "idle"
    /\ place' = [place EXCEPT ![Task] = "cancelled"]
    /\ running' = running \ {mqtt}
    /\ UNCHANGED <<publishers, mqtt, sig, wants, uses, misled, tested>>

MqttNext ==
    \/ \E s \in Senders :
        \/ \E b \in Brokers :
            Reuse(s, b) \/ Replace(s, b) \/ MakeFails(s, b) \/ Close(s, b)
        \/ Closed(s) \/ CloseFails(s) \/ Connected(s) \/ ConnectFails(s)
    \/ Shutdown

MqttSpec == MqttInit /\ [][MqttNext]_mqttVars

---------------------------------------------------------------------------
(* Properties.                                                             *)

MqttTypeOK ==
    /\ publishers \in Seq(Brokers) /\ Len(publishers) <= MaxPublishers
    /\ running \subseteq DOMAIN publishers
    /\ mqtt \in 0..Len(publishers)
    /\ sig = IF mqtt = 0 THEN NoBroker ELSE publishers[mqtt]
    /\ place \in [Senders -> {"idle", "closing", "connecting", "cancelled"}]
    /\ wants \in [Senders -> Brokers]
    /\ uses \in [Senders -> 0..Len(publishers)]
    /\ serving \in BOOLEAN /\ misled \in BOOLEAN /\ tested \in BOOLEAN

\* Whatever the alert and the tests do to each other's publisher, every message
\* goes to the broker of the settings it was sent with.
RightBroker == ~misled

\* As long as alerts are alone, every client whose network thread runs is the
\* one the dispatcher holds, and a shutdown leaves none behind.  (A test alert
\* that meets a publisher still connecting to another broker makes it forget
\* one.)
NoStrayClient ==
    ~tested => running \subseteq {mqtt} /\ (~serving => running = {})
=============================================================================
