--------------------------- MODULE MCMqttChannel ---------------------------
(* Small instances of MqttChannel: alerts, and two test alerts in flight, *)
(* while the settings go back and forth between two brokers.               *)
EXTENDS MqttChannel, TLC

CONSTANTS b1, b2, t1, t2

MCTwoTests == {t1, t2}
MCBrokers == {b1, b2}
Symmetry == Permutations(MCBrokers) \cup Permutations(MCTwoTests)
=============================================================================
