------------------------------ MODULE MCAlerts ------------------------------
(* A small instance of Alerts: two channels, two settings of the alerts.   *)
EXTENDS Alerts

CONSTANTS ntfy, webhook, r1, r2, never

MCChannels == <<ntfy, webhook>>
MCTwoRequests == {r1, r2}
MCOff == [on |-> {}, cooldown |-> 0]
MCQuiet == [on |-> {ntfy, webhook}, cooldown |-> 2]
MCConfigs == {MCOff, MCQuiet}
=============================================================================
