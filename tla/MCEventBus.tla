---------------------------- MODULE MCEventBus ----------------------------
(* A small EventBus: one capture thread, the ticker, one or two clients.   *)
EXTENDS EventBus

CONSTANTS detector, threadpool, ticker, dashboard, dispatcher

MCThreads == {detector, threadpool}
MCOneThread == {detector}
MCClients == {dashboard, dispatcher}
MCOneClient == {dispatcher}
=============================================================================
