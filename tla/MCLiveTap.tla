----------------------------- MODULE MCLiveTap -----------------------------
(* A small instance of LiveTap: the wizard's preview and the dashboard's.  *)
EXTENDS LiveTap

CONSTANTS wizard, dashboard

MCTwoStreams == {wizard, dashboard}
=============================================================================
