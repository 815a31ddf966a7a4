---------------------------- MODULE MCRetention ----------------------------
(* A small instance of Retention; its constants are numbers.               *)
EXTENDS Retention
=============================================================================
