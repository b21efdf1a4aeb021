------------------------------- MODULE MCPool -------------------------------
(***************************************************************************)
(* Pool for an application that creates no more servers than the queues    *)
(* have room for.                                                          *)
(***************************************************************************)
EXTENDS Pool

ASSUME MCFits == Cardinality(Servers) <= max_servers
=============================================================================
