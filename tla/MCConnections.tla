--------------------------- MODULE MCConnections ---------------------------
(***************************************************************************)
(* A daemon with an injector, which has a worker, and a controller, which  *)
(* has a client and a worker.                                              *)
(***************************************************************************)
EXTENDS Connections

MCRoles == [c \in Components |->
  {"worker"} \cup IF c = "controller" THEN {"client"} ELSE {}]
=============================================================================
