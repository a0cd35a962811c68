----------------------------- MODULE MCWorkers ------------------------------
(* One worker with three definitions, the first two of which differ in the  *)
(* read policy alone.                                                       *)
EXTENDS Workers

MCSoft == {{1, 2}}
=============================================================================
