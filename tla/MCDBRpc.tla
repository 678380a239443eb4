------------------------------- MODULE MCDBRpc -------------------------------
(* Instances of DBRpc for TLC.                                             *)
EXTENDS DBRpc, TLC

(* Sizes in units of four bytes, scaled down with the buffer: one message  *)
(* fits, two small ones fit too, a query's answer fits when it has few     *)
(* items only.                                                             *)
MCRequestSize == [k \in Kind |-> IF k = "load" THEN 1 ELSE 2]
MCAnswerSize == [k \in Kind \cup {"error"} |-> IF k = "query" THEN 3 ELSE 1]
=============================================================================
