------------------------------- MODULE LogFifo -------------------------------
(***************************************************************************)
(* What the asynchronous logger promises its callers: messages come out    *)
(* one at a time, in the order in which they were logged, none of them     *)
(* twice; the process may end before the last ones are out.                *)
(***************************************************************************)
EXTENDS Naturals, Sequences

CONSTANTS Logger,  \* the threads that log
          Limit    \* bound of the model: messages per thread

VARIABLES logged,  \* the messages in the order in which they were logged
          written  \* the messages in the order in which they came out

Message == Logger \X (1..Limit)

Init == logged = <<>> /\ written = <<>>

Log ==
  /\ \E m \in Message :
       m \notin {logged[i] : i \in 1..Len(logged)} /\ logged' = Append(logged, m)
  /\ UNCHANGED written

Write ==
  /\ Len(written) < Len(logged)
  /\ written' = Append(written, logged[Len(written) + 1])
  /\ UNCHANGED logged

Next == Log \/ Write
Spec == Init /\ [][Next]_<<logged, written>>
=============================================================================
