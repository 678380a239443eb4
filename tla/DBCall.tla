------------------------------- MODULE DBCall -------------------------------
(***************************************************************************)
(* What a call of DBClient promises.  A call is carried out at most once,  *)
(* perhaps after it has returned.  A call made while nothing of an earlier *)
(* one is under way (alone) is told "ok" only when it was carried out with *)
(* success; a query made alone is told "failed" only when it failed.       *)
(***************************************************************************)
EXTENDS Naturals, Sequences

CONSTANTS
  Kind,      \* the calls of DBClient
  MaxCalls   \* bound of the model

VARIABLES
  calls,     \* the kind of each call made
  outcome,   \* what became of each: "none" until it was carried out
  busy,      \* the last call has not returned
  alone,     \* it was made while nothing else was under way
  told       \* what the last return told its caller

vars == <<calls, outcome, busy, alone, told>>
Last == Len(calls)

Init ==
  /\ calls = <<>> /\ outcome = <<>>
  /\ busy = FALSE /\ alone = FALSE /\ told = "none"

Call(k) ==
  /\ ~busy /\ Last < MaxCalls
  /\ calls' = Append(calls, k) /\ outcome' = Append(outcome, "none")
  /\ busy' = TRUE /\ alone' \in BOOLEAN
  /\ UNCHANGED told

Execute(i, result) ==
  /\ i \in 1..Last /\ outcome[i] = "none"
  /\ outcome' = [outcome EXCEPT ![i] = result]
  /\ UNCHANGED <<calls, busy, alone, told>>

Return(result) ==
  /\ busy
  /\ alone /\ (result = "ok" \/ calls[Last] = "query") => outcome[Last] = result
  /\ busy' = FALSE /\ told' = result
  /\ UNCHANGED <<calls, outcome, alone>>

Next ==
  \/ \E k \in Kind : Call(k)
  \/ \E i \in 1..Last, result \in {"ok", "failed"} : Execute(i, result)
  \/ \E result \in {"ok", "failed"} : Return(result)
Spec == Init /\ [][Next]_vars
=============================================================================
