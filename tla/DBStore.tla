------------------------------- MODULE DBStore -------------------------------
(***************************************************************************)
(* What users of the write-behind cache may rely on: memory is changed at  *)
(* once and one write at a time, MySQL is owed the change from then on,    *)
(* and what becomes of a record's content there only ever approaches what  *)
(* memory has - until it is written or, as the cache may, forgotten.       *)
(***************************************************************************)
EXTENDS Naturals

CONSTANT Record

VARIABLES
  data,      \* writes each record in memory has had
  row,       \* those of them its row in MySQL has
  owed,      \* records whose content is still to be written
  forgotten  \* records whose content nobody will write

vars == <<data, row, owed, forgotten>>

Init ==
  /\ data \in [Record -> {0, 1}] /\ row = data
  /\ owed = {} /\ forgotten = {}

Change(r) ==
  /\ data' = [data EXCEPT ![r] = @ + 1]
  /\ owed' = owed \cup {r}
  /\ UNCHANGED <<row, forgotten>>

(* What may become of a debt: it is paid, it stays, or it is forgotten.    *)
Pay(r) == row'[r] = data[r] /\ owed' = owed \ {r}
Owe(r) == r \in owed /\ UNCHANGED owed
Forget(r) == r \in owed \cup forgotten /\ r \in forgotten' /\ owed' = owed \ {r}

(* A statement for a record: whatever it is told, MySQL does not go back,  *)
(* has nothing that memory had not, and is not abandoned silently; nor is  *)
(* a record called forgotten whose content is there.                       *)
Write(r) ==
  /\ \E v \in row[r]..data[r] : row' = [row EXCEPT ![r] = v]
  /\ forgotten' \in {forgotten, forgotten \cup {r}, forgotten \ {r}}
  /\ r \in forgotten' => row'[r] # data[r]
  /\ Pay(r) \/ Owe(r) \/ Forget(r)
  /\ UNCHANGED data

Next == \E r \in Record : Change(r) \/ Write(r)
Spec == Init /\ [][Next]_vars
=============================================================================
