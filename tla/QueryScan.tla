------------------------------ MODULE QueryScan ------------------------------
(***************************************************************************)
(* DBTable::QueryRecord: which records of a table a query returns.  With   *)
(* an equality on the primary key it is a lookup; otherwise the records    *)
(* are walked from both ends at once, a record from each end per turn,     *)
(* until the two indices cross.  Fields are compared as integers           *)
(* (DB_CompareDataKey of a numeric type).  Names that other modules give   *)
(* too begin with Scan: DBTable_proofs is about this part of DBTable and   *)
(* about its keys (DBAutoKey).                                             *)
(***************************************************************************)
EXTENDS Integers

CONSTANTS
  MaxSize,  \* bound: records of a table
  Data,     \* the values a field can have
  Empty     \* a search key that was not given ("")

ASSUME QueryScanAssumption ==
  MaxSize \in Nat /\ Data \subseteq Int /\ Empty \notin Int

VARIABLES
  size,       \* m_RecordSet.size()
  field,      \* the queried field of each record, in iteration order
  keyField,   \* the field is the primary key
  query,      \* the search keys: equality, least, greatest
  beginIndex, endIndex,  \* iter01 is at beginIndex + 1, iter02 at endIndex
  recordList, \* how many times each record was appended to the result
  phase       \* "start", "scan", "done"
scanVars == <<size, field, keyField, query, beginIndex, endIndex, recordList, phase>>

Search == Data \cup {Empty}
Query == [equ: Search, min: Search, max: Search]

(* QueryDB refuses a query without any search key, and a primary key has a *)
(* value of its own in every record.                                       *)
ScanInit ==
  /\ size \in 0..MaxSize
  /\ field \in [1..size -> Data]
  /\ keyField \in BOOLEAN
  /\ keyField => \A i, j \in 1..size : field[i] = field[j] => i = j
  /\ query \in Query
  /\ query.equ # Empty \/ query.min # Empty \/ query.max # Empty
  /\ beginIndex = 0 /\ endIndex = size
  /\ recordList = [i \in 1..size |-> 0]
  /\ phase = "start"

ScanTypeOK ==
  /\ size \in Nat /\ field \in [1..size -> Int] /\ keyField \in BOOLEAN
  /\ query \in [equ: Int \cup {Empty}, min: Int \cup {Empty}, max: Int \cup {Empty}]
  /\ beginIndex \in 0..size /\ endIndex = size - beginIndex
  /\ recordList \in [1..size -> {0, 1}]
  /\ phase \in {"start", "scan", "done"}

FromMin(v) == v >= query.min
ToMax(v) == v <= query.max

(* The test of one record; "same" when both iterators are at it, which the *)
(* last branch asks even of the first iterator.                            *)
Flag(v, same) ==
  \/ query.equ # Empty /\ v = query.equ
  \/ /\ query.equ = Empty /\ query.min # Empty /\ query.max # Empty
     /\ FromMin(v) /\ ToMax(v)
  \/ /\ query.equ = Empty /\ query.min # Empty /\ query.max = Empty
     /\ FromMin(v)
  \/ /\ query.equ = Empty /\ query.min = Empty /\ query.max # Empty
     /\ ~same /\ ToMax(v)

(* Mutated form: the second iterator is not compared with the first. *)
AppendTwice(i, same) ==
  recordList[i] + (IF Flag(field[i], same) THEN (IF same THEN 2 ELSE 1) ELSE 0)
AppendOnce(i, same) ==
  recordList[i] + (IF Flag(field[i], same) THEN 1 ELSE 0)

(* m_RecordSet.find on the primary key. *)
Lookup ==
  /\ phase = "start" /\ keyField /\ query.equ # Empty
  /\ recordList' = [i \in 1..size |-> IF field[i] = query.equ THEN 1 ELSE 0]
  /\ phase' = "done"
  /\ UNCHANGED <<size, field, keyField, query, beginIndex, endIndex>>

Start ==
  /\ phase = "start" /\ ~(keyField /\ query.equ # Empty)
  /\ phase' = IF size > 0 THEN "scan" ELSE "done"
  /\ UNCHANGED <<size, field, keyField, query, beginIndex, endIndex, recordList>>

Both == {beginIndex + 1, endIndex}

(* Mutated form: the loop stops one turn early. *)
MoreEarly(b, e) == b < e - 1
More(b, e) == b < e

Turn ==
  LET same == beginIndex + 1 = endIndex IN
  /\ phase = "scan"
  /\ recordList' = [i \in 1..size |-> IF i \in Both THEN AppendOnce(i, same)
                                      ELSE recordList[i]]
  /\ beginIndex' = beginIndex + 1 /\ endIndex' = endIndex - 1
  /\ phase' = IF More(beginIndex', endIndex') THEN "scan" ELSE "done"
  /\ UNCHANGED <<size, field, keyField, query>>

ScanNext == Lookup \/ Start \/ Turn
ScanSpec == ScanInit /\ [][ScanNext]_scanVars

-----------------------------------------------------------------------------
(* What a query asks for (DBProtocol.h:66-68): equality first, then the    *)
(* records from the least to the greatest key, either of them left out.    *)
Wanted(v) ==
  IF query.equ # Empty THEN v = query.equ
  ELSE /\ query.min # Empty => v >= query.min
       /\ query.max # Empty => v <= query.max

MaxOnly == query.equ = Empty /\ query.min = Empty

ResultIsExact ==
  \A i \in 1..size : recordList[i] = IF Wanted(field[i]) THEN 1 ELSE 0

(* The result is exactly the records asked for, each once, whatever the    *)
(* number of records: the two iterators neither skip nor repeat the middle *)
(* one (DBTable.cpp:202-304) - unless only a greatest key is given: then   *)
(* the middle one may be missing, and nothing else (273).                  *)
ScanIsExact ==
  phase = "done" =>
    \/ ResultIsExact
    \/ /\ MaxOnly
       /\ \A i \in 1..size :
            \/ recordList[i] = (IF Wanted(field[i]) THEN 1 ELSE 0)
            \/ recordList[i] = 0 /\ i + i = size + 1
=============================================================================
