---------------------------- MODULE DBCache_proofs ----------------------------
(***************************************************************************)
(* The safety properties of the write-behind cache, for any tables,        *)
(* records, handlers, period and number of writes.                         *)
(***************************************************************************)
EXTENDS DBCache, TLAPS

Owner(h, r) == hpc[h] = "flagOwn" /\ hrec[h] = r
Writer(h, r) == hpc[h] = "written" /\ hrec[h] = r
Adding(r) == \E h \in Handler : Owner(h, r)

(* Where the backup thread is. *)
PassInv ==
  /\ runSet \subseteq Listed /\ (runSet # {} => bpc = "run")
  /\ bpc \in {"scan", "run"} => cur \in todoTables
  /\ final => closing /\ bpc # "loop"
  /\ bpc = "done" => final /\ todoTables = {}

(* The versions: MySQL is never ahead of the SQL text, nor the text ahead  *)
(* of memory, and a row is made once.                                      *)
VersionAt(r) ==
  /\ row[r] <= data[r]
  /\ r \in Listed => cmd[r].val # 0 /\ cmd[r].val <= data[r] /\ row[r] <= cmd[r].val
  /\ r \in Dirty => data[r] # 0
  /\ \A h \in Handler : hpc[h] \in {"flagOwn", "locked", "written"} /\ hrec[h] = r
                          => data[r] # 0
  /\ Adding(r) => row[r] = 0 /\ r \notin isInsert /\ cmd[r].kind # "insert"
  /\ \A g, h \in Handler : Owner(g, r) /\ Owner(h, r) => g = h
  /\ r \in isInsert => row[r] = 0
VersionInv == \A r \in Record : VersionAt(r)

(* The flags: the text in the list is the record's content unless it was   *)
(* flagged since, and a flagged record not flagged since is about to run.  *)
FlagAt(r) ==
  /\ r \in Listed /\ r \notin fresh =>
       /\ data[r] = cmd[r].val \/ \E h \in Handler : Writer(h, r)
       /\ cmd[r].kind = "modify" => r \notin isInsert
  /\ data[r] # 0 /\ row[r] = 0 => r \in isInsert \/ r \in lost \/ Adding(r)
  /\ r \in Dirty /\ r \notin fresh => r \in runSet \/ (bpc = "scan" /\ r \in Listed)
FlagInv == \A r \in Record : FlagAt(r)

(* The final pass: a flagged record is in a table still to visit, or was   *)
(* flagged or skipped since the pass began; in the table being visited it  *)
(* is still to be scanned or to be run.                                    *)
FinalInv == final => \A r \in Record : r \in Dirty /\ r \notin late =>
  /\ TableOf[r] \in todoTables
  /\ bpc = "scan" /\ TableOf[r] = cur => r \in todo \/ r \in Listed
  /\ bpc = "run" /\ TableOf[r] = cur => r \in runSet

IInv == TypeOK /\ PassInv /\ VersionInv /\ FlagInv /\ FinalInv /\ SavedUnlessDirty

-----------------------------------------------------------------------------
LEMMA CommandFacts ==
  /\ NoCmd \in Command
  /\ \A k \in {"none", "insert", "modify"}, v \in Version :
       [kind |-> k, val |-> v] \in Command
BY DBCacheAssumption DEF NoCmd, Command, Version

LEMMA InitIInv == Init => IInv
<1> SUFFICES ASSUME Init PROVE IInv
  OBVIOUS
<1> USE DBCacheAssumption DEF Version, Dirty, Listed
<1>1. TypeOK
  <2>1. data \in [Record -> Version] /\ row \in [Record -> Version]
    BY DEF Init
  <2>2. cur \in Table
    BY DEF Init
  <2>3. backtime \in [Table -> 0..(BackupLimit - 1)]
    BY DEF Init
  <2>4. cmd \in [Record -> Command]
    BY CommandFacts DEF Init
  <2>5. /\ isInsert \subseteq Record /\ isModify \subseteq Record
        /\ fresh \subseteq Record /\ lost \subseteq Record /\ late \subseteq Record
        /\ todo \subseteq Record /\ runSet \subseteq Record /\ todoTables \subseteq Table
        /\ bpc = "loop" /\ final = FALSE /\ mutated = FALSE /\ closing = FALSE
    BY DEF Init
  <2>6. /\ lock \in [Table -> Handler \cup {NoHandler}]
        /\ hpc = [h \in Handler |-> "idle"]
        /\ hrec \in [Handler -> Record \cup {NoRecord}]
    BY DEF Init
  <2> QED
    BY <2>1, <2>2, <2>3, <2>4, <2>5, <2>6 DEF TypeOK
<1> USE DEF NoCmd
<1>2. PassInv
  BY DEF Init, PassInv
<1>3. VersionInv /\ FlagInv /\ FinalInv /\ SavedUnlessDirty
  BY <1>1 DEF Init, TypeOK, VersionInv, VersionAt, FlagInv, FlagAt, FinalInv,
              SavedUnlessDirty, Adding, Owner
<1> QED
  BY <1>1, <1>2, <1>3 DEF IInv

LEMMA TypeStep == TypeOK /\ [Next]_vars => TypeOK'
<1> SUFFICES ASSUME TypeOK, [Next]_vars PROVE TypeOK'
  OBVIOUS
<1> USE DBCacheAssumption DEF TypeOK, Version, mem, pass, ghost
<1>1. CASE UpdateBegin
  <2>1. cmd' \in [Record -> Command]
    BY <1>1, CommandFacts DEF UpdateBegin
  <2> QED
    BY <1>1, <2>1 DEF UpdateBegin, IsClose
<1>2. CASE ScanEnd
  BY <1>2 DEF ScanEnd, Listed
<1>3. CASE TableDone
  BY <1>3 DEF TableDone
<1>4. CASE UpdateEnd
  BY <1>4 DEF UpdateEnd
<1>5. ASSUME NEW t \in Table, TableNotDue(t) PROVE TypeOK'
  <2>1. backtime[t] + Tick \in 0..(BackupLimit - 1)
    BY <1>5 DEF TableNotDue, Due, Tick
  <2> QED
    BY <1>5, <2>1 DEF TableNotDue
<1>6. ASSUME NEW t \in Table, TableDue(t) PROVE TypeOK'
  BY <1>6 DEF TableDue, InTable
<1>7. ASSUME NEW r \in Record, ScanRecord(r) PROVE TypeOK'
  <2>1. CommandKind(r) \in {"insert", "modify"}
    BY DEF CommandKind
  <2> DEFINE new == [kind |-> CommandKind(r), val |-> data[r]]
  <2>2. new \in Command
    BY <2>1, CommandFacts
  <2>3. cmd' = cmd \/ cmd' = [cmd EXCEPT ![r] = new]
    BY <1>7 DEF ScanRecord
  <2> HIDE DEF new
  <2>4. cmd' \in [Record -> Command]
    BY <2>2, <2>3
  <2> QED
    BY <1>7, <2>4 DEF ScanRecord
<1>8. ASSUME NEW r \in Record, NEW up \in BOOLEAN, RunSqlCMD(r, up) PROVE TypeOK'
  <2>1. cmd[r].val \in Version
    BY DEF Command
  <2>2. row' \in [Record -> Version]
    BY <1>8, <2>1 DEF RunSqlCMD
  <2> QED
    BY <1>8, <2>2 DEF RunSqlCMD, ClearFlags
<1>9. CASE Close
  BY <1>9 DEF Close
<1>10. ASSUME NEW h \in Handler, NEW r \in Record, InsertFind(h, r) PROVE TypeOK'
  BY <1>10 DEF InsertFind, Take, Goto
<1>11. ASSUME NEW h \in Handler, NEW r \in Record, ModifyLock(h, r) PROVE TypeOK'
  BY <1>11 DEF ModifyLock, Take, Goto
<1>12. ASSUME NEW h \in Handler, InsertSet(h) PROVE TypeOK'
  <2>1. hrec[h] \in Record
    BY <1>12 DEF InsertSet
  <2>2. CASE AddsTo(hrec[h])
    BY <1>12, <2>1, <2>2 DEF InsertSet, Goto
  <2>3. CASE ~AddsTo(hrec[h])
    BY <1>12, <2>1, <2>3 DEF InsertSet, Goto
  <2> QED
    BY <2>2, <2>3
<1>13. ASSUME NEW h \in Handler, SetIsInsert(h) PROVE TypeOK'
  BY <1>13 DEF SetIsInsert, Return, Take, Goto, Flagged
<1>14. ASSUME NEW h \in Handler, ModifyField(h) PROVE TypeOK'
  BY <1>14 DEF ModifyField, Goto
<1>15. ASSUME NEW h \in Handler, SetIsModify(h) PROVE TypeOK'
  BY <1>15 DEF SetIsModify, Goto, Flagged
<1>16. ASSUME NEW h \in Handler, ModifyUnlock(h) PROVE TypeOK'
  BY <1>16 DEF ModifyUnlock, Return, Take, Goto
<1>17. CASE UNCHANGED vars
  BY <1>17 DEF vars
<1> QED
  BY <1>1, <1>2, <1>3, <1>4, <1>5, <1>6, <1>7, <1>8, <1>9, <1>10, <1>11, <1>12,
     <1>13, <1>14, <1>15, <1>16, <1>17 DEF Next, Backup, Handle

LEMMA PassStep == TypeOK /\ PassInv /\ [Next]_vars => PassInv'
<1> SUFFICES ASSUME TypeOK, PassInv, [Next]_vars PROVE PassInv'
  OBVIOUS
<1> USE DEF PassInv, Listed, mem, pass, ghost
<1>1. CASE UpdateBegin
  BY <1>1 DEF UpdateBegin, IsClose, TypeOK
<1>2. CASE ScanEnd
  BY <1>2 DEF ScanEnd
<1>3. CASE TableDone
  BY <1>3 DEF TableDone
<1>4. CASE UpdateEnd
  BY <1>4 DEF UpdateEnd, TypeOK
<1>5. ASSUME NEW t \in Table, TableNotDue(t) \/ TableDue(t) PROVE PassInv'
  BY <1>5 DEF TableNotDue, TableDue
<1>6. ASSUME NEW r \in Record, ScanRecord(r) PROVE PassInv'
  BY <1>6 DEF ScanRecord, CommandKind
<1>7. ASSUME NEW r \in Record, NEW up \in BOOLEAN, RunSqlCMD(r, up) PROVE PassInv'
  BY <1>7 DEF RunSqlCMD
<1>8. CASE Close
  BY <1>8 DEF Close
<1>9. ASSUME NEW h \in Handler, Handle(h) PROVE PassInv'
  BY <1>9 DEF Handle, InsertFind, ModifyLock, InsertSet, SetIsInsert, ModifyField,
              SetIsModify, ModifyUnlock
<1>10. CASE UNCHANGED vars
  BY <1>10 DEF vars
<1> QED
  BY <1>1, <1>2, <1>3, <1>4, <1>5, <1>6, <1>7, <1>8, <1>9, <1>10 DEF Next, Backup

LEMMA Types ==
  ASSUME TypeOK, NEW r \in Record
  PROVE  /\ data[r] \in Nat /\ row[r] \in Nat
         /\ cmd[r].val \in Nat /\ cmd[r].kind \in {"none", "insert", "modify"}
BY DBCacheAssumption DEF TypeOK, Version, Command

LEMMA VersionStep == TypeOK /\ PassInv /\ VersionInv /\ [Next]_vars => VersionInv'
<1> SUFFICES ASSUME TypeOK, TypeOK', PassInv, VersionInv, [Next]_vars,
                    NEW q \in Record
             PROVE  VersionAt(q)'
  BY TypeStep DEF VersionInv
<1> USE DEF mem, pass, ghost
<1>0. /\ VersionAt(q)
      /\ data[q] \in Nat /\ row[q] \in Nat /\ cmd[q].val \in Nat
  BY Types DEF VersionInv
<1>1. CASE UNCHANGED <<data, row, isInsert, isModify, hpc, hrec, cmd>>
  BY <1>0, <1>1 DEF VersionAt, Adding, Owner, Listed, Dirty
<1>2. CASE UpdateBegin
  BY <1>0, <1>2 DEF UpdateBegin, NoCmd, VersionAt, Adding, Owner, Listed, Dirty
<1>3. ASSUME NEW r \in Record, ScanRecord(r) PROVE VersionAt(q)'
  BY <1>0, <1>3 DEF ScanRecord, CommandKind, VersionAt, Adding, Owner, Listed, Dirty, TypeOK
<1>4. ASSUME NEW r \in Record, NEW up \in BOOLEAN, RunSqlCMD(r, up) PROVE VersionAt(q)'
  <2>1. r \in Listed
    BY <1>4 DEF RunSqlCMD, PassInv
  <2> QED
    BY <1>0, <1>4, <2>1 DEF RunSqlCMD, ClearFlags, Writes, Accepted, VersionAt, Adding,
       Owner, Listed, Dirty, TypeOK
<1>5. ASSUME NEW h \in Handler, NEW r \in Record, InsertFind(h, r) \/ ModifyLock(h, r)
      PROVE  VersionAt(q)'
  BY <1>0, <1>5 DEF InsertFind, ModifyLock, Take, Goto, VersionAt, Adding, Owner, Listed,
     Dirty, TypeOK
<1>6. ASSUME NEW h \in Handler, InsertSet(h) PROVE VersionAt(q)'
  BY <1>0, <1>6, DBCacheAssumption DEF InsertSet, AddsTo, Goto, VersionAt, Adding, Owner, Listed, Dirty, TypeOK
<1>7. ASSUME NEW h \in Handler, SetIsInsert(h) PROVE VersionAt(q)'
  BY <1>0, <1>7 DEF SetIsInsert, Return, Take, Goto, VersionAt, Adding, Owner, Listed,
     Dirty, TypeOK
<1>8. ASSUME NEW h \in Handler, ModifyField(h) PROVE VersionAt(q)'
  BY <1>0, <1>8 DEF ModifyField, Goto, VersionAt, Adding, Owner, Listed, Dirty, TypeOK
<1>9. ASSUME NEW h \in Handler, SetIsModify(h) PROVE VersionAt(q)'
  BY <1>0, <1>9 DEF SetIsModify, Goto, VersionAt, Adding, Owner, Listed, Dirty, TypeOK
<1>10. ASSUME NEW h \in Handler, ModifyUnlock(h) PROVE VersionAt(q)'
  BY <1>0, <1>10 DEF ModifyUnlock, Return, Take, Goto, VersionAt, Adding, Owner, Listed,
     Dirty, TypeOK
<1> QED
  BY <1>1, <1>2, <1>3, <1>4, <1>5, <1>6, <1>7, <1>8, <1>9, <1>10
     DEF Next, Backup, Handle, ScanEnd, TableDone, UpdateEnd, TableNotDue, TableDue, Close, vars

(* The lost update is the only one: a record whose content is not in MySQL *)
(* and not flagged is one the pass has already counted as lost.            *)
Accounted(r) == data[r] # row[r] => r \in Dirty \/ r \in lost \/ Writing(r)

LEMMA FlagStep ==
  TypeOK /\ PassInv /\ VersionInv /\ FlagInv /\ SavedUnlessDirty /\ [Next]_vars
    => FlagInv' /\ SavedUnlessDirty'
<1> SUFFICES ASSUME TypeOK, PassInv, VersionInv, FlagInv, SavedUnlessDirty, [Next]_vars,
                    NEW q \in Record
             PROVE  FlagAt(q)' /\ Accounted(q)'
  BY DEF FlagInv, SavedUnlessDirty, Accounted
<1> USE DEF mem, pass, ghost
<1>0. /\ VersionAt(q) /\ FlagAt(q) /\ Accounted(q)
      /\ data[q] \in Nat /\ row[q] \in Nat /\ cmd[q].val \in Nat
      /\ cmd[q].kind \in {"none", "insert", "modify"}
  BY Types DEF VersionInv, FlagInv, SavedUnlessDirty, Accounted
<1> DEFINE Goal == FlagAt(q)' /\ Accounted(q)'
<1> USE DEF FlagAt, Accounted, Adding, Owner, Writer, Writing, Listed, Dirty
<1>1. CASE UpdateBegin
  BY <1>0, <1>1 DEF UpdateBegin, NoCmd, PassInv
<1>2. CASE ScanEnd
  BY <1>0, <1>2 DEF ScanEnd, PassInv
<1>3. CASE TableDone
  BY <1>0, <1>3 DEF TableDone, PassInv
<1>4. CASE UpdateEnd
  BY <1>0, <1>4 DEF UpdateEnd
<1>5. ASSUME NEW t \in Table, TableNotDue(t) \/ TableDue(t) PROVE Goal
  BY <1>0, <1>5 DEF TableNotDue, TableDue
<1>6. ASSUME NEW r \in Record, ScanRecord(r) PROVE Goal
  BY <1>0, <1>6 DEF ScanRecord, CommandKind, TypeOK
<1>7. ASSUME NEW r \in Record, NEW up \in BOOLEAN, RunSqlCMD(r, up) PROVE Goal
  <2>1. CASE r # q
    BY <1>0, <1>7, <2>1 DEF RunSqlCMD, ClearFlags, TypeOK
  <2>2. CASE r = q
    <3>1. q \in Listed /\ bpc = "run"
      BY <1>7, <2>2 DEF RunSqlCMD, PassInv
    <3>2. FlagAt(q)'
      BY <1>0, <1>7, <2>2, <3>1 DEF RunSqlCMD, ClearFlags, Writes, Accepted, VersionAt, TypeOK
    <3>3. Accounted(q)'
      BY <1>0, <1>7, <2>2, <3>1 DEF RunSqlCMD, ClearFlags, Writes, Accepted, VersionAt, TypeOK
    <3> QED
      BY <3>2, <3>3
  <2> QED
    BY <2>1, <2>2
<1>8. CASE Close
  BY <1>0, <1>8 DEF Close
<1>9. ASSUME NEW h \in Handler, NEW r \in Record, InsertFind(h, r) \/ ModifyLock(h, r)
      PROVE  Goal
  BY <1>0, <1>9 DEF InsertFind, ModifyLock, Take, Goto, TypeOK
<1>10. ASSUME NEW h \in Handler, InsertSet(h) PROVE Goal
  BY <1>0, <1>10 DEF InsertSet, AddsTo, Goto, VersionAt, TypeOK
<1>11. ASSUME NEW h \in Handler, SetIsInsert(h) PROVE Goal
  BY <1>0, <1>11 DEF SetIsInsert, Return, Take, Goto, Flagged, TypeOK
<1>12. ASSUME NEW h \in Handler, ModifyField(h) PROVE Goal
  BY <1>0, <1>12 DEF ModifyField, Goto, VersionAt, TypeOK
<1>13. ASSUME NEW h \in Handler, SetIsModify(h) PROVE Goal
  BY <1>0, <1>13 DEF SetIsModify, Goto, Flagged, TypeOK
<1>14. ASSUME NEW h \in Handler, ModifyUnlock(h) PROVE Goal
  BY <1>0, <1>14 DEF ModifyUnlock, Return, Take, Goto, TypeOK
<1>15. CASE UNCHANGED vars
  BY <1>0, <1>15 DEF vars
<1> QED
  BY <1>1, <1>2, <1>3, <1>4, <1>5, <1>6, <1>7, <1>8, <1>9, <1>10, <1>11, <1>12, <1>13,
     <1>14, <1>15 DEF Next, Backup, Handle

LEMMA FinalStep ==
  TypeOK /\ PassInv /\ VersionInv /\ FinalInv /\ [Next]_vars => FinalInv'
<1> SUFFICES ASSUME TypeOK, PassInv, VersionInv, FinalInv, [Next]_vars
             PROVE  FinalInv'
  OBVIOUS
<1> USE DBCacheAssumption DEF mem, pass, ghost, FinalInv, Dirty, Listed
<1>1. CASE UpdateBegin
  BY <1>1 DEF UpdateBegin
<1>2. CASE ScanEnd
  BY <1>2 DEF ScanEnd
<1>3. CASE TableDone
  BY <1>3 DEF TableDone
<1>4. CASE UpdateEnd
  BY <1>4 DEF UpdateEnd
<1>5. ASSUME NEW t \in Table, TableNotDue(t) PROVE FinalInv'
  BY <1>5 DEF TableNotDue, Due, IsClose, PassInv
<1>6. ASSUME NEW t \in Table, TableDue(t) PROVE FinalInv'
  BY <1>6 DEF TableDue, InTable, VersionInv, VersionAt, TypeOK
<1>7. ASSUME NEW r \in Record, ScanRecord(r) PROVE FinalInv'
  BY <1>7 DEF ScanRecord, CommandKind, TypeOK
<1>8. ASSUME NEW r \in Record, NEW up \in BOOLEAN, RunSqlCMD(r, up) PROVE FinalInv'
  BY <1>8 DEF RunSqlCMD, ClearFlags
<1>9. CASE Close
  BY <1>9 DEF Close
<1>10. ASSUME NEW h \in Handler, Handle(h) PROVE FinalInv'
  BY <1>10 DEF Handle, InsertFind, ModifyLock, InsertSet, SetIsInsert, ModifyField,
               SetIsModify, ModifyUnlock, Flagged
<1>11. CASE UNCHANGED vars
  BY <1>11 DEF vars
<1> QED
  BY <1>1, <1>2, <1>3, <1>4, <1>5, <1>6, <1>7, <1>8, <1>9, <1>10, <1>11 DEF Next, Backup

LEMMA Invariance == Spec => []IInv
<1>1. IInv /\ [Next]_vars => IInv'
  BY TypeStep, PassStep, VersionStep, FlagStep, FinalStep DEF IInv
<1> QED
  BY InitIInv, <1>1, PTL DEF Spec

-----------------------------------------------------------------------------
(* Flags, versions, locks and positions stay in range.                     *)
THEOREM TypeCorrect == Spec => []TypeOK
<1>1. IInv => TypeOK
  BY DEF IInv
<1> QED
  BY Invariance, <1>1, PTL

(* Only a failed command, or a handler that comes between the snapshot and *)
(* the clearing of the flags, makes the cache forget to save a record.     *)
THEOREM NothingElseIsLost == Spec => []SavedUnlessDirty
<1>1. IInv => SavedUnlessDirty
  BY DEF IInv
<1> QED
  BY Invariance, <1>1, PTL

(* A pass runs a command for every flagged record it visited.              *)
THEOREM PassWritesVisited == Spec => []VisitedIsWritten
<1>1. IInv => VisitedIsWritten
  BY DEF IInv, PassInv, FlagInv, FlagAt, VisitedIsWritten, Dirty, TypeOK
<1> QED
  BY Invariance, <1>1, PTL

(* The pass made after the close flushes every table.                      *)
THEOREM FinalPassFlushes == Spec => []CloseFlushes
<1>1. IInv => CloseFlushes
  BY DEF IInv, PassInv, FinalInv, CloseFlushes, Dirty, TypeOK
<1> QED
  BY Invariance, <1>1, PTL

(* INSERT is only sent for records MySQL has not seen.                     *)
THEOREM InsertsAreNew == Spec => []InsertOnlyNew
<1>1. IInv => InsertOnlyNew
  BY DEF IInv, VersionInv, VersionAt, Adding, Owner, InsertOnlyNew
<1> QED
  BY Invariance, <1>1, PTL

(* However often a command is run again, MySQL never goes back.            *)
THEOREM RowsAdvance == Spec => [][\A r \in Record : row'[r] >= row[r]]_vars
<1>1. IInv /\ [Next]_vars => [\A r \in Record : row'[r] >= row[r]]_vars
  <2> SUFFICES ASSUME IInv, [Next]_vars, NEW q \in Record
               PROVE  row'[q] >= row[q]
    OBVIOUS
  <2>1. row[q] \in Nat /\ VersionAt(q)
    BY Types DEF IInv, VersionInv
  <2>2. ASSUME NEW r \in Record, NEW up \in BOOLEAN, RunSqlCMD(r, up)
        PROVE  row'[q] >= row[q]
    <3>1. q \in runSet => row[q] <= cmd[q].val
      BY <2>1 DEF IInv, PassInv, VersionAt
    <3> QED
      BY <2>1, <2>2, <3>1 DEF RunSqlCMD, IInv, TypeOK
  <2>3. CASE UNCHANGED row
    BY <2>1, <2>3
  <2> QED
    BY <2>2, <2>3
       DEF Next, Backup, Handle, UpdateBegin, ScanEnd, TableDone, UpdateEnd, TableNotDue,
           TableDue, ScanRecord, Close, InsertFind, ModifyLock, InsertSet, SetIsInsert,
           ModifyField, SetIsModify, ModifyUnlock, vars
<1> QED
  BY Invariance, <1>1, PTL DEF Spec

-----------------------------------------------------------------------------
(* Why a pass ends.  What is left of it: tables, then the place in one of  *)
(* them, then records to scan or to run.  A record that is still to be     *)
(* inserted counts as one to scan, for the scan may meet it.               *)
InPass == bpc \in {"tables", "scan", "run"}
Stage == CASE bpc = "tables" -> 3 [] bpc = "scan" -> 2 [] bpc = "run" -> 1 [] OTHER -> 0
Left ==
  CASE bpc = "scan" -> todo \cup {r \in InTable(cur) : data[r] = 0}
    [] bpc = "run" -> runSet
    [] OTHER -> {}
Shrinks(before, after) == after \subseteq before /\ after # before
Closer ==
  \/ Shrinks(todoTables, todoTables')
  \/ /\ UNCHANGED todoTables
     /\ Stage' < Stage \/ (Stage' = Stage /\ Shrinks(Left, Left'))
NoFarther == UNCHANGED <<todoTables, Stage>> /\ Left' \subseteq Left
(* A step of the backup thread comes closer, and no other step undoes it. *)
PassEnds == [][InPass => (Backup => Closer) /\ (Closer \/ NoFarther)]_vars

TodoInv == \A r \in todo : data[r] # 0

LEMMA TodoStep == TypeOK /\ TodoInv /\ [Next]_vars => TodoInv'
<1> SUFFICES ASSUME TypeOK, TodoInv, [Next]_vars PROVE TodoInv'
  OBVIOUS
<1> USE DEF TodoInv, mem, pass, ghost
<1>1. ASSUME NEW t \in Table, TableDue(t) PROVE TodoInv'
  BY <1>1 DEF TableDue
<1>2. ASSUME NEW h \in Handler, InsertSet(h) PROVE TodoInv'
  BY <1>2 DEF InsertSet, AddsTo, TypeOK
<1>3. ASSUME NEW h \in Handler, ModifyField(h) PROVE TodoInv'
  BY <1>3, DBCacheAssumption DEF ModifyField, TypeOK, Version
<1>4. CASE todo' \subseteq todo /\ data' = data
  BY <1>4
<1> QED
  BY <1>1, <1>2, <1>3, <1>4
     DEF Next, Backup, Handle, UpdateBegin, ScanEnd, TableDone, UpdateEnd, TableNotDue,
         ScanRecord, RunSqlCMD, Close, InsertFind, ModifyLock, SetIsInsert, SetIsModify,
         ModifyUnlock, vars

(* Every step of the backup thread brings the end of its pass nearer, and  *)
(* no handler, by inserting records under the scan or flagging them, puts  *)
(* it off: of finitely many tables and records a pass visits finitely many *)
(* (DBManager.cpp:44-74, DBTable.cpp:28-43).                               *)
THEOREM PassesEnd == Spec => PassEnds
<1>1. Init => TodoInv
  BY DEF Init, TodoInv
<1>2. IInv /\ TodoInv /\ [Next]_vars => TodoInv'
  BY TodoStep DEF IInv
<1>3. IInv /\ TodoInv /\ [Next]_vars
        => [InPass => (Backup => Closer) /\ (Closer \/ NoFarther)]_vars
  <2> SUFFICES ASSUME IInv, TodoInv, [Next]_vars, vars' # vars, InPass
               PROVE  (Backup => Closer) /\ (Closer \/ NoFarther)
    OBVIOUS
  <2>0. /\ TypeOK /\ (bpc \in {"scan", "run"} => cur \in todoTables)
        /\ runSet \subseteq Listed
    BY DEF IInv, PassInv
  <2> USE DEF InPass, mem, pass, ghost
  <2>1. CASE Backup
    <3> SUFFICES Closer
      OBVIOUS
    <3>1. ASSUME NEW t \in Table, TableNotDue(t) PROVE Closer
      BY <3>1 DEF TableNotDue, Closer, Shrinks
    <3>2. ASSUME NEW t \in Table, TableDue(t) PROVE Closer
      BY <3>2 DEF TableDue, Closer, Stage
    <3>3. ASSUME NEW r \in Record, ScanRecord(r) PROVE Closer
      <4>1. /\ bpc = "scan" /\ r \in todo /\ todo' = todo \ {r} /\ data[r] # 0
            /\ UNCHANGED <<bpc, data, cur, todoTables>>
        BY <3>3 DEF ScanRecord, TodoInv
      <4>2. Stage' = Stage
        BY <4>1 DEF Stage
      <4>3. Shrinks(Left, Left')
        BY <4>1 DEF Left, InTable, Shrinks
      <4> QED
        BY <4>1, <4>2, <4>3 DEF Closer
    <3>4. CASE ScanEnd
      BY <3>4 DEF ScanEnd, Closer, Stage
    <3>5. ASSUME NEW r \in Record, NEW up \in BOOLEAN, RunSqlCMD(r, up) PROVE Closer
      <4>1. /\ bpc = "run" /\ r \in runSet /\ runSet' = runSet \ {r}
            /\ UNCHANGED <<bpc, todoTables>>
        BY <3>5 DEF RunSqlCMD
      <4>2. Stage' = Stage /\ Shrinks(Left, Left')
        BY <4>1 DEF Stage, Left, Shrinks
      <4> QED
        BY <4>1, <4>2 DEF Closer
    <3>6. CASE TableDone
      BY <2>0, <3>6 DEF TableDone, Closer, Shrinks
    <3>7. CASE UpdateEnd
      BY <3>7 DEF UpdateEnd, Closer, Stage
    <3>8. ~UpdateBegin
      BY DEF UpdateBegin
    <3> QED
      BY <2>1, <3>1, <3>2, <3>3, <3>4, <3>5, <3>6, <3>7, <3>8 DEF Backup
  <2>2. CASE ~Backup
    <3>1. ASSUME NEW h \in Handler, InsertSet(h) PROVE NoFarther
      <4>1. /\ UNCHANGED <<bpc, cur, todoTables, runSet>> /\ hrec[h] \in Record
            /\ Stage' = Stage
        BY <2>0, <3>1 DEF InsertSet, TypeOK, Stage
      <4>2. CASE bpc = "scan"
        <5>1. \A r \in Record : data'[r] = 0 => data[r] = 0
          BY <2>0, <3>1 DEF InsertSet, AddsTo, TypeOK
        <5>2. \A r \in todo' : r \in todo \/ (r \in InTable(cur) /\ data[r] = 0)
          BY <2>0, <3>1, <4>1 DEF InsertSet, AddsTo, InTable
        <5> QED
          BY <4>1, <4>2, <5>1, <5>2 DEF NoFarther, Left, InTable
      <4>3. CASE bpc # "scan"
        BY <4>1, <4>3 DEF NoFarther, Left
      <4> QED
        BY <4>2, <4>3
    <3>2. ASSUME NEW h \in Handler, ModifyField(h) PROVE NoFarther
      <4>1. /\ UNCHANGED <<bpc, cur, todo, todoTables, runSet>>
            /\ \A r \in Record : data'[r] = 0 => data[r] = 0
        BY <2>0, <3>2, DBCacheAssumption DEF ModifyField, TypeOK, Version
      <4> QED
        BY <4>1 DEF NoFarther, Left, InTable, Stage
    <3>3. ASSUME UNCHANGED <<bpc, cur, todo, todoTables, runSet, data>> PROVE NoFarther
      <4>1. Stage' = Stage
        BY <3>3 DEF Stage
      <4>2. InTable(cur)' = InTable(cur)
        BY <3>3 DEF InTable
      <4>3. Left' = Left
        BY <3>3, <4>2 DEF Left
      <4> QED
        BY <3>3, <4>1, <4>3 DEF NoFarther
    <3> QED
      BY <2>2, <3>1, <3>2, <3>3
         DEF Next, Handle, Close, InsertFind, ModifyLock, SetIsInsert, SetIsModify,
             ModifyUnlock
  <2> QED
    BY <2>1, <2>2
<1> QED
  BY Invariance, <1>1, <1>2, <1>3, PTL DEF Spec, PassEnds

-----------------------------------------------------------------------------
(* The cache as a store.  A step of a handler changes one record, which is *)
(* owed from then on, or moves a debt from the handler's hands to a flag.  *)
LEMMA StoreChange ==
  ASSUME TypeOK, NEW h \in Handler, Handle(h)
  PROVE  UNCHANGED Store!vars \/ \E r \in Record : Store!Change(r)
<1> USE DEF Store!vars, mem, pass, ghost
<1>1. ASSUME NEW r \in Record, InsertFind(h, r) \/ ModifyLock(h, r)
      PROVE  UNCHANGED Store!vars
  BY <1>1 DEF InsertFind, ModifyLock, Take, Goto, TypeOK, Owed, Dirty, Writing
<1>2. ASSUME InsertSet(h) \/ ModifyField(h), UNCHANGED data PROVE UNCHANGED Store!vars
  BY <1>2, DBCacheAssumption
     DEF InsertSet, AddsTo, ModifyField, Goto, TypeOK, Version, Owed, Dirty, Writing
<1>3. ASSUME InsertSet(h) \/ ModifyField(h), data' # data
      PROVE  hrec[h] \in Record /\ Store!Change(hrec[h])
  <2> DEFINE r == hrec[h]
  <2>1. /\ r \in Record /\ data' = [data EXCEPT ![r] = @ + 1] /\ UNCHANGED <<row, lost>>
        /\ hpc' = [hpc EXCEPT ![h] = IF InsertSet(h) THEN "flagOwn" ELSE "written"]
        /\ UNCHANGED <<hrec, isInsert, isModify>>
    BY <1>3 DEF InsertSet, AddsTo, ModifyField, Goto, TypeOK
  <2>2. hpc[h] \in {"found", "locked"}
    BY <1>3 DEF InsertSet, ModifyField
  <2>3. hpc'[h] \in {"flagOwn", "written"} /\ Writing(r)'
    BY <2>1 DEF Writing, TypeOK
  <2>4. Owed' = Owed \cup {r}
    BY <2>1, <2>2, <2>3 DEF Owed, Dirty, Writing, TypeOK
  <2> QED
    BY <2>1, <2>4 DEF Store!Change
<1>4. ASSUME SetIsInsert(h) \/ SetIsModify(h) \/ ModifyUnlock(h) PROVE UNCHANGED Store!vars
  <2>1. UNCHANGED <<data, row, lost>>
    BY <1>4 DEF SetIsInsert, SetIsModify, ModifyUnlock, Flagged
  <2>2. ASSUME NEW q \in Record PROVE q \in Owed' <=> q \in Owed
    BY <1>4 DEF SetIsInsert, SetIsModify, ModifyUnlock, Return, Take, Goto, TypeOK, Owed,
                Dirty, Writing
  <2>3. Owed \subseteq Record /\ Owed' \subseteq Record
    BY <1>4, DBCacheAssumption
       DEF SetIsInsert, SetIsModify, ModifyUnlock, TypeOK, Owed, Dirty
  <2> QED
    BY <2>1, <2>2, <2>3
<1> QED
  BY <1>1, <1>2, <1>3, <1>4 DEF Handle

(* A statement pays the debt, unless a handler holds a newer write, or it  *)
(* was refused, lost or out of date.                                       *)
LEMMA StoreWrite ==
  ASSUME IInv, NEW r \in Record, NEW up \in BOOLEAN, RunSqlCMD(r, up)
  PROVE  Store!Write(r)
<1>0. /\ TypeOK /\ VersionAt(r) /\ FlagAt(r) /\ r \in Listed
      /\ data[r] # row[r] => r \in Dirty \/ r \in lost \/ Writing(r)
      /\ data[r] \in Nat /\ row[r] \in Nat /\ cmd[r].val \in Nat
      /\ cmd[r].kind \in {"none", "insert", "modify"}
  BY Types DEF IInv, PassInv, VersionInv, FlagInv, SavedUnlessDirty, RunSqlCMD
<1>1. /\ row' = [row EXCEPT ![r] = IF up /\ Writes(r) THEN cmd[r].val ELSE @]
      /\ isInsert' = isInsert \ {r} /\ isModify' = isModify \ {r}
      /\ UNCHANGED <<data, hpc, hrec>>
      /\ lost' = IF row'[r] = data[r] THEN lost \ {r}
                 ELSE IF r \in Dirty /\ (r \in fresh \/ ~(up /\ Accepted(r)))
                 THEN lost \cup {r} ELSE lost
  BY DEF RunSqlCMD, ClearFlags
<1>2. /\ row'[r] \in row[r]..data[r] /\ row' = [row EXCEPT ![r] = row'[r]]
      /\ row[r] = data[r] => row'[r] = data[r]
  BY <1>0, <1>1 DEF VersionAt, TypeOK
<1>3. /\ Owed' = IF Writing(r) THEN Owed ELSE Owed \ {r}
      /\ r \in Owed <=> r \in Dirty \/ Writing(r)
  BY <1>0, <1>1 DEF Owed, Dirty, Writing, TypeOK
<1>4. /\ lost' \in {lost, lost \cup {r}, lost \ {r}}
      /\ r \in lost' => row'[r] # data[r]
  BY <1>1
<1> SUFFICES Store!Pay(r) \/ Store!Owe(r) \/ Store!Forget(r)
  BY <1>1, <1>2, <1>4 DEF Store!Write
<1>5. CASE Writing(r)
  BY <1>3, <1>5 DEF Store!Owe
<1>6. CASE ~Writing(r) /\ row'[r] = data[r]
  BY <1>3, <1>6 DEF Store!Pay
<1>7. CASE ~Writing(r) /\ row'[r] # data[r]
  <2>1. r \in Dirty \/ r \in lost
    BY <1>0, <1>2, <1>7
  <2>2. r \in lost'
    <3>1. CASE r \in lost
      BY <1>1, <1>7, <3>1
    <3>2. CASE r \notin lost
      <4>1. r \in Dirty /\ data[r] # 0
        BY <1>0, <2>1, <3>2 DEF VersionAt
      <4>2. CASE r \in fresh
        BY <1>1, <1>7, <4>1, <4>2
      <4>3. CASE r \notin fresh
        <5>1. data[r] = cmd[r].val /\ ~Adding(r)
          BY <1>0, <1>7, <4>3 DEF FlagAt, Writer, Owner, Adding, Writing
        <5>2. ~(up /\ Writes(r))
          BY <1>0, <1>1, <1>7, <5>1 DEF TypeOK
        <5>3. row[r] = 0 => r \in isInsert /\ cmd[r].kind = "insert"
          BY <1>0, <3>2, <4>1, <4>3, <5>1 DEF FlagAt, Listed
        <5>4. ~(up /\ Accepted(r))
          BY <1>0, <5>2, <5>3 DEF Writes, Accepted, Listed
        <5> QED
          BY <1>1, <1>7, <4>1, <5>4
      <4> QED
        BY <4>2, <4>3
    <3> QED
      BY <3>1, <3>2
  <2> QED
    BY <1>3, <1>7, <2>1, <2>2 DEF Store!Forget
<1> QED
  BY <1>5, <1>6, <1>7

(* The cache implements the store: a write is owed from the moment it is   *)
(* in memory until it is in MySQL or known to be forgotten, and a row only *)
(* ever comes closer to its record, in all interleavings of the handlers   *)
(* with the backup thread (DBManager.cpp:48-68, 149-173).                  *)
THEOREM ImplementsStore == Spec => IsStore
<1>1. Init => Store!Init
  BY DEF Init, Store!Init, Owed, Dirty, Writing
<1>2. IInv /\ [Next]_vars => [Store!Next]_(Store!vars)
  <2> SUFFICES ASSUME IInv, [Next]_vars PROVE [Store!Next]_(Store!vars)
    OBVIOUS
  <2>1. ASSUME NEW h \in Handler, Handle(h) PROVE [Store!Next]_(Store!vars)
    BY <2>1, StoreChange DEF IInv, Store!Next
  <2>2. ASSUME NEW r \in Record, NEW up \in BOOLEAN, RunSqlCMD(r, up)
        PROVE  [Store!Next]_(Store!vars)
    BY <2>2, StoreWrite DEF Store!Next
  <2>3. CASE UNCHANGED <<mem, row, lost>>
    BY <2>3 DEF mem, Store!vars, Owed, Dirty, Writing
  <2> QED
    BY <2>1, <2>2, <2>3
       DEF Next, Backup, UpdateBegin, ScanEnd, TableDone, UpdateEnd, TableNotDue, TableDue,
           ScanRecord, Close, vars, mem, ghost
<1> QED
  BY Invariance, <1>1, <1>2, PTL DEF Spec, IsStore, Store!Spec

(* What the store promises, whoever implements it: MySQL is never ahead of *)
(* memory, a record that differs from its row is owed or forgotten, and    *)
(* what is called forgotten does differ: ImplementsStore contains          *)
(* NothingElseIsLost.                                                      *)
StoreKeeps ==
  /\ data \in [Record -> Nat] /\ row \in [Record -> Nat]
  /\ \A r \in Record : /\ row[r] <= data[r] /\ (r \in lost => row[r] # data[r])
                       /\ row[r] # data[r] => r \in Owed \cup lost
THEOREM StoreLosesNothing == IsStore => [](StoreKeeps /\ SavedUnlessDirty)
<1>1. Store!Init => StoreKeeps
  BY DEF Store!Init, StoreKeeps
<1>2. StoreKeeps /\ [Store!Next]_(Store!vars) => StoreKeeps'
  <2> SUFFICES ASSUME StoreKeeps, [Store!Next]_(Store!vars) PROVE StoreKeeps'
    OBVIOUS
  <2> USE DEF StoreKeeps
  <2>1. ASSUME NEW r \in Record, Store!Change(r) PROVE StoreKeeps'
    BY <2>1 DEF Store!Change
  <2>2. ASSUME NEW r \in Record, Store!Write(r) PROVE StoreKeeps'
    <3>1. /\ data' = data /\ row'[r] \in Nat /\ row'[r] <= data[r]
          /\ row' = [row EXCEPT ![r] = row'[r]]
      BY <2>2 DEF Store!Write
    <3>2. \A q \in Record \ {r} : /\ q \in Owed' <=> q \in Owed
                                  /\ q \in lost' <=> q \in lost
      BY <2>2 DEF Store!Write, Store!Pay, Store!Owe, Store!Forget
    <3>3. /\ row'[r] # data[r] => r \in Owed' \cup lost'
          /\ r \in lost' => row'[r] # data[r]
      BY <2>2 DEF Store!Write, Store!Pay, Store!Owe, Store!Forget
    <3> QED
      BY <3>1, <3>2, <3>3
  <2>3. CASE UNCHANGED Store!vars
    BY <2>3 DEF Store!vars
  <2> QED
    BY <2>1, <2>2, <2>3 DEF Store!Next
<1>3. StoreKeeps => SavedUnlessDirty
  BY DEF StoreKeeps, SavedUnlessDirty, Owed
<1> QED
  BY <1>1, <1>2, <1>3, PTL DEF IsStore, Store!Spec
=============================================================================
