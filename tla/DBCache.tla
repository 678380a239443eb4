------------------------------- MODULE DBCache -------------------------------
(***************************************************************************)
(* The write-behind cache of DBCacheServer: tables held in memory          *)
(* (DBTable), changed by the network threads that run                      *)
(* DBServer::NotifyRecvFinish, and written to MySQL by one backup thread   *)
(* (st_BackupSQLThreadProc) that scans the tables for flagged records,     *)
(* runs the SQL text it collected and clears the flags.                    *)
(*                                                                         *)
(* The handlers hold the table's m_Lock while they write; the backup       *)
(* thread never takes it.  A record's content is abstracted to the number  *)
(* of field writes it has had (its version), 0 when there is no record.    *)
(* The tables are the ones already loaded: LoadTable is not an action.     *)
(***************************************************************************)
EXTENDS Naturals, FiniteSets

CONSTANTS
  Table,         \* the tables in m_TableSet
  Record,        \* the keys of their records
  TableOf,       \* the table of each key
  SingleColumn,  \* the tables with one column besides the primary key
  Handler,       \* the network threads that run NotifyRecvFinish
  NoHandler,     \* a lock nobody holds
  NoRecord,      \* an idle handler's record
  BackupLimit,   \* DB_BACKUP_LIMITE_TIME, in passes of Update
  MaxVersion     \* bound of this model: field writes per record

ASSUME DBCacheAssumption ==
  /\ Table # {}  \* Update of an empty table set does nothing
  /\ TableOf \in [Record -> Table]
  /\ SingleColumn \subseteq Table
  /\ NoHandler \notin Handler /\ NoRecord \notin Record
  /\ BackupLimit \in Nat \ {0}
  /\ MaxVersion \in Nat \ {0}

VARIABLES
  data,       \* m_RecordSet: the version of each record in memory
  row,        \* the version of each row in MySQL
  isInsert,   \* records whose m_bInsert is set
  isModify,   \* records whose m_bModify is set
  lock,       \* m_Lock of each table
  hpc, hrec,  \* where each handler is, and the record it works on
  bpc,        \* where the backup thread is
  final,      \* it is in the Update(0) after its loop
  todoTables, \* tables this Update has still to visit
  cur,        \* the table being backed up
  todo,       \* records of cur the scan has still to visit
  mutated,    \* m_RecordSet changed under the scan's iterator
  cmd,        \* st_backupCmdList
  runSet,     \* commands still to run for cur
  backtime,   \* m_fBackupTime of each table
  closing,    \* m_bClose
  fresh,      \* history: flagged since the last snapshot of the record
  lost,       \* history: flags cleared although MySQL lacks the content
  late        \* history: flagged, or skipped, after the final Update began

mem   == <<data, isInsert, isModify, lock, hpc, hrec>>
pass  == <<bpc, final, todoTables, cur, todo, mutated, cmd, runSet, backtime>>
ghost == <<fresh, lost, late>>
vars  == <<mem, row, pass, closing, ghost>>

Version == 0..MaxVersion
NoCmd == [kind |-> "none", val |-> 0]
Command == [kind: {"none", "insert", "modify"}, val: Version]

Dirty == isInsert \cup isModify
InTable(t) == {r \in Record : TableOf[r] = t}
Listed == {r \in Record : cmd[r].kind # "none"}

TypeOK ==
  /\ data \in [Record -> Version] /\ row \in [Record -> Version]
  /\ isInsert \subseteq Record /\ isModify \subseteq Record
  /\ lock \in [Table -> Handler \cup {NoHandler}]
  /\ hpc \in [Handler -> {"idle", "found", "flagOwn", "flagLeaked", "locked", "written"}]
  /\ hrec \in [Handler -> Record \cup {NoRecord}]
  /\ \A h \in Handler : hpc[h] # "idle" => hrec[h] \in Record
  /\ bpc \in {"loop", "tables", "scan", "run", "done"} /\ final \in BOOLEAN
  /\ todoTables \subseteq Table /\ cur \in Table
  /\ todo \subseteq Record /\ mutated \in BOOLEAN
  /\ cmd \in [Record -> Command] /\ runSet \subseteq Record
  /\ backtime \in [Table -> 0..(BackupLimit - 1)]
  /\ closing \in BOOLEAN
  /\ fresh \subseteq Record /\ lost \subseteq Record /\ late \subseteq Record

(* What LoadTable left behind: some rows, cached as they are, no flag set. *)
Init ==
  /\ data \in [Record -> {0, 1}] /\ row = data
  /\ isInsert = {} /\ isModify = {}
  /\ lock = [t \in Table |-> NoHandler]
  /\ hpc = [h \in Handler |-> "idle"] /\ hrec = [h \in Handler |-> NoRecord]
  /\ bpc = "loop" /\ final = FALSE /\ todoTables = {} /\ cur = CHOOSE t \in Table : TRUE
  /\ todo = {} /\ mutated = FALSE
  /\ cmd = [r \in Record |-> NoCmd] /\ runSet = {}
  /\ backtime = [t \in Table |-> 0]
  /\ closing = FALSE
  /\ fresh = {} /\ lost = {} /\ late = {}

-----------------------------------------------------------------------------
(* Handlers: DBManager::InsertDB and ModifyDB.                             *)

Goto(h, pc) == hpc' = [hpc EXCEPT ![h] = pc]
Take(h, pc, r) == Goto(h, pc) /\ hrec' = [hrec EXCEPT ![h] = r]
Return(h) == Take(h, "idle", NoRecord)
Flagged(r) ==
  /\ fresh' = fresh \cup {r}
  /\ late' = IF final THEN late \cup {r} ELSE late
  /\ UNCHANGED lost

(* FindSet sees no record of this key; the lock is not held yet. *)
InsertFind(h, r) ==
  /\ hpc[h] = "idle" /\ data[r] = 0
  /\ Take(h, "found", r)
  /\ UNCHANGED <<data, isInsert, isModify, lock, row, pass, closing, ghost>>

(* Mutated form: InsertSet assigns to the key instead of inserting. *)
Overwrites(r) == TRUE
AddsTo(r) == data[r] = 0

(* Under the lock InsertSet adds the record, unless one came in between:   *)
(* unordered_map::insert then keeps the old one and the new one leaks.  A  *)
(* scan in progress may or may not see the record, and may lose its place. *)
InsertSet(h) ==
  LET r == hrec[h]
      scanned == bpc = "scan" /\ cur = TableOf[r] IN
  /\ hpc[h] = "found" /\ lock[TableOf[r]] = NoHandler
  /\ \/ /\ AddsTo(r)
        /\ data' = [data EXCEPT ![r] = 1]
        /\ Goto(h, "flagOwn")
        /\ todo' = IF scanned THEN todo \cup {r} ELSE todo
        /\ mutated' = (mutated \/ scanned)
     \/ /\ ~AddsTo(r)
        /\ Goto(h, "flagLeaked")
        /\ UNCHANGED <<data, todo, mutated>>
  /\ UNCHANGED <<isInsert, isModify, lock, hrec, row, bpc, final, todoTables,
                 cur, cmd, runSet, backtime, closing, ghost>>

(* Back in InsertDB, unlocked: SetIsInsert(true) on the record returned. *)
SetIsInsert(h) ==
  /\ \/ /\ hpc[h] = "flagOwn"
        /\ isInsert' = isInsert \cup {hrec[h]}
        /\ Flagged(hrec[h])
     \/ /\ hpc[h] = "flagLeaked"
        /\ UNCHANGED <<isInsert, ghost>>
  /\ Return(h)
  /\ UNCHANGED <<data, isModify, lock, row, pass, closing>>

(* ModifyRecord: the record exists (none is ever erased); take the lock. *)
ModifyLock(h, r) ==
  /\ hpc[h] = "idle" /\ data[r] # 0 /\ lock[TableOf[r]] = NoHandler
  /\ lock' = [lock EXCEPT ![TableOf[r]] = h]
  /\ Take(h, "locked", r)
  /\ UNCHANGED <<data, isInsert, isModify, row, pass, closing, ghost>>

(* One turn of the field loop: ResetData ... *)
ModifyField(h) ==
  /\ hpc[h] = "locked" /\ data[hrec[h]] < MaxVersion
  /\ data' = [data EXCEPT ![hrec[h]] = @ + 1]
  /\ Goto(h, "written")
  /\ UNCHANGED <<isInsert, isModify, lock, hrec, row, pass, closing, ghost>>

(* ... and then SetIsModify(true). *)
SetIsModify(h) ==
  /\ hpc[h] = "written"
  /\ isModify' = isModify \cup {hrec[h]}
  /\ Flagged(hrec[h])
  /\ Goto(h, "locked")
  /\ UNCHANGED <<data, isInsert, lock, hrec, row, pass, closing>>

ModifyUnlock(h) ==
  /\ hpc[h] = "locked"
  /\ lock' = [lock EXCEPT ![TableOf[hrec[h]]] = NoHandler]
  /\ Return(h)
  /\ UNCHANGED <<data, isInsert, isModify, row, pass, closing, ghost>>

-----------------------------------------------------------------------------
(* The backup thread: st_BackupSQLThreadProc and DBManager::Update.        *)

(* Mutated forms: no time passed on, the limit off by one, a close that    *)
(* does not force the table out.                                           *)
NoTick == 0
DueOffByOne(t) == backtime[t] + (IF final THEN 0 ELSE 1) > BackupLimit \/ closing
DueOnTimeOnly(t) == backtime[t] + (IF final THEN 0 ELSE 1) >= BackupLimit

Tick == IF final THEN 0 ELSE 1
IsClose == closing
Due(t) == backtime[t] + Tick >= BackupLimit \/ IsClose

(* The loop's test of IsClose, then Update from its top: the static list   *)
(* is emptied here and nowhere else.                                       *)
UpdateBegin ==
  /\ bpc = "loop"
  /\ bpc' = "tables" /\ final' = IsClose /\ todoTables' = Table
  /\ cmd' = [r \in Record |-> NoCmd]
  /\ UNCHANGED <<mem, row, cur, todo, mutated, runSet, backtime, closing, ghost>>

TableNotDue(t) ==
  /\ bpc = "tables" /\ t \in todoTables /\ ~Due(t)
  /\ backtime' = [backtime EXCEPT ![t] = @ + Tick]
  /\ todoTables' = todoTables \ {t}
  /\ UNCHANGED <<mem, row, bpc, final, cur, todo, mutated, cmd, runSet, closing, ghost>>

TableDue(t) ==
  /\ bpc = "tables" /\ t \in todoTables /\ Due(t)
  /\ bpc' = "scan" /\ cur' = t /\ mutated' = FALSE
  /\ todo' = {r \in InTable(t) : data[r] # 0}
  /\ UNCHANGED <<mem, row, final, todoTables, cmd, runSet, backtime, closing, ghost>>

(* Mutated form: BackupTableCmd asks for the modify flag first. *)
ModifyFirst(r) == IF r \in isModify THEN "modify" ELSE "insert"
CommandKind(r) == IF r \in isInsert THEN "insert" ELSE "modify"

(* BackupTableCmd, one record: a flagged record puts the SQL text of its   *)
(* current content in the list.                                            *)
ScanRecord(r) ==
  /\ bpc = "scan" /\ r \in todo
  /\ todo' = todo \ {r}
  /\ IF r \in Dirty /\ r \notin Listed
     THEN /\ cmd' = [cmd EXCEPT ![r] =
                       [kind |-> CommandKind(r), val |-> data[r]]]
          /\ fresh' = fresh \ {r}
     ELSE UNCHANGED <<cmd, fresh>>
  /\ UNCHANGED <<mem, row, bpc, final, todoTables, cur, mutated, runSet,
                 backtime, closing, lost, late>>

(* The scan ends when every record was visited; after an insertion under   *)
(* its iterator it may end early.  Everything listed is then run, commands *)
(* of tables visited before included.                                      *)
ScanEnd ==
  /\ bpc = "scan" /\ (todo = {} \/ mutated)
  /\ bpc' = "run" /\ runSet' = Listed /\ todo' = {}
  /\ late' = IF final THEN late \cup todo ELSE late
  /\ UNCHANGED <<mem, row, final, todoTables, cur, mutated, cmd, backtime,
                 closing, fresh, lost>>

(* What MySQL does with the text.  The UPDATE text has no comma between    *)
(* its assignments, so it is SQL only for a single column; an UPDATE of no *)
(* row succeeds and changes nothing.                                       *)
Accepted(r) ==
  IF cmd[r].kind = "insert" THEN row[r] = 0 ELSE TableOf[r] \in SingleColumn
Writes(r) == Accepted(r) /\ (cmd[r].kind = "insert" \/ row[r] # 0)

(* Mutated form: the insert flag is not cleared. *)
ClearModifyOnly(r) == isModify' = isModify \ {r} /\ UNCHANGED isInsert
ClearFlags(r) == isInsert' = isInsert \ {r} /\ isModify' = isModify \ {r}

(* Run one command, over a link that may fail, and clear both flags        *)
(* whatever came of it.                                                    *)
RunSqlCMD(r, linkUp) ==
  /\ bpc = "run" /\ r \in runSet
  /\ runSet' = runSet \ {r}
  /\ row' = [row EXCEPT ![r] = IF linkUp /\ Writes(r) THEN cmd[r].val ELSE @]
  /\ ClearFlags(r)
  /\ lost' = IF row'[r] = data[r] THEN lost \ {r}
             ELSE IF r \in Dirty /\ (r \in fresh \/ ~(linkUp /\ Accepted(r)))
             THEN lost \cup {r} ELSE lost
  /\ UNCHANGED <<data, lock, hpc, hrec, bpc, final, todoTables, cur, todo,
                 mutated, cmd, backtime, closing, fresh, late>>

TableDone ==
  /\ bpc = "run" /\ runSet = {}
  /\ backtime' = [backtime EXCEPT ![cur] = 0]
  /\ bpc' = "tables" /\ todoTables' = todoTables \ {cur}
  /\ UNCHANGED <<mem, row, final, cur, todo, mutated, cmd, runSet, closing, ghost>>

UpdateEnd ==
  /\ bpc = "tables" /\ todoTables = {}
  /\ bpc' = IF final THEN "done" ELSE "loop"
  /\ UNCHANGED <<mem, row, final, todoTables, cur, todo, mutated, cmd, runSet,
                 backtime, closing, ghost>>

(* ~DBManager sets m_bClose and joins the backup thread. *)
Close ==
  /\ ~closing /\ closing' = TRUE
  /\ UNCHANGED <<mem, row, pass, ghost>>

-----------------------------------------------------------------------------
Backup ==
  \/ UpdateBegin \/ ScanEnd \/ TableDone \/ UpdateEnd
  \/ \E t \in Table : TableNotDue(t) \/ TableDue(t)
  \/ \E r \in Record : ScanRecord(r)
  \/ \E r \in Record, linkUp \in BOOLEAN : RunSqlCMD(r, linkUp)

Handle(h) ==
  \/ \E r \in Record : InsertFind(h, r) \/ ModifyLock(h, r)
  \/ InsertSet(h) \/ SetIsInsert(h)
  \/ ModifyField(h) \/ SetIsModify(h) \/ ModifyUnlock(h)

Next == Backup \/ Close \/ \E h \in Handler : Handle(h)
Spec == Init /\ [][Next]_vars

(* The OS schedules the backup thread, whatever the handlers do. *)
FairSpec == Spec /\ WF_vars(Backup)

-----------------------------------------------------------------------------
Writing(r) ==
  \E h \in Handler : hpc[h] \in {"flagOwn", "written"} /\ hrec[h] = r

(* The dirty flags account for every difference between memory and MySQL: *)
(* a record that differs from its row is flagged, is being written by a   *)
(* handler that will flag it, or is one whose flags were cleared without  *)
(* its content being saved - by a failed command, or because a handler    *)
(* flagged it between the snapshot of its SQL text and the clearing       *)
(* (DBManager.cpp:57-68).  Nothing else in the pass loses an update.      *)
SavedUnlessDirty ==
  \A r \in Record : data[r] # row[r] => r \in Dirty \/ r \in lost \/ Writing(r)

(* Every flagged record that a pass visited is written in that pass: when *)
(* the backup thread is between passes or has ended, a flagged record was *)
(* flagged after its last visit or was never visited (DBTable.cpp:28-43). *)
VisitedIsWritten == bpc \in {"loop", "done"} => Dirty \subseteq fresh

(* The Update(0) after the loop flushes (DBManager.cpp:16, 33-34): once   *)
(* the thread has ended, a record still flagged was flagged, or slipped   *)
(* from the scan's iterator, after that last pass had begun.              *)
CloseFlushes == bpc = "done" => Dirty \subseteq late

(* For all its flags, SQL texts and passes, the cache is a store that owes *)
(* MySQL what it was told (DBStore): a write is owed from the moment it is *)
(* in memory, not only once it is flagged, and a row never goes back to an *)
(* older content, although SQL text is kept across tables and run more     *)
(* than once (DBManager.cpp:48-68, 149-173).                               *)
Owed == Dirty \cup {r \in Record : Writing(r)}
Store == INSTANCE DBStore WITH owed <- Owed, forgotten <- lost
IsStore == Store!Spec

(* A row is created only by the INSERT of a record that a handler added   *)
(* and flagged, and at most once: a record waiting for its insert flag or *)
(* carrying it has no row (DBTable.cpp:33-41, DBManager.cpp:168-171).     *)
InsertOnlyNew ==
  \A r \in Record :
    r \in isInsert \/ (\E h \in Handler : hpc[h] = "flagOwn" /\ hrec[h] = r)
      => row[r] = 0

(* A flagged record is eventually visited and its flags cleared, and a    *)
(* close eventually ends the backup thread, if only that thread keeps     *)
(* being scheduled (DBManager.cpp:11-16).                                 *)
DirtyIsWritten ==
  /\ \A r \in Record : r \in Dirty ~> (r \notin Dirty \/ bpc = "done")
  /\ closing ~> bpc = "done"
=============================================================================
