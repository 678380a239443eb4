------------------------------- MODULE DBLoad -------------------------------
(***************************************************************************)
(* DBManager::LoadTable and the backup thread on one MySQL connection.     *)
(* Handlers load tables by name: LoadTable makes the database the          *)
(* connection's own (ChangeDB), lists the fields (CheckFieldInfo), selects *)
(* the rows (RunSqlCMD), copies them (CheckToTable) and inserts the table  *)
(* into m_TableSet.  Update goes through m_TableSet and runs statements of *)
(* its own.  A statement leaves its result in m_pMysqlRes, and nothing is  *)
(* locked.                                                                 *)
(*                                                                         *)
(* A statement is atomic: two at once in the client library are not        *)
(* modelled.  A table is its database and its name, and has rows.  Reading *)
(* what is no result, or one that was read, or the container while it      *)
(* changes, is undefined: the program may crash.                           *)
(***************************************************************************)
EXTENDS Naturals

CONSTANTS
  Handler,    \* threads that serve LoadTable
  Database, Name,
  Start,      \* the database of CreateLink
  Unnamed,    \* "": keep the current database
  Exists,     \* tables there are: pairs of a database and a name
  Null,       \* no result: the statement failed
  One,        \* (MYSQL_RES*)1: it did well, and has no rows
  MaxLoads    \* bound of this model: loads begun

ASSUME LoadAssumption ==
  /\ Start \in Database /\ Unnamed \notin Database
  /\ Exists \subseteq Database \X Name /\ MaxLoads \in Nat
  /\ Null # One /\ {Null, One} \cap Exists = {}

VARIABLES
  session,    \* the connection's database
  m_sCurrentDB,
  res, read,  \* m_pMysqlRes; whether its rows were read
  tables,     \* m_TableSet: where each table's rows are from, m_sDBName,
              \* and the load that made it
  pc, db, tname,  \* where each handler is, and its arguments
  fields,     \* the table whose fields it listed, then whose rows it copied
  todo,       \* tables Update has still to go through; {} outside its loop
  crashed,
  loads,      \* loads begun
  disturbed,  \* history: another thread used the connection during the load
  named,      \* history: databases that "use" was run for
  mixed       \* history: a "use" was told what became of another statement

link    == <<session, res, read>>
handler == <<pc, db, tname, fields>>
history == <<disturbed, named, mixed>>
vars    == <<link, m_sCurrentDB, tables, handler, todo, crashed, loads, history>>

Place == {"idle", "use", "used", "list", "select", "selected", "copy", "insert"}
Loaded == DOMAIN tables
Load == [rows: Exists, db: Database, asked: Database \cup {Unnamed}, alone: BOOLEAN]

TypeOK ==
  /\ session \in Database /\ m_sCurrentDB \in Database
  /\ res \in Exists \cup {Null, One} /\ read \in BOOLEAN
  /\ Loaded \subseteq Name /\ \A t \in Loaded : tables[t] \in Load
  /\ pc \in [Handler -> Place] /\ fields \in [Handler -> Exists \cup {Null}]
  /\ db \in [Handler -> Database \cup {Unnamed}]
  /\ tname \in [Handler -> Name \cup {Null}]
  /\ \A h \in Handler :
       /\ pc[h] # "idle" => tname[h] \in Name
       /\ pc[h] \in {"use", "used"} => db[h] \in Database
       /\ pc[h] \in {"select", "selected", "copy", "insert"} => fields[h] # Null
  /\ todo \subseteq Loaded /\ crashed \in BOOLEAN /\ loads \in 0..MaxLoads
  /\ disturbed \subseteq Handler /\ named \subseteq Database /\ mixed \in BOOLEAN

Init ==
  /\ session = Start /\ m_sCurrentDB = Start /\ res = Null /\ read = FALSE
  /\ tables = [t \in {} |-> Null]
  /\ pc = [h \in Handler |-> "idle"] /\ fields = [h \in Handler |-> Null]
  /\ db = [h \in Handler |-> Unnamed] /\ tname = [h \in Handler |-> Null]
  /\ todo = {} /\ crashed = FALSE /\ loads = 0
  /\ disturbed = {} /\ named = {} /\ mixed = FALSE

-----------------------------------------------------------------------------
Loading == {h \in Handler : pc[h] \notin {"idle", "use"}}
Waiting == {h \in Handler : pc[h] \in {"used", "selected", "copy"}}
(* Mutated form: m_pMysqlRes is left when the statement fails.             *)
KeepResult == res
Failure == Null

(* st_MysqlQuery, RunSqlCMD: the statement fails, and there is no result,  *)
(* or leaves one.  Those in the middle of a load are disturbed by it: by   *)
(* "use" at any time, by another when they have still to look at theirs,   *)
(* and when another reads the rows of theirs.                              *)
RunSqlCMD(result, others) ==
  /\ res' \in {result, Failure} /\ read' = FALSE
  /\ disturbed' = disturbed \cup others
  /\ mixed' = (mixed \/ \E h \in others : pc[h] = "used")

Goto(h, place) == pc' = [pc EXCEPT ![h] = place]

(* LoadTable up to ChangeDB.  A table of that name is not loaded again.    *)
Begin(h, d, t) ==
  /\ pc[h] = "idle" /\ loads < MaxLoads
  /\ db' = [db EXCEPT ![h] = d] /\ tname' = [tname EXCEPT ![h] = t]
  /\ Goto(h, IF t \in Loaded THEN "idle" ELSE IF d = Unnamed THEN "list" ELSE "use")
  /\ loads' = loads + 1 /\ disturbed' = disturbed \ {h}
  /\ UNCHANGED <<link, m_sCurrentDB, tables, fields, todo, crashed, named, mixed>>

(* ChangeDB: "use".                                                        *)
ChangeDB(h) ==
  /\ pc[h] = "use"
  /\ RunSqlCMD(One, Loading \ {h})
  /\ session' = IF res' = One THEN db[h] ELSE session
  /\ named' = named \cup {db[h]}
  /\ Goto(h, "used")
  /\ UNCHANGED <<m_sCurrentDB, tables, db, tname, fields, todo, crashed, loads>>

(* Mutated form: the name is not set.                                      *)
SetNever(h) == UNCHANGED m_sCurrentDB
SetCurrent(h) == m_sCurrentDB' = IF res # Null THEN db[h] ELSE m_sCurrentDB

(* RunSqlCMD looks at m_pMysqlRes again to say whether it did well.        *)
ChangedDB(h) ==
  /\ pc[h] = "used" /\ SetCurrent(h)
  /\ Goto(h, IF res # Null THEN "list" ELSE "idle")
  /\ disturbed' = disturbed \cup (Loading \ {h})
  /\ UNCHANGED <<link, tables, db, tname, fields, todo, crashed, loads, named, mixed>>

(* CheckFieldInfo: a result of its own, which is NULL when there is no     *)
(* such table or the link is down, and not looked at.  A table without a   *)
(* primary key is not loaded.                                              *)
CheckFieldInfo(h) ==
  /\ pc[h] = "list"
  /\ \/ /\ <<session, tname[h]>> \in Exists
        /\ fields' = [fields EXCEPT ![h] = <<session, tname[h]>>]
        /\ Goto(h, "select") \/ Goto(h, "idle")
        /\ UNCHANGED crashed
     \/ crashed' = TRUE /\ UNCHANGED <<pc, fields>>
  /\ UNCHANGED <<link, m_sCurrentDB, tables, db, tname, todo, loads, history>>

(* "select * from".                                                        *)
Select(h) ==
  /\ pc[h] = "select"
  /\ RunSqlCMD(IF <<session, tname[h]>> \in Exists THEN <<session, tname[h]>> ELSE Null,
               Waiting \ {h})
  /\ Goto(h, "selected")
  /\ UNCHANGED <<session, m_sCurrentDB, tables, db, tname, fields, todo, crashed,
                 loads, named>>

(* Mutated form: a statement that failed is not noticed.                   *)
GoOn(h) == "copy"
AfterSelect(h) == IF res # Null THEN "copy" ELSE "idle"
Selected(h) ==
  /\ pc[h] = "selected"
  /\ Goto(h, AfterSelect(h))
  /\ UNCHANGED <<link, m_sCurrentDB, tables, db, tname, fields, todo, crashed,
                 loads, history>>

(* CheckToTable: the rows of whatever result is there.  Those of another   *)
(* table may fit the fields listed, have a key twice or lack the key.      *)
CheckToTable(h) ==
  /\ pc[h] = "copy"
  /\ \/ /\ res \notin {Null, One} /\ ~read
        /\ read' = TRUE
        /\ fields' = [fields EXCEPT ![h] = res]
        /\ Goto(h, "insert") \/ (res # fields[h] /\ Goto(h, "idle"))
        /\ disturbed' = disturbed \cup ({g \in Waiting : pc[g] # "used"} \ {h})
        /\ UNCHANGED crashed
     \/ /\ res \in {Null, One} \/ read \/ res # fields[h]
        /\ crashed' = TRUE
        /\ UNCHANGED <<read, pc, fields, disturbed>>
  /\ UNCHANGED <<session, res, m_sCurrentDB, tables, db, tname, todo, loads, named, mixed>>

(* Mutated form: the table is named after the argument, which may be "".   *)
MadeAsAsked(h) == [rows |-> fields[h], db |-> db[h], asked |-> db[h],
                   alone |-> h \notin disturbed]
(* The table gets its names and is inserted, which leaves one of its name  *)
(* that is there.  Update's iterator, when it is under way, may reach it   *)
(* or be lost.                                                             *)
Made(h) == [rows |-> fields[h], db |-> m_sCurrentDB, asked |-> db[h],
            alone |-> h \notin disturbed]
InsertTable(h) ==
  /\ pc[h] = "insert"
  /\ tables' = [t \in Loaded \cup {tname[h]} |->
                  IF t \in Loaded THEN tables[t] ELSE Made(h)]
  /\ Goto(h, "idle")
  /\ \/ UNCHANGED <<todo, crashed>>
     \/ /\ todo # {} /\ tname[h] \notin Loaded
        /\ \/ todo' = todo \cup {tname[h]} /\ UNCHANGED crashed
           \/ crashed' = TRUE /\ UNCHANGED todo
  /\ UNCHANGED <<link, m_sCurrentDB, db, tname, fields, loads, history>>

-----------------------------------------------------------------------------
(* The backup thread.                                                      *)
UpdateBegin ==
  /\ todo = {} /\ Loaded # {} /\ todo' = Loaded
  /\ UNCHANGED <<link, m_sCurrentDB, tables, handler, crashed, loads, history>>

(* A statement of a record's, run with those of tables gone through before *)
(* (DBCache).  It names its table and no database.                         *)
Target(t) == <<session, t>>
BackupStatement(t) ==
  /\ t \in Loaded /\ todo # {}
  /\ RunSqlCMD(IF Target(t) \in Exists THEN One ELSE Null, Waiting)
  /\ UNCHANGED <<session, m_sCurrentDB, tables, handler, todo, crashed, loads, named>>

UpdateTable(t) ==
  /\ t \in todo /\ todo' = todo \ {t}
  /\ UNCHANGED <<link, m_sCurrentDB, tables, handler, crashed, loads, history>>

-----------------------------------------------------------------------------
LoadTable(h) ==
  \/ \E d \in Database \cup {Unnamed}, t \in Name : Begin(h, d, t)
  \/ ChangeDB(h) \/ ChangedDB(h) \/ CheckFieldInfo(h) \/ Select(h) \/ Selected(h)
  \/ CheckToTable(h) \/ InsertTable(h)
Update ==
  UpdateBegin \/ \E t \in Loaded : BackupStatement(t) \/ UpdateTable(t)
Next == ~crashed /\ (Update \/ \E h \in Handler : LoadTable(h))
Spec == Init /\ [][Next]_vars

-----------------------------------------------------------------------------
(* A load that named its database, and during which no other thread used   *)
(* the connection, made a table of that database's rows under its name,    *)
(* whatever went wrong before it (DBManager.cpp:89-116).                   *)
LoadedAsAsked ==
  \A t \in Loaded : tables[t].alone /\ tables[t].asked # Unnamed =>
    tables[t].db = tables[t].asked /\ tables[t].rows = <<tables[t].asked, t>>

(* Loading does not crash unless the fields cannot be listed, another      *)
(* thread used the connection during the load, or the table is new and     *)
(* Update in its loop (DBManager.cpp:50, 97-113, DBMysql.cpp:86-91,        *)
(* 142-146, 187-191).                                                      *)
CrashHasCause ==
  [][\A h \in Handler : LoadTable(h) /\ crashed' =>
       \/ pc[h] = "list" \/ h \in disturbed
       \/ pc[h] = "insert" /\ todo # {} /\ tname[h] \notin Loaded]_vars

(* The connection's database is m_sCurrentDB, but for a handler between    *)
(* the two, unless one was told what became of another's statement         *)
(* (DBManager.cpp:118-128, DBMysql.cpp:88-90).                             *)
SessionIsCurrent ==
  session = m_sCurrentDB \/ mixed \/ \E h \in Handler : pc[h] = "used"

(* What is written of a table goes where its rows came from while loads    *)
(* name the first database or none, and while none was disturbed; another  *)
(* name sends the other tables' rows astray (DBManager.cpp:50-66, 118-126).*)
WritesGoHome ==
  [][\A t \in Loaded : BackupStatement(t) /\ tables[t].alone /\ named \subseteq {Start} =>
       Target(t) = tables[t].rows]_vars
=============================================================================
