---------------------------- MODULE DBLoad_proofs ----------------------------
(***************************************************************************)
(* What a load that was let alone makes, that it does not crash, and where *)
(* statements go, for any number of handlers, databases and tables.        *)
(***************************************************************************)
EXTENDS DBLoad, TLAPS

(* What a load that was let alone may rely on, wherever it is.             *)
Past == {"list", "select", "selected", "copy", "insert"}
AloneInv ==
  \A h \in Handler : h \notin disturbed =>
    /\ pc[h] = "used" /\ res # Null => session = db[h]
    /\ pc[h] \in Past /\ db[h] # Unnamed => session = db[h] /\ m_sCurrentDB = db[h]
    /\ pc[h] \in Past \ {"list"} => fields[h] = <<session, tname[h]>>
    /\ pc[h] = "selected" => res \in {Null, fields[h]} /\ ~read
    /\ pc[h] = "copy" => res = fields[h] /\ ~read

(* One handler at a time waits to hear of its "use", unless mixed, and     *)
(* what it will hear is what became of it.                                 *)
UseInv ==
  ~mixed =>
    /\ \A g, h \in Handler : pc[g] = "used" /\ pc[h] = "used" => g = h
    /\ \A h \in Handler : pc[h] = "used" =>
         IF res = Null THEN session = m_sCurrentDB ELSE session = db[h]

(* While nothing but the first database was named, it is the connection's, *)
(* and what was loaded alone is from it.                                   *)
HomeInv ==
  named \subseteq {Start} =>
    /\ session = Start
    /\ \A t \in Loaded : tables[t].alone => tables[t].rows = <<Start, t>>

LoadInv == TypeOK /\ AloneInv /\ UseInv /\ LoadedAsAsked /\ SessionIsCurrent /\ HomeInv

-----------------------------------------------------------------------------
LEMMA TypeInit == Init => TypeOK
<1> SUFFICES ASSUME Init PROVE TypeOK
  OBVIOUS
<1>1. /\ session \in Database /\ m_sCurrentDB \in Database
      /\ res \in Exists \cup {Null, One} /\ read \in BOOLEAN
      /\ todo \subseteq Loaded /\ crashed \in BOOLEAN
      /\ disturbed \subseteq Handler /\ named \subseteq Database /\ mixed \in BOOLEAN
  BY LoadAssumption DEF Init
<1>2. Loaded = {} /\ loads \in 0..MaxLoads
  BY LoadAssumption DEF Init, Loaded
<1>3. /\ pc \in [Handler -> Place] /\ fields \in [Handler -> Exists \cup {Null}]
      /\ db \in [Handler -> Database \cup {Unnamed}]
      /\ tname \in [Handler -> Name \cup {Null}] /\ \A h \in Handler : pc[h] = "idle"
  BY DEF Init, Place
<1> QED
  BY <1>1, <1>2, <1>3, Zenon DEF TypeOK

(* The parts of TypeOK that a step leaves alone.                           *)
LinkType ==
  /\ session \in Database /\ m_sCurrentDB \in Database
  /\ res \in Exists \cup {Null, One} /\ read \in BOOLEAN
HandlerType ==
  /\ pc \in [Handler -> Place] /\ fields \in [Handler -> Exists \cup {Null}]
  /\ db \in [Handler -> Database \cup {Unnamed}]
  /\ tname \in [Handler -> Name \cup {Null}]
  /\ \A h \in Handler :
       /\ pc[h] # "idle" => tname[h] \in Name
       /\ pc[h] \in {"use", "used"} => db[h] \in Database
       /\ pc[h] \in {"select", "selected", "copy", "insert"} => fields[h] # Null
TablesType ==
  /\ Loaded \subseteq Name /\ \A t \in Loaded : tables[t] \in Load
  /\ todo \subseteq Loaded
RestType ==
  /\ crashed \in BOOLEAN /\ loads \in 0..MaxLoads
  /\ disturbed \subseteq Handler /\ named \subseteq Database /\ mixed \in BOOLEAN

LEMMA TypeParts == TypeOK <=> LinkType /\ HandlerType /\ TablesType /\ RestType
BY DEF TypeOK, LinkType, HandlerType, TablesType, RestType

(* A statement leaves a result, and nothing else of the wrong type.        *)
LEMMA RunType ==
  ASSUME TypeOK, NEW result \in Exists \cup {Null, One}, NEW others,
         others \subseteq Handler, RunSqlCMD(result, others)
  PROVE  /\ res' \in Exists \cup {Null, One} /\ read' \in BOOLEAN
         /\ disturbed' \subseteq Handler /\ mixed' \in BOOLEAN
<1>1. res' \in {result, Null} /\ read' = FALSE /\ disturbed' = disturbed \cup others
  BY DEF RunSqlCMD, Failure
<1>2. disturbed \subseteq Handler
  BY DEF TypeOK
<1>3. mixed' \in BOOLEAN
  BY Zenon DEF RunSqlCMD
<1> QED
  BY <1>1, <1>2, <1>3

-----------------------------------------------------------------------------
LEMMA LinkStep == TypeOK /\ [Next]_vars => LinkType'
<1> SUFFICES ASSUME TypeOK, [Next]_vars PROVE LinkType'
  OBVIOUS
<1>0. LinkType /\ HandlerType
  BY TypeParts
<1>1. CASE UNCHANGED <<link, m_sCurrentDB>>
  BY <1>0, <1>1 DEF LinkType, link
<1>2. ASSUME NEW h \in Handler, ChangeDB(h)
      PROVE  LinkType'
  <2>1. /\ res' \in Exists \cup {Null, One} /\ read' \in BOOLEAN
    BY <1>2, RunType DEF ChangeDB, Loading
  <2>2. session' \in Database /\ m_sCurrentDB' = m_sCurrentDB
    BY <1>0, <1>2 DEF ChangeDB, LinkType, HandlerType
  <2> QED
    BY <1>0, <2>1, <2>2 DEF LinkType
<1>3. ASSUME NEW h \in Handler, ChangedDB(h)
      PROVE  LinkType'
  BY <1>0, <1>3 DEF ChangedDB, SetCurrent, LinkType, HandlerType, link
<1>4. ASSUME NEW h \in Handler, Select(h)
      PROVE  LinkType'
  <2>1. /\ res' \in Exists \cup {Null, One} /\ read' \in BOOLEAN
    BY <1>4, RunType DEF Select, Waiting
  <2> QED
    BY <1>0, <1>4, <2>1 DEF Select, LinkType
<1>5. ASSUME NEW h \in Handler, CheckToTable(h)
      PROVE  LinkType'
  BY <1>0, <1>5 DEF CheckToTable, LinkType
<1>6. ASSUME NEW t \in Loaded, BackupStatement(t)
      PROVE  LinkType'
  <2>1. /\ res' \in Exists \cup {Null, One} /\ read' \in BOOLEAN
    BY <1>6, RunType DEF BackupStatement, Waiting
  <2> QED
    BY <1>0, <1>6, <2>1 DEF BackupStatement, LinkType
<1>7. CASE Next
  <2>1. CASE Update
    BY <2>1, <1>1, <1>6 DEF Update, UpdateBegin, UpdateTable
  <2>2. ASSUME NEW h \in Handler, LoadTable(h) PROVE LinkType'
    BY <2>2, <1>1, <1>2, <1>3, <1>4, <1>5
       DEF LoadTable, Begin, CheckFieldInfo, Selected, InsertTable
  <2> QED
    BY <1>7, <2>1, <2>2 DEF Next
<1> QED
  BY <1>1, <1>7 DEF vars

(* What a handler has at its new place.                                    *)
HasAt(place, d, t, f) ==
  /\ place # "idle" => t \in Name
  /\ place \in {"use", "used"} => d \in Database
  /\ place \in {"select", "selected", "copy", "insert"} => f # Null

LEMMA HandlerStep == TypeOK /\ [Next]_vars => HandlerType'
<1> SUFFICES ASSUME TypeOK, [Next]_vars PROVE HandlerType'
  OBVIOUS
<1>0. LinkType /\ HandlerType
  BY TypeParts
<1>h. HandlerType <=>
        /\ pc \in [Handler -> Place] /\ fields \in [Handler -> Exists \cup {Null}]
        /\ db \in [Handler -> Database \cup {Unnamed}]
        /\ tname \in [Handler -> Name \cup {Null}]
        /\ \A h \in Handler : HasAt(pc[h], db[h], tname[h], fields[h])
  BY DEF HandlerType, HasAt
<1>p. HandlerType' <=>
        /\ pc' \in [Handler -> Place] /\ fields' \in [Handler -> Exists \cup {Null}]
        /\ db' \in [Handler -> Database \cup {Unnamed}]
        /\ tname' \in [Handler -> Name \cup {Null}]
        /\ \A h \in Handler : HasAt(pc'[h], db'[h], tname'[h], fields'[h])
  BY DEF HandlerType, HasAt
<1>1. CASE UNCHANGED handler
  BY <1>0, <1>1 DEF HandlerType, handler
<1>2. ASSUME NEW h \in Handler, NEW place \in Place,
             pc' = [pc EXCEPT ![h] = place], UNCHANGED <<db, tname>>,
             fields' = [fields EXCEPT ![h] = fields'[h]],
             fields'[h] \in Exists \cup {Null},
             HasAt(place, db[h], tname[h], fields'[h])
      PROVE  HandlerType'
  <2>1. \A g \in Handler : HasAt(pc'[g], db'[g], tname'[g], fields'[g])
    <3> TAKE g \in Handler
    <3>1. CASE g = h
      BY <3>1, <1>0, <1>h, <1>2
    <3>2. CASE g # h
      <4>1. pc'[g] = pc[g] /\ fields'[g] = fields[g] /\ db' = db /\ tname' = tname
        BY <3>2, <1>0, <1>2 DEF HandlerType
      <4> QED
        BY <4>1, <1>0, <1>h
    <3> QED
      BY <3>1, <3>2
  <2> QED
    BY <2>1, <1>0, <1>2, <1>p, <1>h
<1>3. ASSUME NEW h \in Handler, NEW place \in Place,
             pc' = [pc EXCEPT ![h] = place], UNCHANGED <<db, tname, fields>>,
             HasAt(place, db[h], tname[h], fields[h])
      PROVE  HandlerType'
  <2>1. /\ fields' = [fields EXCEPT ![h] = fields'[h]]
        /\ fields'[h] \in Exists \cup {Null} /\ fields'[h] = fields[h]
    BY <1>0, <1>3 DEF HandlerType
  <2> QED
    BY <2>1, <1>2, <1>3
<1>4. ASSUME NEW h \in Handler, NEW d \in Database \cup {Unnamed}, NEW t \in Name,
             Begin(h, d, t)
      PROVE  HandlerType'
  BY <1>0, <1>4 DEF Begin, Goto, HandlerType, Place
<1>5. ASSUME NEW h \in Handler, ChangeDB(h) \/ ChangedDB(h) \/ Select(h) \/ Selected(h)
      PROVE  HandlerType'
  <2>1. HasAt(pc[h], db[h], tname[h], fields[h])
    BY <1>0, <1>h
  <2>2. CASE ChangeDB(h)
    BY <2>1, <2>2, <1>3 DEF ChangeDB, Goto, Place, HasAt
  <2>3. CASE ChangedDB(h)
    BY <2>1, <2>3, <1>3 DEF ChangedDB, Goto, Place, HasAt
  <2>4. CASE Select(h)
    BY <2>1, <2>4, <1>3 DEF Select, Goto, Place, HasAt
  <2>5. CASE Selected(h)
    BY <2>1, <2>5, <1>3 DEF Selected, AfterSelect, Goto, Place, HasAt
  <2> QED
    BY <1>5, <2>2, <2>3, <2>4, <2>5
<1>6. ASSUME NEW h \in Handler, CheckFieldInfo(h)
      PROVE  HandlerType'
  <2>1. HasAt(pc[h], db[h], tname[h], fields[h]) /\ pc[h] = "list"
    BY <1>0, <1>h, <1>6 DEF CheckFieldInfo
  <2>2. CASE UNCHANGED <<pc, fields>>
    BY <2>2, <1>1, <1>6 DEF CheckFieldInfo, handler
  <2>3. ASSUME NEW place \in {"select", "idle"}, Goto(h, place),
               fields' = [fields EXCEPT ![h] = <<session, tname[h]>>],
               <<session, tname[h]>> \in Exists
        PROVE  HandlerType'
    <3>1. <<session, tname[h]>> # Null
      BY <2>3, LoadAssumption
    <3>2. fields'[h] = <<session, tname[h]>>
      BY <2>3, <1>0 DEF HandlerType
    <3>3. HasAt(place, db[h], tname[h], fields'[h])
      BY <2>1, <2>3, <3>1, <3>2 DEF HasAt
    <3> QED
      BY <2>3, <3>2, <3>3, <1>2, <1>6 DEF CheckFieldInfo, Goto, Place
  <2> QED
    BY <2>2, <2>3, <1>6 DEF CheckFieldInfo
<1>7. ASSUME NEW h \in Handler, CheckToTable(h)
      PROVE  HandlerType'
  <2>1. HasAt(pc[h], db[h], tname[h], fields[h]) /\ pc[h] = "copy"
    BY <1>0, <1>h, <1>7 DEF CheckToTable
  <2>2. CASE UNCHANGED <<pc, fields>>
    BY <2>2, <1>1, <1>7 DEF CheckToTable, handler
  <2>3. ASSUME NEW place \in {"insert", "idle"}, Goto(h, place), res # Null, res # One,
               fields' = [fields EXCEPT ![h] = res]
        PROVE  HandlerType'
    <3>1. res \in Exists
      BY <2>3, <1>0 DEF LinkType
    <3>2. fields'[h] = res
      BY <2>3, <1>0 DEF HandlerType
    <3>3. HasAt(place, db[h], tname[h], fields'[h])
      BY <2>1, <2>3, <3>2 DEF HasAt
    <3> QED
      BY <2>3, <3>1, <3>2, <3>3, <1>2, <1>7 DEF CheckToTable, Goto, Place
  <2> QED
    BY <2>2, <2>3, <1>7 DEF CheckToTable
<1>8. ASSUME NEW h \in Handler, InsertTable(h)
      PROVE  HandlerType'
  BY <1>8, <1>3 DEF InsertTable, Goto, Place, HasAt
<1>9. CASE Next
  <2>1. CASE Update
    BY <2>1, <1>1 DEF Update, UpdateBegin, UpdateTable, BackupStatement
  <2>2. ASSUME NEW h \in Handler, LoadTable(h) PROVE HandlerType'
    BY <2>2, <1>4, <1>5, <1>6, <1>7, <1>8 DEF LoadTable
  <2> QED
    BY <1>9, <2>1, <2>2 DEF Next
<1> QED
  BY <1>1, <1>9 DEF vars

LEMMA TablesStep == TypeOK /\ [Next]_vars => TablesType'
<1> SUFFICES ASSUME TypeOK, [Next]_vars PROVE TablesType'
  OBVIOUS
<1>0. LinkType /\ HandlerType /\ TablesType
  BY TypeParts
<1>1. CASE UNCHANGED tables /\ todo' \subseteq todo
  BY <1>0, <1>1 DEF TablesType, Loaded
<1>2. CASE UpdateBegin
  BY <1>0, <1>2 DEF UpdateBegin, TablesType, Loaded
<1>3. ASSUME NEW h \in Handler, InsertTable(h)
      PROVE  TablesType'
  <2>1. tname[h] \in Name /\ fields[h] \in Exists /\ m_sCurrentDB \in Database
        /\ db[h] \in Database \cup {Unnamed}
    BY <1>0, <1>3 DEF InsertTable, LinkType, HandlerType
  <2>2. (h \notin disturbed) \in BOOLEAN
    OBVIOUS
  <2>3. Made(h) \in Load
    BY <2>1, <2>2, Zenon DEF Made, Load
  <2>4. Loaded' = Loaded \cup {tname[h]}
    BY <1>3 DEF InsertTable, Loaded
  <2>5. \A t \in Loaded' : tables'[t] = IF t \in Loaded THEN tables[t] ELSE Made(h)
    BY <1>3, <2>4 DEF InsertTable
  <2>6. todo' \subseteq todo \cup {tname[h]}
    BY <1>3 DEF InsertTable
  <2> HIDE DEF Loaded, Made, Load
  <2> QED
    BY <1>0, <2>1, <2>3, <2>4, <2>5, <2>6 DEF TablesType
<1>4. CASE Next
  <2>1. CASE Update
    BY <2>1, <1>1, <1>2 DEF Update, UpdateTable, BackupStatement
  <2>2. ASSUME NEW h \in Handler, LoadTable(h) PROVE TablesType'
    BY <2>2, <1>1, <1>3
       DEF LoadTable, Begin, ChangeDB, ChangedDB, CheckFieldInfo, Select, Selected,
           CheckToTable
  <2> QED
    BY <1>4, <2>1, <2>2 DEF Next
<1> QED
  BY <1>1, <1>4 DEF vars

LEMMA RestStep == TypeOK /\ [Next]_vars => RestType'
<1> SUFFICES ASSUME TypeOK, [Next]_vars PROVE RestType'
  OBVIOUS
<1>0. LinkType /\ HandlerType /\ RestType
  BY TypeParts
<1>1. CASE UNCHANGED <<loads, history>> /\ crashed' \in {crashed, TRUE}
  BY <1>0, <1>1, Zenon DEF RestType, history
<1>2. ASSUME NEW h \in Handler, NEW d \in Database \cup {Unnamed}, NEW t \in Name,
             Begin(h, d, t)
      PROVE  RestType'
  <2>1. loads' \in 0..MaxLoads
    BY <1>0, <1>2, LoadAssumption DEF Begin, RestType
  <2>2. disturbed' \subseteq Handler
    BY <1>0, <1>2 DEF Begin, RestType
  <2> QED
    BY <1>0, <1>2, <2>1, <2>2, Zenon DEF Begin, RestType
<1>3. ASSUME NEW h \in Handler, ChangeDB(h)
      PROVE  RestType'
  <2>1. disturbed' \subseteq Handler /\ mixed' \in BOOLEAN
    BY <1>3, RunType DEF ChangeDB, Loading
  <2>2. named' \subseteq Database
    BY <1>0, <1>3 DEF ChangeDB, RestType, HandlerType
  <2> QED
    BY <1>0, <1>3, <2>1, <2>2, Zenon DEF ChangeDB, RestType
<1>4. ASSUME NEW h \in Handler, ChangedDB(h)
      PROVE  RestType'
  <2>1. disturbed' \subseteq Handler
    BY <1>0, <1>4 DEF ChangedDB, RestType, Loading
  <2> QED
    BY <1>0, <1>4, <2>1, Zenon DEF ChangedDB, RestType
<1>5. ASSUME NEW h \in Handler, Select(h)
      PROVE  RestType'
  <2>1. disturbed' \subseteq Handler /\ mixed' \in BOOLEAN
    BY <1>5, RunType DEF Select, Waiting
  <2> QED
    BY <1>0, <1>5, <2>1, Zenon DEF Select, RestType
<1>6. ASSUME NEW h \in Handler, CheckToTable(h)
      PROVE  RestType'
  <2>1. disturbed' \subseteq Handler /\ crashed' \in {crashed, TRUE}
    BY <1>0, <1>6 DEF CheckToTable, RestType, Waiting
  <2> QED
    BY <1>0, <1>6, <2>1, Zenon DEF CheckToTable, RestType
<1>7. ASSUME NEW t \in Loaded, BackupStatement(t)
      PROVE  RestType'
  <2>1. disturbed' \subseteq Handler /\ mixed' \in BOOLEAN
    BY <1>7, RunType DEF BackupStatement, Waiting
  <2> QED
    BY <1>0, <1>7, <2>1, Zenon DEF BackupStatement, RestType
<1>8. CASE Next
  <2>1. CASE Update
    BY <2>1, <1>1, <1>7 DEF Update, UpdateBegin, UpdateTable
  <2>2. ASSUME NEW h \in Handler, LoadTable(h) PROVE RestType'
    BY <2>2, <1>1, <1>2, <1>3, <1>4, <1>5, <1>6
       DEF LoadTable, CheckFieldInfo, Selected, InsertTable
  <2> QED
    BY <1>8, <2>1, <2>2 DEF Next
<1> QED
  BY <1>1, <1>8 DEF vars

LEMMA TypeStep == TypeOK /\ [Next]_vars => TypeOK'
<1> SUFFICES ASSUME TypeOK, [Next]_vars PROVE TypeOK'
  OBVIOUS
<1>1. LinkType' /\ HandlerType' /\ TablesType' /\ RestType'
  BY LinkStep, HandlerStep, TablesStep, RestStep
<1> QED
  BY <1>1 DEF TypeOK, LinkType, HandlerType, TablesType, RestType

(* The type invariant of the MySQL link: in particular, only tables that   *)
(* there are were loaded, and the loop of the backup thread is over tables *)
(* of m_TableSet (DBManager.cpp:44-116).                                   *)
THEOREM TypeCorrect == Spec => []TypeOK
<1> QED
  BY TypeInit, TypeStep, PTL DEF Spec

-----------------------------------------------------------------------------
(* AloneInv of one handler, in terms of what it is about.                  *)
Alone(place, s, c, r, rd, d, t, f) ==
  /\ place = "used" /\ r # Null => s = d
  /\ place \in Past /\ d # Unnamed => s = d /\ c = d
  /\ place \in Past \ {"list"} => f = <<s, t>>
  /\ place = "selected" => r \in {Null, f} /\ ~rd
  /\ place = "copy" => r = f /\ ~rd

LEMMA AloneStep == TypeOK /\ AloneInv /\ [Next]_vars => AloneInv'
<1> SUFFICES ASSUME TypeOK, AloneInv, [Next]_vars, NEW g \in Handler, g \notin disturbed'
    PROVE  Alone(pc'[g], session', m_sCurrentDB', res', read', db'[g], tname'[g],
                 fields'[g])
  BY DEF AloneInv, Alone
<1> DEFINE AloneThen == Alone(pc'[g], session', m_sCurrentDB', res', read', db'[g],
                              tname'[g], fields'[g])
<1>0. g \notin disturbed =>
        Alone(pc[g], session, m_sCurrentDB, res, read, db[g], tname[g], fields[g])
  BY DEF AloneInv, Alone
<1>t. /\ pc \in [Handler -> Place] /\ fields \in [Handler -> Exists \cup {Null}]
      /\ db \in [Handler -> Database \cup {Unnamed}]
      /\ tname \in [Handler -> Name \cup {Null}]
      /\ \A h \in Handler : pc[h] \in {"use", "used"} => db[h] \in Database
      /\ Null # One /\ {Null, One} \cap Exists = {} /\ Unnamed \notin Database
  BY LoadAssumption DEF TypeOK
<1>a. CASE UNCHANGED <<link, m_sCurrentDB, handler, disturbed>>
  BY <1>0, <1>a DEF link, handler
<1>1. ASSUME NEW h \in Handler, NEW d \in Database \cup {Unnamed}, NEW t \in Name,
             Begin(h, d, t)
      PROVE  AloneThen
  <2>1. CASE g = h
    BY <1>1, <2>1, <1>t DEF Begin, Goto, Alone, Past
  <2>2. CASE g # h
    BY <1>1, <2>2, <1>t, <1>0 DEF Begin, Goto, link
  <2> QED
    BY <2>1, <2>2
<1>2. ASSUME NEW h \in Handler, ChangeDB(h)
      PROVE  AloneThen
  <2>1. CASE g = h
    BY <1>2, <2>1, <1>t DEF ChangeDB, RunSqlCMD, Failure, Goto, Alone, Past
  <2>2. CASE g # h
    <3>1. pc'[g] = pc[g] /\ pc[g] \in {"idle", "use"}
      BY <1>2, <2>2, <1>t DEF ChangeDB, RunSqlCMD, Goto, Loading
    <3> QED
      BY <3>1 DEF Alone, Past
  <2> QED
    BY <2>1, <2>2
<1>3. ASSUME NEW h \in Handler, ChangedDB(h)
      PROVE  AloneThen
  <2>1. CASE g = h
    BY <1>3, <2>1, <1>t, <1>0 DEF ChangedDB, SetCurrent, Goto, Alone, Past, link
  <2>2. CASE g # h
    <3>1. pc'[g] = pc[g] /\ pc[g] \in {"idle", "use"}
      BY <1>3, <2>2, <1>t DEF ChangedDB, Goto, Loading
    <3> QED
      BY <3>1 DEF Alone, Past
  <2> QED
    BY <2>1, <2>2
<1>4. ASSUME NEW h \in Handler, CheckFieldInfo(h)
      PROVE  AloneThen
  <2>1. CASE g = h
    BY <1>4, <2>1, <1>t, <1>0 DEF CheckFieldInfo, Goto, Alone, Past, link, history
  <2>2. CASE g # h
    BY <1>4, <2>2, <1>t, <1>0 DEF CheckFieldInfo, Goto, link, history
  <2> QED
    BY <2>1, <2>2
<1>5. ASSUME NEW h \in Handler, Select(h)
      PROVE  AloneThen
  <2>1. CASE g = h
    BY <1>5, <2>1, <1>t, <1>0 DEF Select, RunSqlCMD, Failure, Goto, Alone, Past
  <2>2. CASE g # h
    <3>1. pc'[g] = pc[g] /\ pc[g] \notin {"used", "selected", "copy"} /\ g \notin disturbed
      BY <1>5, <2>2, <1>t DEF Select, RunSqlCMD, Goto, Waiting
    <3> QED
      BY <3>1, <1>0, <1>5 DEF Select, Alone, Past
  <2> QED
    BY <2>1, <2>2
<1>6. ASSUME NEW h \in Handler, Selected(h)
      PROVE  AloneThen
  <2>1. CASE g = h
    BY <1>6, <2>1, <1>t, <1>0 DEF Selected, AfterSelect, Goto, Alone, Past, link, history
  <2>2. CASE g # h
    BY <1>6, <2>2, <1>t, <1>0 DEF Selected, Goto, link, history
  <2> QED
    BY <2>1, <2>2
<1>7. ASSUME NEW h \in Handler, CheckToTable(h)
      PROVE  AloneThen
  <2>0. CASE UNCHANGED <<read, pc, fields, disturbed>>
    BY <1>7, <2>0, <1>0 DEF CheckToTable
  <2>1. CASE g = h /\ fields'[h] = res
    BY <1>7, <2>1, <1>t, <1>0 DEF CheckToTable, Goto, Alone, Past
  <2>2. CASE g # h /\ disturbed' = disturbed \cup ({k \in Waiting : pc[k] # "used"} \ {h})
    <3>1. pc'[g] = pc[g] /\ fields'[g] = fields[g] /\ pc[g] \notin {"selected", "copy"}
          /\ g \notin disturbed
      BY <1>7, <2>2, <1>t DEF CheckToTable, Goto, Waiting
    <3> QED
      BY <3>1, <1>0, <1>7 DEF CheckToTable, Alone, Past
  <2> QED
    BY <2>0, <2>1, <2>2, <1>7, <1>t DEF CheckToTable
<1>8. ASSUME NEW h \in Handler, InsertTable(h)
      PROVE  AloneThen
  <2>1. CASE g = h
    BY <1>8, <2>1, <1>t DEF InsertTable, Goto, Alone, Past
  <2>2. CASE g # h
    BY <1>8, <2>2, <1>t, <1>0 DEF InsertTable, Goto, link, history
  <2> QED
    BY <2>1, <2>2
<1>9. ASSUME NEW t \in Loaded, BackupStatement(t)
      PROVE  AloneThen
  <2>1. /\ pc[g] \notin {"used", "selected", "copy"} /\ g \notin disturbed
    BY <1>9 DEF BackupStatement, RunSqlCMD, Waiting
  <2> QED
    BY <2>1, <1>0, <1>9 DEF BackupStatement, handler, Alone, Past
<1>10. CASE Next
  <2>1. CASE Update
    BY <2>1, <1>a, <1>9 DEF Update, UpdateBegin, UpdateTable, history
  <2>2. ASSUME NEW h \in Handler, LoadTable(h)
        PROVE  AloneThen
    BY <2>2, <1>1, <1>2, <1>3, <1>4, <1>5, <1>6, <1>7, <1>8 DEF LoadTable
  <2> QED
    BY <1>10, <2>1, <2>2 DEF Next
<1> QED
  BY <1>a, <1>10 DEF vars, history

-----------------------------------------------------------------------------
(* What a statement is told while no "use" was mixed up.                   *)
LEMMA RunUnmixed ==
  ASSUME NEW result, NEW others, RunSqlCMD(result, others), ~mixed'
  PROVE  ~mixed /\ res' \in {result, Null} /\ \A h \in others : pc[h] # "used"
BY Zenon DEF RunSqlCMD, Failure

LEMMA UseStep ==
  TypeOK /\ UseInv /\ SessionIsCurrent /\ [Next]_vars => UseInv' /\ SessionIsCurrent'
<1> DEFINE Use ==
      /\ \A g, h \in Handler : pc[g] = "used" /\ pc[h] = "used" => g = h
      /\ \A h \in Handler : pc[h] = "used" =>
           IF res = Null THEN session = m_sCurrentDB ELSE session = db[h]
      /\ session = m_sCurrentDB \/ \E h \in Handler : pc[h] = "used"
<1>s. (~mixed => Use) <=> UseInv /\ SessionIsCurrent
  BY DEF UseInv, SessionIsCurrent
<1>p. (~mixed' => Use') <=> UseInv' /\ SessionIsCurrent'
  BY DEF UseInv, SessionIsCurrent
<1> SUFFICES ASSUME TypeOK, ~mixed => Use, [Next]_vars, ~mixed'
    PROVE  Use'
  BY <1>s, <1>p
<1>t. pc \in [Handler -> Place] /\ Null # One
  BY LoadAssumption DEF TypeOK
(* Steps that are not about "use": every handler stays where it was or     *)
(* goes between places other than "used".                                  *)
<1>a. ASSUME NEW h \in Handler, NEW place \in Place \ {"used"}, pc[h] # "used",
             pc' = [pc EXCEPT ![h] = place], ~mixed,
             \A g \in Handler : pc[g] = "used" => db'[g] = db[g],
             UNCHANGED <<session, res, m_sCurrentDB>>
      PROVE  Use'
  <2>1. \A g \in Handler : pc'[g] = "used" <=> pc[g] = "used"
    BY <1>a, <1>t
  <2> QED
    BY <2>1, <1>a
<1>b. ASSUME UNCHANGED <<pc, db, session, res, m_sCurrentDB>>, ~mixed
      PROVE  Use'
  BY <1>b
<1>1. ASSUME NEW h \in Handler, NEW d \in Database \cup {Unnamed}, NEW t \in Name,
             Begin(h, d, t)
      PROVE  Use'
  <2>1. \A g \in Handler : pc[g] = "used" => db'[g] = db[g]
    BY <1>1 DEF Begin, TypeOK
  <2> QED
    BY <2>1, <1>1, <1>a DEF Begin, Goto, Place, link
<1>2. ASSUME NEW h \in Handler, ChangeDB(h)
      PROVE  Use'
  <2>1. ~mixed /\ res' \in {One, Null} /\ \A g \in Loading \ {h} : pc[g] # "used"
    BY <1>2, RunUnmixed DEF ChangeDB
  <2>2. \A g \in Handler : pc[g] # "used"
    BY <2>1, <1>2 DEF ChangeDB, Loading
  <2>3. session = m_sCurrentDB
    BY <2>1, <2>2
  <2>4. \A g \in Handler : pc'[g] = "used" <=> g = h
    BY <2>2, <1>2, <1>t DEF ChangeDB, Goto
  <2>5. IF res' = Null THEN session' = m_sCurrentDB' ELSE session' = db'[h]
    BY <2>1, <2>3, <1>2, <1>t DEF ChangeDB
  <2> QED
    BY <2>4, <2>5
<1>3. ASSUME NEW h \in Handler, ChangedDB(h)
      PROVE  Use'
  <2>1. ~mixed /\ pc[h] = "used"
    BY <1>3 DEF ChangedDB
  <2>2. \A g \in Handler : pc'[g] # "used"
    BY <2>1, <1>3, <1>t DEF ChangedDB, Goto
  <2>3. session' = m_sCurrentDB'
    BY <2>1, <1>3 DEF ChangedDB, SetCurrent, link
  <2> QED
    BY <2>2, <2>3
<1>4. ASSUME NEW h \in Handler, CheckFieldInfo(h) \/ Selected(h) \/ InsertTable(h)
      PROVE  Use'
  <2>1. UNCHANGED <<session, res, m_sCurrentDB, db, mixed>>
    BY <1>4 DEF CheckFieldInfo, Selected, InsertTable, link, history
  <2>2. CASE UNCHANGED pc
    BY <2>1, <2>2, <1>b
  <2>3. PICK place \in Place \ {"used"} : pc' = [pc EXCEPT ![h] = place] \/ UNCHANGED pc
    BY <1>4 DEF CheckFieldInfo, Selected, AfterSelect, InsertTable, Goto, Place
  <2>4. pc[h] # "used"
    BY <1>4 DEF CheckFieldInfo, Selected, InsertTable
  <2> QED
    BY <2>1, <2>2, <2>3, <2>4, <1>a
<1>5. ASSUME NEW h \in Handler, Select(h)
      PROVE  Use'
  <2>1. ~mixed /\ \A g \in Waiting \ {h} : pc[g] # "used"
    BY <1>5, RunUnmixed DEF Select
  <2>2. \A g \in Handler : pc[g] # "used"
    BY <2>1, <1>5 DEF Select, Waiting
  <2>3. \A g \in Handler : pc'[g] # "used"
    BY <2>2, <1>5, <1>t DEF Select, Goto
  <2>4. session' = m_sCurrentDB'
    BY <2>1, <2>2, <1>5 DEF Select
  <2> QED
    BY <2>3, <2>4
<1>6. ASSUME NEW h \in Handler, CheckToTable(h)
      PROVE  Use'
  <2>1. UNCHANGED <<session, res, m_sCurrentDB, db, mixed>> /\ pc[h] # "used"
    BY <1>6 DEF CheckToTable
  <2>2. CASE UNCHANGED pc
    BY <2>1, <2>2, <1>b
  <2>3. PICK place \in Place \ {"used"} : pc' = [pc EXCEPT ![h] = place] \/ UNCHANGED pc
    BY <1>6 DEF CheckToTable, Goto, Place
  <2> QED
    BY <2>1, <2>2, <2>3, <1>a
<1>7. ASSUME NEW t \in Loaded, BackupStatement(t)
      PROVE  Use'
  <2>1. ~mixed /\ \A g \in Waiting : pc[g] # "used"
    BY <1>7, RunUnmixed DEF BackupStatement
  <2>2. \A g \in Handler : pc[g] # "used"
    BY <2>1 DEF Waiting
  <2>3. UNCHANGED <<pc, session, m_sCurrentDB>>
    BY <1>7 DEF BackupStatement, handler
  <2> QED
    BY <2>1, <2>2, <2>3
<1>8. CASE UNCHANGED vars \/ UpdateBegin \/ \E t \in Loaded : UpdateTable(t)
  BY <1>8, <1>b DEF vars, UpdateBegin, UpdateTable, link, handler, history
<1> QED
  BY <1>1, <1>2, <1>3, <1>4, <1>5, <1>6, <1>7, <1>8 DEF Next, Update, LoadTable

-----------------------------------------------------------------------------
(* What a load that was let alone inserts.                                 *)
LEMMA MadeAlone ==
  ASSUME AloneInv, NEW h \in Handler, pc[h] = "insert", Made(h).alone
  PROVE  /\ Made(h).rows = <<session, tname[h]>>
         /\ db[h] # Unnamed => session = db[h] /\ m_sCurrentDB = db[h]
<1>1. h \notin disturbed
  BY DEF Made
<1>2. fields[h] = <<session, tname[h]>>
      /\ (db[h] # Unnamed => session = db[h] /\ m_sCurrentDB = db[h])
  BY <1>1 DEF AloneInv, Past
<1> QED
  BY <1>2 DEF Made

LEMMA InsertedTables ==
  ASSUME NEW h \in Handler, InsertTable(h)
  PROVE  /\ Loaded' = Loaded \cup {tname[h]} /\ pc[h] = "insert"
         /\ \A t \in Loaded' : tables'[t] = IF t \in Loaded THEN tables[t] ELSE Made(h)
BY DEF InsertTable, Loaded

LEMMA OnlyInsertTable ==
  [Next]_vars => UNCHANGED tables \/ \E h \in Handler : InsertTable(h)
BY DEF Next, vars, Update, UpdateBegin, UpdateTable, BackupStatement, LoadTable, Begin,
       ChangeDB, ChangedDB, CheckFieldInfo, Select, Selected, CheckToTable

LEMMA LoadedStep ==
  AloneInv /\ LoadedAsAsked /\ [Next]_vars => LoadedAsAsked'
<1> SUFFICES ASSUME AloneInv, LoadedAsAsked, [Next]_vars, NEW t \in Loaded',
                    tables'[t].alone, tables'[t].asked # Unnamed
    PROVE  tables'[t].db = tables'[t].asked /\ tables'[t].rows = <<tables'[t].asked, t>>
  BY DEF LoadedAsAsked
<1>1. CASE UNCHANGED tables
  BY <1>1 DEF LoadedAsAsked, Loaded
<1>2. ASSUME NEW h \in Handler, InsertTable(h)
      PROVE  tables'[t].db = tables'[t].asked /\ tables'[t].rows = <<tables'[t].asked, t>>
  <2>1. CASE t \in Loaded
    BY <2>1, <1>2, InsertedTables DEF LoadedAsAsked
  <2>2. CASE t \notin Loaded
    <3>1. t = tname[h] /\ tables'[t] = Made(h) /\ pc[h] = "insert"
      BY <2>2, <1>2, InsertedTables
    <3>2. /\ Made(h).rows = <<session, tname[h]>>
          /\ Made(h).asked = db[h] /\ Made(h).db = m_sCurrentDB
          /\ db[h] # Unnamed => session = db[h] /\ m_sCurrentDB = db[h]
      BY <3>1, MadeAlone DEF Made
    <3> QED
      BY <3>1, <3>2
  <2> QED
    BY <2>1, <2>2
<1> QED
  BY <1>1, <1>2, OnlyInsertTable

LEMMA HomeStep ==
  AloneInv /\ HomeInv /\ [Next]_vars => HomeInv'
<1> SUFFICES ASSUME AloneInv, HomeInv, [Next]_vars, named' \subseteq {Start}
    PROVE  /\ session' = Start
           /\ \A t \in Loaded' : tables'[t].alone => tables'[t].rows = <<Start, t>>
  BY DEF HomeInv
<1>1. UNCHANGED <<session, named>> \/ \E h \in Handler : ChangeDB(h)
  BY DEF Next, vars, Update, UpdateBegin, UpdateTable, BackupStatement, LoadTable, Begin,
         ChangedDB, CheckFieldInfo, Select, Selected, CheckToTable, InsertTable, link, history
<1>2. named \subseteq {Start} /\ session' = Start
  BY <1>1 DEF HomeInv, ChangeDB
<1>3. /\ session = Start
      /\ \A t \in Loaded : tables[t].alone => tables[t].rows = <<Start, t>>
  BY <1>2 DEF HomeInv
<1>4. ASSUME NEW t \in Loaded', tables'[t].alone
      PROVE  tables'[t].rows = <<Start, t>>
  <2>1. CASE UNCHANGED tables
    BY <2>1, <1>3, <1>4 DEF Loaded
  <2>2. ASSUME NEW h \in Handler, InsertTable(h)
        PROVE  tables'[t].rows = <<Start, t>>
    <3>1. CASE t \in Loaded
      BY <3>1, <2>2, <1>3, <1>4, InsertedTables
    <3>2. CASE t \notin Loaded
      <4>1. t = tname[h] /\ tables'[t] = Made(h) /\ pc[h] = "insert"
        BY <3>2, <2>2, InsertedTables
      <4> QED
        BY <4>1, <1>3, <1>4, MadeAlone
    <3> QED
      BY <3>1, <3>2
  <2> QED
    BY <2>1, <2>2, OnlyInsertTable
<1> QED
  BY <1>2, <1>4

-----------------------------------------------------------------------------
LEMMA OthersInit == Init => AloneInv /\ UseInv /\ LoadedAsAsked /\ SessionIsCurrent /\ HomeInv
<1> SUFFICES ASSUME Init
    PROVE  AloneInv /\ UseInv /\ LoadedAsAsked /\ SessionIsCurrent /\ HomeInv
  OBVIOUS
<1>1. \A h \in Handler : pc[h] = "idle"
  BY DEF Init
<1>2. Loaded = {} /\ session = m_sCurrentDB /\ session = Start
  BY DEF Init, Loaded
<1> QED
  BY <1>1, <1>2 DEF AloneInv, Past, UseInv, LoadedAsAsked, SessionIsCurrent, HomeInv

LEMMA LoadInvCorrect == Spec => []LoadInv
<1>1. Init => LoadInv
  BY TypeInit, OthersInit DEF LoadInv
<1>2. LoadInv /\ [Next]_vars => LoadInv'
  BY TypeStep, AloneStep, UseStep, LoadedStep, HomeStep DEF LoadInv
<1> QED
  BY <1>1, <1>2, PTL DEF Spec

(* LoadTable: a load that named its database and was let alone makes a     *)
(* table of that database's rows, whatever was loaded before or failed     *)
(* (DBManager.cpp:89-128).                                                 *)
THEOREM LoadsAreExact == Spec => []LoadedAsAsked
<1>1. LoadInv => LoadedAsAsked
  BY DEF LoadInv
<1> QED
  BY <1>1, LoadInvCorrect, PTL

(* ChangeDB: m_sCurrentDB, which gives a table without a database its      *)
(* m_sDBName, is the connection's database (DBManager.cpp:118-128).        *)
THEOREM SessionKnown == Spec => []SessionIsCurrent
<1>1. LoadInv => SessionIsCurrent
  BY DEF LoadInv
<1> QED
  BY <1>1, LoadInvCorrect, PTL

LEMMA CrashCause ==
  ASSUME LoadInv, Next, NEW h \in Handler, LoadTable(h), crashed'
  PROVE  \/ pc[h] = "list" \/ h \in disturbed
         \/ pc[h] = "insert" /\ todo # {} /\ tname[h] \notin Loaded
<1>1. ~crashed
  BY DEF Next
<1>2. CheckFieldInfo(h) \/ CheckToTable(h) \/ InsertTable(h)
  BY <1>1 DEF LoadTable, Begin, ChangeDB, ChangedDB, Select, Selected
<1>3. CASE CheckFieldInfo(h)
  BY <1>3 DEF CheckFieldInfo
<1>4. CASE CheckToTable(h)
  <2>1. pc[h] = "copy" /\ (res \in {Null, One} \/ read \/ res # fields[h])
    BY <1>1, <1>4 DEF CheckToTable
  <2>2. fields[h] \in Exists
    BY <2>1 DEF LoadInv, TypeOK
  <2>3. h \notin disturbed => res = fields[h] /\ ~read
    BY <2>1 DEF LoadInv, AloneInv
  <2> QED
    BY <2>1, <2>2, <2>3, LoadAssumption
<1>5. CASE InsertTable(h)
  BY <1>1, <1>5 DEF InsertTable
<1> QED
  BY <1>2, <1>3, <1>4, <1>5

(* A load crashes only for the causes CrashHasCause names                  *)
(* (DBManager.cpp:95-113).                                                 *)
THEOREM CrashesHaveCauses == Spec => CrashHasCause
<1>1. LoadInv /\ [Next]_vars =>
        [\A h \in Handler : LoadTable(h) /\ crashed' =>
           \/ pc[h] = "list" \/ h \in disturbed
           \/ pc[h] = "insert" /\ todo # {} /\ tname[h] \notin Loaded]_vars
  BY CrashCause
<1> QED
  BY <1>1, LoadInvCorrect, PTL DEF Spec, CrashHasCause

(* Backup statements name a table and no database, and yet go where its    *)
(* rows came from, while no other database was named                       *)
(* (DBManager.cpp:50-66, 118-126).                                         *)
THEOREM WritesStayHome == Spec => WritesGoHome
<1>1. LoadInv =>
        \A t \in Loaded : tables[t].alone /\ named \subseteq {Start} => Target(t) = tables[t].rows
  BY DEF LoadInv, HomeInv, Target
<1>2. LoadInv /\ [Next]_vars =>
        [\A t \in Loaded : BackupStatement(t) /\ tables[t].alone /\ named \subseteq {Start} =>
           Target(t) = tables[t].rows]_vars
  BY <1>1
<1> QED
  BY <1>2, LoadInvCorrect, PTL DEF Spec, WritesGoHome
=============================================================================
