------------------------------ MODULE DBDataSet ------------------------------
(***************************************************************************)
(* DBSqlServer's record sets: a DBDataSet loads rows of one SQL Server     *)
(* table, lets the program assign fields of its current row, and Commit    *)
(* walks the rows and sends one INSERT or UPDATE for each, outside any     *)
(* transaction.  A step is one SQL statement or one call that touches only *)
(* the record set; between two steps any other client of the database, a   *)
(* second DBDataSet included, may change the table.                        *)
(* A field's text is a member of Value; the key column is a value of its   *)
(* own and is not assigned to.                                             *)
(***************************************************************************)
EXTENDS Naturals, Sequences, FiniteSets

CONSTANTS
  Key, Field, \* primary keys, and columns besides the primary key
  Value,      \* texts of a field
  Default,    \* the value SQL Server stores in a column not mentioned, and ""
  NoKey,      \* the key of a row that was not given one
  MaxRows     \* bound of the model: rows of a record set

Text == Value \cup {Default}

ASSUME DBDataSetAssumption ==
  /\ IsFiniteSet(Key) /\ Default \notin Value /\ NoKey \notin Key
  /\ MaxRows \in Nat \ {0}

VARIABLES
  identity, \* the primary key is an identity column
  tab,      \* the table: a function from the keys it has to their fields
  set,      \* m_SetList: rows [key, fields, mod, new, base]
  idx,      \* m_SetIndex, counted from 1
  pc,       \* "idle", or "commit" at the current row
  wild,     \* m_SetList was indexed beyond its end: anything may follow
  excused   \* history: Clear was called, or New("") got no record
vars == <<identity, tab, set, idx, pc, wild, excused>>

(* A row: the key's text, m_RowList without the key (a partial function),  *)
(* the fields with m_bModify, and m_bInsert; base, a ghost, has the fields *)
(* as they were loaded or last committed.                                  *)
EmptyRow == [f \in {} |-> Default]
NewRow(k) ==
  [key |-> k, fields |-> EmptyRow, mod |-> {}, new |-> TRUE, base |-> EmptyRow]
LoadedRow(k) ==
  [key |-> k, fields |-> tab[k], mod |-> {}, new |-> FALSE, base |-> tab[k]]
IdRow == [NewRow(NoKey) EXCEPT !.new = FALSE]

PartialRow == UNION {[F -> Text] : F \in SUBSET Field}
Row == [key: Key \cup {NoKey}, fields: PartialRow, mod: SUBSET Field,
        new: BOOLEAN, base: PartialRow]

TypeOK ==
  /\ DOMAIN tab \subseteq Key /\ \A k \in DOMAIN tab : tab[k] \in [Field -> Text]
  /\ set \in Seq(Row) /\ Len(set) <= MaxRows
  /\ \A i \in 1..Len(set) : set[i].mod \subseteq DOMAIN set[i].fields
  /\ idx \in 1..MaxRows /\ pc \in {"idle", "commit"}
  /\ identity \in BOOLEAN /\ wild \in BOOLEAN /\ excused \in BOOLEAN

Init ==
  /\ \E K \in SUBSET Key : tab = [k \in K |-> [f \in Field |-> Default]]
  /\ identity \in BOOLEAN
  /\ set = <<>> /\ idx = 1 /\ pc = "idle" /\ wild = FALSE /\ excused = FALSE

Cur == set[idx]
InRange == idx <= Len(set)
Idle == pc = "idle" /\ ~wild
Committing == pc = "commit" /\ ~wild
Room(n) == Len(set) + n <= MaxRows
TabWith(k, row) == [j \in DOMAIN tab \cup {k} |-> IF j = k THEN row ELSE tab[j]]

-----------------------------------------------------------------------------
(* Another client writes a row or deletes one. *)
Others ==
  /\ ~wild
  /\ \E k \in Key :
       \/ \E row \in [Field -> Text] : tab' = TabWith(k, row)
       \/ tab' = [j \in DOMAIN tab \ {k} |-> tab[j]]
  /\ UNCHANGED <<identity, set, idx, pc, wild, excused>>

(* The SetCurNewRow(false) at the end of New: it falls on the row at       *)
(* m_SetIndex, which the query did not move.  SetCurModify(false) iterates *)
(* over copies of the fields and clears nothing.                           *)
Settle(rows) ==
  IF idx <= Len(rows)
  THEN set' = [rows EXCEPT ![idx].new = FALSE] /\ UNCHANGED wild
  ELSE wild' = TRUE /\ UNCHANGED set

(* New(key): query the key; if it is there append its row, and if it is    *)
(* not, or the query failed, append a row with only the key.               *)
NewFound(k) ==
  /\ Idle /\ k \in DOMAIN tab /\ Room(1)
  /\ Settle(Append(set, LoadedRow(k)))
  /\ UNCHANGED <<identity, tab, idx, pc, excused>>

(* Mutated forms: the index is left one short of the new row, or past it. *)
IndexShort == Len(set)
IndexPast == Len(set) + 2
IndexOfNew == Len(set) + 1

NewMissing(k, up) ==
  /\ Idle /\ ~(up /\ k \in DOMAIN tab) /\ Room(1)
  /\ set' = Append(set, NewRow(k))
  /\ idx' = IndexOfNew
  /\ UNCHANGED <<identity, tab, pc, wild, excused>>

(* New(""), which a program calls only for a table with an identity key:   *)
(* "select *" of the whole table; only when that gives no row is a record  *)
(* made, by an INSERT of default values that answers with a row of one     *)
(* field, NewId, and so without the key.                                   *)
NewAll ==
  /\ identity /\ Idle /\ DOMAIN tab # {} /\ Room(Cardinality(DOMAIN tab))
  /\ \E order \in [1..Cardinality(DOMAIN tab) -> DOMAIN tab] :
       /\ \A k \in DOMAIN tab : \E i \in DOMAIN order : order[i] = k
       /\ Settle(set \o [i \in DOMAIN order |-> LoadedRow(order[i])])
  /\ UNCHANGED <<identity, tab, idx, pc, excused>>

NewIdentity(queried, up) ==
  /\ identity /\ Idle /\ (queried => DOMAIN tab = {}) /\ Room(1)
  /\ \/ /\ up
        /\ \E k \in Key \ DOMAIN tab : tab' = TabWith(k, [f \in Field |-> Default])
        /\ Settle(Append(set, IdRow))
        /\ UNCHANGED excused
     \/ /\ ~up
        /\ Settle(set)
        /\ excused' = TRUE
        /\ UNCHANGED tab
  /\ UNCHANGED <<identity, idx, pc>>

(* Mutated form: only a field the row did not have is flagged. *)
TouchAbsent(row, f, v) ==
  IF f \in DOMAIN row.fields THEN row.mod ELSE row.mod \cup {f}
Touch(row, f, v) ==
  IF (IF f \in DOMAIN row.fields THEN row.fields[f] ELSE Default) # v
  THEN row.mod \cup {f} ELSE row.mod

Put(row, f, v) ==
  [row EXCEPT !.mod = Touch(row, f, v),
              !.fields = [g \in DOMAIN row.fields \cup {f} |->
                            IF g = f THEN v ELSE row.fields[g]]]

(* operator[] and an assignment: on an empty set it makes a row to insert. *)
Assign(f, v) ==
  /\ Idle
  /\ \/ /\ set = <<>>
        /\ set' = <<Put(NewRow(NoKey), f, v)>> /\ idx' = 1
        /\ UNCHANGED wild
     \/ /\ set # <<>> /\ InRange
        /\ set' = [set EXCEPT ![idx] = Put(@, f, v)]
        /\ UNCHANGED <<idx, wild>>
     \/ /\ set # <<>> /\ ~InRange
        /\ wild' = TRUE
        /\ UNCHANGED <<set, idx>>
  /\ UNCHANGED <<identity, tab, pc, excused>>

MoveNextRow ==
  /\ Idle /\ idx < Len(set)
  /\ idx' = idx + 1
  /\ UNCHANGED <<identity, tab, set, pc, wild, excused>>

MoveBeginRow ==
  /\ Idle /\ set # <<>> /\ idx # 1
  /\ idx' = 1
  /\ UNCHANGED <<identity, tab, set, pc, wild, excused>>

(* Clear empties the set and leaves m_SetIndex where it is. *)
Clear ==
  /\ Idle /\ set # <<>>
  /\ set' = <<>> /\ excused' = TRUE
  /\ UNCHANGED <<identity, tab, idx, pc, wild>>

-----------------------------------------------------------------------------
CommitBegin ==
  /\ Idle /\ set # <<>>
  /\ idx' = 1 /\ pc' = "commit"
  /\ UNCHANGED <<identity, tab, set, wild, excused>>

(* MoveNextRow at the end of each turn of Commit's loop. *)
Step ==
  IF idx < Len(set)
  THEN idx' = idx + 1 /\ UNCHANGED pc
  ELSE pc' = "idle" /\ UNCHANGED idx

Committed(row, done) ==
  IF done THEN [row EXCEPT !.new = FALSE, !.base = row.fields] ELSE row

(* CommitInsert.  SQL Server refuses a key that is there, an explicit key  *)
(* of an identity column, and the lack of any other key.                   *)
InsertKeys(row) ==
  IF identity
  THEN IF row.key = NoKey /\ row.fields # EmptyRow THEN Key \ DOMAIN tab ELSE {}
  ELSE {row.key} \ (DOMAIN tab \cup {NoKey})

CommitInsert(up) ==
  LET full == [f \in Field |-> IF f \in DOMAIN Cur.fields THEN Cur.fields[f] ELSE Default] IN
  /\ Committing /\ Cur.new
  /\ \/ /\ up
        /\ \E k \in InsertKeys(Cur) : tab' = TabWith(k, full)
        /\ set' = [set EXCEPT ![idx] = Committed(@, TRUE)]
     \/ /\ ~up \/ InsertKeys(Cur) = {}
        /\ set' = [set EXCEPT ![idx] = Committed(@, FALSE)]
        /\ UNCHANGED tab
  /\ Step /\ UNCHANGED <<identity, wild, excused>>

(* CommitModify: "update t set a='1' b='2' where k='..'" - the assignments *)
(* of the modified fields without a comma, so two are no SQL; an UPDATE of *)
(* no row is SQL_NO_DATA and counts as failed.                             *)
(* Mutated form: every field of the row is sent.                           *)
SendAll(row) == DOMAIN row.fields
SendModified(row) == row.mod

Updates(row) == Cardinality(SendModified(row)) = 1 /\ row.key \in DOMAIN tab

CommitModify(up) ==
  LET done == up /\ Updates(Cur) IN
  /\ Committing /\ ~Cur.new
  /\ tab' = IF done
            THEN TabWith(Cur.key, [f \in Field |->
                   IF f \in SendModified(Cur) THEN Cur.fields[f] ELSE tab[Cur.key][f]])
            ELSE tab
  /\ set' = [set EXCEPT ![idx] = Committed(@, done)]
  /\ Step /\ UNCHANGED <<identity, wild, excused>>

-----------------------------------------------------------------------------
Next ==
  \/ Others
  \/ \E k \in Key : NewFound(k)
  \/ \E k \in Key, up \in BOOLEAN : NewMissing(k, up)
  \/ NewAll
  \/ \E queried, up \in BOOLEAN : NewIdentity(queried, up)
  \/ \E f \in Field, v \in Text : Assign(f, v)
  \/ MoveNextRow \/ MoveBeginRow \/ Clear \/ CommitBegin
  \/ \E up \in BOOLEAN : CommitInsert(up) \/ CommitModify(up)
Spec == Init /\ [][Next]_vars

-----------------------------------------------------------------------------
CommitStep == Committing /\ <<idx', pc'>> # <<idx, pc>>

(* An assigned change is never forgotten: a field of a loaded row that     *)
(* differs from what was loaded or last committed carries m_bModify, so    *)
(* the next Commit sends it (DBDataRow.cpp:50-57,                          *)
(* DBSqlManager.cpp:112-126).                                              *)
ChangeIsFlagged ==
  \A i \in 1..Len(set) : \A f \in DOMAIN set[i].fields \cap DOMAIN set[i].base :
    ~set[i].new /\ set[i].key # NoKey /\ set[i].fields[f] # set[i].base[f]
      => f \in set[i].mod

(* A row stops being new exactly when its INSERT went through: after a     *)
(* failed one the next Commit tries again (DBDataSet.cpp:107-119).  And a  *)
(* commit changes the table only through the row it is at: every other     *)
(* row of the table is left alone, no row disappears, and an UPDATE        *)
(* touches only fields that this record set assigned at some time, so what *)
(* others wrote into the other fields stays (DBSqlManager.cpp:108-172).    *)
CommitMatchesTable ==
  [][CommitStep =>
       /\ Cur.new /\ ~set'[idx].new <=> DOMAIN tab' # DOMAIN tab
       /\ \A k \in DOMAIN tab :
            /\ k \in DOMAIN tab'
            /\ \A f \in Field :
                 tab'[k][f] # tab[k][f] => k = Cur.key /\ f \in Cur.mod]_vars

(* The iterator points to a record (DBDataSet.h:26): no call indexes       *)
(* m_SetList beyond its end, unless Clear, which leaves m_SetIndex where   *)
(* it is (DBDataSet.cpp:205-208), was called before, or the INSERT of a    *)
(* New("") failed, which flags the current row all the same (73).          *)
IteratorInRange == ~excused => ~wild /\ (set # <<>> => InRange)
=============================================================================
