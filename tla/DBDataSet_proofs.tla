--------------------------- MODULE DBDataSet_proofs ---------------------------
(***************************************************************************)
(* What DBSqlServer's record sets keep true for any table, any number of   *)
(* rows and fields, and any interference of other clients.                 *)
(***************************************************************************)
EXTENDS DBDataSet, TLAPS, SequenceTheorems, FiniteSetTheorems

(* A record of a record set: its fields only grow, a field that differs    *)
(* from what was loaded or committed is flagged, and a record that is      *)
(* still to be inserted has nothing loaded.                                *)
Good ==
  {r \in Row : /\ r.mod \subseteq DOMAIN r.fields
               /\ DOMAIN r.base \subseteq DOMAIN r.fields
               /\ r.new => r.base = EmptyRow
               /\ \A f \in DOMAIN r.base : r.fields[f] # r.base[f] => f \in r.mod}

TabType == DOMAIN tab \subseteq Key /\ \A k \in DOMAIN tab : tab[k] \in [Field -> Text]
SetType ==
  /\ set \in Seq(Good) /\ Len(set) <= MaxRows /\ idx \in 1..MaxRows
  /\ pc \in {"idle", "commit"} /\ identity \in BOOLEAN /\ wild \in BOOLEAN /\ excused \in BOOLEAN
(* Commit's loop stays inside the record set.                              *)
LoopInv == pc = "commit" => idx <= Len(set)
(* The index of an empty record set is its first record's, until Clear.    *)
IndexInv == ~excused => ~wild /\ (set # <<>> => InRange) /\ (set = <<>> => idx = 1)

SetInv == TabType /\ SetType /\ LoopInv /\ IndexInv

-----------------------------------------------------------------------------
LEMMA PartialRows ==
  /\ \A F \in SUBSET Field : [F -> Text] \subseteq PartialRow
  /\ \A r \in PartialRow : /\ DOMAIN r \subseteq Field
                           /\ r \in [DOMAIN r -> Text]
BY DEF PartialRow

LEMMA EmptyIsRow == EmptyRow \in PartialRow /\ DOMAIN EmptyRow = {}
BY PartialRows DEF EmptyRow

LEMMA GoodNew ==
  ASSUME NEW k \in Key \cup {NoKey}
  PROVE  NewRow(k) \in Good
BY EmptyIsRow DEF NewRow, Good, Row

LEMMA GoodId == IdRow \in Good
BY EmptyIsRow DEF IdRow, NewRow, Good, Row

LEMMA GoodLoaded ==
  ASSUME TabType, NEW k \in DOMAIN tab
  PROVE  LoadedRow(k) \in Good
<1>1. k \in Key /\ tab[k] \in PartialRow /\ DOMAIN tab[k] = Field
  BY PartialRows DEF TabType
<1> QED
  BY <1>1 DEF LoadedRow, Good, Row

LEMMA GoodSettled ==
  ASSUME NEW r \in Good
  PROVE  [r EXCEPT !.new = FALSE] \in Good
BY DEF Good, Row

LEMMA GoodCommitted ==
  ASSUME NEW r \in Good, NEW done \in BOOLEAN
  PROVE  /\ Committed(r, done) \in Good
         /\ done => ~Committed(r, done).new
         /\ ~done => Committed(r, done) = r
<1>1. CASE done
  <2>1. Committed(r, done) = [r EXCEPT !.new = FALSE, !.base = r.fields]
    BY <1>1 DEF Committed
  <2> QED
    BY <1>1, <2>1 DEF Good, Row
<1>2. CASE ~done
  BY <1>2 DEF Committed
<1> QED
  BY <1>1, <1>2

LEMMA GoodPut ==
  ASSUME NEW r \in Good, NEW f \in Field, NEW v \in Text
  PROVE  Put(r, f, v) \in Good
<1> DEFINE fs == [g \in DOMAIN r.fields \cup {f} |-> IF g = f THEN v ELSE r.fields[g]]
           m == Touch(r, f, v)
<1>0. r \in Row /\ r.fields \in PartialRow /\ r.mod \subseteq DOMAIN r.fields
  BY DEF Good, Row
<1>1. DOMAIN r.fields \subseteq Field /\ \A g \in DOMAIN r.fields : r.fields[g] \in Text
  BY <1>0, PartialRows
<1>2. DOMAIN fs = DOMAIN r.fields \cup {f} /\ fs \in PartialRow
  <2>1. fs \in [DOMAIN r.fields \cup {f} -> Text]
    BY <1>1
  <2>2. DOMAIN r.fields \cup {f} \subseteq Field
    BY <1>1
  <2> QED
    BY <2>1, <2>2, PartialRows
<1>3. m \in {r.mod, r.mod \cup {f}}
  BY DEF Touch
<1>4. m \subseteq DOMAIN fs /\ m \in SUBSET Field
  BY <1>0, <1>1, <1>2, <1>3
<1>5. \A g \in DOMAIN r.base : fs[g] # r.base[g] => g \in m
  <2> SUFFICES ASSUME NEW g \in DOMAIN r.base, fs[g] # r.base[g] PROVE g \in m
    OBVIOUS
  <2>1. g \in DOMAIN r.fields /\ (r.fields[g] # r.base[g] => g \in r.mod)
    BY DEF Good
  <2>2. CASE g # f
    BY <2>1, <2>2, <1>3
  <2>3. CASE g = f /\ r.fields[f] # v
    BY <2>1, <2>3 DEF Touch
  <2>4. CASE g = f /\ r.fields[f] = v
    BY <2>1, <2>4, <1>3
  <2> QED
    BY <2>2, <2>3, <2>4
<1>6. Put(r, f, v) = [r EXCEPT !.mod = m, !.fields = fs]
  BY DEF Put
<1> HIDE DEF fs, m
<1>7. [r EXCEPT !.mod = m, !.fields = fs] \in Row
  BY <1>0, <1>2, <1>4 DEF Row
<1> QED
  BY <1>2, <1>4, <1>5, <1>6, <1>7 DEF Good, Row

-----------------------------------------------------------------------------
LEMMA InitInv == Init => SetInv
<1> SUFFICES ASSUME Init PROVE SetInv
  OBVIOUS
<1>1. TabType
  BY DEF Init, TabType, Text
<1>2. /\ set \in Seq(Good) /\ Len(set) <= MaxRows /\ idx \in 1..MaxRows
  BY DBDataSetAssumption, EmptySeq DEF Init
<1>3. identity \in BOOLEAN
  BY Zenon DEF Init
<1>4. /\ pc = "idle" /\ wild = FALSE /\ excused = FALSE /\ set = <<>> /\ idx = 1
  BY DEF Init
<1> QED
  BY <1>1, <1>2, <1>3, <1>4 DEF SetInv, SetType, LoopInv, IndexInv

(* What Others, CommitInsert, CommitModify and an INSERT of defaults do to *)
(* the table.                                                              *)
LEMMA TabGrows ==
  ASSUME TabType, NEW k \in Key, NEW row \in [Field -> Text], tab' = TabWith(k, row)
  PROVE  TabType'
BY DEF TabType, TabWith

LEMMA TabStep == TabType /\ SetType /\ LoopInv /\ [Next]_vars => TabType'
<1> SUFFICES ASSUME TabType, SetType, LoopInv, [Next]_vars PROVE TabType'
  OBVIOUS
<1>1. CASE UNCHANGED tab
  BY <1>1 DEF TabType
<1>2. CASE Others
  <2>1. ASSUME NEW k \in Key, tab' = [j \in DOMAIN tab \ {k} |-> tab[j]]
        PROVE  TabType'
    BY <2>1 DEF TabType
  <2> QED
    BY <1>2, <2>1, TabGrows DEF Others
<1>3. ASSUME NEW queried \in BOOLEAN, NEW up \in BOOLEAN, NewIdentity(queried, up)
      PROVE  TabType'
  <2>1. [f \in Field |-> Default] \in [Field -> Text]
    BY DEF Text
  <2> QED
    BY <1>1, <1>3, <2>1, TabGrows DEF NewIdentity
<1>4. ASSUME Committing
      PROVE  /\ Cur.fields \in PartialRow /\ Cur.mod \subseteq DOMAIN Cur.fields
             /\ Cur.key \in Key \cup {NoKey}
  <2>1. idx \in 1..Len(set)
    BY <1>4, DBDataSetAssumption, LenProperties DEF Committing, LoopInv, SetType
  <2>2. Cur \in Good
    BY <2>1, ElementOfSeq DEF SetType, Cur
  <2> QED
    BY <2>2 DEF Good, Row
<1>5. ASSUME NEW up \in BOOLEAN, CommitInsert(up)
      PROVE  TabType'
  <2> DEFINE full == [f \in Field |->
                        IF f \in DOMAIN Cur.fields THEN Cur.fields[f] ELSE Default]
  <2>1. Cur.fields \in PartialRow /\ Cur.key \in Key \cup {NoKey}
    BY <1>4, <1>5 DEF CommitInsert
  <2>2. full \in [Field -> Text]
    BY <2>1, PartialRows DEF Text
  <2>3. InsertKeys(Cur) \subseteq Key
    BY <2>1 DEF InsertKeys
  <2> HIDE DEF full
  <2>4. (\E k \in InsertKeys(Cur) : tab' = TabWith(k, full)) \/ UNCHANGED tab
    BY <1>5 DEF CommitInsert, full
  <2> QED
    BY <1>1, <2>2, <2>3, <2>4, TabGrows
<1>6. ASSUME NEW up \in BOOLEAN, CommitModify(up)
      PROVE  TabType'
  <2>1. CASE up /\ Updates(Cur)
    <3> DEFINE new == [f \in Field |->
                   IF f \in SendModified(Cur) THEN Cur.fields[f] ELSE tab[Cur.key][f]]
    <3>1. Cur.fields \in PartialRow /\ Cur.mod \subseteq DOMAIN Cur.fields
      BY <1>4, <1>6 DEF CommitModify
    <3>2. Cur.key \in DOMAIN tab /\ Cur.key \in Key
      BY <2>1 DEF Updates, TabType
    <3>3. tab[Cur.key] \in [Field -> Text]
      BY <3>2 DEF TabType
    <3>4. new \in [Field -> Text]
      BY <3>1, <3>3, PartialRows DEF SendModified
    <3> HIDE DEF new
    <3>5. tab' = TabWith(Cur.key, new)
      BY <1>6, <2>1 DEF CommitModify, new
    <3> QED
      BY <3>2, <3>4, <3>5, TabGrows
  <2>2. CASE ~(up /\ Updates(Cur))
    BY <1>1, <1>6, <2>2 DEF CommitModify
  <2> QED
    BY <2>1, <2>2
<1> QED
  BY <1>1, <1>2, <1>3, <1>5, <1>6
     DEF Next, vars, NewFound, NewMissing, NewAll, Assign, MoveNextRow, MoveBeginRow, Clear,
         CommitBegin

RestInv == SetType /\ LoopInv /\ IndexInv

(* One record of the set is replaced by a good one.                        *)
LEMMA OneChanged ==
  ASSUME SetType, NEW r, r \in Good, idx <= Len(set), set' = [set EXCEPT ![idx] = r]
  PROVE  set' \in Seq(Good) /\ Len(set') = Len(set) /\ set' # <<>> /\ set # <<>>
<1>1. idx \in 1..Len(set) /\ Len(set) \in Nat
  BY LenProperties, DBDataSetAssumption DEF SetType
<1>2. set' \in Seq(Good) /\ Len(set') = Len(set)
  BY <1>1, ExceptSeq DEF SetType
<1>3. Len(set) # 0
  BY <1>1
<1> QED
  BY <1>2, <1>3, EmptySeq

LEMMA SettleStep ==
  ASSUME RestInv, TabType, Idle, NEW rows, rows \in Seq(Good), Len(rows) <= MaxRows,
         Len(rows) >= Len(set), excused' \in BOOLEAN, excused => excused',
         rows = <<>> => excused', Settle(rows), UNCHANGED <<idx, pc, identity>>
  PROVE  RestInv'
<1>0. /\ Len(rows) \in Nat /\ Len(set) \in Nat /\ idx \in 1..MaxRows /\ pc = "idle" /\ ~wild
      /\ set \in Seq(Good) /\ Len(set) <= MaxRows
  BY LenProperties DEF RestInv, SetType, Idle
<1>1. CASE idx <= Len(rows)
  <2>1. idx \in 1..Len(rows)
    BY <1>0, <1>1
  <2>2. [rows[idx] EXCEPT !.new = FALSE] \in Good
    BY <2>1, ElementOfSeq, GoodSettled
  <2>3. set' = [rows EXCEPT ![idx] = [rows[idx] EXCEPT !.new = FALSE]] /\ wild' = wild
    BY <1>1 DEF Settle
  <2>4. set' \in Seq(Good) /\ Len(set') = Len(rows)
    BY <2>1, <2>2, <2>3, ExceptSeq
  <2>5. set' # <<>>
    BY <2>1, <2>4, EmptySeq
  <2>6. SetType'
    BY <1>0, <2>3, <2>4 DEF SetType, RestInv
  <2>7. LoopInv'
    BY <1>0 DEF LoopInv
  <2>8. idx' <= Len(set')
    BY <1>1, <2>4
  <2>9. IndexInv'
    BY <1>0, <2>3, <2>5, <2>8 DEF IndexInv, InRange
  <2> QED
    BY <2>6, <2>7, <2>9 DEF RestInv
<1>2. CASE ~(idx <= Len(rows))
  <2>1. set' = set /\ wild' = TRUE
    BY <1>2 DEF Settle
  <2>2. excused'
    <3>1. CASE set # <<>>
      BY <1>0, <1>2, <3>1 DEF RestInv, IndexInv, InRange
    <3>2. CASE set = <<>> /\ ~excused /\ rows # <<>>
      <4>1. idx = 1 /\ Len(rows) \in Nat \ {0}
        BY <3>2, EmptySeq DEF RestInv, IndexInv
      <4> QED
        BY <4>1, <1>2
    <3> QED
      BY <3>1, <3>2
  <2> QED
    BY <1>0, <2>1, <2>2 DEF RestInv, SetType, LoopInv, IndexInv
<1> QED
  BY <1>1, <1>2

LEMMA NewStep ==
  ASSUME RestInv, TabType,
         \/ \E k \in Key : NewFound(k)
         \/ \E k \in Key, up \in BOOLEAN : NewMissing(k, up)
         \/ NewAll
         \/ \E queried, up \in BOOLEAN : NewIdentity(queried, up)
  PROVE  RestInv'
<1>0. /\ set \in Seq(Good) /\ Len(set) \in Nat /\ Len(set) <= MaxRows /\ excused \in BOOLEAN
  BY LenProperties DEF RestInv, SetType
<1>1. ASSUME NEW k \in Key, NewFound(k)
      PROVE  RestInv'
  <2>1. LoadedRow(k) \in Good
    <3>1. k \in DOMAIN tab
      BY <1>1 DEF NewFound
    <3> QED
      BY <3>1, GoodLoaded
  <2> DEFINE rows == Append(set, LoadedRow(k))
  <2>2. rows \in Seq(Good) /\ Len(rows) = Len(set) + 1
    BY <1>0, <2>1, AppendProperties
  <2> HIDE DEF rows
  <2>3. rows # <<>>
    BY <1>0, <2>2, EmptySeq
  <2>4. /\ Idle /\ Len(set) + 1 <= MaxRows /\ Settle(rows)
        /\ UNCHANGED <<idx, pc, identity, excused>>
    BY <1>1 DEF NewFound, Room, rows
  <2> QED
    BY <1>0, <2>2, <2>3, <2>4, SettleStep
<1>2. ASSUME NEW k \in Key, NEW up \in BOOLEAN, NewMissing(k, up)
      PROVE  RestInv'
  <2>1. NewRow(k) \in Good
    BY GoodNew
  <2>2. set' \in Seq(Good) /\ Len(set') = Len(set) + 1
    BY <1>0, <1>2, <2>1, AppendProperties DEF NewMissing
  <2>3. set' # <<>>
    BY <1>0, <2>2, EmptySeq
  <2>4. /\ pc = "idle" /\ ~wild /\ Len(set) + 1 <= MaxRows /\ idx' = Len(set) + 1
        /\ UNCHANGED <<pc, identity, wild, excused>>
    BY <1>2 DEF NewMissing, Idle, Room, IndexOfNew
  <2>5. SetType'
    BY <1>0, <2>2, <2>4 DEF RestInv, SetType
  <2> QED
    BY <1>0, <2>2, <2>3, <2>4, <2>5 DEF RestInv, LoopInv, IndexInv, InRange
<1>3. ASSUME NewAll
      PROVE  RestInv'
  <2>1. PICK order \in [1..Cardinality(DOMAIN tab) -> DOMAIN tab] :
          Settle(set \o [i \in DOMAIN order |-> LoadedRow(order[i])])
    BY <1>3 DEF NewAll
  <2> DEFINE n == Cardinality(DOMAIN tab)
             more == [i \in 1..n |-> LoadedRow(order[i])]
             rows == set \o more
  <2>2. n \in Nat
    BY FS_Subset, FS_CardinalityType, DBDataSetAssumption DEF TabType
  <2>3. more \in [1..n -> Good]
    BY GoodLoaded
  <2>4. more \in Seq(Good) /\ Len(more) = n
    BY <2>2, <2>3
  <2>5. rows \in Seq(Good) /\ Len(rows) = Len(set) + n
    BY <1>0, <2>4, ConcatProperties
  <2>6. n # 0
    BY <1>3, FS_Subset, FS_EmptySet, DBDataSetAssumption DEF NewAll, TabType
  <2>7. rows # <<>>
    BY <1>0, <2>2, <2>5, <2>6, EmptySeq
  <2>8. DOMAIN order = 1..n
    OBVIOUS
  <2>9. /\ Idle /\ Len(set) + n <= MaxRows /\ Settle(rows)
        /\ UNCHANGED <<idx, pc, identity, excused>>
    BY <1>3, <2>1, <2>8 DEF NewAll, Room
  <2> HIDE DEF rows, more, n
  <2> QED
    BY <1>0, <2>2, <2>5, <2>7, <2>9, SettleStep
<1>4. ASSUME NEW queried \in BOOLEAN, NEW up \in BOOLEAN, NewIdentity(queried, up)
      PROVE  RestInv'
  <2>0. Idle /\ Len(set) + 1 <= MaxRows /\ UNCHANGED <<idx, pc, identity>>
    BY <1>4 DEF NewIdentity, Room
  <2>1. CASE up
    <3> DEFINE rows == Append(set, IdRow)
    <3>1. rows \in Seq(Good) /\ Len(rows) = Len(set) + 1
      BY <1>0, GoodId, AppendProperties
    <3>2. rows # <<>>
      BY <1>0, <3>1, EmptySeq
    <3>3. Settle(rows) /\ excused' = excused
      BY <1>4, <2>1 DEF NewIdentity
    <3> HIDE DEF rows
    <3> QED
      BY <1>0, <2>0, <3>1, <3>2, <3>3, SettleStep
  <2>2. CASE ~up
    <3>1. Settle(set) /\ excused' = TRUE
      BY <1>4, <2>2 DEF NewIdentity
    <3> QED
      BY <1>0, <2>0, <3>1, SettleStep
  <2> QED
    BY <2>1, <2>2
<1> QED
  BY <1>1, <1>2, <1>3, <1>4

LEMMA CallStep ==
  ASSUME RestInv,
         \/ \E f \in Field, v \in Text : Assign(f, v)
         \/ MoveNextRow \/ MoveBeginRow \/ Clear \/ CommitBegin
  PROVE  RestInv'
<1>0. /\ set \in Seq(Good) /\ Len(set) \in Nat /\ Len(set) <= MaxRows /\ idx \in 1..MaxRows
      /\ MaxRows \in Nat \ {0} /\ (set # <<>> => Len(set) \in Nat \ {0})
  BY LenProperties, EmptySeq, DBDataSetAssumption DEF RestInv, SetType
<1>1. ASSUME NEW f \in Field, NEW v \in Text, Assign(f, v)
      PROVE  RestInv'
  <2>0. pc = "idle" /\ UNCHANGED <<identity, pc, excused>>
    BY <1>1 DEF Assign, Idle
  <2>1. CASE set = <<>>
    <3> DEFINE r == Put(NewRow(NoKey), f, v)
    <3>1. r \in Good
      BY GoodNew, GoodPut
    <3>2. set' = <<r>> /\ idx' = 1 /\ wild' = wild
      BY <1>1, <2>1 DEF Assign
    <3> HIDE DEF r
    <3>3. set' \in Seq(Good) /\ Len(set') = 1
      BY <3>1, <3>2
    <3>4. SetType'
      BY <1>0, <2>0, <3>2, <3>3 DEF RestInv, SetType
    <3> QED
      BY <2>0, <2>1, <3>2, <3>3, <3>4 DEF RestInv, LoopInv, IndexInv, InRange
  <2>2. CASE set # <<>> /\ InRange
    <3> DEFINE r == Put(set[idx], f, v)
    <3>1. set[idx] \in Good
      BY <1>0, <2>2, ElementOfSeq DEF InRange
    <3>2. r \in Good
      BY <3>1, GoodPut
    <3>3. set' = [set EXCEPT ![idx] = r] /\ UNCHANGED <<idx, wild>>
      BY <1>1, <2>2 DEF Assign
    <3> HIDE DEF r
    <3>4. set' \in Seq(Good) /\ Len(set') = Len(set) /\ set' # <<>>
      BY <2>2, <3>2, <3>3, OneChanged DEF RestInv, InRange
    <3>5. SetType'
      BY <1>0, <2>0, <3>3, <3>4 DEF RestInv, SetType
    <3> QED
      BY <2>0, <2>2, <3>3, <3>4, <3>5 DEF RestInv, LoopInv, IndexInv, InRange
  <2>3. CASE set # <<>> /\ ~InRange
    <3>1. wild' = TRUE /\ UNCHANGED <<set, idx>>
      BY <1>1, <2>3 DEF Assign
    <3> QED
      BY <2>0, <2>3, <3>1 DEF RestInv, SetType, LoopInv, IndexInv
  <2> QED
    BY <2>1, <2>2, <2>3
<1>2. CASE MoveNextRow
  <2>1. idx + 1 \in 1..MaxRows /\ idx + 1 <= Len(set)
    BY <1>0, <1>2 DEF MoveNextRow
  <2>2. idx' = idx + 1 /\ UNCHANGED <<identity, set, pc, wild, excused>> /\ set # <<>>
    BY <1>0, <1>2, EmptySeq DEF MoveNextRow
  <2> QED
    BY <2>1, <2>2 DEF RestInv, SetType, LoopInv, IndexInv, InRange
<1>3. CASE MoveBeginRow
  <2>1. /\ set # <<>> /\ idx' = 1 /\ UNCHANGED <<identity, set, pc, wild, excused>>
    BY <1>3 DEF MoveBeginRow
  <2> QED
    BY <1>0, <2>1 DEF RestInv, SetType, LoopInv, IndexInv, InRange
<1>4. CASE Clear
  <2>1. /\ pc = "idle" /\ set' = <<>> /\ excused' = TRUE
        /\ UNCHANGED <<identity, idx, pc, wild>>
    BY <1>4 DEF Clear, Idle
  <2>2. set' \in Seq(Good) /\ Len(set') = 0
    BY <2>1, EmptySeq
  <2>3. SetType'
    BY <1>0, <2>1, <2>2 DEF RestInv, SetType
  <2> QED
    BY <2>1, <2>3 DEF RestInv, LoopInv, IndexInv
<1>5. CASE CommitBegin
  <2>1. /\ set # <<>> /\ idx' = 1 /\ pc' = "commit"
        /\ UNCHANGED <<identity, set, wild, excused>>
    BY <1>5 DEF CommitBegin
  <2> QED
    BY <1>0, <2>1 DEF RestInv, SetType, LoopInv, IndexInv, InRange
<1> QED
  BY <1>1, <1>2, <1>3, <1>4, <1>5

(* What a turn of Commit's loop finds, and what it leaves of the row.      *)
LEMMA CommitTurn ==
  ASSUME RestInv, NEW up \in BOOLEAN, CommitInsert(up) \/ CommitModify(up)
  PROVE  /\ idx \in 1..Len(set) /\ Cur \in Good
         /\ \E done \in BOOLEAN : set' = [set EXCEPT ![idx] = Committed(set[idx], done)]
<1>1. Committing
  BY DEF CommitInsert, CommitModify
<1>2. idx \in 1..Len(set)
  BY <1>1, LenProperties, DBDataSetAssumption DEF RestInv, SetType, LoopInv, Committing
<1>3. Cur \in Good
  BY <1>2, ElementOfSeq DEF RestInv, SetType, Cur
<1>4. ASSUME CommitInsert(up)
      PROVE  \E done \in BOOLEAN : set' = [set EXCEPT ![idx] = Committed(set[idx], done)]
  BY <1>4 DEF CommitInsert
<1>5. ASSUME CommitModify(up)
      PROVE  \E done \in BOOLEAN : set' = [set EXCEPT ![idx] = Committed(set[idx], done)]
  <2>1. (up /\ Updates(Cur)) \in BOOLEAN
    BY Zenon DEF Updates
  <2>2. set' = [set EXCEPT ![idx] = Committed(set[idx], up /\ Updates(Cur))]
    BY <1>5 DEF CommitModify
  <2> QED
    BY <2>1, <2>2, Zenon
<1> QED
  BY <1>2, <1>3, <1>4, <1>5

LEMMA CommitKeeps ==
  ASSUME RestInv, NEW up \in BOOLEAN, CommitInsert(up) \/ CommitModify(up)
  PROVE  RestInv'
<1>1. PICK done \in BOOLEAN : set' = [set EXCEPT ![idx] = Committed(set[idx], done)]
  BY CommitTurn
<1>2. idx \in 1..Len(set) /\ Cur \in Good /\ Len(set) \in Nat /\ Len(set) <= MaxRows
  BY CommitTurn, LenProperties DEF RestInv, SetType
<1> DEFINE r == Committed(set[idx], done)
<1>3. r \in Good
  BY <1>2, GoodCommitted DEF Cur
<1>4. set' = [set EXCEPT ![idx] = r]
  BY <1>1
<1> HIDE DEF r
<1>5. set' \in Seq(Good) /\ Len(set') = Len(set) /\ set' # <<>> /\ set # <<>>
  <2>1. idx <= Len(set) /\ SetType
    BY <1>2 DEF RestInv
  <2> QED
    BY <1>3, <1>4, <2>1, OneChanged
<1>6. Step /\ UNCHANGED <<identity, wild, excused>>
  BY DEF CommitInsert, CommitModify
<1>7. /\ idx' \in 1..Len(set) /\ idx' \in 1..MaxRows /\ pc' \in {pc, "idle"}
  BY <1>2, <1>6, DBDataSetAssumption DEF Step
<1>8. SetType'
  BY <1>5, <1>6, <1>7 DEF RestInv, SetType
<1> QED
  BY <1>2, <1>5, <1>6, <1>7, <1>8 DEF RestInv, LoopInv, IndexInv, InRange

LEMMA SetInvStep == SetInv /\ [Next]_vars => SetInv'
<1> SUFFICES ASSUME TabType, RestInv, [Next]_vars PROVE TabType' /\ RestInv'
  BY DEF SetInv, RestInv
<1>1. TabType'
  BY TabStep DEF RestInv
<1>2. CASE UNCHANGED <<identity, set, idx, pc, wild, excused>>
  <2>1. SetType'
    <3>1. identity' = identity /\ set' = set /\ idx' = idx /\ pc' = pc /\ wild' = wild
          /\ excused' = excused
      BY <1>2
    <3> QED
      BY <3>1, Zenon DEF RestInv, SetType
  <2>2. LoopInv'
    BY <1>2 DEF RestInv, LoopInv
  <2>3. IndexInv'
    <3>1. set' = set /\ idx' = idx /\ wild' = wild /\ excused' = excused
      BY <1>2
    <3> QED
      BY <3>1, Zenon DEF RestInv, IndexInv, InRange
  <2> QED
    BY <1>1, <2>1, <2>2, <2>3, Zenon DEF RestInv
<1>3. CASE Others \/ UNCHANGED vars
  BY <1>2, <1>3 DEF Others, vars
<1> QED
  BY <1>1, <1>3, NewStep, CallStep, CommitKeeps DEF Next

LEMMA SetInvAlways == Spec => []SetInv
BY InitInv, SetInvStep, PTL DEF Spec

-----------------------------------------------------------------------------
(* The type invariant of the record sets.                                  *)
THEOREM TypeCorrect == Spec => []TypeOK
<1>1. ASSUME SetInv PROVE TypeOK
  <2>1. Good \subseteq Row /\ \A r \in Good : r.mod \subseteq DOMAIN r.fields
    BY DEF Good
  <2>2. set \in Seq(Row) /\ \A i \in 1..Len(set) : set[i] \in Good
    BY <1>1, <2>1, ElementOfSeq, SeqMonotonic DEF SetInv, SetType
  <2> QED
    BY <1>1, <2>1, <2>2, Zenon DEF SetInv, SetType, TabType, TypeOK
<1> QED
  BY <1>1, SetInvAlways, PTL

(* No assigned change of a loaded record is forgotten: it stays flagged    *)
(* until an UPDATE took it (DBDataRow.cpp:50-57, DBSqlManager.cpp:112-126).*)
THEOREM ChangesAreSent == Spec => []ChangeIsFlagged
<1>1. ASSUME SetInv PROVE ChangeIsFlagged
  <2>1. \A i \in 1..Len(set) : set[i] \in Good
    BY <1>1, ElementOfSeq DEF SetInv, SetType
  <2> QED
    BY <2>1 DEF ChangeIsFlagged, Good
<1> QED
  BY <1>1, SetInvAlways, PTL

(* m_SetList is never indexed beyond its end, unless after Clear or a      *)
(* failed New("") (DBDataSet.h:26, DBDataSet.cpp:73, 205-208).             *)
THEOREM IndexIsSafe == Spec => []IteratorInRange
<1>1. SetInv => IteratorInRange
  BY DEF SetInv, IndexInv, IteratorInRange
<1> QED
  BY <1>1, SetInvAlways, PTL

(* A record stops being new exactly when its row came to the table, and a  *)
(* commit touches only its own row, and there only fields assigned in this *)
(* record set (DBSqlManager.cpp:108-172, DBDataSet.cpp:107-119).           *)
THEOREM CommitsAreExact == Spec => CommitMatchesTable
<1> DEFINE Exact == CommitStep =>
       /\ Cur.new /\ ~set'[idx].new <=> DOMAIN tab' # DOMAIN tab
       /\ \A k \in DOMAIN tab :
            /\ k \in DOMAIN tab'
            /\ \A f \in Field :
                 tab'[k][f] # tab[k][f] => k = Cur.key /\ f \in Cur.mod
<1>1. ASSUME SetInv, [Next]_vars, CommitStep
      PROVE  \E up \in BOOLEAN : CommitInsert(up) \/ CommitModify(up)
  BY <1>1 DEF CommitStep, Committing, Next, vars, Others, NewFound, NewMissing, NewAll,
              NewIdentity, Idle, Assign, MoveNextRow, MoveBeginRow, Clear, CommitBegin
<1>2. ASSUME SetInv, NEW up \in BOOLEAN, CommitInsert(up)
      PROVE  Exact
  <2>1. idx \in 1..Len(set) /\ Cur \in Good /\ Cur.new /\ RestInv
    BY <1>2, CommitTurn DEF SetInv, RestInv, CommitInsert
  <2>2. CASE UNCHANGED tab /\ set' = [set EXCEPT ![idx] = Committed(@, FALSE)]
    <3>1. set'[idx] = Cur
      BY <2>1, <2>2, GoodCommitted, LenProperties DEF Cur, RestInv, SetType
    <3> QED
      BY <2>1, <2>2, <3>1
  <2>3. CASE /\ \E k \in InsertKeys(Cur) : \E row : tab' = TabWith(k, row)
             /\ set' = [set EXCEPT ![idx] = Committed(@, TRUE)]
    <3>1. set'[idx] = Committed(Cur, TRUE)
      BY <2>1, <2>3, LenProperties DEF Cur, RestInv, SetType
    <3>2. ~set'[idx].new
      BY <2>1, <3>1, GoodCommitted
    <3>3. PICK k \in InsertKeys(Cur) : k \notin DOMAIN tab /\ \E row : tab' = TabWith(k, row)
      BY <2>3 DEF InsertKeys
    <3>4. DOMAIN tab' = DOMAIN tab \cup {k} /\ \A j \in DOMAIN tab : tab'[j] = tab[j]
      BY <3>3 DEF TabWith
    <3> QED
      BY <2>1, <3>2, <3>3, <3>4
  <2> QED
    BY <1>2, <2>2, <2>3 DEF CommitInsert
<1>3. ASSUME SetInv, NEW up \in BOOLEAN, CommitModify(up)
      PROVE  Exact
  <2>1. ~Cur.new
    BY <1>3 DEF CommitModify
  <2>2. CASE up /\ Updates(Cur)
    <3>1. Cur.key \in DOMAIN tab
      BY <2>2 DEF Updates
    <3>2. /\ DOMAIN tab' = DOMAIN tab
          /\ \A k \in DOMAIN tab : k # Cur.key => tab'[k] = tab[k]
          /\ \A f \in Field : f \notin Cur.mod => tab'[Cur.key][f] = tab[Cur.key][f]
      BY <1>3, <2>2, <3>1 DEF CommitModify, TabWith, SendModified
    <3> QED
      BY <2>1, <3>2
  <2>3. CASE ~(up /\ Updates(Cur))
    BY <1>3, <2>1, <2>3 DEF CommitModify
  <2> QED
    BY <2>2, <2>3
<1>4. SetInv /\ [Next]_vars => Exact
  BY <1>1, <1>2, <1>3
<1>5. SetInv /\ [Next]_vars => [Exact]_vars
  BY <1>4
<1> QED
  BY <1>5, SetInvAlways, PTL DEF Spec, CommitMatchesTable
=============================================================================
