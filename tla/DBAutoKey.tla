----------------------------- MODULE DBAutoKey -----------------------------
(***************************************************************************)
(* The keys DBTable gives to records that are inserted without one.  The   *)
(* table remembers its greatest key (CheckIncrementField, under the lock); *)
(* a handler computes the next from it before it takes the lock            *)
(* (PriKeyIncrement, fu_str_increment), looks it up (FindSet) and inserts  *)
(* the record under the lock (InsertSet).                                  *)
(*                                                                         *)
(* A key is the sequence of its characters: a digit is its value, and any  *)
(* other character is Base, which is greater than the digits as letters    *)
(* are.  The columns whose type is a number are one type, "int" (what      *)
(* strings of floating point numbers become is not modelled), those of     *)
(* characters are "string".                                                *)
(***************************************************************************)
EXTENDS Naturals, Sequences, SequencesExt

CONSTANTS
  Handler,      \* threads that serve inserts
  NoHandler,
  Base,         \* digits there are: ten in the code
  Named,        \* keys that rows of the database and clients bring
  MaxInserts    \* bound of this model: inserts begun

ASSUME AutoKeyAssumption ==
  /\ NoHandler \notin Handler
  /\ Base \in Nat \ {0, 1} /\ Named \subseteq Seq(0..Base)
  /\ MaxInserts \in Nat

VARIABLES
  type,      \* type of the primary key's column
  records,   \* keys of m_RecordSet
  minKey, maxKey,  \* m_sMinKey, m_sMaxKey
  pc,        \* where each handler is
  dataKey,   \* the key it inserts
  holder,    \* who holds m_Lock
  begun,     \* inserts begun
  outrun     \* history: a key was computed from one that has no next

vars == <<type, records, minKey, maxKey, pc, dataKey, holder, begun, outrun>>

Nine == Base - 1
IsDigit(c) == c < Base
Numeric(k) == \A i \in 1..Len(k) : IsDigit(k[i])

Key == Seq(0..Base)

TypeOK ==
  /\ type \in {"int", "string"}
  /\ records \in SUBSET Key
  /\ minKey \in Key /\ maxKey \in Key
  /\ records # {} /\ holder = NoHandler => {minKey, maxKey} \subseteq records
  /\ pc \in [Handler -> {"idle", "find", "lock", "keys"}]
  /\ dataKey \in [Handler -> Key]
  /\ holder \in Handler \cup {NoHandler}
  /\ \A h \in Handler : pc[h] = "keys" <=> holder = h
  /\ begun \in 0..MaxInserts /\ outrun \in BOOLEAN

-----------------------------------------------------------------------------
(* fu_str_to_integer: characters before the number are skipped, and it     *)
(* ends at the first that is no digit.                                     *)
ReadChar(number, c) ==
  CASE number.end -> number
    [] ~number.end /\ IsDigit(c) -> [number EXCEPT !.is = @ * Base + c]
    [] OTHER -> [number EXCEPT !.end = number.is # 0]
Read[k \in Key] ==
  IF k = <<>> THEN [is |-> 0, end |-> FALSE] ELSE ReadChar(Read[Front(k)], Last(k))
Value(k) == Read[k].is

(* std::string::compare. *)
Before(k, l) ==
  \E n \in 0..Len(k) :
    /\ n < Len(l) /\ \A i \in 1..n : k[i] = l[i]
    /\ n = Len(k) \/ k[n + 1] < l[n + 1]

(* DB_CompareDataKey. *)
Less(k, l) == IF type = "int" THEN Value(k) < Value(l) ELSE Before(k, l)

(* Mutated forms: the carry is forgotten; the digit it needs is inserted   *)
(* but not written.                                                        *)
ForgetCarry(front) == front
CarryZero(front) ==
  IF front = <<>> \/ ~IsDigit(Last(front)) THEN Append(front, 0)
  ELSE Append(Front(front), (Last(front) + 1) % Base)
(* The last turn of the loop in fu_str_increment: what was carried is      *)
(* added to the digit before, or a digit is inserted for it.  It carries   *)
(* no further.                                                             *)
Carry(front) ==
  IF front = <<>> \/ ~IsDigit(Last(front)) THEN Append(front, 1)
  ELSE Append(Front(front), (Last(front) + 1) % Base)

(* fu_str_increment(1, k). *)
Increment(k) ==
  IF k = <<>> \/ ~IsDigit(Last(k)) THEN Append(k, 1)
  ELSE IF Last(k) = Nine THEN Append(Carry(Front(k)), 0)
  ELSE Append(Front(k), Last(k) + 1)

(* Keys whose next is greater: a number that does not end in two nines; of *)
(* strings, those with a digit less than nine for a nine to carry to.      *)
EndsIn(k, c) == k # <<>> /\ Last(k) = c
HasNext(k) ==
  IF type = "int" THEN Numeric(k) /\ ~(EndsIn(k, Nine) /\ EndsIn(Front(k), Nine))
  ELSE EndsIn(k, Nine) => Front(k) # <<>> /\ Last(Front(k)) < Nine

-----------------------------------------------------------------------------
Init ==
  /\ type \in {"int", "string"}
  /\ records = {} /\ minKey = <<>> /\ maxKey = <<>>
  /\ pc = [h \in Handler |-> "idle"] /\ dataKey = [h \in Handler |-> <<>>]
  /\ holder = NoHandler /\ begun = 0 /\ outrun = FALSE

Begin(h, k) ==
  /\ pc[h] = "idle" /\ begun < MaxInserts
  /\ pc' = [pc EXCEPT ![h] = "find"] /\ dataKey' = [dataKey EXCEPT ![h] = k]
  /\ begun' = begun + 1
  /\ UNCHANGED <<type, records, minKey, maxKey, holder>>

(* InsertRecord with the key given, which may be empty.  For a column of   *)
(* numbers it is one, as the database writes it.                           *)
Canonical(k) == k # <<>> /\ Numeric(k) /\ (Len(k) > 1 => k[1] # 0)
InsertNamed(h, k) ==
  /\ type = "int" => Canonical(k)
  /\ Begin(h, k)
  /\ UNCHANGED outrun

(* InsertRecord without: PriKeyIncrement, without the lock.                *)
PriKeyIncrement(h) ==
  /\ Begin(h, Increment(maxKey))
  /\ outrun' = (outrun \/ ~HasNext(maxKey))

(* FindSet: a key that is there is refused.                                *)
FindSet(h) ==
  /\ pc[h] = "find"
  /\ pc' = [pc EXCEPT ![h] = IF dataKey[h] \in records THEN "idle" ELSE "lock"]
  /\ UNCHANGED <<type, records, minKey, maxKey, dataKey, holder, begun, outrun>>

(* InsertSet up to the record, which another may have inserted since.      *)
InsertSet(h) ==
  /\ pc[h] = "lock" /\ holder = NoHandler
  /\ holder' = h /\ records' = records \cup {dataKey[h]}
  /\ pc' = [pc EXCEPT ![h] = "keys"]
  /\ UNCHANGED <<type, minKey, maxKey, dataKey, begun, outrun>>

(* Mutated forms: the greatest key only ever set, and the least never for  *)
(* the first time.                                                         *)
RaiseOnce(old, k) == IF old = <<>> THEN k ELSE old
LowerOnly(old, k) == IF Less(k, old) THEN k ELSE old
Raise(old, k) == IF old = <<>> \/ Less(old, k) THEN k ELSE old
Lower(old, k) == IF old = <<>> \/ Less(k, old) THEN k ELSE old

CheckIncrementField(h) ==
  /\ pc[h] = "keys"
  /\ minKey' = Lower(minKey, dataKey[h]) /\ maxKey' = Raise(maxKey, dataKey[h])
  /\ holder' = NoHandler /\ pc' = [pc EXCEPT ![h] = "idle"]
  /\ UNCHANGED <<type, records, dataKey, begun, outrun>>

Next ==
  \E h \in Handler :
    \/ \E k \in Named : InsertNamed(h, k)
    \/ PriKeyIncrement(h) \/ FindSet(h) \/ InsertSet(h) \/ CheckIncrementField(h)
Spec == Init /\ [][Next]_vars

-----------------------------------------------------------------------------
(* Whatever the order in which handlers insert, no record is outside what  *)
(* the table remembers as its least and greatest keys, but the one being   *)
(* inserted; but a record whose key is empty takes the least key away, for *)
(* that is how an unknown one is written (DBTable.cpp:428-442, 476-481).   *)
Settled == records \ {dataKey[h] : h \in {g \in Handler : pc[g] = "keys"}}
KeysInRange ==
  \A k \in Settled : (<<>> \in records \/ ~Less(k, minKey)) /\ ~Less(maxKey, k)

(* A key computed while nobody is inserting is greater than every record's *)
(* - so that only another handler can have it refused - when the greatest  *)
(* has a next; not after 99, nor after "a9" (UtilsConvert.cpp:143-195,     *)
(* DBTable.cpp:444-457).                                                   *)
NextIsGreater ==
  [][\A h \in Handler : PriKeyIncrement(h) /\ holder = NoHandler /\ HasNext(maxKey) =>
       \A k \in records : Less(k, dataKey'[h])]_vars

(* No two records of a column of numbers have the same number, which the   *)
(* database would refuse, until a key was computed from one without a next *)
(* (DBTable.cpp:96-99, 444-457).                                           *)
NumbersDiffer ==
  type = "int" /\ ~outrun => \A k, l \in records : Value(k) = Value(l) => k = l
=============================================================================
